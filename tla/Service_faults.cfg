SPECIFICATION Spec
CONSTANTS
  Handler = {h1, h2}
  User = {u1, u2}
  Id = {i1, i2}
  NoParent = NoParent
  NoId = NoId
  Absent = Absent
  Ops = {"register", "chirp", "follow", "read"}
  MaxFaults = 1
  MaxCrashes = 1
  SameSecond = FALSE
  h1 = h1
  h2 = h2
  u1 = u1
  u2 = u2
  i1 = i1
  i2 = i2
SYMMETRY Symmetry
VIEW View
INVARIANTS
  TypeOK
  FollowedAreUsers
  LatestIsOwnChirp
  RepliesAreReplies
  ThreadsAcyclic
  ThreadIsATree
