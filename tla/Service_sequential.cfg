SPECIFICATION HSpec
CONSTANTS
  Handler = {h1}
  User = {u1, u2, u3}
  Id = {i1, i2, i3}
  NoParent = NoParent
  NoId = NoId
  Absent = Absent
  Newline = Newline
  Ops = {"register", "chirp", "follow", "read"}
  MaxFaults = 0
  MaxCrashes = 0
  SameSecond = FALSE
  h1 = h1
  u1 = u1
  u2 = u2
  u3 = u3
  i1 = i1
  i2 = i2
  i3 = i3
SYMMETRY Symmetry
VIEW View
CONSTRAINT Bound
PROPERTIES
  FollowedOnlyGrows
  RepliesOnlyGrow
  ChirpOkIsLinked
  LatestNotForgotten
  RegisterOkIsFirst
  ReadOkIsWhole
  AsTested
