SPECIFICATION FairCSpec
CONSTANTS
  Client = {c1}
  Nobody = Nobody
  Text = Text
  OtherOps = {"chirp"}
  MaxLost = 1
  Handler = {h1, h2}
  User = {u1}
  Id = {i1, i2}
  NoParent = NoParent
  NoId = NoId
  Absent = Absent
  Ops = {"register", "chirp", "follow", "read"}
  MaxFaults = 0
  MaxCrashes = 1
  SameSecond = FALSE
  h1 = h1
  h2 = h2
  u1 = u1
  i1 = i1
  i2 = i2
VIEW View
INVARIANTS
  CTypeOK
  ReplyHasParent
  ReportedIsDone
PROPERTIES
  EveryCommandEnds
