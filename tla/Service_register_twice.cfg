SPECIFICATION Spec
CONSTANTS
  Handler = {h1, h2}
  User = {u1}
  Id = {i1}
  NoParent = NoParent
  NoId = NoId
  Absent = Absent
  Ops = {"register"}
  MaxFaults = 0
  MaxCrashes = 0
  SameSecond = FALSE
  h1 = h1
  h2 = h2
  u1 = u1
  i1 = i1
SYMMETRY Symmetry
VIEW View
PROPERTIES
  RegisterOkIsFirst
