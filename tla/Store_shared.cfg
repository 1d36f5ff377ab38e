SPECIFICATION Spec
CONSTANTS
  Client = {c1, c2, c3}
  Handler = {h1, h2, h3}
  Key = {k1}
  Value = {Blank, v1, v2}
  Nobody = Nobody
  Blank = Blank
  NoValue = NoValue
  Void = Void
  Pending = Pending
  Calls <- MCCalls
  Ops = {"Has", "GetValue", "PutOrUpdate", "Put", "Delete", "GetValues"}
  Stored = {v1, v2}
  MaxFaults = 2
  MaxRestarts = 1
SYMMETRY Symmetry
CONSTRAINT Alone
INVARIANTS
  TypeOK
PROPERTIES
  Atomic
