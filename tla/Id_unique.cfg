SPECIFICATION Spec
CONSTANTS
  Server = {s1, s2}
  Thread = {t1, t2, t3}
  s1 = s1
  t1 = t1
  t2 = t2
  ServerOf <- MCServerOf
  MachineCode <- MCMachineCode
  SequenceSize = 2
  MachineSize = 4
  SecondSize = 2
  MaxTime = 2
  MaxPerSecond = 2
  MaxRestarts = 1
  SameSecond = FALSE
CHECK_DEADLOCK FALSE
SYMMETRY Symmetry
INVARIANTS
  TypeOK
  TimeIsOwnIfAlone
PROPERTIES
  IdsUnique
