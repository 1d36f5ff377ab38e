SPECIFICATION FairSpec
CONSTANTS
  Caller = {c1, c2}
  Buffer = Buffer
  Nobody = Nobody
  MaxLoops = 2
  MaxNews = 2
  MaxSpurious = 1
CHECK_DEADLOCK FALSE
INVARIANTS
  TypeOK
  InStep
PROPERTIES
  EndTogether
  SentArrives
