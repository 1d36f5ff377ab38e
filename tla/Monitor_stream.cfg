SPECIFICATION FairSpec
CONSTANTS
  Caller = {c1}
  User = {u1, u2}
  MaxFollows = 2
  MaxTime = 3
  MaxChirps = 2
  MaxFaults = 1
INVARIANTS
  TypeOK
  StreamIsNews
PROPERTIES
  NewsArrives
CONSTRAINT Bound
