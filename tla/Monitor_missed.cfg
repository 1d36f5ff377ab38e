SPECIFICATION FairSpec
CONSTANTS
  Caller = {c1}
  User = {u1, u2}
  MaxFollows = 1
  MaxTime = 2
  MaxChirps = 2
  MaxFaults = 0
PROPERTIES
  EveryChirpIsSent
CONSTRAINT Bound
