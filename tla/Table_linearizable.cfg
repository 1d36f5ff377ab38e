SPECIFICATION Spec
CONSTANTS
  Thread = {t1, t2, t3}
  Key = {k1, k2}
  Value = {Blank, v1}
  Blank = Blank
  NoValue = NoValue
  Pending = Pending
  Void = Void
  NoThread = NoThread
  NumBuckets = 3
  Hash <- MCHash
  Calls <- MCCalls
  t1 = t1
  t2 = t2
  t3 = t3
  k1 = k1
  k2 = k2
  v1 = v1
SYMMETRY Symmetry
INVARIANTS
  TypeOK
  OneEntryPerKey
  IteratorIsFresh
PROPERTIES
  Linearizable
