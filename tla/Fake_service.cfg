SPECIFICATION Spec
CONSTANTS
  Newline = Newline
  a = a
  b = b
  Minus = Minus
  Digit = {d1, d2, d3, d4}
  Name <- MCName
  Id <- MCId
  DefaultReply <- MCDefaultReply
  MaxFollowed = 3
SYMMETRY Symmetry
CONSTRAINT Bound
INVARIANTS
  TypeOK
  ReadsWhatIsThere
  ReadEnds
  FollowedAreUsers
PROPERTIES
  ReadIsThread
