\* Two runtimes, four transactions, a quota of two.
SPECIFICATION Spec
CONSTANTS
  Conn = {c1, c2}
  Message = {m1, m2, m3, m4}
  Malformed = {}
  BlockSize = 2
  SendCap = 1
  WireCap = 1
  MaxRestarts = 0
  None = None
SYMMETRY Symmetry
INVARIANTS
  TypeOK
  CommittedOnce
  PoolShare
  BlockBound
  RepliesHeld
  RepliedOnce
  BlocksInOrder
PROPERTIES
  NothingLost
