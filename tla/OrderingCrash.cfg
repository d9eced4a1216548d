\* A crash, a reconnection, a frame that does not parse.
SPECIFICATION Spec
CONSTANTS
  Conn = {c1, c2}
  Message = {m1, m2, m3, m4}
  Malformed = {m4}
  BlockSize = 2
  SendCap = 1
  WireCap = 1
  MaxRestarts = 1
  None = None
SYMMETRY Symmetry
PROPERTIES
  ImplementsLog
  NothingLost
