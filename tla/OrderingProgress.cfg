\* Progress, with runtimes that never read.
SPECIFICATION FairSpec
CONSTANTS
  Conn = {c1, c2}
  Message = {m1, m2, m3}
  Malformed = {}
  BlockSize = 3
  SendCap = 1
  WireCap = 0
  MaxRestarts = 0
  None = None
PROPERTIES
  PumpProgress
