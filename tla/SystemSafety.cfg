\* One runtime in full, one beside it.
SPECIFICATION Spec
CONSTANTS
  alice = alice
  Conn = {here, there}
  Message = {r1, r2, f1, f2}
  Malformed = {}
  BlockSize = 2
  SendCap = 1
  WireCap = 1
  None = None
  Here = here
  Request = {r1, r2}
  ClientOf <- OneName
  KeyArg <- Keys
  ValueArg <- Values
  Half = 2
  MayBreak = {here}
SYMMETRY Symmetry
ACTION_CONSTRAINT Prompt
INVARIANTS
  TypeOK
  ProgramOrder
  AckMeansHeld
  StoreIsReplay
  OldValFromChain
PROPERTIES
  ServiceFitsRuntime
