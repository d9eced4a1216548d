\* A late ACK answers the next request.
SPECIFICATION Spec
CONSTANTS
  r1 = r1
  r2 = r2
  f2 = f2
  f1 = f1
  alice = alice
  bob = bob
  Request = {r1, r2}
  Foreign = {f1, f2}
  ClientOf <- OneName
  MaxBlock = 2
  MaxCrashes = 0
  MaxFaults = 0
  None = None
INVARIANTS
  AckIsOwn
