\* Crashes, failed saves, dropped answers, a lost connection.
SPECIFICATION Spec
CONSTANTS
  r1 = r1
  r2 = r2
  f2 = f2
  f1 = f1
  alice = alice
  bob = bob
  Request = {r1, r2}
  Foreign = {f1, f2}
  ClientOf <- OneName
  MaxBlock = 2
  MaxCrashes = 1
  MaxFaults = 1
  None = None
SYMMETRY Symmetry
INVARIANTS
  TypeOK
  AcksAccountedFor
  StoreFollowsLog
  DiskHasWholeBlocks
  SavedBeforeAnswer
