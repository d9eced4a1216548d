\* Four blocks, two crashes, a clock that may be set back.
SPECIFICATION Spec
CONSTANTS
  MaxBlocks = 4
  MaxClock = 6
  MaxSets = 1
  MaxCrashes = 2
INVARIANTS
  TypeOK
  PublishedIsDurable
  MemoryMatchesFiles
  TornIsLast
PROPERTIES
  StoredChainGrows
