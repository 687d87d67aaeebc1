SPECIFICATION FairSpec
CONSTANTS
  HeapStart <- MCHeapStart
  HeapEnd <- MCHeapEnd
  HDR = 12
  MinBlock = 4
  Sizes <- MCSizes
  FirstRequest = 1
  NULL = NULL
INVARIANTS
  Tiling
  Coalesced
  HeldBacked
  Accounted
PROPERTIES
  FailsOnlyWhenFull
  RefinesAlloc
