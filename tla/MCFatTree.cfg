SPECIFICATION Spec
CONSTANTS
  LastCluster = 8
  LastEntry = 9
  NumFats = 2
  Slots = 2
  Kernel = TRUE
  Names = {"a", "b"}
  Depth = 2
  u = u
  v = v
  Texts <- MCTexts
  Commands = {"touch", "mkdir", "save", "rm", "rm -r"}
  MaxOps = 4
  MaxCrashes = 0
  MaxLost = 0
INVARIANTS
  NotShared
  NoneLost
  OthersIntact
  TornShort
  DirsHoldEntries
PROPERTIES
  Implements
CHECK_DEADLOCK FALSE
