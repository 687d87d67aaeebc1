SPECIFICATION Spec
CONSTANTS
  LastCluster = 4
  LastEntry = 5
  NumFats = 2
  Slots = 2
  Kernel = FALSE
  Names = {"a", "b"}
  Depth = 1
  u = u
  v = v
  Texts <- MCTexts
  Commands = {"save"}
  MaxOps = 2
  MaxCrashes = 0
  MaxLost = 0
INVARIANTS
  SavedIsThere
CHECK_DEADLOCK FALSE
