SPECIFICATION Spec
CONSTANTS
  LastCluster = 6
  LastEntry = 6
  NumFats = 2
  Slots = 1
  Kernel = FALSE
  Names = {"a", "b"}
  Depth = 1
  u = u
  v = v
  Texts <- MCTexts
  Commands = {"save", "rm"}
  MaxOps = 3
  MaxCrashes = 1
  MaxLost = 1
INVARIANTS
  Acyclic
  RoomSuffices
PROPERTIES
  OpsEnd
CHECK_DEADLOCK FALSE
