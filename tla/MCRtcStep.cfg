SPECIFICATION Spec
CONSTANTS
  Starts <- MCStarts
  Modes <- AllModes
  MaxTicks = 3
  MaxShown = 1
INVARIANTS
  InStep
  TornAtMinute
CHECK_DEADLOCK FALSE
