SPECIFICATION AtaSpec
CONSTANTS
  Sectors <- MCSectors
  partition_start = 1
  partition_end = 2
  u = u
  v = v
  Data <- MCData
  Timer = 3
  MaxCalls = 3
INVARIANTS
  ReadIsCurrent
  WriteLands
PROPERTIES
  CallsEnd
CHECK_DEADLOCK FALSE
