SPECIFICATION Spec
CONSTANTS
  Width = 3
  Height = 4
  Extra = 3
  x = x
  Letters = {x}
  SP = SP
  NUL = NUL
  Other = Other
  INPUT_BUFFER_SIZE = 6
  PREV_INPUTS_BUFFER = 6
  HistoryBytes = 6
  ArgcValues = 2
  MaxHistory = 6
  MaxLeft = 5
  MaxAstray = 1
INVARIANTS
  LineKept
  CursorAtText
  RecallsWhole
  ArgsFreed
CHECK_DEADLOCK FALSE
