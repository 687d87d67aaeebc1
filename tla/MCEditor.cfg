SPECIFICATION Spec
CONSTANTS
  Width = 4
  Height = 4
  Cluster = 3
  x = x
  Letters = {x}
  NL = NL
  TAB = TAB
  NUL = NUL
  NoFile = NoFile
  Files <- MCFiles
  MaxLen = 5
  MaxSaved = 2
  MaxOpens = 2
INVARIANTS
  CursorVisible
PROPERTIES
  ImplementsText
  BrokenOnlyByLong
CHECK_DEADLOCK FALSE
