SPECIFICATION Spec
CONSTANTS
  StemLength = 2
  ExtLength = 3
  Blank = " "
  MAX_PATH_DEPTH = 5
  Paths <- MCPaths
  FontData <- MCFontData
  Disk <- MCDisk
  PlayedNotes = {"A4", "H4"}
  Behind = {" ", "x"}
  MaxEntries = 13
  MaxOps = 3
  str_to_int <- Values
INVARIANTS
  WorkingDirStays
  NoOrphans
  BootsAgain
  PlaysAsWritten
CHECK_DEADLOCK FALSE
