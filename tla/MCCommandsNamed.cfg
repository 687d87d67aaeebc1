SPECIFICATION Spec
CONSTANTS
  StemLength = 2
  ExtLength = 3
  Blank = " "
  MAX_PATH_DEPTH = 5
  Paths <- MCPlainPaths
  FontData <- MCFontData
  Disk <- MCDisk
  PlayedNotes = {}
  Behind = {" "}
  MaxEntries = 13
  MaxOps = 3
  str_to_int <- Values
INVARIANT CreatesNamed
CHECK_DEADLOCK FALSE
