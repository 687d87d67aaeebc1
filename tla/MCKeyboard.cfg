SPECIFICATION Spec
CONSTANTS
  BufSize = 10
  Keyboards <- MCKeyboards
  Beyond = {"00"}
  SleepTicks = 1
INVARIANTS
  EventsAsTyped
  NoStuckKey
  OnlyKeyboardHangs
PROPERTIES
  SleepEnds
