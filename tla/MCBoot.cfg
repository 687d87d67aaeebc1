SPECIFICATION BootSpec
CONSTANTS
  page_size = 4
  MAX_PAGES = 16
  MemoryMaps <- MCMaps
  framebuffer = 52
  fbuffer_pages = 2
  ScreenLine = 5
  LowMemory = 4
  Heap <- MCHeap
  Disks <- MCDisks
  PYGMALI_OS = "PYGMALI_OS"
  Unused <- MCUnused
  timeout = 2
  CommandBytes <- MCCommandBytes
  KeyBytes <- MCKeyBytes
  MaxPresses = 1
  Machines <- MCMachines
INVARIANTS
  FramesApart
  EnoughIsUsable
  PartitionIsOurs
  SetUp
PROPERTIES
  Boots
CHECK_DEADLOCK FALSE
