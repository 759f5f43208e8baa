SPECIFICATION MemorySpec
CONSTANTS
  NULL = NULL
  NumPages = 22
  PAGEPOOL_START = 1
  PAGEPOOL_END = 15
  HEAP_END = 19
  Entries = 6
  Shift = 2
  PageFlags = {0, 1}
  Late = 2
  LateTouched = 4
  KernelTouched = {0, 1, 2}
  Modules = {1}
  Procs = {k, a, b, c}
  Boot = {k}
  Images <- MCImages
  UserPool = 33
  PageUnits = 2
  SbrkSizes = {1, 4, 54}
SYMMETRY ProcSymmetry
INVARIANTS FramesDisjoint
CHECK_DEADLOCK FALSE
