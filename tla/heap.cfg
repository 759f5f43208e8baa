SPECIFICATION HeapSpec
CONSTANTS
  NULL = NULL
  HEAP_START = 8
  HEAP_END = 32
  HEADERSIZE = 2
  Clients = {c1, c2, c3}
  Sizes = {1, 3, 4}
  SegmentSizes = {0, 2}
SYMMETRY ClientSymmetry
INVARIANTS HeapTypeOK AllocationsDisjoint ZeroSizeFits SelfTestPasses
CHECK_DEADLOCK FALSE
