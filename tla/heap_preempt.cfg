SPECIFICATION PreemptSpec
CONSTANTS
  NULL = NULL
  HEAP_START = 8
  HEAP_END = 32
  HEADERSIZE = 2
  ServiceSize = 3
  HandlerSizes = {1, 4}
INVARIANTS MagicAssertHolds
CHECK_DEADLOCK FALSE
