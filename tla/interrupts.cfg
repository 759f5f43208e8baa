SPECIFICATION InterruptSpec
CONSTANTS
  NULL = NULL
  KERNEL = kernel
  IDLE = idle
  Pids = {kernel, idle, u1, u2}
  Boot = {kernel, idle}
  Lines = {32, 33}
  MaxSends = 2
SYMMETRY UserSymmetry
INVARIANTS SenderOrder StacksOwned
PROPERTIES ReleasedByOwner
CHECK_DEADLOCK FALSE
