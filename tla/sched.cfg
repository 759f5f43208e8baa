SPECIFICATION Spec
CONSTANTS
  NULL = NULL
  MaxProc = 5
  TickMod = 12
  MaxTick = 8
  SleepTimes = {0, 1, 3}
INVARIANTS TypeOK ListSound CurrentListed IdleWaitsForKernel SleepersArmed
PROPERTIES NoEarlyResume ImplementsRoundRobin
CHECK_DEADLOCK FALSE
