SPECIFICATION FairSpec
CONSTANTS
  NULL = NULL
  MaxProc = 6
  SleepTimes = {0, 1, 3}
PROPERTIES NoStarvation
