SPECIFICATION ServersSpec
CONSTANTS
  NULL = NULL
  BLOCK = 4
  WORD = 128
  SizeDigits = 2
  Base = 8
  KERNEL = KERNEL
  RAMDISK = RAMDISK
  vfs = vfs
  init = init
  other = other
  Programs <- MCPrograms
  Archives <- MCArchives
  ServiceNames = {s1, s2}
  FileRequests <- MCFileRequests
  MaxAsks = 3
INVARIANTS LookupsFind AnswersTrue
PROPERTIES EveryRequestAnswered
CHECK_DEADLOCK FALSE
