SPECIFICATION MessageSpec
CONSTANTS
  NULL = NULL
  WILD = WILD
  Pids = {p1, p2, p3}
  Boot = {p1, p2}
  Nodes = {n1, n2, n3}
  MaxSends = 3
SYMMETRY NodeSymmetry
INVARIANTS MessageTypeOK ListsIntact CountAgrees
PROPERTIES ImplementsMailbox
CHECK_DEADLOCK FALSE
