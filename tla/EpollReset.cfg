\* A reset connection while another is open.
CONSTANTS
  Clients = {1, 2}
  NumFds = 2
  LinePieces = 1
  MaxLines = 2
  MayReset = TRUE
  TableSize = 3
SPECIFICATION Spec
PROPERTIES
  ClosesOnlyEnded
CHECK_DEADLOCK FALSE
