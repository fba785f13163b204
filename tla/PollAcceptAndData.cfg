\* A connection and data reported by the same poll.
CONSTANTS
  Clients = {1, 2}
  NumFds = 2
  LinePieces = 1
  MaxLines = 1
  MayReset = TRUE
  TableSize = 3
SPECIFICATION Spec
INVARIANTS
  ScanIsForClients
CHECK_DEADLOCK FALSE
