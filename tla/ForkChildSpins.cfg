\* A child whose client has closed.
CONSTANTS
  Clients = {1, 2}
  NumFds = 2
  LinePieces = 2
  MaxLines = 1
  MayReset = TRUE
SPECIFICATION ForkSpec
PROPERTIES
  ChildrenExit
CHECK_DEADLOCK FALSE
