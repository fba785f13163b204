\* Three connections, whose lines may arrive in two pieces, at the forking, the sequential and the local server.
CONSTANTS
  Clients = {1, 2, 3}
  NumFds = 3
  LinePieces = 2
  MaxLines = 1
  MayReset = TRUE
SPECIFICATION MCSpec
INVARIANTS
  StreamTypeOK
  ReaperForEachChild
  ConnectionsHeld
PROPERTIES
  ChildrenServe
  ConnectionsMove
CHECK_DEADLOCK FALSE
