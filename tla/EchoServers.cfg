\* Three clients of each server, with two descriptors for their connections.
CONSTANTS
  Clients = {1, 2, 3}
  NumFds = 2
  LinePieces = 1
  MaxLines = 1
  MayReset = TRUE
  TableSize = 3
  Kinds = {"select", "selectFull", "poll", "pollFull", "epoll", "epollReset"}
SPECIFICATION FairSpec
INVARIANTS
  TypeOK
  ReadsDoNotBlock
  ReportsCounted
  ServersMatchKernel
PROPERTIES
  OthersStayConnected
  ClientsServed
  EndedIsClosed
CHECK_DEADLOCK FALSE
