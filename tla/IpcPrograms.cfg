\* A process that sleeps while two SIGALRMs come from outside, three kinds of pipe, a writer with two readers of
\* either program, four signals to a process, two datagram clients of one server, two local servers with three clients, two of a group.
CONSTANTS
  MaxStray = 2
  MaxSignals = 4
  Readers = {1, 2}
  Unlinking = TRUE
  Files = {1, 2, 3}
  Fixed = 0
  Longer = {1, 2}
  MaxTurns = 5
  TurnsForAll = 2
  Askers = {1, 2}
  Ports = {1, 2}
  BufSize = 1
  MaxCopies = 1
  MaxKills = 1
  Servers = {1, 2}
  Callers = {11, 12, 13}
  QueueLen = 1
  Members = {1, 2}
  Hosts = {1, 2}
  MaxSends = 2
SPECIFICATION MCSpec
INVARIANTS
  MCTypeOK
  SleepsCleanly
  HandlersUndisturbed
  NothingMeansKilled
  RecordsHold
  DatagramsAccounted
  NamesFound
PROPERTIES
  PendingStays
  Ends
CHECK_DEADLOCK FALSE
