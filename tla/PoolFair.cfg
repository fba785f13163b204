\* Two clients, one of which destroys the pool under the other; no growth.
CONSTANTS
  Clients = {c1, c2}
  Owner = c1
  MinThreads = 2
  MaxThreads = 2
  QueueMax = 1
  BatchThreads = 3
  GrowSlack = 0
  MaxTasks = 3
SPECIFICATION FairSpec
INVARIANTS
  BlockedClientsSeeFullRing
PROPERTIES
  TasksBegin
  CallsReturn
  OnlyMissedBroadcastHangs
CHECK_DEADLOCK FALSE
