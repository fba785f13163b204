\* One client that submits and then destroys, as in main; the pool can grow.
CONSTANTS
  Clients = {c1}
  Owner = c1
  MinThreads = 1
  MaxThreads = 3
  QueueMax = 2
  BatchThreads = 3
  GrowSlack = 0
  MaxTasks = 4
SPECIFICATION Spec
INVARIANTS
  TypeOK
  IInv
  NoSleepOverBacklog
  PendingArgsIntact
  AtLeastMinThreads
PROPERTIES
  ImplementsTaskQueue
CHECK_DEADLOCK FALSE
