\* Destruction while a worker is about to wait.
CONSTANTS
  Clients = {c1}
  Owner = c1
  MinThreads = 1
  MaxThreads = 1
  QueueMax = 1
  BatchThreads = 3
  GrowSlack = 0
  MaxTasks = 2
SPECIFICATION FairSpec
PROPERTIES
  DestroyReturns
CHECK_DEADLOCK FALSE
