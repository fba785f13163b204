\* A slot reused while the task it held is running.
CONSTANTS
  Clients = {c1}
  Owner = c1
  MinThreads = 1
  MaxThreads = 3
  QueueMax = 2
  BatchThreads = 3
  GrowSlack = 0
  MaxTasks = 4
SPECIFICATION Spec
INVARIANTS
  RunningArgsIntact
CHECK_DEADLOCK FALSE
