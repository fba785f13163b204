\* Two or four threads or processes of each program, three rounds, a ring of three slots, a thread that counts to two,
\* a process with one child, and a pool of two threads that is made or not.
CONSTANTS
  Threads = {1, 2, 3, 4}
  Rounds = 3
  RingSize = 3
  MaxItems = 7
  Nodes = {11, 12, 13}
  Turns = 2
  MaxJoins = 4
  MaxWaits = 3
  MinThreads = 2
SPECIFICATION MCSpec
INVARIANTS
  MCTypeOK
  OneInside
  CountIsRight
  ListHolds
  RingSlotsKept
  LivesInOrder
  CleanUpFrees
PROPERTIES
  ImplementsTaskQueue
  Finishes
CHECK_DEADLOCK FALSE
