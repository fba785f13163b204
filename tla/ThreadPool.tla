----------------------------- MODULE ThreadPool -----------------------------
(***************************************************************************)
(* The thread pool of src/013threadPoll/threadpool.c: worker threads, the  *)
(* thread that adjusts their number, clients that submit tasks, and the    *)
(* client that destroys the pool, over one mutex, two condition variables  *)
(* and a ring of tasks.                                                    *)
(*                                                                         *)
(* A section of code under the mutex is one step, except where the code    *)
(* lets something through: a worker that found the ring empty still holds  *)
(* the mutex between its test and pthread_cond_wait, and threadpool_destroy*)
(* sets shutdown without the mutex.  A client that finds the pool shut     *)
(* down unlocks and goes on with the insertion, so its steps are unlocked. *)
(*                                                                         *)
(* Once threadpool_free has run no step touches the pool any more: what a   *)
(* thread left behind would read is undefined.                             *)
(*                                                                         *)
(* A worker is identified with the slot of pool->threads that holds its    *)
(* thread id; a task is identified with its args.                          *)
(***************************************************************************)
EXTENDS Integers, Sequences, FiniteSets

CONSTANTS
  Clients,       \* threads that call threadpool_add
  Owner,         \* the client that also calls threadpool_destroy
  MinThreads,    \* pthread_min_num
  MaxThreads,    \* pthread_max_num
  QueueMax,      \* queue_max_size
  BatchThreads,  \* DEFAULT_THREAD_NUM
  GrowSlack,     \* the 3 of adjust_thread's test for a long queue
  MaxTasks       \* bound: calls of threadpool_add

ASSUME SizesAssumption ==
  /\ MinThreads \in Nat \ {0}
  /\ MaxThreads \in Nat /\ MaxThreads >= MinThreads
  /\ QueueMax \in Nat \ {0}
  /\ BatchThreads \in Nat \ {0}
  /\ GrowSlack \in Nat
  /\ MaxTasks \in Nat

ASSUME ClientsAssumption == Owner \in Clients

Workers == 0..MaxThreads-1
Slots   == 0..QueueMax-1
Tasks   == 1..MaxTasks
Null    == 0            \* args == NULL
Garbage == -1           \* whatever malloc left in an args field
Free    == -1           \* nobody holds the mutex

VARIABLES
  pc,        \* where each worker is; "unborn": its slot holds no thread yet
  task,      \* the args each worker is running
  lock,      \* owner of pool->lock between steps
  waitNE,    \* workers blocked on queue_not_empty
  waitNF,    \* clients blocked on queue_not_full
  slot,      \* task_queue[i].args
  front, rear, size,             \* queue_front, queue_rear, queue_size
  alive, busy, waitExit,         \* pthread_alive_num, _busy_num, _wait_exit_num
  shutdown,
  cpc,       \* where each client is
  cur,       \* the args of its threadpool_add
  seen,      \* queue_rear and queue_size as last read by an unlocked insertion
  apc, aq, aa, sig,  \* adjust_thread: place, its copies of size and alive, signals left
  freed,     \* args that were passed to free
  begun,     \* tasks a worker has taken
  next,      \* the next task to be submitted
  poolFreed  \* threadpool_free has run

ring     == <<slot, front, rear, size>>
counters == <<alive, busy, waitExit>>
adjust   == <<apc, aq, aa, sig>>
client   == <<cpc, cur, seen, next>>
worker   == <<pc, task>>
sync     == <<lock, waitNE, waitNF>>
flags    == <<shutdown, poolFreed>>
history  == <<freed, begun>>

vars == <<ring, counters, adjust, client, worker, sync, flags, history>>

Live(w) == pc[w] \notin {"unborn", "dead"}

\* The tasks in the ring, oldest first.
Pending == [i \in 1..size |-> slot[(front + i - 1) % QueueMax]]

-----------------------------------------------------------------------------
(* threadpool_create(MinThreads, MaxThreads, QueueMax)                     *)

Init ==
  /\ pc = [w \in Workers |-> IF w < MinThreads THEN "acquire" ELSE "unborn"]
  /\ task = [w \in Workers |-> Null]
  /\ lock = Free /\ waitNE = {} /\ waitNF = {}
  /\ slot \in {[i \in Slots |-> Null], [i \in Slots |-> Garbage]}
  /\ front = 0 /\ rear = 0 /\ size = 0
  /\ alive = MinThreads /\ busy = 0 /\ waitExit = 0
  /\ shutdown = FALSE /\ poolFreed = FALSE
  /\ cpc = [c \in Clients |-> "idle"]
  /\ cur = [c \in Clients |-> Null]
  /\ seen = [c \in Clients |-> [rear |-> 0, size |-> 0]]
  /\ apc = "check" /\ aq = 0 /\ aa = 0 /\ sig = 0
  /\ freed = {} /\ begun = {} /\ next = 1

-----------------------------------------------------------------------------
(* Steps on the shared structures                                          *)

\* (if the index did not wrap)
NextSlotUnwrapped(i) == i + 1

NextSlot(i) == (i + 1) % QueueMax

\* (if threadpool_add did not signal, or only for the first task in the ring)
SignalNobody == waitNE' = waitNE
SignalIfWasEmpty ==
  waitNE' \in IF waitNE = {} \/ size # 0 THEN {waitNE}
              ELSE {waitNE \ {w} : w \in waitNE}

\* pthread_cond_signal(&pool->queue_not_empty)
SignalNotEmpty ==
  waitNE' \in IF waitNE = {} THEN {{}} ELSE {waitNE \ {w} : w \in waitNE}

\* (if threadpool_thread did not broadcast)
BroadcastNobody == waitNF' = waitNF

\* pthread_cond_broadcast(&pool->queue_not_full)
BroadcastNotFull == waitNF' = {}

\* (if the args of the slot after the rear were freed, or the front overwritten)
FreeAfterRear(t) ==
  /\ freed' = freed \cup ({slot[NextSlot(rear)]} \ {Null})
  /\ slot' = [slot EXCEPT ![rear] = t]
StoreAtFront(t) ==
  /\ freed' = freed
  /\ slot' = [slot EXCEPT ![front] = t]

\* Overwrite the slot at the rear, freeing the args it still holds.
StoreAtRear(t) ==
  /\ freed' = freed \cup ({slot[rear]} \ {Null})
  /\ slot' = [slot EXCEPT ![rear] = t]

\* (if the test for a full ring came one task late)
QueueOverfull == size > QueueMax

QueueFull == size = QueueMax

-----------------------------------------------------------------------------
(* threadpool_thread                                                       *)

\* w is at the test of its while loop: it takes the mutex, or got it back when
\* pthread_cond_wait returned.  It does not look whether it still has it: the second
\* unlock of a late threadpool_add may have given it away.
AtLoop(w) ==
  /\ ~poolFreed
  /\ \/ pc[w] = "acquire" /\ lock = Free
     \/ pc[w] = "woken"

\* The ring is empty: on to pthread_cond_wait, still holding the mutex.
WIdle(w) ==
  /\ AtLoop(w) /\ ~shutdown /\ size = 0
  /\ lock' = w
  /\ pc' = [pc EXCEPT ![w] = "toWait"]
  /\ UNCHANGED <<ring, counters, adjust, client, task, waitNE, waitNF, flags, history>>

\* pthread_cond_wait releases the mutex and blocks in one step.
WWait(w) ==
  /\ pc[w] = "toWait" /\ ~poolFreed
  /\ lock' = Free
  /\ waitNE' = waitNE \cup {w}
  /\ pc' = [pc EXCEPT ![w] = "waiting"]
  /\ UNCHANGED <<ring, counters, adjust, client, task, waitNF, flags, history>>

\* (if every request to leave was honoured)
MayLeaveAlways == TRUE

\* A request to leave is honoured only while more than pthread_min_num threads
\* are counted.
MayLeave == alive > MinThreads

\* pthread_cond_wait returns with the mutex.
WWake(w) ==
  /\ pc[w] = "waiting" /\ w \notin waitNE /\ lock = Free /\ ~poolFreed
  /\ LET asked == waitExit > 0
         leave == asked /\ MayLeave
     IN  /\ waitExit' = IF asked THEN waitExit - 1 ELSE waitExit
         /\ alive' = IF leave THEN alive - 1 ELSE alive
         /\ lock' = IF leave THEN Free ELSE w
         /\ pc' = [pc EXCEPT ![w] = IF leave THEN "dead" ELSE "woken"]
  /\ UNCHANGED <<ring, busy, adjust, client, task, waitNE, waitNF, flags, history>>

\* (if the mutex was kept)
WExitLocked(w) ==
  /\ AtLoop(w) /\ shutdown
  /\ lock' = w
  /\ pc' = [pc EXCEPT ![w] = "dead"]
  /\ UNCHANGED <<ring, counters, adjust, client, task, waitNE, waitNF, flags, history>>

\* The pool is shut down: unlock and exit, whatever is left in the ring.
WExit(w) ==
  /\ AtLoop(w) /\ shutdown
  /\ lock' = Free
  /\ pc' = [pc EXCEPT ![w] = "dead"]
  /\ UNCHANGED <<ring, counters, adjust, client, task, waitNE, waitNF, flags, history>>

\* Take the task at the front and let the blocked clients try again.
WTake(w) ==
  /\ AtLoop(w) /\ ~shutdown /\ size # 0
  /\ task' = [task EXCEPT ![w] = slot[front]]
  /\ begun' = begun \cup {slot[front]}
  /\ front' = NextSlot(front)
  /\ size' = size - 1
  /\ BroadcastNotFull
  /\ lock' = Free
  /\ pc' = [pc EXCEPT ![w] = "got"]
  /\ UNCHANGED <<slot, rear, counters, adjust, client, waitNE, flags, freed>>

\* Count itself busy, under thread_counter.
WBusy(w) ==
  /\ pc[w] = "got" /\ ~poolFreed
  /\ busy' = busy + 1
  /\ pc' = [pc EXCEPT ![w] = "run"]
  /\ UNCHANGED <<ring, alive, waitExit, adjust, client, task, sync, flags, history>>

\* The task's function returns; nothing is counted back.
WDone(w) ==
  /\ pc[w] = "run"
  /\ task' = [task EXCEPT ![w] = Null]
  /\ pc' = [pc EXCEPT ![w] = "acquire"]
  /\ UNCHANGED <<ring, counters, adjust, client, sync, flags, history>>

\* POSIX lets pthread_cond_wait return without a signal.
WSpurious(w) ==
  /\ w \in waitNE
  /\ waitNE' = waitNE \ {w}
  /\ UNCHANGED <<ring, counters, adjust, client, worker, lock, waitNF, flags, history>>

WorkerEnters(w) == WIdle(w) \/ WTake(w) \/ WExit(w) \/ WWake(w)
WorkerMoves(w)  == WWait(w) \/ WBusy(w) \/ WDone(w)
Worker(w)       == WorkerEnters(w) \/ WorkerMoves(w) \/ WSpurious(w)

-----------------------------------------------------------------------------
(* threadpool_add                                                          *)

AddCall(c) ==
  /\ cpc[c] = "idle" /\ next <= MaxTasks
  /\ cpc' = [cpc EXCEPT ![c] = "add"]
  /\ cur' = [cur EXCEPT ![c] = next]
  /\ next' = next + 1
  /\ UNCHANGED <<ring, counters, adjust, worker, seen, sync, flags, history>>

\* c has the mutex and is at the test of its while loop, on entry or after
\* pthread_cond_wait returned.
AtAdd(c) == cpc[c] = "add" /\ c \notin waitNF /\ lock = Free /\ ~poolFreed

\* The ring is full: wait for room.
AddWait(c) ==
  /\ AtAdd(c) /\ ~shutdown /\ QueueFull
  /\ waitNF' = waitNF \cup {c}
  /\ UNCHANGED <<ring, counters, adjust, client, worker, lock, waitNE, flags, history>>

\* There is room: insert, signal, unlock.
AddInsert(c) ==
  /\ AtAdd(c) /\ ~shutdown /\ ~QueueFull
  /\ StoreAtRear(cur[c])
  /\ rear' = NextSlot(rear)
  /\ size' = size + 1
  /\ SignalNotEmpty
  /\ cpc' = [cpc EXCEPT ![c] = "idle"]
  /\ cur' = [cur EXCEPT ![c] = Null]
  /\ UNCHANGED <<front, counters, adjust, worker, seen, next, lock, waitNF, flags, begun>>

\* The pool is shut down: unlock, and go on all the same.
AddLate(c) ==
  /\ AtAdd(c) /\ shutdown
  /\ cpc' = [cpc EXCEPT ![c] = "lateStore"]
  /\ UNCHANGED <<ring, counters, adjust, worker, cur, seen, next, sync, flags, history>>

AddLateStore(c) ==
  /\ cpc[c] = "lateStore" /\ ~poolFreed
  /\ StoreAtRear(cur[c])
  /\ seen' = [seen EXCEPT ![c] = [rear |-> rear, size |-> size]]
  /\ cpc' = [cpc EXCEPT ![c] = "lateAdvance"]
  /\ UNCHANGED <<front, rear, size, counters, adjust, worker, cur, next, sync, flags, begun>>

\* Without the mutex each of the two increments may start from a stale value.
AddLateAdvance(c) ==
  /\ cpc[c] = "lateAdvance" /\ ~poolFreed
  /\ \E r \in {rear, seen[c].rear}, s \in {size, seen[c].size} :
       rear' = NextSlot(r) /\ size' = s + 1
  /\ SignalNotEmpty
  /\ cpc' = [cpc EXCEPT ![c] = "lateUnlock"]
  /\ UNCHANGED <<slot, front, counters, adjust, worker, cur, seen, next, lock, waitNF, flags, history>>

\* The second unlock releases the mutex whoever holds it.
AddLateUnlock(c) ==
  /\ cpc[c] = "lateUnlock" /\ ~poolFreed
  /\ lock' = Free
  /\ cpc' = [cpc EXCEPT ![c] = "idle"]
  /\ cur' = [cur EXCEPT ![c] = Null]
  /\ seen' = [seen EXCEPT ![c] = [rear |-> 0, size |-> 0]]
  /\ UNCHANGED <<ring, counters, adjust, worker, next, waitNE, waitNF, flags, history>>

AddSpurious(c) ==
  /\ c \in waitNF
  /\ waitNF' = waitNF \ {c}
  /\ UNCHANGED <<ring, counters, adjust, client, worker, lock, waitNE, flags, history>>

AddEnters(c) == AddWait(c) \/ AddInsert(c) \/ AddLate(c)
AddMoves(c)  == AddLateStore(c) \/ AddLateAdvance(c) \/ AddLateUnlock(c)
Client(c)    == AddCall(c) \/ AddEnters(c) \/ AddMoves(c) \/ AddSpurious(c)

-----------------------------------------------------------------------------
(* adjust_thread                                                           *)

GrowTest   == aq > GrowSlack + aa /\ aa + 1 < MaxThreads
ShrinkTest == busy * 2 < aa /\ aa > MinThreads

\* (if the loop did not look at shutdown)
ACheckNothing ==
  /\ apc = "check"
  /\ apc' = "sample"
  /\ UNCHANGED <<aq, aa, sig, ring, counters, client, worker, sync, flags, history>>

\* A round begins, after any time of sleep; shutdown is read without the mutex.
ACheck ==
  /\ apc = "check"
  /\ apc' = IF shutdown THEN "dead" ELSE "sample"
  /\ UNCHANGED <<aq, aa, sig, ring, counters, client, worker, sync, flags, history>>

ASample ==
  /\ apc = "sample" /\ lock = Free
  /\ aq' = size /\ aa' = alive
  /\ apc' = "grow"
  /\ UNCHANGED <<sig, ring, counters, client, worker, sync, flags, history>>

ANoGrow ==
  /\ apc = "grow" /\ ~GrowTest
  /\ apc' = "busy"
  /\ UNCHANGED <<aq, aa, sig, ring, counters, client, worker, sync, flags, history>>

\* The slots the loop may fill, lowest first.  Only the first tid was zeroed: an
\* unused slot counts if its memory reads as 0.  pthread_kill may or may not
\* report ESRCH for a thread that exited and was not joined.
Vacancies == SUBSET {w \in Workers : ~Live(w)}

\* Of the vacant slots E the loop fills the first BatchThreads.
Filled(E) ==
  IF alive < MaxThreads THEN {w \in E : Cardinality({v \in E : v < w}) < BatchThreads} ELSE {}

\* Start threads, each of which pthread_create may fail to make.  The loop counts all of
\* them, in its own copy of pthread_alive_num only.
AGrow ==
  /\ apc = "grow" /\ GrowTest /\ lock = Free
  /\ \E E \in Vacancies :
       /\ \E born \in SUBSET Filled(E) :
            pc' = [w \in Workers |-> IF w \in born THEN "acquire" ELSE pc[w]]
       /\ aa' = aa + Cardinality(Filled(E))
  /\ apc' = "busy"
  /\ UNCHANGED <<aq, sig, ring, counters, client, task, sync, flags, history>>

\* Read pthread_busy_num under thread_counter and decide.
ABusy ==
  /\ apc = "busy"
  /\ apc' = IF ShrinkTest THEN "shrink" ELSE "check"
  /\ aq' = 0 /\ aa' = 0
  /\ UNCHANGED <<sig, ring, counters, client, worker, sync, flags, history>>

AShrink ==
  /\ apc = "shrink" /\ lock = Free
  /\ waitExit' = BatchThreads
  /\ sig' = BatchThreads
  /\ apc' = "signal"
  /\ UNCHANGED <<aq, aa, ring, alive, busy, client, worker, sync, flags, history>>

ASignal ==
  /\ apc = "signal"
  /\ SignalNotEmpty
  /\ sig' = sig - 1
  /\ apc' = IF sig = 1 THEN "check" ELSE "signal"
  /\ UNCHANGED <<aq, aa, ring, counters, client, worker, lock, waitNF, flags, history>>

AdjustEnters == ASample \/ AGrow \/ AShrink
AdjustMoves  == ACheck \/ ANoGrow \/ ABusy \/ ASignal
Adjust       == AdjustEnters \/ AdjustMoves

-----------------------------------------------------------------------------
(* threadpool_destroy                                                      *)

\* shutdown is set without the mutex.
DestroyCall ==
  /\ cpc[Owner] = "idle"
  /\ shutdown' = TRUE
  /\ cpc' = [cpc EXCEPT ![Owner] = "joinAdjust"]
  /\ UNCHANGED <<ring, counters, adjust, worker, cur, seen, next, sync, poolFreed, history>>

DestroyJoinAdjust ==
  /\ cpc[Owner] = "joinAdjust" /\ apc = "dead"
  /\ cpc' = [cpc EXCEPT ![Owner] = "broadcast"]
  /\ UNCHANGED <<ring, counters, adjust, worker, cur, seen, next, sync, flags, history>>

\* (if one worker was woken)
DestroySignals ==
  /\ cpc[Owner] = "broadcast"
  /\ SignalNotEmpty
  /\ cpc' = [cpc EXCEPT ![Owner] = "joinWorkers"]
  /\ UNCHANGED <<ring, counters, adjust, worker, cur, seen, next, lock, waitNF, flags, history>>

\* Without the mutex: a worker between its test and its wait misses it.
DestroyBroadcast ==
  /\ cpc[Owner] = "broadcast"
  /\ waitNE' = {}
  /\ cpc' = [cpc EXCEPT ![Owner] = "joinWorkers"]
  /\ UNCHANGED <<ring, counters, adjust, worker, cur, seen, next, lock, waitNF, flags, history>>

\* The threads destroy joins: those of the first pthread_min_num slots.
Joined == {w \in Workers : w < MinThreads}

DestroyFree ==
  /\ cpc[Owner] = "joinWorkers"
  /\ \A w \in Joined : pc[w] = "dead"
  /\ poolFreed' = TRUE
  /\ cpc' = [cpc EXCEPT ![Owner] = "gone"]
  /\ UNCHANGED <<ring, counters, adjust, worker, cur, seen, next, sync, shutdown, history>>

DestroyMoves == DestroyJoinAdjust \/ DestroyBroadcast \/ DestroyFree

-----------------------------------------------------------------------------
Next ==
  \/ \E w \in Workers : Worker(w)
  \/ \E c \in Clients : Client(c)
  \/ Adjust
  \/ DestroyCall
  \/ DestroyMoves

Spec == Init /\ [][Next]_vars

\* Every thread that can run does, and a thread that tries to get the mutex
\* again and again gets it: its holders give it back at once, and the thread
\* that would ask for it forever sleeps between two rounds.  A task's function
\* returns.  Nobody has to call threadpool_add or threadpool_destroy, and no
\* spurious wakeup has to come.
Fairness ==
  /\ \A w \in Workers : SF_vars(WorkerEnters(w)) /\ WF_vars(WorkerMoves(w))
  /\ \A c \in Clients : SF_vars(AddEnters(c)) /\ WF_vars(AddMoves(c))
  /\ SF_vars(AdjustEnters) /\ WF_vars(AdjustMoves)
  /\ WF_vars(DestroyMoves)

FairSpec == Spec /\ Fairness

-----------------------------------------------------------------------------
(* Invariants                                                              *)

WorkerPlaces == {"unborn", "acquire", "woken", "toWait", "waiting", "got", "run", "dead"}
ClientPlaces == {"idle", "add", "lateStore", "lateAdvance", "lateUnlock",
                 "joinAdjust", "broadcast", "joinWorkers", "gone"}
AdjustPlaces == {"check", "sample", "grow", "busy", "shrink", "signal", "dead"}

Args == Tasks \cup {Null, Garbage}

\* The type of every variable.
TypeOK ==
  /\ pc \in [Workers -> WorkerPlaces]
  /\ task \in [Workers -> Args]
  /\ lock \in Workers \cup {Free}
  /\ waitNE \subseteq Workers /\ waitNF \subseteq Clients
  /\ slot \in [Slots -> Args]
  /\ front \in Slots /\ rear \in Slots /\ size \in Int
  /\ alive \in Int /\ busy \in Nat /\ waitExit \in Nat
  /\ shutdown \in BOOLEAN /\ poolFreed \in BOOLEAN
  /\ cpc \in [Clients -> ClientPlaces]
  /\ cur \in [Clients -> Tasks \cup {Null}]
  /\ seen \in [Clients -> [rear : Slots, size : Int]]
  /\ apc \in AdjustPlaces
  /\ aq \in Int /\ aa \in Int /\ sig \in Int
  /\ freed \subseteq Args /\ begun \subseteq Args
  /\ next \in Nat \ {0}

\* The indices of the ring agree with the number of tasks in it as long as the
\* pool is in use (threadpool_add and threadpool_thread, under the mutex).
RingConsistent ==
  ~shutdown => size \in 0..QueueMax /\ rear = (front + size) % QueueMax

\* The mutex is held between steps exactly by the one worker that is inside its
\* wait loop, and on its way to pthread_cond_wait the ring is still empty.
LoopUnderLock ==
  ~shutdown =>
    \A w \in Workers :
      /\ lock = w <=> pc[w] \in {"woken", "toWait"}
      /\ pc[w] = "toWait" => size = 0

\* A worker in the wait set is one that blocked there.
SleepersWait == \A w \in waitNE : pc[w] = "waiting"

\* Workers on their way to the ring: they will look at it before they block.
Heading ==
  {w \in Workers :
     pc[w] \in {"acquire", "woken"} \/ (pc[w] = "waiting" /\ w \notin waitNE)}

\* No worker sleeps on queue_not_empty while more tasks wait than workers are
\* on their way to take them: every task put in the ring while somebody slept
\* woke somebody, and nobody falls asleep with a task in the ring (the signal
\* of threadpool_add against the wait loop of threadpool_thread).
NoSleepOverBacklog ==
  (~shutdown /\ waitNE # {}) => size <= Cardinality(Heading)

\* A client blocks on queue_not_full only while the ring is full: a worker that
\* makes room wakes all of them.
BlockedClientsSeeFullRing ==
  (~shutdown /\ waitNF # {}) => QueueFull

\* The slot that threadpool_add clears before it stores never holds the args of
\* a task that still waits in the ring.
PendingArgsIntact ==
  ~shutdown => \A i \in 1..size : Pending[i] \notin freed

\* What the requests of adjust_thread to leave come to never takes the pool
\* below pthread_min_num threads while it is in use.
AtLeastMinThreads ==
  ~shutdown => Cardinality({w \in Workers : Live(w)}) >= MinThreads

\* The inductive invariant behind these: no thread of the first pthread_min_num
\* slots has ended and pthread_alive_num still counts just them.
FirstThreadsLive ==
  ~shutdown =>
    /\ alive = MinThreads
    /\ \A w \in Workers : w < MinThreads => Live(w)

\* A client is inside an unlocked insertion, or destroying, only after shutdown.
LateAfterShutdown ==
  ~shutdown => \A c \in Clients : cpc[c] \in {"idle", "add"}

\* The slots that hold a waiting task, and the clients that have one to store.
Offset(i) == IF i >= front THEN i - front ELSE i + QueueMax - front
Used      == {i \in Slots : Offset(i) < size}
Adding    == {c \in Clients : cpc[c] = "add"}

\* Where the args of a task are, from threadpool_add to free: with one client or in
\* one slot until a worker takes the task; what else a slot holds was taken before.
ArgsKept ==
  ~shutdown =>
    /\ begun \subseteq 1..next-1
    /\ freed \subseteq begun \cup {Garbage}
    /\ \A i \in Slots \ Used : slot[i] \in begun \cup {Null, Garbage}
    /\ \A i \in Used : slot[i] \in (1..next-1) \ begun
    /\ \A i, j \in Used : slot[i] = slot[j] => i = j
    /\ \A c \in Adding : cur[c] \in (1..next-1) \ begun
    /\ \A c \in Adding, i \in Used : cur[c] # slot[i]
    /\ \A c, d \in Adding : cur[c] = cur[d] => c = d

SyncInv ==
  /\ TypeOK
  /\ LateAfterShutdown
  /\ RingConsistent
  /\ LoopUnderLock
  /\ SleepersWait
  /\ FirstThreadsLive
  /\ NoSleepOverBacklog
  /\ BlockedClientsSeeFullRing

IInv == SyncInv /\ ArgsKept

\* The pool is the bounded FIFO queue of TaskQueue until it is shut down.
Abs == INSTANCE TaskQueue WITH
         Capacity <- QueueMax,
         queue <- IF shutdown THEN <<>> ELSE Pending,
         closed <- shutdown
ImplementsTaskQueue == Abs!Spec

\* threadpool_free runs when no worker is left that could touch the pool
\* ("release the last pthread_min_num threads", threadpool_destroy).
FreedAfterLastWorker ==
  poolFreed => \A w \in Workers : ~Live(w)

\* The workers empty the ring once no more tasks come (there are MaxTasks), unless
\* the pool is destroyed; being a queue, it then has handed out every task.
TasksBegin == size > 0 ~> size = 0 \/ shutdown

\* The calls of threadpool_add (there are MaxTasks) all get their tasks into the ring,
\* unless the pool is destroyed.
AddsReturn ==
  (\E c \in Clients : cpc[c] = "add") ~> (\A c \in Clients : cpc[c] # "add") \/ shutdown

\* adjust_thread ends after shutdown, so the join of it in threadpool_destroy
\* returns.
AdjustStops == shutdown ~> apc = "dead"

\* Neither of the two waits for ever.
CallsReturn == AddsReturn /\ AdjustStops

\* threadpool_destroy comes to its end if at some time between its setting of shutdown
\* and its broadcast no worker is between its test and its wait.  Nothing else makes the
\* join hang: not adjust_thread, nor the mutex that a client of a pool which is shut
\* down takes from a worker, nor the tasks it goes on adding.
OnlyMissedBroadcastHangs ==
  (cpc[Owner] \in {"joinAdjust", "broadcast"} /\ \A w \in Workers : pc[w] # "toWait")
    ~> poolFreed

-----------------------------------------------------------------------------
(* What comments of threadpool.c say, and the code does not do.            *)

\* threadpool_add frees what "was not released after the last task's
\* execution": never the args of a task that is running.
RunningArgsIntact ==
  \A w \in Workers : task[w] # Null => task[w] \notin freed

\* "then tell all idle threads to exit" and join them: threadpool_destroy ends.
DestroyReturns == shutdown ~> poolFreed
=============================================================================
