----------------------------- MODULE PoolCreate -----------------------------
(***************************************************************************)
(* threadpool_create of src/013threadPoll/threadpool.c, any of whose calls *)
(* may fail, with threadpool_free, which then cleans up, and the joins of  *)
(* threadpool_destroy.  What the pool does in between is ThreadPool.       *)
(***************************************************************************)
EXTENDS Naturals

CONSTANT MinThreads

Created == 0..MinThreads   \* the workers, and the adjusting thread
Objects == {"lock", "thread_counter", "queue_not_full", "queue_not_empty"}
Unset   == "unset"         \* as malloc left it

VARIABLES
  place,     \* the next call
  blocks,    \* blocks that are allocated
  pointer,   \* the pool's pointers: unset, NULL or a block
  objects,   \* locks and conditions that have been initialised
  threads,   \* threads that were created
  failed,    \* calls that have failed
  misused    \* what was freed, destroyed or joined without having been set

vars == <<place, blocks, pointer, objects, threads, failed, misused>>

Init ==
  /\ place = "pool" /\ blocks = {}
  /\ pointer = [p \in {"threads", "task_queue"} |-> Unset]
  /\ objects = {} /\ threads = {} /\ failed = {} /\ misused = {}

Fails(call) == failed' = failed \cup {call}

\* pool = malloc(sizeof(threadpool_t)); threadpool_free(NULL) does nothing.
MakePool ==
  /\ place = "pool"
  /\ \/ blocks' = {"pool"} /\ place' = "threads" /\ UNCHANGED failed
     \/ Fails("pool") /\ place' = "end" /\ UNCHANGED blocks
  /\ UNCHANGED <<pointer, objects, threads, misused>>

\* malloc for pool->threads or pool->task_queue
MakePart(p, then) ==
  /\ place = p
  /\ \/ /\ blocks' = blocks \cup {p} /\ pointer' = [pointer EXCEPT ![p] = p]
        /\ place' = then /\ UNCHANGED failed
     \/ /\ Fails(p) /\ pointer' = [pointer EXCEPT ![p] = "NULL"]
        /\ place' = "free" /\ UNCHANGED blocks
  /\ UNCHANGED <<objects, threads, misused>>

\* The four are initialised in this order, up to the one that fails.
InitLocks ==
  /\ place = "locks"
  /\ \/ objects' = Objects /\ place' = "start" /\ UNCHANGED failed
     \/ /\ objects' \in {{}, {"lock"}, {"lock", "thread_counter"}, Objects \ {"queue_not_empty"}}
        /\ Fails("locks") /\ place' = "free"
  /\ UNCHANGED <<blocks, pointer, threads, misused>>

\* What pthread_create returns is not looked at.
Start ==
  /\ place = "start"
  /\ threads' \in SUBSET Created
  /\ IF threads' = Created THEN UNCHANGED failed ELSE Fails("pthread_create")
  /\ place' = "destroy"
  /\ UNCHANGED <<blocks, pointer, objects, misused>>

\* threadpool_destroy joins all the threads there should be.
WrongJoins == IF place = "destroy" /\ threads # Created THEN {"tid"} ELSE {}

\* (if the array of threads was left)
FreesQueue == {pointer["task_queue"]}

FreesParts == {pointer["task_queue"], pointer["threads"]}

\* (if the locks were destroyed whatever has been set)
DestroysAlways == Objects

\* threadpool_free destroys the locks when there is an array of threads.
Destroys == IF pointer["threads"] # "NULL" THEN Objects ELSE {}

\* threadpool_free, after the joins.  A pointer that was never set may be NULL by
\* chance, or it is freed.
Free ==
  /\ place \in {"free", "destroy"}
  /\ blocks' = blocks \ (FreesParts \cup {"pool"})
  /\ \E wild \in SUBSET {p \in DOMAIN pointer : pointer[p] = Unset} :
       misused' = wild \cup WrongJoins \cup (Destroys \ objects)
  /\ place' = "end"
  /\ UNCHANGED <<pointer, objects, threads, failed>>

Next ==
  \/ MakePool \/ MakePart("threads", "task_queue") \/ MakePart("task_queue", "locks")
  \/ InitLocks \/ Start \/ Free

Spec == Init /\ [][Next]_vars

-----------------------------------------------------------------------------
TypeOK ==
  /\ place \in {"pool", "threads", "task_queue", "locks", "start", "destroy", "free", "end"}
  /\ blocks \subseteq {"pool", "threads", "task_queue"}
  /\ \A p \in DOMAIN pointer : pointer[p] \in {Unset, "NULL", p}
  /\ objects \subseteq Objects /\ threads \subseteq Created
  /\ failed \subseteq {"pool", "threads", "task_queue", "locks", "pthread_create"}
  /\ misused \subseteq Objects \cup {"task_queue", "tid"}

\* Whichever call fails, all that was allocated is freed, and nothing is allocated
\* twice or used half made; but cleaning up touches what was never set: the pointer
\* task_queue when there is no memory for the array of threads, the locks when there
\* is none for the queue or they could not be made, a tid when a thread could not be
\* created.  When nothing fails it touches nothing of the kind.
CleanUpFrees ==
  /\ place = "end" => blocks = {}
  /\ place \in {"start", "destroy"} => blocks = {"pool", "threads", "task_queue"} /\ objects = Objects
  /\ "task_queue" \in misused => failed = {"threads"}
  /\ misused \cap Objects # {} => failed \in {{"task_queue"}, {"locks"}}
  /\ "tid" \in misused => failed = {"pthread_create"}
=============================================================================
