------------------------------- MODULE MCSync -------------------------------
(***************************************************************************)
(* The programs of src/010_thread_sync and src/009_thread, the processes   *)
(* of src/004_process and src/008process_Relation and the start of the     *)
(* thread pool, for TLC: which of them runs is chosen at the start.  The   *)
(* ring is SemaphoreRing's, under its own names.                           *)
(***************************************************************************)
EXTENDS CriticalSections, SemaphoreRing

CONSTANTS
  Nodes,              \* list nodes that can be allocated at a time
  Turns, MaxJoins,    \* ThreadLives
  MaxWaits,           \* ProcessFamily
  MinThreads          \* PoolCreate

\* Threads 1 and 2 are those of the programs that have two; 0 is the null pointer.
ASSUME SyncAssumption ==
  /\ {1, 2} \subseteq Threads /\ Threads \subseteq Nat \ {0} /\ IsFiniteSet(Threads)
  /\ 0 \notin Nodes
  /\ Turns \in Nat /\ MaxJoins \in Nat

VARIABLES kind,
          forked, valid, ended,           \* ProcessMutex
          list, heap, mp, lock, waiting,  \* ProducerConsumer
          prog, main, nth, thread, counted, value, asked, joins, process,    \* ThreadLives
          family, parent, child, ppid, said, session, fds, waits, terminal,  \* ProcessFamily
          place, blocks, pointer, objects, threads, failed, misused          \* PoolCreate

procVars == <<forked, valid, ended>>
listVars == <<list, heap, mp, lock, waiting>>
lifeVars == <<prog, main, nth, thread, counted, value, asked, joins, process>>
famVars  == <<family, parent, child, ppid, said, session, fds, waits, terminal>>
poolVars == <<place, blocks, pointer, objects, threads, failed, misused>>
syncVars == <<csVars, procVars, listVars, vars>>
moreVars == <<lifeVars, famVars, poolVars>>
mcVars   == <<kind, syncVars, moreVars>>

Open    == INSTANCE SharedCounter WITH Threads <- {1, 2}, t1 <- 1, t2 <- 2, Locked <- FALSE
Mutex   == INSTANCE SharedCounter WITH Threads <- {1, 2}, t1 <- 1, t2 <- 2, Locked <- TRUE
RwLock  == INSTANCE ReadWriteLock WITH Readers <- {1, 2}
Process == INSTANCE ProcessMutex WITH Threads <- {1, 2}, Parent <- 1, Child <- 2
File    == INSTANCE FileLock
List    == INSTANCE ProducerConsumer WITH Producers <- {1}, Consumers <- {2}, NoNode <- 0

Lives   == INSTANCE ThreadLives
Family  == INSTANCE ProcessFamily
Pool    == INSTANCE PoolCreate

NoProcess == forked = "not yet" /\ valid = TRUE /\ ended = {}
NoList    == list = <<>> /\ heap = {} /\ mp = <<>> /\ lock = {} /\ waiting = {}

MCInit ==
  /\ kind \in {"open", "mutex", "rwlock", "process", "file", "list", "ring", "lives", "family", "pool"}
  /\ \/ kind \in {"open", "mutex"} /\ Mutex!Init /\ NoList /\ NoProcess
     \/ kind \notin {"open", "mutex", "process", "list"} /\ CSInit /\ NoList /\ NoProcess
     \/ kind = "process" /\ Process!Init /\ NoList
     \/ /\ kind = "list" /\ List!Init /\ NoProcess
        /\ holders = {} /\ num = 0 /\ val = <<>> /\ done = <<>>
  /\ Init
  /\ Lives!Init /\ (kind # "lives" => prog = "functions")
  /\ Family!Init /\ (kind # "family" => family = "wait")
  /\ Pool!Init

CSOnly      == UNCHANGED <<kind, procVars, listVars, vars, moreVars>>
ProcessOnly == UNCHANGED <<kind, listVars, vars, moreVars>>
ListOnly    == UNCHANGED <<kind, holders, num, val, done, procVars, vars, moreVars>>
RingOnly    == UNCHANGED <<kind, csVars, procVars, listVars, moreVars>>
LivesOnly   == kind = "lives" /\ UNCHANGED <<kind, syncVars, famVars, poolVars>>
FamilyOnly  == kind = "family" /\ UNCHANGED <<kind, syncVars, lifeVars, poolVars>>
PoolOnly    == kind = "pool" /\ UNCHANGED <<kind, syncVars, lifeVars, famVars>>

\* What thread or process t does when it can go on.
Step(t) ==
  /\ t \in DOMAIN pc
  /\ \/ kind = "open" /\ Open!Go(t) /\ CSOnly
     \/ kind = "mutex" /\ Mutex!Go(t) /\ CSOnly
     \/ kind = "rwlock" /\ t <= 2 /\ RwLock!Read(t) /\ CSOnly
     \/ kind = "rwlock" /\ t > 2 /\ RwLock!Write(t) /\ CSOnly
     \/ kind = "process" /\ t = 1 /\ Process!Fork /\ ProcessOnly
     \/ kind = "process" /\ (Process!Loop(t) \/ Process!CleanUp(t)) /\ ProcessOnly
     \/ kind = "file" /\ (File!Lock(t) \/ File!Unlock(t)) /\ CSOnly
     \/ kind = "list" /\ t = 1 /\ List!Producer(t) /\ ListOnly
     \/ kind = "list" /\ t = 2 /\ List!Consumer(t) /\ ListOnly
     \/ kind = "ring" /\ t = 1 /\ Producer /\ RingOnly
     \/ kind = "ring" /\ t = 2 /\ Consumer /\ RingOnly

\* What happens to it: a kill, a wait that returns without a signal.
Event(t) ==
  \/ kind = "file" /\ File!Killed(t) /\ CSOnly
  \/ kind = "list" /\ t = 2 /\ List!Spurious(t) /\ ListOnly

MCNext ==
  \/ \E t \in Threads : Step(t) \/ Event(t)
  \/ Lives!Next /\ LivesOnly
  \/ Family!Next /\ FamilyOnly
  \/ Pool!Next /\ PoolOnly

\* Each thread and process that can go on does.
MCSpec ==
  /\ MCInit /\ [][MCNext]_mcVars
  /\ \A t \in Threads : WF_mcVars(Step(t))
  /\ WF_mcVars(Lives!Thread /\ LivesOnly) /\ WF_mcVars(Lives!Main /\ LivesOnly)
  /\ WF_mcVars(Family!Wait /\ FamilyOnly) /\ WF_mcVars(Family!ParentReturns /\ FamilyOnly)
  /\ WF_mcVars(Family!ChildMoves /\ FamilyOnly)

-----------------------------------------------------------------------------
MCTypeOK ==
  CASE kind = "list"    -> List!TypeOK
    [] kind = "ring"    -> TypeOK
    [] kind = "process" -> Process!TypeOK
    [] kind \in {"rwlock", "file"} -> CSTypeOK
    [] kind = "lives"  -> Lives!TypeOK
    [] kind = "family" -> Family!TypeOK
    [] kind = "pool"   -> Pool!TypeOK
    [] OTHER           -> Mutex!CSTypeOK

\* Whoever is between lock and unlock is alone there, even when it is the parent with
\* a mutex that its child has destroyed.
OneInside ==
  CASE kind \in {"rwlock", "file"} -> Exclusive
    [] kind = "mutex"   -> Mutex!Exclusive
    [] kind = "process" -> Process!Exclusive
    [] OTHER            -> TRUE

\* No addition to the shared number is lost, but where there is no lock some are,
\* within bounds.
CountIsRight ==
  CASE kind = "open"    -> Open!CountIsRight
    [] kind = "mutex"   -> Mutex!CountIsRight
    [] kind = "rwlock"  -> RwLock!NoUpdateLost
    [] kind = "process" -> Process!NoUpdateLost
    [] OTHER            -> TRUE

\* Each list node has one owner until it is freed, and no consumer sleeps over a list
\* that is not empty.
ListHolds == kind = "list" => List!ListHolds

\* A thread is joined once, and its process does not end before it; no zombie is left
\* for good, and no daemon is left with the terminal.
LivesInOrder ==
  /\ Lives!JoinsOnce /\ Lives!EndsBeforeProcess
  /\ Family!ZombieHasParent /\ Family!DaemonDetached

\* A pool that could not be made leaves nothing behind, but touches what was not set.
CleanUpFrees == Pool!CleanUpFrees

\* The joins, the wait for the child and the lock waits return; what is put into the
\* list or the ring is taken out; threads end, and children are reaped.
Finishes ==
  /\ kind \in {"open", "mutex", "rwlock", "file"} ~> \A t \in DOMAIN pc : Finished(t)
  /\ kind = "process" ~> ended # {} /\ (forked = "yes" => ended = {1, 2})
  /\ (kind = "list" /\ list # <<>>) ~> (pc[2] = "free")
  /\ kind = "ring" ~> got = Items
  /\ kind = "lives" => Lives!LivesEnd
  /\ kind = "family" => Family!FamilySettles
=============================================================================
