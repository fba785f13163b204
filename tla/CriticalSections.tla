-------------------------- MODULE CriticalSections --------------------------
(***************************************************************************)
(* What the counting programs of src/010_thread_sync have in common:       *)
(* threads or processes that repeatedly load a shared number, store it     *)
(* with something added, and hold a lock around that.                      *)
(***************************************************************************)
EXTENDS Integers, FiniteSets

CONSTANTS
  Threads,   \* threads (02, 03) or processes (06, 07)
  Rounds     \* times each goes through its loop; a bound where it is endless

ASSUME RoundsAssumption == Rounds \in Nat

VARIABLES
  pc,       \* where each thread is in its loop
  holders,  \* threads that have the lock
  num,      \* the shared number
  val,      \* what each thread last loaded
  done      \* rounds each has finished

csVars == <<pc, holders, num, val, done>>

Finished(t) == pc[t] = "out" /\ done[t] = Rounds

CSTypeOK ==
  /\ pc \in [Threads -> {"out", "load", "store", "stored"}]
  /\ holders \subseteq Threads
  /\ num \in Nat
  /\ val \in [Threads -> Nat]
  /\ done \in [Threads -> 0..Rounds]

CSInit ==
  /\ pc = [t \in Threads |-> "out"]
  /\ holders = {}
  /\ num = 0
  /\ val = [t \in Threads |-> 0]
  /\ done = [t \in Threads |-> 0]

\* Go in with the lock, or without one.
Enter(t) ==
  /\ pc[t] = "out" /\ done[t] < Rounds
  /\ pc' = [pc EXCEPT ![t] = "load"]
  /\ UNCHANGED <<num, val, done>>

\* (if the lock was not waited for)
AcquireAnyway(t) == holders' = holders \cup {t}

Acquire(t) == holders = {} /\ holders' = {t}

LockedEnter(t) == Enter(t) /\ Acquire(t)
OpenEnter(t)   == Enter(t) /\ UNCHANGED holders

Load(t) ==
  /\ pc[t] = "load"
  /\ val' = [val EXCEPT ![t] = num]
  /\ pc' = [pc EXCEPT ![t] = "store"]
  /\ UNCHANGED <<holders, num, done>>

Store(t, k) ==
  /\ pc[t] = "store"
  /\ num' = val[t] + k
  /\ pc' = [pc EXCEPT ![t] = "stored"]
  /\ UNCHANGED <<holders, val, done>>

\* (if the lock was kept)
ReleaseNothing(t) == holders' = holders

Release(t) == holders' = holders \ {t}

Leave(t) ==
  /\ pc[t] = "stored"
  /\ Release(t)
  /\ done' = [done EXCEPT ![t] = @ + 1]
  /\ pc' = [pc EXCEPT ![t] = "out"]
  /\ UNCHANGED <<num, val>>

Inside(t) == pc[t] # "out"

\* One at a time is between taking and giving back the lock.
Exclusive == \A t, u \in Threads : Inside(t) /\ Inside(u) => t = u

\* What a thread has loaded is still there when it stores.
LoadIsCurrent == \A t \in Threads : pc[t] = "store" => num = val[t]
=============================================================================
