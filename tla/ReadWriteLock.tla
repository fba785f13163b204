--------------------------- MODULE ReadWriteLock ---------------------------
(***************************************************************************)
(* src/010_thread_sync/03thread_sync_lock_rwlock.c: writers that add 1 to  *)
(* a number and readers that print it.  The readers take the write lock    *)
(* too, so that the lock is used like a mutex.                             *)
(***************************************************************************)
EXTENDS CriticalSections, FiniteSetsExt

CONSTANT Readers   \* the threads that only read

Init == CSInit

\* Load, wait 100 microseconds, increment and print.
Write(t) == LockedEnter(t) \/ Load(t) \/ Store(t, 1) \/ Leave(t)

PrintNum(t) ==
  /\ pc[t] = "load"
  /\ val' = [val EXCEPT ![t] = num]
  /\ pc' = [pc EXCEPT ![t] = "stored"]
  /\ UNCHANGED <<holders, num, done>>

Read(t) == LockedEnter(t) \/ PrintNum(t) \/ Leave(t)

Next == (\E t \in Threads \ Readers : Write(t)) \/ (\E t \in Readers : Read(t))

Spec == Init /\ [][Next]_csVars

-----------------------------------------------------------------------------
\* Rounds whose store has been done.
Stored(t) == done[t] + (IF pc[t] = "stored" THEN 1 ELSE 0)

\* No write is lost.
NoUpdateLost == num = MapThenSumSet(Stored, Threads \ Readers)
=============================================================================
