--------------------------- MODULE SharedCounter ---------------------------
(***************************************************************************)
(* src/010_thread_sync/01thread_no_sync.c and 02thread_sync_lock_mutex.c:  *)
(* two threads add 1 to a global number, without and with a mutex.         *)
(***************************************************************************)
EXTENDS CriticalSections

CONSTANTS t1, t2, \* the two threads
          Locked  \* with the mutex

TwoThreads == Threads = {t1, t2} /\ t1 # t2 /\ Locked \in BOOLEAN

Init == CSInit

Go(t) == (IF Locked THEN LockedEnter(t) ELSE OpenEnter(t)) \/ Load(t) \/ Store(t, 1) \/ Leave(t)

Next == \E t \in Threads : Go(t)

Spec == Init /\ [][Next]_csVars

-----------------------------------------------------------------------------
AllDone == \A t \in Threads : Finished(t)

\* Rounds whose store has been done.
Stored(t) == done[t] + (IF pc[t] = "stored" THEN 1 ELSE 0)

\* With the mutex no addition is lost.
NoUpdateLost == Locked => num = Stored(t1) + Stored(t2)

\* Without it the sum is too small ("the ideal result is 10000; much is lost"), but
\* never too large, and it ends no lower than 2.
CountBounds ==
  /\ num <= Stored(t1) + Stored(t2)
  /\ AllDone /\ Rounds >= 2 => num >= 2

CountIsRight == NoUpdateLost /\ CountBounds
=============================================================================
