------------------------------ MODULE FileLock ------------------------------
(***************************************************************************)
(* src/010_thread_sync/07flock.c: a process locks a whole file for 10      *)
(* seconds.  Run several times at once, or killed, it leaves no lock       *)
(* behind.                                                                 *)
(***************************************************************************)
EXTENDS CriticalSections

Init == CSInit

\* fcntl(F_SETLKW, F_WRLCK) returns.
Lock(t) == LockedEnter(t)

\* The sleep is over: fcntl(F_UNLCK), close.
Unlock(t) ==
  /\ pc[t] = "load"
  /\ Release(t)
  /\ pc' = [pc EXCEPT ![t] = "out"]
  /\ done' = [done EXCEPT ![t] = @ + 1]
  /\ UNCHANGED <<num, val>>

\* The process is killed, waiting or inside; the kernel removes its lock.
Killed(t) ==
  /\ done[t] < Rounds
  /\ Release(t)
  /\ pc' = [pc EXCEPT ![t] = "out"]
  /\ done' = [done EXCEPT ![t] = Rounds]
  /\ UNCHANGED <<num, val>>

Next == \E t \in Threads : Lock(t) \/ Unlock(t) \/ Killed(t)

Spec == Init /\ [][Next]_csVars
=============================================================================
