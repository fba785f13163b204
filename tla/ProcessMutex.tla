---------------------------- MODULE ProcessMutex ----------------------------
(***************************************************************************)
(* src/010_thread_sync/06thread_process_mutexattr_init.c: a parent and its *)
(* child add 2 and 1 to a number in a shared mapping, under a mutex in the *)
(* same mapping.  Each of them destroys the mutex when it is done, the     *)
(* child while the parent may still use it.                                *)
(***************************************************************************)
EXTENDS CriticalSections

CONSTANTS Parent, Child

TwoProcesses == Threads = {Parent, Child} /\ Parent # Child

VARIABLES
  forked,    \* "yes", "failed", or "not yet"
  valid,     \* the mutex has not been destroyed
  ended      \* processes that are past their clean-up

procVars == <<forked, valid, ended>>
vars == <<csVars, procVars>>

Init == CSInit /\ forked = "not yet" /\ valid = TRUE /\ ended = {}

Fork ==
  /\ forked = "not yet"
  /\ forked' \in {"yes", "failed"}
  /\ UNCHANGED <<csVars, valid, ended>>

Adds(t) == IF t = Parent THEN 2 ELSE 1

\* A lock that has been destroyed is undefined: it may still work, or let the caller
\* pass.
Lock(t) == LockedEnter(t) \/ (~valid /\ OpenEnter(t))

Loop(t) ==
  /\ forked = "yes"
  /\ Lock(t) \/ Load(t) \/ Store(t, Adds(t)) \/ Leave(t)
  /\ UNCHANGED procVars

\* (if the child cleaned up before its last rounds)
ReadyBeforeLast(t) == pc[t] = "out" /\ done[t] + 1 >= Rounds

Ready(t) == Finished(t)

\* Destroy the mutex (refused while somebody holds it), unmap and unlink; the parent
\* waits for the child first.
CleanUp(t) ==
  /\ t \notin ended
  /\ \/ forked = "yes" /\ Ready(t) /\ (t = Parent => Child \in ended)
     \/ forked = "failed" /\ t = Parent
  /\ valid' = (valid /\ holders # {})
  /\ ended' = ended \cup {t}
  /\ UNCHANGED <<csVars, forked>>

Next == Fork \/ \E t \in Threads : Loop(t) \/ CleanUp(t)

Spec == Init /\ [][Next]_vars

-----------------------------------------------------------------------------
TypeOK ==
  /\ CSTypeOK
  /\ forked \in {"not yet", "yes", "failed"} /\ valid \in BOOLEAN /\ ended \subseteq Threads

\* Rounds whose store has been done.
Stored(t) == done[t] + (IF pc[t] = "stored" THEN 1 ELSE 0)

\* No addition is lost, although the parent may go on with a destroyed mutex.
NoUpdateLost == num = 2 * Stored(Parent) + Stored(Child)

=============================================================================
