----------------------------- MODULE TaskQueue -----------------------------
(***************************************************************************)
(* What a thread pool promises the code that hands it work: a bounded      *)
(* first-in first-out queue of tasks, each handed to a worker at most      *)
(* once, until the pool is closed; closing drops what is still queued.     *)
(* ThreadPool.tla implements it.                                           *)
(***************************************************************************)
EXTENDS Naturals, Sequences

CONSTANTS Tasks,     \* the tasks that can be submitted
          Capacity   \* how many tasks the queue holds

VARIABLES queue,     \* tasks submitted and not yet handed out, oldest first
          begun,     \* tasks handed to a worker
          closed     \* the pool is being destroyed

vars == <<queue, begun, closed>>

Init ==
  /\ queue = <<>>
  /\ begun = {}
  /\ closed = FALSE

\* A task enters at the tail, once, and only while there is room.
Put(t) ==
  /\ ~closed
  /\ Len(queue) < Capacity
  /\ t \notin begun
  /\ \A i \in 1..Len(queue) : queue[i] # t
  /\ queue' = Append(queue, t)
  /\ UNCHANGED <<begun, closed>>

\* A worker gets the oldest task.
Get ==
  /\ ~closed
  /\ queue # <<>>
  /\ begun' = begun \cup {Head(queue)}
  /\ queue' = Tail(queue)
  /\ UNCHANGED closed

Close ==
  /\ ~closed
  /\ closed' = TRUE
  /\ queue' = <<>>
  /\ UNCHANGED begun

Next == (\E t \in Tasks : Put(t)) \/ Get \/ Close

Spec == Init /\ [][Next]_vars
=============================================================================
