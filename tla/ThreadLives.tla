----------------------------- MODULE ThreadLives -----------------------------
(***************************************************************************)
(* The thread that main starts, and what becomes of it, in the programs of *)
(* src/009_thread: 02pthreadFunctionSet.c (returns, exits and is cancelled,*)
(* and is joined each time), 03pthread_detach.c (is joined again and       *)
(* again), 04pthread_testcancel.c (is cancelled in a loop without system   *)
(* calls) and 06pthread_attr_init.c (is detached and outlives main).       *)
(* pthread_create does not fail; the sleeps of main are no guarantee.      *)
(***************************************************************************)
EXTENDS Integers, Sequences

CONSTANTS
  Turns,    \* turns of the loop of a thread that counts
  MaxJoins  \* bound: calls of pthread_join by 03pthread_detach.c

Programs == {"functions", "join again", "testcancel", "detached"}
Canceled == -1
ESRCH    == 3    \* other than any value a thread returns
EINVAL   == 22

VARIABLES
  prog,      \* which program it is
  main,      \* main's next call, or "exited"
  nth,       \* threads started so far
  thread,    \* the last one: "none", "running", "ended" and not joined, or "gone"
  counted,   \* turns of its loop
  value,     \* what it returned
  asked,     \* pthread_cancel has been called
  joins,     \* what pthread_join has returned: a value or an error
  process    \* the process runs

vars == <<prog, main, nth, thread, counted, value, asked, joins, process>>

Init ==
  /\ prog \in Programs
  /\ main = "create" /\ nth = 0 /\ thread = "none"
  /\ counted = 0 /\ value = 0 /\ asked = FALSE
  /\ joins = <<>> /\ process = TRUE

Detached == prog = "detached"

-----------------------------------------------------------------------------
(* The thread                                                               *)

Works(v) == process /\ thread = "running" /\ prog = v

\* A thread that is detached leaves nothing to be joined.
Ends(v) == value' = v /\ thread' = IF Detached THEN "gone" ELSE "ended"

\* The loops of ThreadFunc3, of 03pthread_detach.c and of 06pthread_attr_init.c.
Count ==
  /\ (Works("functions") /\ nth = 3) \/ Works("join again") \/ Works("detached")
  /\ counted < Turns
  /\ counted' = counted + 1
  /\ UNCHANGED <<prog, main, nth, thread, value, asked, joins, process>>

\* return (void*)1, pthread_exit((void*)2)
Returns ==
  /\ \/ Works("functions") /\ nth < 3 /\ Ends(nth)
     \/ (Works("join again") \/ Works("detached")) /\ counted = Turns /\ Ends(1)
  /\ UNCHANGED <<prog, main, nth, counted, asked, joins, process>>

\* (if the loop did not call pthread_testcancel)
NoTest == FALSE

\* A cancellation is noticed in printf and sleep, or in pthread_testcancel.
NoticesCancel == asked

Cancelled ==
  /\ Works("functions") \/ Works("testcancel")
  /\ NoticesCancel
  /\ Ends(Canceled)
  /\ UNCHANGED <<prog, main, nth, counted, asked, joins, process>>

Thread == Count \/ Returns \/ Cancelled

-----------------------------------------------------------------------------
(* main                                                                     *)

MainAt(p) == process /\ main = p

AfterCreate ==
  CASE prog = "functions"  -> IF nth < 2 THEN "join" ELSE "cancel"
    [] prog = "testcancel" -> "cancel"
    [] OTHER               -> "join"

Create ==
  /\ MainAt("create")
  /\ nth' = nth + 1
  /\ thread' = "running" /\ counted' = 0
  /\ main' = AfterCreate
  /\ UNCHANGED <<prog, value, asked, joins, process>>

Cancel ==
  /\ MainAt("cancel")
  /\ asked' = TRUE
  /\ main' = IF prog = "functions" THEN "join" ELSE "sleep"
  /\ UNCHANGED <<prog, nth, thread, counted, value, joins, process>>

AfterJoin ==
  CASE prog = "functions" -> IF nth < 3 THEN "create" ELSE "return"
    [] prog = "detached"  -> "pthread_exit"
    [] OTHER              -> "join"

\* (if the thread stayed joinable)
StaysJoinable == UNCHANGED thread

Released == thread' = "gone"

\* pthread_join waits for a thread that can be joined, and fails for others: with
\* EINVAL for a detached one, and with ESRCH (though POSIX does not say so) for one
\* that has been joined.
Join ==
  /\ MainAt("join") /\ Len(joins) < MaxJoins
  /\ \/ ~Detached /\ thread = "ended" /\ Released /\ joins' = Append(joins, value)
     \/ ~Detached /\ thread = "gone" /\ joins' = Append(joins, ESRCH) /\ UNCHANGED thread
     \/ Detached /\ UNCHANGED thread
        /\ \E e \in {EINVAL} \cup (IF thread = "gone" THEN {ESRCH} ELSE {}) :
             joins' = Append(joins, e)
  /\ main' = AfterJoin
  /\ UNCHANGED <<prog, nth, counted, value, asked, process>>

\* return from main ends the process, whoever runs.
MainReturns ==
  /\ MainAt("return")
  /\ main' = "exited" /\ process' = FALSE
  /\ UNCHANGED <<prog, nth, thread, counted, value, asked, joins>>

\* (if main returned there)
ProcessEnds == process' = FALSE

ProcessGoesOn == UNCHANGED process

\* pthread_exit ends main only.
MainExits ==
  /\ MainAt("pthread_exit")
  /\ main' = "exited"
  /\ ProcessGoesOn
  /\ UNCHANGED <<prog, nth, thread, counted, value, asked, joins>>

\* The process ends with its last thread.
LastEnds ==
  /\ MainAt("exited") /\ thread = "gone"
  /\ process' = FALSE
  /\ UNCHANGED <<prog, main, nth, thread, counted, value, asked, joins>>

Main == Create \/ Cancel \/ Join \/ MainReturns \/ MainExits \/ LastEnds

Next == Thread \/ Main

\* Both threads run when they can.
FairSpec == Init /\ [][Next]_vars /\ WF_vars(Thread) /\ WF_vars(Main)

-----------------------------------------------------------------------------
Values == {Canceled, 0, 1, 2}

TypeOK ==
  /\ prog \in Programs
  /\ main \in {"create", "join", "cancel", "sleep", "return", "pthread_exit", "exited"}
  /\ nth \in 0..3 /\ thread \in {"none", "running", "ended", "gone"}
  /\ counted \in 0..Turns /\ value \in Values
  /\ asked \in BOOLEAN /\ process \in BOOLEAN
  /\ Len(joins) <= MaxJoins

\* A join reports each thread once, with the value of that thread and not of the one
\* before; a second join of it, or one of a detached thread, is an error.
JoinsOnce ==
  LET n == Len(joins)
  IN  CASE prog = "functions"  -> joins = SubSeq(<<1, 2, Canceled>>, 1, n)
        [] prog = "join again" -> \A i \in 1..n : joins[i] = IF i = 1 THEN 1 ELSE ESRCH
        [] OTHER               -> \A i \in 1..n : joins[i] \in {EINVAL, ESRCH}

\* No thread is cut short by the end of its process: it has been joined, or has come
\* to the end of its loop although main is gone ("the main thread's exit does not
\* affect the running thread").
EndsBeforeProcess ==
  ~process => /\ thread = "gone"
              /\ prog = "detached" => counted = Turns

\* Threads end, the cancelled ones too, and then the process, where main does not loop.
LivesEnd ==
  /\ nth = 1 ~> thread \in {"ended", "gone"}
  /\ prog \in {"functions", "detached"} ~> ~process
=============================================================================
