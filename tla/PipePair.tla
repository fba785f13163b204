------------------------------ MODULE PipePair ------------------------------
(***************************************************************************)
(* One message through a pipe: src/005_process_IPC/01pipe.c (parent to     *)
(* child), 01pipe_nonblock.c (the child does not block in read) and        *)
(* 03fifo_write.c, 03fifo_read.c (two programs).  Either process may be    *)
(* killed at any time.  The message is shorter than PIPE_BUF, so that it   *)
(* is written and read in one piece.  pipe and fork do not fail.           *)
(***************************************************************************)
EXTENDS FiniteSets

Processes == {"writer", "reader"}

VARIABLES
  how,       \* "pipe", "nonblock" or "fifo"
  at,        \* what each process does next, or its end
  readEnd,   \* processes that have the read end open
  writeEnd,  \* and the write end
  buffer,    \* the message is in the pipe
  got        \* what read returned to the reader

vars == <<how, at, readEnd, writeEnd, buffer, got>>

Ended(p) == at[p] \in {"exited", "killed"}

\* After fork both processes have both ends; a FIFO is not open yet.
Init ==
  /\ how \in {"pipe", "nonblock", "fifo"}
  /\ at = [p \in Processes |-> IF how = "fifo" THEN "open" ELSE "close other"]
  /\ readEnd = IF how = "fifo" THEN {} ELSE Processes
  /\ writeEnd = readEnd
  /\ buffer = FALSE /\ got = "not yet"

\* The opens of a FIFO wait for each other.
OpenBoth ==
  /\ \A p \in Processes : at[p] = "open"
  /\ readEnd' = {"reader"} /\ writeEnd' = {"writer"}
  /\ at' = [at EXCEPT !["writer"] = "write", !["reader"] = "read"]
  /\ UNCHANGED <<how, buffer, got>>

WriterClosesOther ==
  /\ at["writer"] = "close other"
  /\ readEnd' = readEnd \ {"writer"}
  /\ at' = [at EXCEPT !["writer"] = "write"]
  /\ UNCHANGED <<how, writeEnd, buffer, got>>

\* A process ends: the kernel closes its ends.
Exits(p, reason) ==
  /\ at' = [at EXCEPT ![p] = reason]
  /\ readEnd' = readEnd \ {p} /\ writeEnd' = writeEnd \ {p}

\* Without a reader the write raises SIGPIPE.
Write ==
  /\ at["writer"] = "write"
  /\ IF readEnd = {}
     THEN Exits("writer", "killed") /\ UNCHANGED buffer
     ELSE /\ buffer' = TRUE
          /\ at' = [at EXCEPT !["writer"] = "close"]
          /\ UNCHANGED <<readEnd, writeEnd>>
  /\ UNCHANGED <<how, got>>

\* Close; a parent then waits for its child.
WriterCloses ==
  /\ at["writer"] = "close"
  /\ writeEnd' = writeEnd \ {"writer"}
  /\ at' = [at EXCEPT !["writer"] = IF how = "fifo" THEN "exited" ELSE "wait"]
  /\ UNCHANGED <<how, readEnd, buffer, got>>

Wait ==
  /\ at["writer"] = "wait" /\ Ended("reader")
  /\ at' = [at EXCEPT !["writer"] = "exited"]
  /\ UNCHANGED <<how, readEnd, writeEnd, buffer, got>>

\* (if the child kept its write end)
KeepWriteEnd == UNCHANGED writeEnd

CloseWriteEnd == writeEnd' = writeEnd \ {"reader"}

ReaderClosesOther ==
  /\ at["reader"] = "close other"
  /\ CloseWriteEnd
  /\ at' = [at EXCEPT !["reader"] = "read"]
  /\ UNCHANGED <<how, readEnd, buffer, got>>

\* (if EAGAIN was taken for the end)
NothingThere == ~buffer

\* read returns 0.  With the write end open somewhere it blocks, or fails with
\* EAGAIN and is tried again.
EndOfPipe == ~buffer /\ writeEnd = {}

Read ==
  /\ at["reader"] = "read"
  /\ \/ buffer /\ got' = "message"
     \/ EndOfPipe /\ got' = "nothing"
  /\ buffer' = FALSE
  /\ at' = [at EXCEPT !["reader"] = "close"]
  /\ UNCHANGED <<how, readEnd, writeEnd>>

ReaderCloses ==
  /\ at["reader"] = "close"
  /\ Exits("reader", "exited")
  /\ UNCHANGED <<how, buffer, got>>

Killed(p) ==
  /\ ~Ended(p)
  /\ Exits(p, "killed")
  /\ UNCHANGED <<how, buffer, got>>

Writer == WriterClosesOther \/ Write \/ WriterCloses \/ Wait
Reader == ReaderClosesOther \/ Read \/ ReaderCloses

Next == OpenBoth \/ Writer \/ Reader \/ \E p \in Processes : Killed(p)

\* Both processes run when they can; nobody has to be killed.
FairSpec ==
  Init /\ [][Next]_vars /\ WF_vars(OpenBoth) /\ WF_vars(Writer) /\ WF_vars(Reader)

-----------------------------------------------------------------------------
TypeOK ==
  /\ how \in {"pipe", "nonblock", "fifo"}
  /\ at \in [Processes -> {"open", "close other", "write", "read", "close", "wait",
                           "exited", "killed"}]
  /\ readEnd \subseteq Processes /\ writeEnd \subseteq Processes
  /\ buffer \in BOOLEAN /\ got \in {"not yet", "message", "nothing"}

\* A reader that gets nothing has lost its writer: it is not told of an end while
\* the message may still come, whatever order the two processes run in.
NothingMeansKilled == got = "nothing" => at["writer"] = "killed"

\* Once the pipe is open both processes come to an end, also when the other one is
\* killed: nobody waits for an end of which it has a copy itself.
PairEnds ==
  \A p \in Processes : at[p] \notin {"open", "exited", "killed"} ~> Ended(p)
=============================================================================
