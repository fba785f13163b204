----------------------------- MODULE SignalCatch -----------------------------
(***************************************************************************)
(* One process and the signals that come to it, in the programs of         *)
(* src/007singnal: 03sigprocmask.c blocks signals and prints those that    *)
(* are pending, 04SIGINT_sigaction.c, 04SIGUSR1_2_sigaction.c and          *)
(* 05signal.c catch a signal with a handler that takes its time, 08pause.c *)
(* waits in pause for one it catches.  Signals come at any time, also      *)
(* before the program has set itself up.                                   *)
(***************************************************************************)
EXTENDS Naturals, Sequences

CONSTANT MaxSignals   \* bound: signals that come

Signals == {"INT", "QUIT", "TSTP", "TERM", "USR1", "STOP", "CONT", "KILL"}
Stops   == {"TSTP", "STOP"}

Programs == {"mask", "catch INT", "catch USR1", "signal", "pause"}

Caught(p) ==
  CASE p \in {"catch INT", "signal", "pause"} -> {"INT"}
    [] p = "catch USR1"                       -> {"USR1"}
    [] OTHER                                  -> {}

\* The signals that sa_mask keeps out while the handler runs.  signal() asks for none.
SaMask(p) == IF p \in {"catch INT", "catch USR1"} THEN {"TSTP", "QUIT"} ELSE {}

VARIABLES
  prog,    \* which program it is
  step,    \* "setup", "loop", or "pause": in pause
  status,  \* "running", "stopped", "killed" or "exited"
  by,      \* the signal that has stopped or killed it
  mask,    \* signals that are blocked
  pend,    \* signals that are pending
  frames,  \* the masks that the handlers which are running give back, innermost last
  heard,   \* a handler has started since pause was called
  shown,   \* the pending signals as printed last
  came     \* signals that have come

kernel == <<status, by, mask, pend, frames>>
vars   == <<prog, step, kernel, heard, shown, came>>

Init ==
  /\ prog \in Programs
  /\ step = "setup" /\ status = "running" /\ by = "none"
  /\ mask = {} /\ pend = {} /\ frames = <<>>
  /\ heard = FALSE /\ shown = {} /\ came = 0

-----------------------------------------------------------------------------
(* The kernel                                                               *)

\* A signal that comes twice before it is taken is pending once.  SIGCONT takes back
\* the stops that are pending, and they take back SIGCONT.
Generate(s) ==
  /\ came < MaxSignals /\ status \in {"running", "stopped"}
  /\ came' = came + 1
  /\ IF s = "KILL" THEN status' = "killed" /\ by' = s /\ UNCHANGED pend
     ELSE /\ pend' = {s} \cup (pend \ CASE s = "CONT"  -> Stops
                                        [] s \in Stops -> {"CONT"}
                                        [] OTHER       -> {})
          /\ IF s = "CONT" THEN status' = "running" /\ by' = "none"
                           ELSE UNCHANGED <<status, by>>
  /\ UNCHANGED <<prog, step, mask, frames, heard, shown>>

Deliverable == pend \ mask

IsCaught(s) == step # "setup" /\ s \in Caught(prog)

\* (if SA_NODEFER was set)
HandlerMaskOpen(s) == mask \cup SaMask(prog)

\* While the handler runs its own signal is blocked too.
HandlerMask(s) == mask \cup SaMask(prog) \cup {s}

\* A signal is taken before the program goes on.
Take(s) ==
  /\ status = "running" /\ s \in Deliverable
  /\ pend' = pend \ {s}
  /\ IF IsCaught(s) THEN /\ frames' = Append(frames, mask)
                         /\ mask' = HandlerMask(s)
                         /\ heard' = (heard \/ step = "pause")
                         /\ UNCHANGED <<status, by>>
     ELSE /\ IF s = "CONT" THEN UNCHANGED <<status, by>>
             ELSE by' = s /\ status' = IF s \in Stops THEN "stopped" ELSE "killed"
          /\ UNCHANGED <<mask, frames, heard>>
  /\ UNCHANGED <<prog, step, shown, came>>

\* (if the mask stayed as it was in the handler)
KeepMask == UNCHANGED mask

RestoreMask == mask' = frames[Len(frames)]

\* The handler returns, after some seconds.
Return ==
  /\ status = "running" /\ frames # <<>> /\ Deliverable = {}
  /\ RestoreMask
  /\ frames' = SubSeq(frames, 1, Len(frames) - 1)
  /\ UNCHANGED <<prog, step, status, by, pend, heard, shown, came>>

-----------------------------------------------------------------------------
(* The program                                                              *)

MayRun == status = "running" /\ frames = <<>> /\ Deliverable = {}

Masked == {"INT", "TSTP", "TERM", "STOP", "QUIT"}

\* sigprocmask ignores the request to block SIGSTOP; sigaction and signal install
\* the handler.
SetUp ==
  /\ MayRun /\ step = "setup"
  /\ mask' = IF prog = "mask" THEN Masked \ {"STOP"} ELSE mask
  /\ step' = IF prog = "pause" THEN "before pause" ELSE "loop"
  /\ UNCHANGED <<prog, status, by, pend, frames, heard, shown, came>>

\* (if the print took the signals out of the pending set)
ShowAndClear == shown' = pend /\ pend' = {}

ShowPending == shown' = pend /\ UNCHANGED pend

\* sigpending and the print of 03sigprocmask.c.
Show ==
  /\ MayRun /\ prog = "mask" /\ step = "loop"
  /\ ShowPending
  /\ UNCHANGED <<prog, step, status, by, mask, frames, heard, came>>

CallPause ==
  /\ MayRun /\ step = "before pause"
  /\ step' = "pause"
  /\ UNCHANGED <<prog, kernel, heard, shown, came>>

\* pause returns once a handler that was started in it has returned.
PauseReturns ==
  /\ MayRun /\ step = "pause" /\ heard
  /\ status' = "exited"
  /\ UNCHANGED <<prog, step, by, mask, pend, frames, heard, shown, came>>

Process == (\E s \in Signals : Take(s)) \/ Return \/ SetUp \/ Show \/ CallPause \/ PauseReturns

Next == Process \/ \E s \in Signals : Generate(s)

\* The process runs when it can; nobody has to send it a signal.
FairSpec == Init /\ [][Next]_vars /\ WF_vars(Process)

-----------------------------------------------------------------------------
TypeOK ==
  /\ prog \in Programs
  /\ step \in {"setup", "before pause", "loop", "pause"}
  /\ status \in {"running", "stopped", "killed", "exited"}
  /\ by \in Signals \cup {"none"}
  /\ mask \subseteq Signals /\ pend \subseteq Signals
  /\ frames \in Seq(SUBSET Signals)
  /\ heard \in BOOLEAN /\ shown \subseteq Signals
  /\ came \in 0..MaxSignals

\* A handler is not interrupted by its own signal, however often that comes, nor by
\* those of sa_mask; 03sigprocmask.c is stopped and ended by no signal it blocks, and
\* no program keeps SIGSTOP or SIGKILL out.
HandlersUndisturbed ==
  /\ Len(frames) <= 1
  /\ frames # <<>> /\ status \in {"stopped", "killed"} =>
       by \notin SaMask(prog) \cup Caught(prog)
  /\ prog = "mask" /\ step = "loop" => by \notin Masked \ {"STOP"}
  /\ mask \cap {"STOP", "KILL"} = {}

\* What 03sigprocmask.c has shown as pending it goes on showing, but for a stop that
\* SIGCONT has taken back.
PendingStays == [][shown \ {"TSTP"} \subseteq shown']_vars

\* Caught signals that come while the handler runs are handled after it (MaxSignals come
\* at most), and a process in pause ends with the first one.
SignalsHandled ==
  /\ (pend \cap Caught(prog) # {} /\ step # "setup")
       ~> pend \cap Caught(prog) = {} \/ status # "running"
  /\ (heard /\ status = "running") ~> status # "running"
=============================================================================
