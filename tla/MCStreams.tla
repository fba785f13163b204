----------------------------- MODULE MCStreams -----------------------------
(***************************************************************************)
(* The forking, the sequential and the local server under the same         *)
(* clients, for TLC: which of them runs is chosen at the start.            *)
(***************************************************************************)
EXTENDS ForkServer

Local == INSTANCE LocalServer

VARIABLE kind   \* "fork", "sequential" or "local"

mcVars == <<allVars, kind>>

Only == UNCHANGED <<procVars, kind>>

MCInit == kind \in {"fork", "sequential", "local"} /\ ForkInit

MCNext ==
  \/ kind = "fork" /\ ForkNext /\ UNCHANGED kind
  \/ kind = "sequential" /\ Next /\ Only
  \/ kind = "local" /\ Local!LocalNext /\ Only

\* The processes and threads of the server that runs.
MCServer ==
  \/ kind = "fork" /\ Parent /\ UNCHANGED kind
  \/ kind = "sequential" /\ Server /\ Only
  \/ kind = "local" /\ Local!LocalServes /\ Only

MCSpec ==
  /\ MCInit /\ [][MCNext]_mcVars
  /\ WF_mcVars(MCServer) /\ WF_mcVars(Reap /\ UNCHANGED kind)
  /\ \A c \in Clients : WF_mcVars(Child(c) /\ UNCHANGED kind)

-----------------------------------------------------------------------------
\* Every variable of the server that runs keeps its type.
StreamTypeOK ==
  IF kind = "local" THEN NetTypeOK /\ pc \in {"accept", "serve", "done", "killed"}
                    ELSE ForkTypeOK

\* The inductive invariant.  The sequential server is the forking one whose forks all
\* fail; the local one has no descriptor but that of its client.
LocalInv ==
  /\ pc \in {"accept", "serve", "done", "killed"} /\ backlog \in Seq(Clients)
  /\ fdt \in [Fds -> Clients \cup {Nobody}]
  /\ pc = "accept" => \A f \in Fds : fdt[f] = Nobody
  /\ pc = "serve" => confd \in Fds /\ Conn \in Clients
  /\ child = [c \in Clients |-> "none"] /\ reapers = 0

MCInv ==
  /\ Traffic
  /\ place \in [Clients -> {"off", "typing", "reading", "closed"}]
  /\ peer \in [Clients -> {"open", "fin", "rst", "broken"}]
  /\ kind \in {"fork", "sequential", "local"}
  /\ kind # "local" => IInv
  /\ kind = "local" => LocalInv

\* A connection waits no longer than the server is serving another one itself; the
\* local server accepts one only, and ends with that client.
ConnectionsMove ==
  /\ kind # "local" => QueueMoves
  /\ kind = "local" => Local!EndsWithClient
=============================================================================
