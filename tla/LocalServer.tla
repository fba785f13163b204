---------------------------- MODULE LocalServer ----------------------------
(***************************************************************************)
(* The server of src/012_network_IO/05unix_socket_domain: it accepts one   *)
(* connection on a local socket, answers it until the client closes, and   *)
(* ends.  A local stream loses nothing, and the kernel knows at once that  *)
(* the other end is gone: a write to a client that has closed raises       *)
(* SIGPIPE.                                                                *)
(***************************************************************************)
EXTENDS SequentialServer

\* serv_accept; the path the client has bound is there.
AcceptOne == AcceptClient("serve")

\* read returned data: send it back in capitals.
EchoLocal ==
  /\ pc = "serve"
  /\ \E n \in 1..inb[Conn] :
       /\ ReadPieces(Conn, n)
       /\ IF peer[Conn] = "open"
          THEN WritePieces(Conn, n) /\ UNCHANGED <<pc, fdt, confd>>
          ELSE pc' = "killed" /\ fdt' = AllClosed /\ confd' = NoFd /\ UNCHANGED <<outb, peer>>
  /\ UNCHANGED <<place, lines, backlog>>

\* read returned -1 and it was no interruption: the program goes on as if it had
\* read something, and writes -1 bytes, which fails.
IgnoreError ==
  /\ pc = "serve" /\ AtReset(Conn)
  /\ ReportReset(Conn)
  /\ UNCHANGED <<place, lines, inb, outb, backlog, fdt, pc, confd>>

\* (if the loop was not left)
ReadOn == UNCHANGED <<fdt, confd, pc>>

LeaveLoop == fdt' = Closed(confd) /\ confd' = NoFd /\ pc' = "done"

\* read returned 0: leave the loop, close both sockets, end.
CloseLocal ==
  /\ pc = "serve" /\ AtEnd(Conn)
  /\ LeaveLoop
  /\ UNCHANGED <<place, lines, inb, outb, peer, backlog>>

LocalServes == AcceptOne \/ EchoLocal \/ IgnoreError \/ CloseLocal

LocalNext == LocalServes \/ \E c \in Clients : ClientStep(c) /\ UNCHANGED <<pc, confd>>

LocalSpec == Init /\ [][LocalNext]_vars /\ WF_vars(LocalServes)

-----------------------------------------------------------------------------
\* What the client sent before it ended is read, and the error of its reset, and
\* then the server ends too ("the other side has been closed"), or a write to it
\* has killed it: the branch for failed reads does not keep it in the loop.
EndsWithClient ==
  (\E c \in Clients : peer[c] # "open" /\ Open(c)) ~> pc \in {"done", "killed"}
=============================================================================
