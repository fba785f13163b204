-------------------------- MODULE SequentialServer --------------------------
(***************************************************************************)
(* The server of src/011network/01TCP: it accepts a connection, answers    *)
(* what one read returns, and closes it.                                   *)
(***************************************************************************)
EXTENDS EchoNet

VARIABLE confd   \* the connection's descriptor, if the server has it open

Init == NetInit /\ pc = "accept" /\ confd = NoFd

Conn == fdt[confd]

AcceptClient(then) ==
  /\ pc = "accept" /\ backlog # <<>>
  /\ Accept(confd')
  /\ pc' = then
  /\ UNCHANGED <<place, lines, inb, outb, peer>>

\* read, write, close; a read that fails or returns 0 has nothing to write.
ServeOnce ==
  /\ pc = "serve"
  /\ \/ \E n \in 1..inb[Conn] : ReadPieces(Conn, n) /\ WritePieces(Conn, n)
     \/ AtEnd(Conn) /\ UNCHANGED <<inb, outb, peer>>
     \/ AtReset(Conn) /\ ReportReset(Conn) /\ UNCHANGED <<inb, outb>>
  /\ fdt' = Closed(confd)
  /\ confd' = NoFd
  /\ pc' = "accept"
  /\ UNCHANGED <<place, lines, backlog>>

Server == AcceptClient("serve") \/ ServeOnce

Next == Server \/ \E c \in Clients : ClientStep(c) /\ UNCHANGED <<pc, confd>>

vars == <<netVars, pc, confd>>
=============================================================================
