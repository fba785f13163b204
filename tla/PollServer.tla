----------------------------- MODULE PollServer -----------------------------
(***************************************************************************)
(* The echo server of src/012_network_IO/02poll/server.c: one thread and a *)
(* table of struct pollfd whose entry 0 is the listening socket.           *)
(***************************************************************************)
EXTENDS EchoTable

Listen == 0   \* the entry of listenfd

VARIABLES
  revents,  \* entries whose revents has POLLIN or POLLERR
  nready,   \* entries poll reported and the program has not handled yet
  i         \* the entry the scan has come to

srvVars == <<revents, nready, i>>
vars == <<netVars, tabVars, pc, srvVars>>

\* The table is a local array: only the fd fields are initialised.
Init ==
  /\ NetInit /\ TableInit
  /\ pc = "poll"
  /\ revents \in SUBSET Table
  /\ maxi = 0 /\ nready = 0 /\ i = 0

\* (if poll was given the highest index, not the number of entries)
PolledShort == 0..maxi-1

\* The entries given to poll, which sets their revents and no others.
Polled == 0..maxi

Poll ==
  /\ pc = "poll"
  /\ LET ready == {k \in Polled : IF k = Listen THEN backlog # <<>>
                                  ELSE client[k] # NoFd /\ Readable(fdt[client[k]])}
     IN  /\ ready # {}
         /\ revents' = (revents \ Polled) \cup ready
         /\ nready' = Cardinality(ready)
         /\ pc' = IF Listen \in ready THEN "accept" ELSE "scan"
  /\ i' = 0
  /\ UNCHANGED <<netVars, client, maxi>>

\* The entries a new connection may go to; the first one is taken.
FreeEntries == {k \in Table \ {Listen} : client[k] = NoFd}

\* Handle the report for listenfd; a failed accept leaves the entry free.
AcceptClient ==
  /\ pc = "accept" /\ FreeEntries # {}
  /\ \E fd \in Fds \cup {NoFd} :
       Accept(fd) /\ client' = [client EXCEPT ![Least(FreeEntries)] = fd]
  /\ maxi' = IF Least(FreeEntries) > maxi THEN Least(FreeEntries) ELSE maxi
  /\ nready' = nready - 1
  /\ pc' = IF nready = 1 THEN "poll" ELSE "scan"
  /\ UNCHANGED <<place, lines, inb, outb, peer, revents, i>>

TooManyClients ==
  /\ pc = "accept" /\ FreeEntries = {}
  /\ pc' = "full"
  /\ fdt' = AllClosed
  /\ backlog' = Tail(backlog)
  /\ UNCHANGED <<place, lines, inb, outb, peer, client, revents, maxi, nready, i>>

\* (if the scan did not look at revents)
HitsUnreported == {k \in i..maxi : k # Listen /\ client[k] # NoFd}

\* Entries the scan has still to handle; it starts at that of listenfd.
Hits == {k \in i..maxi : (k = Listen \/ client[k] # NoFd) /\ k \in revents}
Hit  == Least(Hits)
Conn == fdt[client[Hit]]

AtClientHit == pc = "scan" /\ Hits # {} /\ Hit # Listen

Handled ==
  /\ nready' = nready - 1
  /\ i' = Hit + 1
  /\ pc' = IF nready = 1 THEN "poll" ELSE "scan"

\* The report for listenfd is still set: read fails on it, and the program exits.
ReadListen ==
  /\ pc = "scan" /\ Hits # {} /\ Hit = Listen
  /\ pc' = "failed"
  /\ fdt' = AllClosed
  /\ UNCHANGED <<place, lines, inb, outb, peer, backlog, client, revents, maxi, nready, i>>

\* read returned data: send it back in capitals.
Echo ==
  /\ AtClientHit
  /\ \E n \in 1..inb[Conn] : ReadPieces(Conn, n) /\ WritePieces(Conn, n)
  /\ IF Deadly(Conn) THEN pc' = "killed" /\ fdt' = AllClosed /\ UNCHANGED <<nready, i>>
                     ELSE Handled /\ UNCHANGED fdt
  /\ UNCHANGED <<place, lines, backlog, client, revents, maxi>>

\* read returned 0, or -1 with ECONNRESET: close.
CloseClient ==
  /\ AtClientHit
  /\ \/ AtEnd(Conn) /\ UNCHANGED peer
     \/ AtReset(Conn) /\ ReportReset(Conn)
  /\ fdt' = Closed(client[Hit])
  /\ client' = [client EXCEPT ![Hit] = NoFd]
  /\ Handled
  /\ UNCHANGED <<place, lines, inb, outb, backlog, revents, maxi>>

ScanEnds ==
  /\ pc = "scan" /\ Hits = {}
  /\ pc' = "poll"
  /\ UNCHANGED <<netVars, client, revents, maxi, nready, i>>

Server ==
  \/ Poll \/ AcceptClient \/ TooManyClients \/ ReadListen \/ Echo \/ CloseClient \/ ScanEnds

Next == Server \/ \E c \in Clients : ClientStep(c) /\ UNCHANGED <<tabVars, pc, srvVars>>

Spec == Init /\ [][Next]_vars

\* The server is one thread that runs whenever a call it waits in can return.
FairSpec == Spec /\ WF_vars(Server)

-----------------------------------------------------------------------------
TypeOK ==
  /\ NetTypeOK /\ TableTypeOK
  /\ pc \in {"poll", "accept", "scan", "full", "failed", "killed"}
  /\ revents \subseteq Table /\ nready \in Nat /\ i \in 0..TableSize

\* A read the scan is about to do does not block, although the revents of an
\* entry poll has not seen yet are whatever the stack held.
ReadsDoNotBlock == AtClientHit => Conn # Nobody /\ Readable(Conn)

\* "if there are data requests on the clients' sockets, walk the client array to
\* find which client's signal it is": the scan is not about listenfd.
ScanIsForClients == pc = "scan" => Listen \notin Hits

\* The inductive invariant.  After an accept the scan meets the report for listenfd
\* first, before it can come to the new entry.
IInv ==
  /\ NetInv /\ TableTypeOK
  /\ pc \in {"poll", "accept", "scan", "full", "failed", "killed"}
  /\ maxi \in Table /\ revents \subseteq Table /\ client[Listen] = NoFd
  /\ TableMatchesKernel
  /\ pc = "accept" => i = 0 /\ backlog # <<>> /\ Listen \in revents
  /\ pc = "scan" => /\ i \in 0..TableSize
                    /\ Listen \in Hits \/ \A k \in Hits : Ready(client[k])
=============================================================================
