---------------------------- MODULE SelectServer ----------------------------
(***************************************************************************)
(* The echo server of src/012_network_IO/01select/server.c: one thread, a  *)
(* table of client descriptors and the sets it gives to select.            *)
(***************************************************************************)
EXTENDS EchoTable

VARIABLES
  maxfd,    \* the highest descriptor ever monitored
  allset,   \* descriptors to monitor
  rset,     \* descriptors the last select reported
  listenReady,  \* whether it reported listenfd
  nready,   \* reports still to be handled
  i         \* the entry the scan has come to

srvVars == <<maxfd, allset, rset, listenReady, nready, i>>
vars == <<netVars, tabVars, pc, srvVars>>

Init ==
  /\ NetInit /\ TableInit
  /\ pc = "select"
  /\ maxi = -1 /\ maxfd = -1
  /\ allset = {} /\ rset = {} /\ listenReady = FALSE /\ nready = 0 /\ i = 0

\* (if select was given the highest descriptor itself)
MonitoredBelow == {f \in allset : f < maxfd}

\* What select looks at: the members of allset below maxfd + 1.
Monitored == {f \in allset : f <= maxfd}

Select ==
  /\ pc = "select"
  /\ LET ready == {f \in Monitored : fdt[f] # Nobody /\ Readable(fdt[f])}
         listening == backlog # <<>>
     IN  /\ ready # {} \/ listening
         /\ rset' = ready
         /\ listenReady' = listening
         /\ nready' = Cardinality(ready) + (IF listening THEN 1 ELSE 0)
         /\ pc' = IF listening THEN "accept" ELSE "scan"
  /\ i' = 0
  /\ UNCHANGED <<netVars, client, maxi, maxfd, allset>>

\* (if the search went one entry too far)
FreeEntriesPast == {k \in 0..TableSize : k = TableSize \/ client[k] = NoFd}

\* The entries a new connection may go to; the first one is taken.
FreeEntries == {k \in Table : client[k] = NoFd}

\* Handle the report for listenfd.  A failed accept is not looked at: -1 goes
\* into the entry, which leaves it free, and into FD_SET, which is undefined; on the
\* usual machines it sets the bit of descriptor 63, which is open and in the set or is
\* not looked at by select when there are no more descriptors.
AcceptClient ==
  /\ pc = "accept" /\ FreeEntries # {}
  /\ \E fd \in Fds \cup {NoFd} :
       /\ Accept(fd)
       /\ client' = [client EXCEPT ![Least(FreeEntries)] = fd]
       /\ allset' = allset \cup ({fd} \ {NoFd})
       /\ maxfd' = IF fd > maxfd THEN fd ELSE maxfd
  /\ maxi' = IF Least(FreeEntries) > maxi THEN Least(FreeEntries) ELSE maxi
  /\ nready' = nready - 1
  /\ pc' = IF nready = 1 THEN "select" ELSE "scan"
  /\ UNCHANGED <<place, lines, inb, outb, peer, rset, listenReady, i>>

\* Every entry is taken: the program exits with the connection accepted or not.
TooManyClients ==
  /\ pc = "accept" /\ FreeEntries = {}
  /\ pc' = "full"
  /\ fdt' = AllClosed
  /\ backlog' = Tail(backlog)
  /\ UNCHANGED <<place, lines, inb, outb, peer, client, maxi, maxfd, allset, rset,
                 listenReady, nready, i>>

\* (if the scan stopped one entry short)
HitsShort == {k \in i..maxi-1 : client[k] # NoFd /\ client[k] \in rset}

\* Entries the scan has still to handle.
Hits == {k \in i..maxi : client[k] # NoFd /\ client[k] \in rset}

\* (if the scan began again after each report)
HandledAgain(k) ==
  /\ nready' = nready - 1
  /\ i' = 0
  /\ pc' = IF nready = 1 THEN "select" ELSE "scan"

\* One report has been handled, that of entry k.
Handled(k) ==
  /\ nready' = nready - 1
  /\ i' = k + 1
  /\ pc' = IF nready = 1 THEN "select" ELSE "scan"

\* read returned data: send it back in capitals.
Echo ==
  /\ pc = "scan" /\ Hits # {}
  /\ LET k == Least(Hits)
         c == fdt[client[k]]
     IN  /\ \E n \in 1..inb[c] : ReadPieces(c, n) /\ WritePieces(c, n)
         /\ IF Deadly(c) THEN pc' = "killed" /\ fdt' = AllClosed /\ UNCHANGED <<nready, i>>
                         ELSE Handled(k) /\ UNCHANGED fdt
  /\ UNCHANGED <<place, lines, backlog, client, maxi, maxfd, allset, rset, listenReady>>

\* Forget the descriptor of entry k.
Drop(k) ==
  /\ allset' = allset \ {client[k]}
  /\ client' = [client EXCEPT ![k] = NoFd]

\* read returned 0: the client has closed, so does the server.
CloseClient ==
  /\ pc = "scan" /\ Hits # {}
  /\ LET k == Least(Hits)
     IN  /\ AtEnd(fdt[client[k]])
         /\ fdt' = Closed(client[k])
         /\ Drop(k)
         /\ Handled(k)
  /\ UNCHANGED <<place, lines, inb, outb, peer, backlog, maxi, maxfd, rset, listenReady>>

\* read returned -1: the write of -1 bytes fails and nothing else happens.
IgnoreError ==
  /\ pc = "scan" /\ Hits # {}
  /\ LET k == Least(Hits)
     IN  /\ AtReset(fdt[client[k]])
         /\ ReportReset(fdt[client[k]])
         /\ Handled(k)
  /\ UNCHANGED <<place, lines, inb, outb, backlog, fdt, client, maxi, maxfd, allset, rset,
                 listenReady>>

ScanEnds ==
  /\ pc = "scan" /\ Hits = {}
  /\ pc' = "select"
  /\ UNCHANGED <<netVars, client, maxi, maxfd, allset, rset, listenReady, nready, i>>

Server ==
  Select \/ AcceptClient \/ TooManyClients \/ Echo \/ CloseClient \/ IgnoreError \/ ScanEnds

Next == Server \/ \E c \in Clients : ClientStep(c) /\ UNCHANGED <<tabVars, pc, srvVars>>

Spec == Init /\ [][Next]_vars

\* The server is one thread that runs whenever a call it waits in can return.
\* Clients need not do anything.
FairSpec == Spec /\ WF_vars(Server)

-----------------------------------------------------------------------------
TypeOK ==
  /\ NetTypeOK /\ TableTypeOK
  /\ pc \in {"select", "accept", "scan", "full", "killed"}
  /\ maxfd \in Fds \cup {-1}
  /\ allset \subseteq Fds /\ rset \subseteq Fds /\ listenReady \in BOOLEAN
  /\ nready \in Nat /\ i \in 0..TableSize

\* The set given to select is that of the open connections, all below maxfd + 1.
SetMatchesKernel ==
  Running => allset = OpenFds /\ \A f \in allset : f <= maxfd

\* A read the scan is about to do does not block: what select reported still
\* holds, and is reported of the connection that is read.
ReadsDoNotBlock ==
  pc = "scan" => \A k \in Hits : fdt[client[k]] # Nobody /\ Readable(fdt[client[k]])

\* The scan handles exactly the reports that are left, so that it may stop when
\* it has counted them.
ReportsCounted == pc = "scan" => nready = Cardinality(Hits)

\* The inductive invariant.  The report for listenfd is handled first, and until then
\* the reports are all there.
IInv ==
  /\ NetInv /\ TableTypeOK
  /\ pc \in {"select", "accept", "scan", "full", "killed"}
  /\ maxfd \in Fds \cup {-1} /\ allset \subseteq Fds /\ rset \subseteq Fds
  /\ TableMatchesKernel /\ SetMatchesKernel
  /\ pc = "accept" =>
       /\ i = 0 /\ backlog # <<>>
       /\ nready = Cardinality(rset) + 1 /\ \A f \in rset : Ready(f)
  /\ pc = "scan" => i \in 0..TableSize /\ ReadsDoNotBlock /\ ReportsCounted
=============================================================================
