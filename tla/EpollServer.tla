---------------------------- MODULE EpollServer ----------------------------
(***************************************************************************)
(* The echo server of src/012_network_IO/03epoll/server.c: one thread that *)
(* handles the events of an epoll instance and keeps a table of the        *)
(* clients' descriptors beside it.                                         *)
(***************************************************************************)
EXTENDS EchoTable

Listen == -2   \* the event of listenfd

VARIABLES
  watched,  \* descriptors registered with the epoll instance
  events,   \* events of the last epoll_wait not handled yet, in no fixed order
  i         \* index of the next event

srvVars == <<watched, events, i>>
vars == <<netVars, tabVars, pc, srvVars>>

Init ==
  /\ NetInit /\ TableInit
  /\ pc = "wait"
  /\ maxi = -1
  /\ watched = {} /\ events = {} /\ i = 0

Wait ==
  /\ pc = "wait"
  /\ LET ready == {f \in watched : Readable(fdt[f])}
                    \cup (IF backlog # <<>> THEN {Listen} ELSE {})
     IN  \E E \in SUBSET ready :
           /\ E # {} /\ (E = ready \/ Cardinality(E) = TableSize)
           /\ Cardinality(E) <= TableSize
           /\ events' = E
  /\ i' = 0
  /\ pc' = "events"
  /\ UNCHANGED <<netVars, client, maxi, watched>>

WaitAgain ==
  /\ pc = "events" /\ events = {}
  /\ pc' = "wait"
  /\ UNCHANGED <<netVars, client, maxi, watched, events, i>>

\* The program goes on to the next event, or exits and closes everything.
NextEvent(e) == events' = events \ {e} /\ i' = i + 1 /\ UNCHANGED pc
Exit(how)    == pc' = how /\ fdt' = AllClosed /\ watched' = {} /\ UNCHANGED <<events, i>>

FreeEntries == {k \in Table : client[k] = NoFd}

\* (if the new connection was not registered)
WatchNothing(fd) == watched

Watch(fd) == watched \cup {fd}

AcceptClient ==
  /\ pc = "events" /\ Listen \in events /\ FreeEntries # {} /\ FreeFds # {}
  /\ \E fd \in Fds :
       /\ Accept(fd)
       /\ client' = [client EXCEPT ![Least(FreeEntries)] = fd]
       /\ watched' = Watch(fd)
  /\ maxi' = IF Least(FreeEntries) > maxi THEN Least(FreeEntries) ELSE maxi
  /\ NextEvent(Listen)
  /\ UNCHANGED <<place, lines, inb, outb, peer>>

\* No entry is free, or accept failed and its -1 cannot be registered.
TooManyClients ==
  /\ pc = "events" /\ Listen \in events /\ (FreeEntries = {} \/ FreeFds = {})
  /\ Exit("full")
  /\ UNCHANGED <<place, lines, inb, outb, peer, backlog, client, maxi>>

AtEvent(f) == pc = "events" /\ f \in events

\* read returned data: send it back in capitals.
Echo(f) ==
  /\ AtEvent(f) /\ fdt[f] # Nobody
  /\ \E n \in 1..inb[fdt[f]] : ReadPieces(fdt[f], n) /\ WritePieces(fdt[f], n)
  /\ IF Deadly(fdt[f]) THEN Exit("killed") ELSE NextEvent(f) /\ UNCHANGED <<fdt, watched>>
  /\ UNCHANGED <<place, lines, backlog, client, maxi>>

\* (if the entry was kept)
EntriesKept(f) == client

\* The table once the entries of f are cleared.
EntriesWithout(f) ==
  [k \in Table |-> IF k <= maxi /\ client[k] = f THEN NoFd ELSE client[k]]

\* (if the number of the event was taken for that of the entry)
ClosedByIndex(f) == IF client[i] = NoFd THEN fdt ELSE Closed(client[i])

\* The descriptors once what the table has under f is closed.
ClosedFor(f) == IF \E k \in 0..maxi : client[k] = f THEN Closed(f) ELSE fdt

\* read returned 0: unregister, then close what the table has under f.
CloseClient(f) ==
  /\ AtEvent(f) /\ fdt[f] # Nobody /\ AtEnd(fdt[f])
  /\ watched' = watched \ {f}
  /\ fdt' = ClosedFor(f)
  /\ client' = EntriesWithout(f)
  /\ NextEvent(f)
  /\ UNCHANGED <<place, lines, inb, outb, peer, backlog, maxi>>

\* read returned -1 with ECONNRESET: the entry whose number is that of the event
\* is closed, whoever has it, and stays in the table.  A closed descriptor is no
\* longer watched.
AbortClient(f) ==
  /\ AtEvent(f) /\ fdt[f] # Nobody /\ AtReset(fdt[f])
  /\ ReportReset(fdt[f])
  /\ fdt' = IF client[i] = NoFd THEN fdt ELSE Closed(client[i])
  /\ watched' = watched \ {client[i]}
  /\ NextEvent(f)
  /\ UNCHANGED <<place, lines, inb, outb, backlog, client, maxi>>

\* read returned -1 for another reason: f was closed since epoll_wait.
ReadFails(f) ==
  /\ AtEvent(f) /\ fdt[f] = Nobody
  /\ Exit("failed")
  /\ UNCHANGED <<place, lines, inb, outb, peer, backlog, client, maxi>>

Server ==
  \/ Wait \/ WaitAgain \/ AcceptClient \/ TooManyClients
  \/ \E f \in Fds : Echo(f) \/ CloseClient(f) \/ AbortClient(f) \/ ReadFails(f)

Next == Server \/ \E c \in Clients : ClientStep(c) /\ UNCHANGED <<tabVars, pc, srvVars>>

Spec == Init /\ [][Next]_vars

\* The server is one thread that runs whenever a call it waits in can return.
FairSpec == Spec /\ WF_vars(Server)

-----------------------------------------------------------------------------
TypeOK ==
  /\ NetTypeOK /\ TableTypeOK
  /\ pc \in {"wait", "events", "full", "failed", "killed"}
  /\ watched \subseteq Fds /\ events \subseteq Fds \cup {Listen}
  /\ i \in 0..TableSize

\* epoll watches exactly the open connections.
SetMatchesKernel == Running => watched = OpenFds

\* What epoll_wait reported still holds when the event is handled, although
\* events before it close and reuse descriptors.
ReadsDoNotBlock ==
  pc = "events" => \A f \in events \ {Listen} : fdt[f] # Nobody /\ Readable(fdt[f])

\* The inductive invariant: what is open is watched and has an entry.  When connections
\* are reset there are entries of descriptors that were closed, too.
IInv ==
  /\ NetInv /\ TableTypeOK
  /\ pc \in {"wait", "events", "full", "failed", "killed"}
  /\ watched \subseteq Fds /\ events \subseteq Fds \cup {Listen}
  /\ SetMatchesKernel
  /\ Running => \A f \in OpenFds : \E k \in 0..maxi : client[k] = f
  /\ pc = "events" => /\ Listen \in events => backlog # <<>>
                      /\ i \in Nat /\ i + Cardinality(events) <= TableSize

\* The same when no connection is reset.
OrderlyIInv ==
  /\ IInv
  /\ TableMatchesKernel
  /\ \A c \in Clients : peer[c] # "rst"
  /\ ReadsDoNotBlock
=============================================================================
