------------------------------- MODULE MCEcho -------------------------------
(***************************************************************************)
(* The three echo servers under the same clients, for TLC: which of them   *)
(* runs is chosen at the start.                                            *)
(***************************************************************************)
EXTENDS EchoTable

CONSTANT Kinds   \* the servers to choose from

VARIABLES kind,
          maxfd, allset, rset, listenReady, nready, i,   \* select; poll; epoll
          revents, watched, events

vars == <<netVars, tabVars, kind, pc, maxfd, allset, rset, listenReady, nready, i,
          revents, watched, events>>

\* select and poll with fewer descriptors than entries, and with more; epoll with
\* clients that end their connections in order, and with resets.
Select     == INSTANCE SelectServer
SelectFull == INSTANCE SelectServer WITH TableSize <- 1, MayReset <- FALSE
Poll       == INSTANCE PollServer WITH TableSize <- 4
PollFull   == INSTANCE PollServer WITH TableSize <- 2, MayReset <- FALSE
Epoll      == INSTANCE EpollServer WITH MayReset <- FALSE
EpollReset == INSTANCE EpollServer

NoSelect == maxfd = -1 /\ allset = {} /\ rset = {} /\ listenReady = FALSE
NoPoll   == revents = {}
NoEpoll  == watched = {} /\ events = {}

Init ==
  /\ kind \in Kinds
  /\ \/ kind = "select" /\ Select!Init /\ NoPoll /\ NoEpoll
     \/ kind = "selectFull" /\ SelectFull!Init /\ NoPoll /\ NoEpoll
     \/ kind = "poll" /\ Poll!Init /\ NoSelect /\ NoEpoll
     \/ kind = "pollFull" /\ PollFull!Init /\ NoSelect /\ NoEpoll
     \/ kind = "epoll" /\ Epoll!Init /\ NoSelect /\ NoPoll /\ nready = 0
     \/ kind = "epollReset" /\ EpollReset!Init /\ NoSelect /\ NoPoll /\ nready = 0

SelectOnly == UNCHANGED <<kind, revents, watched, events>>
PollOnly   == UNCHANGED <<kind, maxfd, allset, rset, listenReady, watched, events>>
EpollOnly  == UNCHANGED <<kind, maxfd, allset, rset, listenReady, nready, revents>>

Next ==
  \/ kind = "select" /\ Select!Next /\ SelectOnly
  \/ kind = "selectFull" /\ SelectFull!Next /\ SelectOnly
  \/ kind = "poll" /\ Poll!Next /\ PollOnly
  \/ kind = "pollFull" /\ PollFull!Next /\ PollOnly
  \/ kind = "epoll" /\ Epoll!Next /\ EpollOnly
  \/ kind = "epollReset" /\ EpollReset!Next /\ EpollOnly

Server ==
  \/ kind = "select" /\ Select!Server /\ SelectOnly
  \/ kind = "selectFull" /\ SelectFull!Server /\ SelectOnly
  \/ kind = "poll" /\ Poll!Server /\ PollOnly
  \/ kind = "pollFull" /\ PollFull!Server /\ PollOnly
  \/ kind = "epoll" /\ Epoll!Server /\ EpollOnly
  \/ kind = "epollReset" /\ EpollReset!Server /\ EpollOnly

\* The server is one thread that runs whenever the call it waits in can return.
FairSpec == Init /\ [][Next]_vars /\ WF_vars(Server)

-----------------------------------------------------------------------------
\* Every variable of the server that runs keeps its type.
TypeOK ==
  CASE kind = "select"     -> Select!TypeOK
    [] kind = "selectFull" -> SelectFull!TypeOK
    [] kind = "poll"       -> Poll!TypeOK
    [] kind = "pollFull"   -> PollFull!TypeOK
    [] kind = "epoll"      -> Epoll!TypeOK
    [] OTHER               -> EpollReset!TypeOK

\* What select and epoll are asked to watch is what is open.
SetMatchesKernel ==
  CASE kind = "select" -> Select!SetMatchesKernel
    [] kind \in {"epoll", "epollReset"} -> Epoll!SetMatchesKernel
    [] OTHER -> TRUE

\* No server is about to read from a connection without input: the loop that
\* handles the reports of one call does not outlive what they say.
ReadsDoNotBlock ==
  CASE kind = "select" -> Select!ReadsDoNotBlock
    [] kind = "poll"   -> Poll!ReadsDoNotBlock
    [] kind = "epoll"  -> Epoll!ReadsDoNotBlock
    [] OTHER -> TRUE

\* The select server handles exactly the reports it counts.
ReportsCounted == kind = "select" => Select!ReportsCounted

\* Except by the epoll server when a connection is reset (it closes the wrong one),
\* the promises below are kept.
Kept == kind # "epollReset"

\* Each open connection has one entry, over all reuses of entries and descriptors.
TablesMatchKernel == kind \in {"select", "poll", "epoll"} => TableMatchesKernel

\* What a server keeps of its connections agrees with the kernel.
ServersMatchKernel == SetMatchesKernel /\ TablesMatchKernel

\* A server that goes on ends only connections whose client ended them.
OthersStayConnected == [][Kept => EndsOnlyEnded]_netVars

\* Each client connects once and sends MaxLines lines, so that what is to be done for all
\* of them comes to an end.

\* Queued connections are accepted as soon as descriptors allow.
ConnectionsAccepted ==
  (Kept /\ \E c \in Clients : Queued(c)) ~>
    (\A c \in Clients : ~Queued(c)) \/ FreeFds = {} \/ ~Running

\* What clients sent is read, as long as the server runs.
InputIsRead ==
  (Kept /\ \E c \in Clients : inb[c] > 0 /\ Open(c)) ~>
    (\A c \in Clients : inb[c] = 0 \/ Queued(c)) \/ ~Running

\* A client that connects and sends is accepted and read.
ClientsServed == ConnectionsAccepted /\ InputIsRead

Ended(c) == peer[c] # "open" /\ Open(c)

\* Connections their clients have ended are closed, as long as the server runs.
EndedIsClosed ==
  (Kept /\ \E c \in Clients : Ended(c)) ~> (\A c \in Clients : ~Ended(c)) \/ ~Running

\* The inductive invariants of the servers whose tables and reads are proved about.
IInv ==
  /\ kind = "select" => Select!IInv
  /\ kind = "poll" => Poll!IInv
  /\ kind = "epoll" => Epoll!OrderlyIInv
  /\ kind = "epollReset" => EpollReset!IInv
=============================================================================
