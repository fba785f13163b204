----------------------------- MODULE EchoProofs -----------------------------
(***************************************************************************)
(* Proofs about the select, poll and epoll servers, for any number of      *)
(* clients and descriptors: their tables agree with the kernel's, and      *)
(* what they read from is ready.                                           *)
(***************************************************************************)
EXTENDS MCEcho, QueueLemmas, FiniteSetTheorems

-----------------------------------------------------------------------------
(* Connections                                                             *)

\* The constants.
LEMMA ConstantFacts ==
  /\ NumFds \in Nat /\ LinePieces \in Nat /\ Nobody \notin Clients
  /\ NoFd \notin Fds /\ Fds \subseteq Nat /\ TableSize \in Nat \ {0}
<1>1. NumFds \in Nat /\ LinePieces \in Nat /\ Nobody \notin Clients /\ TableSize \in Nat \ {0}
  BY NetAssumption, NoClientIsNobody, TableAssumption
<1> QED
  BY <1>1 DEF NoFd, Fds

LEMMA LeastIsIn ==
  ASSUME NEW S \in SUBSET Nat, S # {}
  PROVE  Least(S) \in S /\ \A l \in S : Least(S) <= l
BY LeastExists DEF Least

\* In the words of the lemmas about queues.
LEMMA QueuedIs ==
  /\ \A c : Queued(c) <=> InSeq(c, backlog)
  /\ \A c : Queued(c)' <=> InSeq(c, backlog')
  /\ ConnectionsOnce => Distinct(backlog)
BY DEF Queued, InSeq, ConnectionsOnce, Distinct

\* A step of a server that accepts nothing, whatever it closes, and whether or not it
\* takes a connection out of the queue before it exits.
LEMMA OnceKept ==
  ASSUME NetInv, fdt' \in [Fds -> Clients \cup {Nobody}],
         \A f \in Fds : fdt'[f] = fdt[f] \/ fdt'[f] = Nobody,
         place' = place,
         backlog' = backlog \/ (backlog # <<>> /\ backlog' = Tail(backlog))
  PROVE  ConnectionsOnce' /\ backlog' \in Seq(Clients)
<1>1. backlog \in Seq(Clients) /\ Distinct(backlog)
  BY QueuedIs DEF NetInv
<1>2. /\ backlog' \in Seq(Clients) /\ Distinct(backlog')
      /\ \A c : Queued(c)' => Queued(c)
  <2>1. CASE backlog' = backlog
    BY <1>1, <2>1 DEF Queued
  <2>2. CASE backlog # <<>> /\ backlog' = Tail(backlog)
    <3>1. /\ Tail(backlog) \in Seq(Clients) /\ Distinct(Tail(backlog))
          /\ \A c : InSeq(c, Tail(backlog)) => InSeq(c, backlog)
      BY <1>1, <2>2, TailHas
    <3> QED
      BY <2>2, <3>1, QueuedIs
  <2> QED
    BY <2>1, <2>2
<1>3. \A c \in Clients : Open(c)' => Open(c)
  BY ConstantFacts DEF Open
<1>4. \A f, g \in Fds : fdt'[f] = fdt'[g] /\ fdt'[f] # Nobody => f = g
  BY DEF NetInv, ConnectionsOnce
<1>5. \A m, n \in 1..Len(backlog') : backlog'[m] = backlog'[n] => m = n
  BY <1>2 DEF Distinct
<1>6. \A c \in Clients : /\ Queued(c)' => ~Open(c)'
                         /\ place'[c] = "off" => ~Queued(c)' /\ ~Open(c)'
  BY <1>2, <1>3 DEF NetInv, ConnectionsOnce
<1> QED
  BY <1>2, <1>4, <1>5, <1>6 DEF ConnectionsOnce

\* A step of a client: what could be read can still be read.
LEMMA ClientKeeps ==
  ASSUME NetInv, NEW c \in Clients, ClientStep(c)
  PROVE  /\ NetInv' /\ fdt' = fdt
         /\ backlog # <<>> => backlog' # <<>>
         /\ \A f \in Fds : Ready(f) => Ready(f)'
<1>1. fdt' = fdt
  BY DEF ClientStep, Connect, SendLine, ReadAnswer, Quit
<1>2. CASE Connect(c)
  <2>1. /\ place[c] = "off" /\ place' = [place EXCEPT ![c] = "typing"]
        /\ backlog' = Append(backlog, c) /\ UNCHANGED <<inb, outb, peer>>
    BY <1>2 DEF Connect
  <2>2. backlog \in Seq(Clients) /\ Distinct(backlog) /\ ~InSeq(c, backlog) /\ ~Open(c)
    BY <2>1, QueuedIs DEF NetInv, ConnectionsOnce
  <2>3. /\ backlog' \in Seq(Clients) /\ Distinct(backlog')
        /\ \A d : Queued(d)' <=> Queued(d) \/ d = c
    <3>1. /\ Append(backlog, c) \in Seq(Clients) /\ Distinct(Append(backlog, c))
          /\ \A d : InSeq(d, Append(backlog, c)) <=> InSeq(d, backlog) \/ d = c
      BY <2>2, AppendHas
    <3> QED
      BY <2>1, <3>1, QueuedIs
  <2>4. \A d \in Clients : Open(d)' <=> Open(d)
    BY <1>1 DEF Open
  <2>5. /\ place' \in [Clients -> {"off", "typing", "reading", "closed"}]
        /\ place'[c] = "typing" /\ \A d \in Clients : d # c => place'[d] = place[d]
    BY <2>1 DEF NetInv
  <2>6. ConnectionsOnce'
    <3>1. \A m, n \in 1..Len(backlog') : backlog'[m] = backlog'[n] => m = n
      BY <2>3 DEF Distinct
    <3>2. \A f, g \in Fds : fdt'[f] = fdt'[g] /\ fdt'[f] # Nobody => f = g
      BY <1>1 DEF NetInv, ConnectionsOnce
    <3>3. \A d \in Clients : /\ Queued(d)' => ~Open(d)'
                             /\ place'[d] = "off" => ~Queued(d)' /\ ~Open(d)'
      BY <2>2, <2>3, <2>4, <2>5 DEF NetInv, ConnectionsOnce
    <3> QED
      BY <3>1, <3>2, <3>3 DEF ConnectionsOnce
  <2>7. NetInv'
    BY <1>1, <2>1, <2>3, <2>5, <2>6 DEF NetInv
  <2>8. backlog' # <<>>
    BY <2>1, <2>2, AppendProperties
  <2>9. \A f \in Fds : Ready(f) => Ready(f)'
    BY <1>1, <2>1 DEF Ready, Readable
  <2> QED
    BY <1>1, <2>7, <2>8, <2>9
<1>3. CASE SendLine(c) \/ ReadAnswer(c) \/ Quit(c)
  <2>1. backlog' = backlog
    BY <1>3 DEF SendLine, ReadAnswer, Quit
  <2>2. /\ place' \in [Clients -> {"off", "typing", "reading", "closed"}]
        /\ \A d \in Clients : place'[d] = "off" => place[d] = "off"
    BY <1>3 DEF SendLine, ReadAnswer, Quit, NetInv
  <2>3. /\ inb' \in [Clients -> Nat]
        /\ \A d \in Clients : inb[d] > 0 => inb'[d] > 0
    <3>1. CASE SendLine(c)
      <4>1. inb' = [inb EXCEPT ![c] = @ + LinePieces]
        BY <3>1 DEF SendLine
      <4>2. inb[c] + LinePieces \in Nat /\ (inb[c] > 0 => inb[c] + LinePieces > 0)
        BY ConstantFacts DEF NetInv
      <4> QED
        BY <4>1, <4>2 DEF NetInv
    <3>2. CASE inb' = inb
      BY <3>2 DEF NetInv
    <3> QED
      BY <1>3, <3>1, <3>2 DEF ReadAnswer, Quit
  <2>4. outb' \in [Clients -> Nat]
    <3>1. CASE ReadAnswer(c)
      <4>1. PICK n \in 1..outb[c] : outb' = [outb EXCEPT ![c] = @ - n]
        BY <3>1 DEF ReadAnswer
      <4>2. outb[c] - n \in Nat
        BY DEF NetInv
      <4> QED
        BY <4>1, <4>2 DEF NetInv
    <3>2. CASE outb' = outb
      BY <3>2 DEF NetInv
    <3>3. CASE outb' = [outb EXCEPT ![c] = 0]
      BY <3>3 DEF NetInv
    <3> QED
      BY <1>3, <3>1, <3>2, <3>3 DEF SendLine, Quit
  <2>5. /\ peer' \in [Clients -> {"open", "fin", "rst", "broken"}]
        /\ \A d \in Clients : peer[d] # "open" => peer'[d] # "open"
    BY <1>3 DEF SendLine, ReadAnswer, Quit, NetInv
  <2>6. ConnectionsOnce'
    <3>1. \A d \in Clients : (Queued(d)' <=> Queued(d)) /\ (Open(d)' <=> Open(d))
      BY <1>1, <2>1 DEF Queued, Open
    <3> QED
      BY <1>1, <2>1, <2>2, <3>1 DEF NetInv, ConnectionsOnce
  <2>7. \A f \in Fds : Ready(f) => Ready(f)'
    BY <1>1, <2>3, <2>5 DEF Ready, Readable, NetInv
  <2> QED
    BY <1>1, <2>1, <2>2, <2>3, <2>4, <2>5, <2>6, <2>7 DEF NetInv
<1> QED
  BY <1>2, <1>3 DEF ClientStep

\* accept with a connection in the queue: it gets a descriptor that was free, or there
\* is none.
LEMMA AcceptKeeps ==
  ASSUME NetInv, NEW fd, Accept(fd), backlog # <<>>, UNCHANGED <<place, inb, outb, peer>>
  PROVE  /\ NetInv'
         /\ \/ fd = NoFd /\ fdt' = fdt /\ OpenFds' = OpenFds
            \/ /\ fd \in Fds /\ fdt[fd] = Nobody /\ fdt'[fd] # Nobody
               /\ \A f \in Fds : f # fd => fdt'[f] = fdt[f]
               /\ OpenFds' = OpenFds \cup {fd}
<1>1. CASE FreeFds = {}
  <2>1. fd = NoFd /\ backlog' = backlog /\ fdt' = fdt
    BY <1>1 DEF Accept
  <2>2. ConnectionsOnce' /\ backlog' \in Seq(Clients)
    BY <2>1, OnceKept DEF NetInv
  <2> QED
    BY <2>1, <2>2 DEF NetInv, OpenFds
<1>2. CASE FreeFds # {}
  <2> DEFINE h == Head(backlog)
  <2>1. /\ fd = Least(FreeFds) /\ fdt' = [fdt EXCEPT ![fd] = h]
        /\ backlog' = Tail(backlog)
    BY <1>2 DEF Accept
  <2>2. fd \in Fds /\ fdt[fd] = Nobody
    <3>1. FreeFds \in SUBSET Nat
      BY ConstantFacts DEF FreeFds
    <3>2. Least(FreeFds) \in FreeFds
      BY <1>2, <3>1, LeastIsIn
    <3> QED
      BY <2>1, <3>2 DEF FreeFds
  <2>3. /\ h \in Clients /\ Queued(h)
        /\ backlog' \in Seq(Clients) /\ Distinct(backlog')
        /\ \A c : Queued(c)' <=> Queued(c) /\ c # h
    <3>1. backlog \in Seq(Clients) /\ Distinct(backlog)
      BY QueuedIs DEF NetInv
    <3>2. /\ h \in Clients /\ InSeq(h, backlog)
          /\ Tail(backlog) \in Seq(Clients) /\ Distinct(Tail(backlog))
          /\ \A c : InSeq(c, Tail(backlog)) <=> InSeq(c, backlog) /\ c # h
      BY <3>1, TailHas
    <3> QED
      BY <2>1, <3>2, QueuedIs
  <2> HIDE DEF h
  <2>4. ~Open(h) /\ place[h] # "off"
    BY <2>3 DEF NetInv, ConnectionsOnce
  <2>5. /\ fdt' \in [Fds -> Clients \cup {Nobody}]
        /\ fdt'[fd] = h /\ \A f \in Fds : f # fd => fdt'[f] = fdt[f]
    BY <2>1, <2>2, <2>3 DEF NetInv
  <2>6. \A c \in Clients : Open(c)' <=> Open(c) \/ c = h
    BY <2>2, <2>5, ConstantFacts DEF Open
  <2>7. ConnectionsOnce'
    <3>1. \A m, n \in 1..Len(backlog') : backlog'[m] = backlog'[n] => m = n
      BY <2>3 DEF Distinct
    <3>2. \A f, g \in Fds : fdt'[f] = fdt'[g] /\ fdt'[f] # Nobody => f = g
      BY <2>4, <2>5 DEF NetInv, ConnectionsOnce, Open
    <3>3. \A c \in Clients : Queued(c)' => ~Open(c)'
      BY <2>3, <2>6 DEF NetInv, ConnectionsOnce
    <3>4. \A c \in Clients : place'[c] = "off" => ~Queued(c)' /\ ~Open(c)'
      BY <2>3, <2>4, <2>6 DEF NetInv, ConnectionsOnce
    <3> QED
      BY <3>1, <3>2, <3>3, <3>4 DEF ConnectionsOnce
  <2>8. NetInv'
    BY <2>3, <2>5, <2>7 DEF NetInv
  <2>9. fdt'[fd] # Nobody /\ OpenFds' = OpenFds \cup {fd}
    BY <2>2, <2>3, <2>5, ConstantFacts DEF OpenFds
  <2> QED
    BY <2>2, <2>5, <2>8, <2>9
<1> QED
  BY <1>1, <1>2

\* close, with what the read before it did to the connection.
LEMMA CloseKeeps ==
  ASSUME NetInv, NEW f \in Fds, fdt' = Closed(f),
         UNCHANGED <<place, inb, outb, backlog>>,
         peer' \in [Clients -> {"open", "fin", "rst", "broken"}]
  PROVE  /\ NetInv' /\ OpenFds' = OpenFds \ {f}
         /\ \A g \in Fds : g # f => fdt'[g] = fdt[g]
<1>1. /\ fdt' \in [Fds -> Clients \cup {Nobody}]
      /\ fdt'[f] = Nobody /\ \A g \in Fds : g # f => fdt'[g] = fdt[g]
  BY DEF Closed, NetInv
<1>2. ConnectionsOnce' /\ backlog' \in Seq(Clients)
  BY <1>1, OnceKept
<1> QED
  BY <1>1, <1>2 DEF NetInv, OpenFds

\* An answer: the other connections are not touched.
LEMMA EchoKeeps ==
  ASSUME NetInv, NEW c \in Clients, NEW n \in 1..inb[c], ReadPieces(c, n), WritePieces(c, n),
         UNCHANGED <<place, backlog>>, fdt' = fdt \/ fdt' = AllClosed
  PROVE  /\ NetInv'
         /\ \A f \in Fds : fdt'[f] = fdt[f] /\ Ready(f) /\ fdt[f] # c => Ready(f)'
<1>1. /\ inb' \in [Clients -> Nat] /\ \A d \in Clients : d # c => inb'[d] = inb[d]
  BY DEF ReadPieces, NetInv
<1>2. outb' \in [Clients -> Nat]
  <2>1. outb' = outb \/ outb' = [outb EXCEPT ![c] = @ + n]
    BY DEF WritePieces, NetInv
  <2>2. outb[c] + n \in Nat
    BY DEF NetInv
  <2> QED
    BY <2>1, <2>2 DEF NetInv
<1>3. /\ peer' \in [Clients -> {"open", "fin", "rst", "broken"}]
      /\ \A d \in Clients : d # c => peer'[d] = peer[d]
  BY DEF WritePieces, ReportReset, NetInv
<1>4. /\ fdt' \in [Fds -> Clients \cup {Nobody}]
      /\ \A f \in Fds : fdt'[f] = fdt[f] \/ fdt'[f] = Nobody
  BY DEF AllClosed, NetInv
<1>5. ConnectionsOnce' /\ backlog' \in Seq(Clients)
  BY <1>4, OnceKept
<1>6. \A f \in Fds : fdt'[f] = fdt[f] /\ Ready(f) /\ fdt[f] # c => Ready(f)'
  BY <1>1, <1>3 DEF Ready, Readable, NetInv
<1> QED
  BY <1>1, <1>2, <1>3, <1>4, <1>5, <1>6 DEF NetInv

\* The process ends.
LEMMA ExitKeeps ==
  ASSUME NetInv, fdt' = AllClosed, UNCHANGED <<place, inb, outb, peer>>,
         backlog' = backlog \/ (backlog # <<>> /\ backlog' = Tail(backlog))
  PROVE  NetInv'
<1>1. /\ fdt' \in [Fds -> Clients \cup {Nobody}]
      /\ \A f \in Fds : fdt'[f] = fdt[f] \/ fdt'[f] = Nobody
  BY DEF AllClosed, NetInv
<1>2. ConnectionsOnce' /\ backlog' \in Seq(Clients)
  BY <1>1, OnceKept
<1> QED
  BY <1>1, <1>2 DEF NetInv

-----------------------------------------------------------------------------
(* The table                                                               *)

\* accept's result goes into a free entry.
LEMMA TableAccept ==
  ASSUME NEW n \in Nat, client \in [0..n-1 -> Fds \cup {NoFd}],
         maxi \in 0..n-1 \cup {-1}, TableMatchesKernel, Running,
         NEW e \in 0..n-1, client[e] = NoFd,
         NEW fd, client' = [client EXCEPT ![e] = fd],
         maxi' = (IF e > maxi THEN e ELSE maxi),
         \/ fd = NoFd /\ OpenFds' = OpenFds
         \/ fd \in Fds /\ fdt[fd] = Nobody /\ OpenFds' = OpenFds \cup {fd}
  PROVE  /\ TableMatchesKernel'
         /\ client' \in [0..n-1 -> Fds \cup {NoFd}] /\ maxi' \in 0..n-1
         /\ client'[e] = fd /\ \A k \in 0..n-1 : k # e => client'[k] = client[k]
<1>1. /\ client' \in [0..n-1 -> Fds \cup {NoFd}] /\ maxi' \in 0..n-1
      /\ client'[e] = fd /\ \A k \in 0..n-1 : k # e => client'[k] = client[k]
      /\ Table = 0..n-1 /\ Table' = 0..n-1
  BY DEF Table
<1>2. /\ OpenFds = {client[k] : k \in {l \in 0..n-1 : client[l] # NoFd}}
      /\ \A k, l \in 0..n-1 : client[k] = client[l] /\ client[k] # NoFd => k = l
      /\ \A k \in 0..n-1 : k > maxi => client[k] = NoFd
  BY <1>1 DEF TableMatchesKernel
<1>3. \A k \in 0..n-1 : client[k] # NoFd => client[k] \in OpenFds
  BY <1>2
<1>4. fd = NoFd \/ \A k \in 0..n-1 : client[k] # fd
  BY <1>3, ConstantFacts DEF OpenFds
<1>5. OpenFds' = {client'[k] : k \in {l \in 0..n-1 : client'[l] # NoFd}}
  <2>1. CASE fd = NoFd
    BY <1>1, <1>2, <2>1, ConstantFacts
  <2>2. CASE fd # NoFd
    <3>1. OpenFds' = OpenFds \cup {fd}
      BY <2>2
    <3>2. \A f \in OpenFds' : \E k \in 0..n-1 : client'[k] # NoFd /\ f = client'[k]
      BY <1>1, <1>2, <2>2, <3>1
    <3>3. \A k \in 0..n-1 : client'[k] # NoFd => client'[k] \in OpenFds'
      BY <1>1, <1>3, <3>1
    <3> QED
      BY <3>2, <3>3
  <2> QED
    BY <2>1, <2>2
<1>6. \A k, l \in 0..n-1 : client'[k] = client'[l] /\ client'[k] # NoFd => k = l
  BY <1>1, <1>2, <1>4
<1>7. \A k \in 0..n-1 : k > maxi' => client'[k] = NoFd
  BY <1>1, <1>2
<1> QED
  BY <1>1, <1>5, <1>6, <1>7 DEF TableMatchesKernel

\* The entry of a descriptor that is closed is cleared.
LEMMA TableDrop ==
  ASSUME NEW n \in Nat, client \in [0..n-1 -> Fds \cup {NoFd}], TableMatchesKernel, Running,
         NEW e \in 0..n-1, client[e] # NoFd,
         client' = [client EXCEPT ![e] = NoFd], maxi' = maxi,
         OpenFds' = OpenFds \ {client[e]}
  PROVE  /\ TableMatchesKernel'
         /\ client' \in [0..n-1 -> Fds \cup {NoFd}]
         /\ client'[e] = NoFd /\ \A k \in 0..n-1 : k # e => client'[k] = client[k]
<1>1. /\ client' \in [0..n-1 -> Fds \cup {NoFd}]
      /\ client'[e] = NoFd /\ \A k \in 0..n-1 : k # e => client'[k] = client[k]
      /\ Table = 0..n-1 /\ Table' = 0..n-1
  BY DEF Table
<1>2. /\ OpenFds = {client[k] : k \in {l \in 0..n-1 : client[l] # NoFd}}
      /\ \A k, l \in 0..n-1 : client[k] = client[l] /\ client[k] # NoFd => k = l
      /\ \A k \in 0..n-1 : k > maxi => client[k] = NoFd
  BY <1>1 DEF TableMatchesKernel
<1>3. OpenFds' = {client'[k] : k \in {l \in 0..n-1 : client'[l] # NoFd}}
  <2>1. \A f \in OpenFds' : \E k \in 0..n-1 : client'[k] # NoFd /\ f = client'[k]
    BY <1>1, <1>2
  <2>2. \A k \in 0..n-1 : client'[k] # NoFd => client'[k] \in OpenFds'
    BY <1>1, <1>2
  <2> QED
    BY <2>1, <2>2
<1>4. \A k, l \in 0..n-1 : client'[k] = client'[l] /\ client'[k] # NoFd => k = l
  BY <1>1, <1>2
<1>5. \A k \in 0..n-1 : k > maxi' => client'[k] = NoFd
  BY <1>1, <1>2
<1> QED
  BY <1>1, <1>3, <1>4, <1>5 DEF TableMatchesKernel

\* What is in the table is open, and every report has an entry of its own.
LEMMA TableHas ==
  ASSUME NEW n \in Nat, client \in [0..n-1 -> Fds \cup {NoFd}],
         maxi \in 0..n-1 \cup {-1}, TableMatchesKernel, Running
  PROVE  /\ \A k \in 0..n-1 : client[k] # NoFd =>
              client[k] \in Fds /\ client[k] \in OpenFds /\ k \in 0..maxi
         /\ \A k, l \in 0..n-1 : client[k] = client[l] /\ client[k] # NoFd => k = l
         /\ \A f \in OpenFds : \E k \in 0..maxi : client[k] = f /\ f # NoFd
<1>1. Table = 0..n-1
  BY DEF Table
<1>2. /\ OpenFds = {client[k] : k \in {l \in 0..n-1 : client[l] # NoFd}}
      /\ \A k, l \in 0..n-1 : client[k] = client[l] /\ client[k] # NoFd => k = l
      /\ \A k \in 0..n-1 : k > maxi => client[k] = NoFd
  BY <1>1 DEF TableMatchesKernel
<1>3. \A k \in 0..n-1 : client[k] # NoFd =>
        client[k] \in Fds /\ client[k] \in OpenFds /\ k \in 0..maxi
  BY <1>2
<1>4. \A f \in OpenFds : \E k \in 0..maxi : client[k] = f /\ f # NoFd
  BY <1>2, <1>3
<1> QED
  BY <1>2, <1>3, <1>4

\* The same after a step.
LEMMA TableHasNext ==
  ASSUME NEW n \in Nat, client' \in [0..n-1 -> Fds \cup {NoFd}],
         maxi' \in 0..n-1 \cup {-1}, TableMatchesKernel', Running'
  PROVE  /\ \A k \in 0..n-1 : client'[k] # NoFd =>
              client'[k] \in Fds /\ client'[k] \in OpenFds' /\ k \in 0..maxi'
         /\ \A k, l \in 0..n-1 : client'[k] = client'[l] /\ client'[k] # NoFd => k = l
         /\ \A f \in OpenFds' : \E k \in 0..maxi' : client'[k] = f /\ f # NoFd
<1>1. Table' = 0..n-1
  BY DEF Table
<1>2. /\ OpenFds' = {client'[k] : k \in {l \in 0..n-1 : client'[l] # NoFd}}
      /\ \A k, l \in 0..n-1 : client'[k] = client'[l] /\ client'[k] # NoFd => k = l
      /\ \A k \in 0..n-1 : k > maxi' => client'[k] = NoFd
  BY <1>1 DEF TableMatchesKernel
<1>3. \A k \in 0..n-1 : client'[k] # NoFd =>
        client'[k] \in Fds /\ client'[k] \in OpenFds' /\ k \in 0..maxi'
  BY <1>2
<1>4. \A f \in OpenFds' : \E k \in 0..maxi' : client'[k] = f /\ f # NoFd
  BY <1>2, <1>3
<1> QED
  BY <1>2, <1>3, <1>4

\* There are as many entries of some open descriptors as descriptors.
LEMMA EntriesOf ==
  ASSUME NEW m \in Int, NEW tab, NEW R,
         \A k, l \in 0..m : tab[k] = tab[l] /\ tab[k] # NoFd => k = l,
         \A f \in R : \E k \in 0..m : tab[k] = f /\ f # NoFd
  PROVE  Cardinality({k \in 0..m : tab[k] # NoFd /\ tab[k] \in R}) = Cardinality(R)
<1> DEFINE H == {k \in 0..m : tab[k] # NoFd /\ tab[k] \in R}
           entry == [k \in H |-> tab[k]]
<1>1. /\ \A k \in H : tab[k] \in R
      /\ \A k, l \in H : tab[k] = tab[l] => k = l
      /\ \A f \in R : \E k \in H : tab[k] = f
  OBVIOUS
<1>2. IsFiniteSet(H)
  <2>1. 0 \in Int
    OBVIOUS
  <2>2. IsFiniteSet(0..m)
    BY <2>1, FS_Interval
  <2> QED
    BY <2>2, FS_Subset
<1> HIDE DEF H
<1>3. entry \in Bijection(H, R)
  <2>1. entry \in [H -> R] /\ \A k \in H : entry[k] = tab[k]
    BY <1>1
  <2>2. /\ \A k, l \in H : entry[k] = entry[l] => k = l
        /\ \A f \in R : \E k \in H : entry[k] = f
    BY <1>1, <2>1
  <2> HIDE DEF entry
  <2> QED
    BY <2>1, <2>2 DEF Bijection, Injection, IsInjective, Surjection
<1>4. ExistsBijection(H, R)
  BY <1>3 DEF ExistsBijection
<1>5. Cardinality(R) = Cardinality(H)
  BY <1>2, <1>4, FS_Bijection
<1> QED
  BY <1>5 DEF H

\* The scan goes on behind the entry it has handled.
LEMMA ScanOn ==
  ASSUME NEW j \in Nat, NEW m \in Int, NEW H \in SUBSET (j..m), H # {}
  PROVE  /\ Least(H) \in H /\ Least(H) \in j..m
         /\ {k \in Least(H)+1..m : k \in H} = H \ {Least(H)}
         /\ Cardinality(H) \in Nat /\ Cardinality(H \ {Least(H)}) = Cardinality(H) - 1
<1> DEFINE e == Least(H)
<1>1. H \in SUBSET Nat
  OBVIOUS
<1>2. e \in H /\ \A l \in H : e <= l
  BY <1>1, LeastIsIn
<1> HIDE DEF e
<1>3. IsFiniteSet(H)
  <2>1. IsFiniteSet(j..m)
    BY FS_Interval
  <2> QED
    BY <2>1, FS_Subset
<1>4. e \in Nat /\ e \in j..m
  BY <1>2
<1>5. {k \in e+1..m : k \in H} = H \ {e}
  <2>1. \A k \in H : k # e => k \in e+1..m
    BY <1>2, <1>4
  <2>2. \A k \in e+1..m : k # e
    BY <1>4
  <2> QED
    BY <2>1, <2>2
<1>6. Cardinality(H) \in Nat /\ Cardinality(H \ {e}) = Cardinality(H) - 1
  BY <1>2, <1>3, FS_RemoveElement, FS_CardinalityType
<1> QED
  BY <1>2, <1>3, <1>4, <1>5, <1>6 DEF e

-----------------------------------------------------------------------------
(* The select server                                                       *)

\* The select server's names for what it shares with the others.
LEMMA SelectNames ==
  /\ Select!Nobody = Nobody /\ Select!NoFd = NoFd /\ Select!Fds = Fds
  /\ Select!Table = Table /\ Select!Table' = Table'
  /\ Select!OpenFds = OpenFds /\ Select!OpenFds' = OpenFds'
  /\ Select!Running = Running /\ Select!Running' = Running'
  /\ Select!AllClosed = AllClosed
  /\ \A f : Select!Ready(f) = Ready(f) /\ Select!Ready(f)' = Ready(f)'
  /\ \A c : Select!Readable(c) = Readable(c) /\ Select!Readable(c)' = Readable(c)'
  /\ \A f : Select!Closed(f) = Closed(f)
  /\ \A S : Select!Least(S) = Least(S)
BY DEF Select!Nobody, Nobody, Select!NoFd, NoFd, Select!Fds, Fds, Select!Table, Table,
       Select!OpenFds, OpenFds, Select!Running, Running, Select!AllClosed, AllClosed,
       Select!Ready, Ready, Select!Readable, Readable, Select!Closed, Closed,
       Select!Least, Least

LEMMA SelectCardinality == \A S : Select!Cardinality(S) = Cardinality(S)
BY Zenon DEF Select!Cardinality, Cardinality

LEMMA SelectStates ==
  /\ Select!NetInv = NetInv /\ Select!NetInv' = NetInv'
  /\ Select!TableTypeOK = TableTypeOK /\ Select!TableTypeOK' = TableTypeOK'
  /\ Select!TableMatchesKernel = TableMatchesKernel
  /\ Select!TableMatchesKernel' = TableMatchesKernel'
BY SelectNames
DEF Select!NetInv, NetInv, Select!ConnectionsOnce, ConnectionsOnce, Select!Queued, Queued,
    Select!Open, Open, Select!TableTypeOK, TableTypeOK,
    Select!TableMatchesKernel, TableMatchesKernel

LEMMA SelectSteps ==
  /\ \A c : Select!ClientStep(c) = ClientStep(c)
  /\ \A f : Select!Accept(f) = Accept(f)
  /\ \A c, n : /\ Select!ReadPieces(c, n) = ReadPieces(c, n)
               /\ Select!WritePieces(c, n) = WritePieces(c, n)
BY SelectNames
DEF Select!ClientStep, ClientStep, Select!Connect, Connect, Select!SendLine, SendLine,
    Select!ReadAnswer, ReadAnswer, Select!Quit, Quit, Select!Open, Open, Select!Queued, Queued,
    Select!Accept, Accept, Select!FreeFds, FreeFds, Select!ReadPieces, ReadPieces,
    Select!WritePieces, WritePieces, Select!ReportReset, ReportReset

\* The invariant in the names used here.
SelectHits == {k \in i..maxi : client[k] # NoFd /\ client[k] \in rset}

SelectInv ==
  /\ NetInv /\ TableTypeOK /\ TableMatchesKernel
  /\ pc \in {"select", "accept", "scan", "full", "killed"}
  /\ maxfd \in Fds \cup {-1} /\ allset \subseteq Fds /\ rset \subseteq Fds
  /\ Running => allset = OpenFds /\ \A f \in allset : f <= maxfd
  /\ pc = "accept" =>
       /\ i = 0 /\ backlog # <<>>
       /\ nready = Cardinality(rset) + 1 /\ \A f \in rset : Ready(f)
  /\ pc = "scan" =>
       /\ i \in 0..TableSize
       /\ nready = Cardinality(SelectHits) /\ \A k \in SelectHits : Ready(client[k])

LEMMA SelectIs ==
  /\ Select!IInv = SelectInv /\ Select!IInv' = SelectInv'
  /\ Select!Hits = SelectHits /\ Select!Hits' = SelectHits'
<1>1. Select!Hits = SelectHits /\ Select!Hits' = SelectHits'
  BY SelectNames DEF Select!Hits, SelectHits
<1>2. /\ Select!SetMatchesKernel = (Running => allset = OpenFds /\ \A f \in allset : f <= maxfd)
      /\ Select!SetMatchesKernel' =
           (Running' => allset' = OpenFds' /\ \A f \in allset' : f <= maxfd')
  BY SelectNames DEF Select!SetMatchesKernel
<1>3. /\ Select!ReadsDoNotBlock = (pc = "scan" => \A k \in SelectHits : Ready(client[k]))
      /\ Select!ReadsDoNotBlock' = (pc' = "scan" => \A k \in SelectHits' : Ready(client[k])')
  BY <1>1, SelectNames DEF Select!ReadsDoNotBlock, Ready
<1>4. /\ Select!ReportsCounted = (pc = "scan" => nready = Cardinality(SelectHits))
      /\ Select!ReportsCounted' = (pc' = "scan" => nready' = Cardinality(SelectHits'))
  BY <1>1, SelectCardinality DEF Select!ReportsCounted
<1> QED
  BY <1>1, <1>2, <1>3, <1>4, SelectNames, SelectCardinality, SelectStates
  DEF Select!IInv, SelectInv

\* Of the invariant, what follows when the server goes on.
LEMMA SelectFacts ==
  ASSUME SelectInv
  PROVE  /\ client \in [0..TableSize-1 -> Fds \cup {NoFd}]
         /\ Table = 0..TableSize-1 /\ TableSize \in Nat \ {0}
         /\ maxi \in 0..TableSize-1 \cup {-1} /\ maxi \in Int
         /\ Running <=> pc \in {"select", "accept", "scan"}
         /\ Running => allset = OpenFds
<1>1. client \in [0..TableSize-1 -> Fds \cup {NoFd}] /\ maxi \in Table \cup {-1}
  BY DEF SelectInv, TableTypeOK
<1>2. Table = 0..TableSize-1 /\ TableSize \in Nat \ {0}
  BY <1>1, ConstantFacts DEF Table
<1>3. maxi \in Int
  BY <1>1, <1>2
<1>4. Running <=> pc \in {"select", "accept", "scan"}
  BY DEF SelectInv, Running
<1>5. Running => allset = OpenFds
  BY DEF SelectInv
<1> QED
  BY <1>1, <1>2, <1>3, <1>4, <1>5

LEMMA SelectSelect ==
  ASSUME SelectInv, Select!Select
  PROVE  SelectInv'
<1>1. /\ pc = "select" /\ pc' \in {"accept", "scan"} /\ i' = 0
      /\ UNCHANGED <<netVars, client, maxi, maxfd, allset>>
      /\ pc' = "accept" <=> backlog # <<>>
  BY DEF Select!Select, Select!netVars, netVars
<1>2. Running /\ Running'
  BY <1>1 DEF Running
<1>3. /\ UNCHANGED <<place, inb, outb, peer, backlog, fdt>>
      /\ NetInv' /\ OpenFds' = OpenFds /\ Table' = Table
  <2>1. UNCHANGED <<place, inb, outb, peer, backlog, fdt>>
    BY <1>1 DEF netVars
  <2> QED
    BY <1>1, <2>1 DEF SelectInv, NetInv, ConnectionsOnce, Queued, Open, OpenFds, Table
<1>4. TableTypeOK' /\ TableMatchesKernel'
  BY <1>1, <1>2, <1>3 DEF SelectInv, TableTypeOK, TableMatchesKernel
<1>5. /\ rset' \in SUBSET OpenFds
      /\ \A f \in rset' : Ready(f)
      /\ nready' = Cardinality(rset') + (IF backlog # <<>> THEN 1 ELSE 0)
  <2>1. allset = OpenFds
    BY <1>2 DEF SelectInv
  <2> QED
    BY <2>1, SelectNames, SelectCardinality DEF Select!Select, Select!Monitored, Ready, Readable
<1>6. rset' \subseteq Fds /\ \A f \in rset' : Ready(f)'
  BY <1>3, <1>5 DEF OpenFds, Ready, Readable
<1>7. ASSUME pc' = "scan"
      PROVE  nready' = Cardinality(SelectHits') /\ \A k \in SelectHits' : Ready(client[k])'
  <2>1. SelectHits' = {k \in 0..maxi : client[k] # NoFd /\ client[k] \in rset'}
    BY <1>1 DEF SelectHits
  <2>2. /\ \A k, l \in 0..maxi : client[k] = client[l] /\ client[k] # NoFd => k = l
        /\ \A f \in rset' : \E k \in 0..maxi : client[k] = f /\ f # NoFd
    BY <1>2, <1>5, SelectFacts, TableHas DEF SelectInv
  <2>3. maxi \in Int
    BY SelectFacts
  <2>4. Cardinality(SelectHits') = Cardinality(rset')
    BY <2>1, <2>2, <2>3, EntriesOf
  <2>5. nready' = Cardinality(rset')
    <3>1. nready' = Cardinality(rset') + 0
      BY <1>1, <1>5, <1>7
    <3>2. Cardinality(rset') \in Nat
      <4>1. IsFiniteSet(Fds)
        <5>1. 0 \in Int /\ NumFds - 1 \in Int
          BY ConstantFacts
        <5> QED
          BY <5>1, FS_Interval DEF Fds
      <4> QED
        BY <1>6, <4>1, FS_Subset, FS_CardinalityType
    <3> QED
      BY <3>1, <3>2
  <2> QED
    BY <1>1, <1>6, <2>1, <2>4, <2>5
<1>8. pc' = "accept" => nready' = Cardinality(rset') + 1
  BY <1>1, <1>5
<1>9. Running' => allset' = OpenFds' /\ \A f \in allset' : f <= maxfd'
  BY <1>1, <1>2, <1>3 DEF SelectInv
<1>10. i' \in 0..TableSize
  BY <1>1, ConstantFacts
<1> QED
  BY <1>1, <1>3, <1>4, <1>6, <1>7, <1>8, <1>9, <1>10 DEF SelectInv

LEMMA SelectAccept ==
  ASSUME SelectInv, Select!AcceptClient
  PROVE  SelectInv'
<1> DEFINE e == Least(Select!FreeEntries)
<1>1. /\ pc = "accept" /\ Select!FreeEntries # {} /\ nready' = nready - 1
      /\ pc' = (IF nready = 1 THEN "select" ELSE "scan")
      /\ maxi' = (IF e > maxi THEN e ELSE maxi)
      /\ UNCHANGED <<place, inb, outb, peer, rset, i>>
  BY SelectNames DEF Select!AcceptClient
<1>2. PICK fd \in Fds \cup {NoFd} :
        /\ Accept(fd) /\ client' = [client EXCEPT ![e] = fd]
        /\ allset' = allset \cup ({fd} \ {NoFd})
        /\ maxfd' = (IF fd > maxfd THEN fd ELSE maxfd)
  BY SelectNames, SelectSteps DEF Select!AcceptClient
<1>3. e \in 0..TableSize-1 /\ client[e] = NoFd
  <2>1. Select!FreeEntries = {k \in 0..TableSize-1 : client[k] = NoFd}
    BY SelectNames, SelectFacts DEF Select!FreeEntries
  <2>2. Select!FreeEntries \in SUBSET Nat
    BY <2>1
  <2>3. e \in Select!FreeEntries
    BY <1>1, <2>2, LeastIsIn
  <2> QED
    BY <2>1, <2>3
<1> HIDE DEF e
<1>4. Running /\ Running' /\ backlog # <<>> /\ i = 0
  BY <1>1 DEF Running, SelectInv
<1>5. /\ NetInv'
      /\ \/ fd = NoFd /\ fdt' = fdt /\ OpenFds' = OpenFds
         \/ /\ fd \in Fds /\ fdt[fd] = Nobody /\ fdt'[fd] # Nobody
            /\ \A f \in Fds : f # fd => fdt'[f] = fdt[f]
            /\ OpenFds' = OpenFds \cup {fd}
  BY <1>1, <1>2, <1>4, AcceptKeeps DEF SelectInv
<1>6. /\ TableMatchesKernel'
      /\ client' \in [0..TableSize-1 -> Fds \cup {NoFd}] /\ maxi' \in 0..TableSize-1
  BY <1>1, <1>2, <1>3, <1>4, <1>5, SelectFacts, TableAccept DEF SelectInv
<1>7. TableTypeOK'
  BY <1>6 DEF TableTypeOK, Table
<1>8. /\ maxfd' \in Fds \cup {-1} /\ allset' \subseteq Fds
      /\ allset' = OpenFds' /\ \A f \in allset' : f <= maxfd'
  <2>1. /\ maxfd \in Fds \cup {-1} /\ allset \subseteq Fds
        /\ allset = OpenFds /\ \A f \in allset : f <= maxfd
    BY <1>4 DEF SelectInv
  <2>2. CASE fd = NoFd
    <3>1. allset' = allset /\ maxfd' = maxfd
      BY <1>2, <2>1, <2>2, ConstantFacts DEF NoFd
    <3> QED
      BY <1>5, <2>1, <2>2, <3>1, ConstantFacts
  <2>3. CASE fd # NoFd
    <3>1. fd \in Fds /\ allset' = allset \cup {fd} /\ OpenFds' = OpenFds \cup {fd}
      BY <1>2, <1>5, <2>3
    <3>2. maxfd' \in Fds \cup {-1} /\ fd <= maxfd' /\ maxfd <= maxfd'
      BY <1>2, <2>1, <3>1, ConstantFacts
    <3>3. \A f \in allset : f <= maxfd'
      BY <2>1, <3>2, ConstantFacts
    <3> QED
      BY <2>1, <3>1, <3>2, <3>3
  <2> QED
    BY <2>2, <2>3
<1>9. rset' \in SUBSET OpenFds' /\ \A f \in rset' : Ready(f)'
  <2>1. \A f \in rset : Ready(f) /\ f \in Fds
    BY <1>1 DEF SelectInv
  <2>2. \A f \in rset : fdt'[f] = fdt[f]
    BY <1>5, <2>1 DEF Ready
  <2> QED
    BY <1>1, <2>1, <2>2 DEF Ready, Readable, OpenFds
<1>10. nready' = Cardinality(rset')
  <2>1. nready = Cardinality(rset) + 1 /\ IsFiniteSet(rset)
    <3>1. 0 \in Int /\ NumFds - 1 \in Int
      BY ConstantFacts
    <3>2. IsFiniteSet(Fds)
      BY <3>1, FS_Interval DEF Fds
    <3> QED
      BY <1>1, <3>2, FS_Subset DEF SelectInv
  <2>2. Cardinality(rset) \in Nat
    BY <2>1, FS_CardinalityType
  <2> QED
    BY <1>1, <2>1, <2>2
<1>11. nready' = Cardinality(SelectHits') /\ \A k \in SelectHits' : Ready(client[k])'
  <2>1. SelectHits' = {k \in 0..maxi' : client'[k] # NoFd /\ client'[k] \in rset'}
    BY <1>1, <1>4 DEF SelectHits
  <2>2. maxi' \in Int /\ 0..maxi' \subseteq 0..TableSize-1
    BY <1>6, SelectFacts
  <2>3. /\ \A k, l \in 0..maxi' : client'[k] = client'[l] /\ client'[k] # NoFd => k = l
        /\ \A f \in rset' : \E k \in 0..maxi' : client'[k] = f /\ f # NoFd
    BY <1>4, <1>6, <1>9, <2>2, SelectFacts, TableHasNext
  <2>4. Cardinality(SelectHits') = Cardinality(rset')
    BY <2>1, <2>2, <2>3, EntriesOf
  <2> QED
    BY <1>9, <1>10, <2>1, <2>4
<1>12. pc' \in {"select", "scan"} /\ i' \in 0..TableSize /\ rset' \subseteq Fds
  BY <1>1, <1>4, ConstantFacts DEF SelectInv
<1> QED
  BY <1>5, <1>6, <1>7, <1>8, <1>11, <1>12 DEF SelectInv

\* A report is handled: that of the first entry.
LEMMA SelectScan ==
  ASSUME SelectInv, pc = "scan", SelectHits # {}, NEW k, k = Least(SelectHits)
  PROVE  /\ k \in 0..TableSize-1 /\ k \in SelectHits /\ client[k] # NoFd /\ client[k] \in Fds
         /\ Ready(client[k]) /\ fdt[client[k]] \in Clients /\ client[k] \in OpenFds
         /\ \A l \in SelectHits : /\ l # k => client[l] # client[k]
                                  /\ l # k => fdt[client[l]] # fdt[client[k]]
                                  /\ client[l] \in Fds /\ Ready(client[l])
                                  /\ l \in 0..TableSize-1
         /\ i \in Nat /\ i <= k
         /\ {l \in k+1..maxi : l \in SelectHits} = SelectHits \ {k}
         /\ Cardinality(SelectHits \ {k}) = nready - 1
<1>1. i \in Nat /\ maxi \in Int /\ SelectHits \in SUBSET (i..maxi)
  BY SelectFacts DEF SelectInv, SelectHits
<1>2. /\ k \in SelectHits /\ k \in i..maxi
      /\ {l \in k+1..maxi : l \in SelectHits} = SelectHits \ {k}
      /\ Cardinality(SelectHits \ {k}) = Cardinality(SelectHits) - 1
  BY <1>1, ScanOn
<1>3. nready = Cardinality(SelectHits) /\ \A l \in SelectHits : Ready(client[l])
  BY DEF SelectInv
<1>4. \A l \in SelectHits : l \in 0..TableSize-1 /\ client[l] # NoFd
  BY <1>1, SelectFacts DEF SelectHits
<1>5. Running
  BY SelectFacts
<1>6. /\ \A l \in 0..TableSize-1 : client[l] # NoFd => client[l] \in Fds /\ client[l] \in OpenFds
      /\ \A l, m \in 0..TableSize-1 : client[l] = client[m] /\ client[l] # NoFd => l = m
  BY <1>5, SelectFacts, TableHas DEF SelectInv
<1>7. \A f, g \in Fds : fdt[f] = fdt[g] /\ fdt[f] # Nobody => f = g
  BY DEF SelectInv, NetInv, ConnectionsOnce
<1>8. \A l \in SelectHits : /\ l # k => client[l] # client[k]
                            /\ l # k => fdt[client[l]] # fdt[client[k]]
                            /\ client[l] \in Fds
  BY <1>2, <1>3, <1>4, <1>6, <1>7 DEF Ready
<1>9. fdt[client[k]] \in Clients
  BY <1>2, <1>3, <1>8 DEF Ready, SelectInv, NetInv
<1>10. i \in Nat /\ i <= k
  BY <1>1, <1>2
<1> QED
  BY <1>2, <1>3, <1>4, <1>6, <1>8, <1>9, <1>10

LEMMA SelectEcho ==
  ASSUME SelectInv, Select!Echo
  PROVE  SelectInv'
<1> DEFINE k == Least(SelectHits)
           c == fdt[client[k]]
<1>1. /\ pc = "scan" /\ SelectHits # {}
      /\ \E n \in 1..inb[c] : ReadPieces(c, n) /\ WritePieces(c, n)
      /\ UNCHANGED <<place, backlog, client, maxi, maxfd, allset, rset>>
      /\ \/ pc' = "killed" /\ fdt' = AllClosed
         \/ /\ Select!Handled(k) /\ fdt' = fdt
  BY SelectNames, SelectIs, SelectSteps DEF Select!Echo
<1>2. /\ k \in 0..TableSize-1 /\ k \in SelectHits /\ client[k] \in Fds /\ c \in Clients
      /\ \A l \in SelectHits : /\ l # k => fdt[client[l]] # c
                               /\ client[l] \in Fds /\ Ready(client[l])
      /\ i \in Nat /\ i <= k
      /\ {l \in k+1..maxi : l \in SelectHits} = SelectHits \ {k}
      /\ Cardinality(SelectHits \ {k}) = nready - 1
  BY <1>1, SelectScan
<1> HIDE DEF k
<1>3. /\ NetInv'
      /\ \A f \in Fds : fdt'[f] = fdt[f] /\ Ready(f) /\ fdt[f] # c => Ready(f)'
  <2>1. PICK n \in 1..inb[c] : ReadPieces(c, n) /\ WritePieces(c, n)
    BY <1>1
  <2>2. fdt' = fdt \/ fdt' = AllClosed
    BY <1>1
  <2>3. NetInv /\ c \in Clients
    BY <1>2 DEF SelectInv
  <2> HIDE DEF c
  <2> QED
    BY <1>1, <2>1, <2>2, <2>3, EchoKeeps
<1>4. TableTypeOK'
  BY <1>1 DEF SelectInv, TableTypeOK, Table
<1>5. maxfd' \in Fds \cup {-1} /\ allset' \subseteq Fds /\ rset' \subseteq Fds
  BY <1>1 DEF SelectInv
<1>6. CASE pc' = "killed" /\ fdt' = AllClosed
  BY <1>3, <1>4, <1>5, <1>6 DEF SelectInv, Running, TableMatchesKernel
<1>7. CASE Select!Handled(k) /\ fdt' = fdt
  <2>1. nready' = nready - 1 /\ i' = k + 1 /\ pc' \in {"select", "scan"}
    BY <1>7 DEF Select!Handled
  <2>2. Running /\ Running' /\ OpenFds' = OpenFds
    BY <1>1, <1>7, <2>1 DEF Running, OpenFds
  <2>3. TableMatchesKernel' /\ allset' = OpenFds' /\ \A f \in allset' : f <= maxfd'
    BY <1>1, <2>2 DEF SelectInv, TableMatchesKernel, Table
  <2>4. i' \in 0..TableSize
    BY <1>2, <2>1, SelectFacts
  <2>5. SelectHits' = {l \in k+1..maxi : l \in SelectHits}
    <3>1. \A l \in k+1..maxi : l \in i..maxi
      BY <1>2, SelectFacts
    <3> QED
      BY <1>1, <2>1, <3>1 DEF SelectHits
  <2>6. SelectHits' = SelectHits \ {k} /\ nready' = Cardinality(SelectHits')
    BY <1>2, <2>1, <2>5
  <2>7. \A l \in SelectHits' : Ready(client[l])'
    BY <1>1, <1>2, <1>3, <1>7, <2>6
  <2> QED
    BY <1>3, <1>4, <1>5, <2>1, <2>2, <2>3, <2>4, <2>6, <2>7 DEF SelectInv
<1> QED
  BY <1>1, <1>6, <1>7

LEMMA SelectClose ==
  ASSUME SelectInv, Select!CloseClient
  PROVE  SelectInv'
<1> DEFINE k == Least(SelectHits)
           f == client[k]
<1>1. /\ pc = "scan" /\ SelectHits # {}
      /\ fdt' = Closed(f)
      /\ allset' = allset \ {f} /\ client' = [client EXCEPT ![k] = NoFd]
      /\ nready' = nready - 1 /\ i' = k + 1 /\ pc' \in {"select", "scan"}
      /\ UNCHANGED <<place, inb, outb, peer, backlog, maxi, maxfd, rset>>
  BY SelectNames, SelectIs DEF Select!CloseClient, Select!Drop, Select!Handled
<1>2. /\ k \in 0..TableSize-1 /\ k \in SelectHits /\ f # NoFd /\ f \in Fds
      /\ \A l \in SelectHits : /\ l # k => client[l] # f
                               /\ client[l] \in Fds /\ Ready(client[l])
                               /\ l \in 0..TableSize-1
      /\ i \in Nat /\ i <= k
      /\ {l \in k+1..maxi : l \in SelectHits} = SelectHits \ {k}
      /\ Cardinality(SelectHits \ {k}) = nready - 1
  BY <1>1, SelectScan
<1> HIDE DEF k
<1>3. Running /\ Running'
  BY <1>1 DEF Running
<1>4. /\ NetInv' /\ OpenFds' = OpenFds \ {f} /\ \A g \in Fds : g # f => fdt'[g] = fdt[g]
  <2>1. NetInv /\ f \in Fds /\ peer' \in [Clients -> {"open", "fin", "rst", "broken"}]
    BY <1>1, <1>2 DEF SelectInv, NetInv
  <2> HIDE DEF f
  <2> QED
    BY <1>1, <2>1, CloseKeeps
<1>5. /\ TableMatchesKernel' /\ client' \in [0..TableSize-1 -> Fds \cup {NoFd}]
      /\ client'[k] = NoFd /\ \A l \in 0..TableSize-1 : l # k => client'[l] = client[l]
  BY <1>1, <1>2, <1>3, <1>4, SelectFacts, TableDrop DEF SelectInv
<1>6. TableTypeOK'
  BY <1>1, <1>5, SelectFacts DEF TableTypeOK, Table
<1>7. /\ maxfd' \in Fds \cup {-1} /\ allset' \subseteq Fds /\ rset' \subseteq Fds
      /\ allset' = OpenFds' /\ \A g \in allset' : g <= maxfd'
  BY <1>1, <1>3, <1>4 DEF SelectInv
<1>8. i' \in 0..TableSize
  BY <1>1, <1>2, SelectFacts
<1>9. SelectHits' = SelectHits \ {k}
  <2>1. maxi \in 0..TableSize-1 \cup {-1} /\ TableSize \in Nat
    BY SelectFacts
  <2>2. \A l \in k+1..maxi : l \in i..maxi /\ l \in 0..TableSize-1 /\ l # k
    BY <1>2, <2>1
  <2>3. \A l \in k+1..maxi : client'[l] = client[l]
    BY <1>5, <2>2
  <2>4. SelectHits' = {l \in k+1..maxi : l \in SelectHits}
    BY <1>1, <2>2, <2>3 DEF SelectHits
  <2> QED
    BY <1>2, <2>4
<1>10. nready' = Cardinality(SelectHits')
  BY <1>1, <1>2, <1>9
<1>11. \A l \in SelectHits' : Ready(client[l])'
  <2>1. \A l \in SelectHits' : client'[l] = client[l] /\ fdt'[client[l]] = fdt[client[l]]
    BY <1>2, <1>4, <1>5, <1>9
  <2> QED
    BY <1>1, <1>2, <1>9, <2>1 DEF Ready, Readable
<1> QED
  BY <1>1, <1>4, <1>5, <1>6, <1>7, <1>8, <1>10, <1>11 DEF SelectInv

\* read returned -1: the connection stays, and the scan goes on.
LEMMA SelectIgnore ==
  ASSUME SelectInv, Select!IgnoreError
  PROVE  SelectInv'
<1> DEFINE k == Least(SelectHits)
           c == fdt[client[k]]
<1>1. /\ pc = "scan" /\ SelectHits # {}
      /\ peer' = [peer EXCEPT ![c] = "broken"]
      /\ nready' = nready - 1 /\ i' = k + 1 /\ pc' \in {"select", "scan"}
      /\ UNCHANGED <<place, inb, outb, backlog, fdt, client, maxi, maxfd, allset, rset>>
  BY SelectNames, SelectIs DEF Select!IgnoreError, Select!ReportReset, Select!Handled
<1>2. /\ k \in 0..TableSize-1 /\ k \in SelectHits /\ c \in Clients
      /\ \A l \in SelectHits : client[l] \in Fds /\ Ready(client[l])
      /\ i \in Nat /\ i <= k
      /\ {l \in k+1..maxi : l \in SelectHits} = SelectHits \ {k}
      /\ Cardinality(SelectHits \ {k}) = nready - 1
  BY <1>1, SelectScan
<1> HIDE DEF k, c
<1>3. Running /\ Running' /\ OpenFds' = OpenFds /\ Table' = Table
  BY <1>1 DEF Running, OpenFds, Table
<1>4. /\ peer' \in [Clients -> {"open", "fin", "rst", "broken"}]
      /\ \A d \in Clients : peer[d] # "open" => peer'[d] # "open"
  BY <1>1, <1>2 DEF SelectInv, NetInv
<1>5. NetInv'
  BY <1>1, <1>4 DEF SelectInv, NetInv, ConnectionsOnce, Queued, Open
<1>6. /\ TableTypeOK' /\ TableMatchesKernel'
      /\ maxfd' \in Fds \cup {-1} /\ allset' \subseteq Fds /\ rset' \subseteq Fds
      /\ allset' = OpenFds' /\ \A g \in allset' : g <= maxfd'
  BY <1>1, <1>3 DEF SelectInv, TableTypeOK, TableMatchesKernel
<1>7. i' \in 0..TableSize
  BY <1>1, <1>2, SelectFacts
<1>8. SelectHits' = SelectHits \ {k}
  <2>1. \A l \in k+1..maxi : l \in i..maxi
    BY <1>2, SelectFacts
  <2>2. SelectHits' = {l \in k+1..maxi : l \in SelectHits}
    BY <1>1, <2>1 DEF SelectHits
  <2> QED
    BY <1>2, <2>2
<1>9. nready' = Cardinality(SelectHits')
  BY <1>1, <1>2, <1>8
<1>10. \A l \in SelectHits' : Ready(client[l])'
  BY <1>1, <1>2, <1>4, <1>8 DEF Ready, Readable, SelectInv, NetInv
<1> QED
  BY <1>1, <1>5, <1>6, <1>7, <1>9, <1>10 DEF SelectInv

LEMMA SelectOthers ==
  ASSUME SelectInv, Select!TooManyClients \/ Select!ScanEnds
  PROVE  SelectInv'
<1>1. UNCHANGED <<place, inb, outb, peer, client, maxi, maxfd, allset, rset>>
  BY DEF Select!TooManyClients, Select!ScanEnds, Select!netVars
<1>2. /\ TableTypeOK' /\ maxfd' \in Fds \cup {-1} /\ allset' \subseteq Fds
      /\ rset' \subseteq Fds /\ Table' = Table
  BY <1>1 DEF SelectInv, TableTypeOK, Table
<1>3. CASE Select!TooManyClients
  <2>1. pc = "accept" /\ pc' = "full" /\ fdt' = AllClosed /\ backlog' = Tail(backlog)
    BY <1>3, SelectNames DEF Select!TooManyClients
  <2>2. NetInv'
    BY <1>1, <2>1, ExitKeeps DEF SelectInv
  <2> QED
    BY <1>2, <2>1, <2>2 DEF SelectInv, TableMatchesKernel, Running
<1>4. CASE Select!ScanEnds
  <2>1. pc = "scan" /\ pc' = "select" /\ UNCHANGED <<backlog, fdt>>
    BY <1>4 DEF Select!ScanEnds, Select!netVars
  <2>2. NetInv' /\ OpenFds' = OpenFds /\ Running /\ Running'
    BY <1>1, <2>1 DEF SelectInv, NetInv, ConnectionsOnce, Queued, Open, OpenFds, Running
  <2> QED
    BY <1>1, <1>2, <2>1, <2>2 DEF SelectInv, TableMatchesKernel
<1> QED
  BY <1>3, <1>4

LEMMA SelectClient ==
  ASSUME SelectInv, NEW c \in Clients, ClientStep(c),
         UNCHANGED <<client, maxi, pc, maxfd, allset, rset, nready, i>>
  PROVE  SelectInv'
<1>1. /\ NetInv' /\ fdt' = fdt
      /\ backlog # <<>> => backlog' # <<>>
      /\ \A f \in Fds : Ready(f) => Ready(f)'
  BY ClientKeeps DEF SelectInv
<1>2. OpenFds' = OpenFds /\ Table' = Table /\ (Running' <=> Running) /\ SelectHits' = SelectHits
  BY <1>1 DEF OpenFds, Table, Running, SelectHits
<1>3. TableTypeOK' /\ TableMatchesKernel'
  BY <1>2 DEF SelectInv, TableTypeOK, TableMatchesKernel
<1>4. pc' = "accept" => \A f \in rset' : Ready(f)'
  BY <1>1 DEF SelectInv
<1>5. pc' = "scan" => \A k \in SelectHits' : Ready(client[k])'
  <2>1. ASSUME pc = "scan", NEW k \in SelectHits
        PROVE  client[k] \in Fds /\ Ready(client[k])
    BY <2>1, SelectScan
  <2> QED
    BY <1>1, <1>2, <2>1
<1> QED
  BY <1>1, <1>2, <1>3, <1>4, <1>5 DEF SelectInv

LEMMA SelectStep ==
  ASSUME Select!IInv, Select!Next \/ UNCHANGED vars
  PROVE  Select!IInv'
<1>1. SelectInv
  BY SelectIs
<1>2. CASE UNCHANGED vars
  <2>1. /\ UNCHANGED <<place, inb, outb, peer, backlog, fdt>>
        /\ UNCHANGED <<client, maxi, pc, maxfd, allset, rset, nready, i>>
    BY <1>2 DEF vars, netVars, tabVars
  <2>2. NetInv' /\ OpenFds' = OpenFds /\ Table' = Table /\ (Running' <=> Running)
    BY <1>1, <2>1
    DEF SelectInv, NetInv, ConnectionsOnce, Queued, Open, OpenFds, Table, Running
  <2>3. SelectHits' = SelectHits /\ \A f : Ready(f)' <=> Ready(f)
    BY <2>1 DEF SelectHits, Ready, Readable
  <2>4. TableTypeOK' /\ TableMatchesKernel'
    BY <1>1, <2>1, <2>2 DEF SelectInv, TableTypeOK, TableMatchesKernel
  <2>5. SelectInv'
    BY <1>1, <2>1, <2>2, <2>3, <2>4 DEF SelectInv
  <2> QED
    BY <2>5, SelectIs
<1>3. CASE Select!Server
  <2>1. SelectInv'
    BY <1>1, <1>3, SelectSelect, SelectAccept, SelectEcho, SelectClose, SelectIgnore,
       SelectOthers DEF Select!Server
  <2> QED
    BY <2>1, SelectIs
<1>4. ASSUME NEW c \in Clients, Select!ClientStep(c),
             UNCHANGED <<Select!tabVars, pc, Select!srvVars>>
      PROVE  Select!IInv'
  <2>1. ClientStep(c) /\ UNCHANGED <<client, maxi, pc, maxfd, allset, rset, nready, i>>
    BY <1>4, SelectSteps DEF Select!tabVars, Select!srvVars
  <2>2. SelectInv'
    BY <1>1, <2>1, SelectClient
  <2> QED
    BY <2>2, SelectIs
<1> QED
  BY <1>2, <1>3, <1>4 DEF Select!Next

LEMMA NetInit0 ==
  ASSUME place = [c \in Clients |-> "off"], inb = [c \in Clients |-> 0],
         outb = [c \in Clients |-> 0], peer = [c \in Clients |-> "open"],
         backlog = <<>>, fdt = [f \in Fds |-> Nobody]
  PROVE  /\ NetInv /\ OpenFds = {}
<1>1. \A c \in Clients : ~Queued(c) /\ ~Open(c)
  BY ConstantFacts DEF Queued, Open
<1>2. ConnectionsOnce
  BY <1>1 DEF ConnectionsOnce
<1>3. OpenFds = {}
  BY DEF OpenFds
<1> QED
  BY <1>2, <1>3 DEF NetInv

LEMMA SelectInit == Select!Init => Select!IInv
<1> SUFFICES ASSUME Select!Init PROVE Select!IInv
  OBVIOUS
<1>1. /\ place = [c \in Clients |-> "off"] /\ inb = [c \in Clients |-> 0]
      /\ outb = [c \in Clients |-> 0] /\ peer = [c \in Clients |-> "open"]
      /\ backlog = <<>> /\ fdt = [f \in Fds |-> Nobody]
      /\ client = [k \in 0..TableSize-1 |-> NoFd] /\ maxi = -1
      /\ pc = "select" /\ maxfd = -1 /\ allset = {} /\ rset = {}
  BY SelectNames DEF Select!Init, Select!NetInit, Select!TableInit
<1>2. NetInv /\ OpenFds = {}
  BY <1>1, NetInit0
<1>3. TableTypeOK /\ TableMatchesKernel
  BY <1>1, <1>2 DEF TableTypeOK, TableMatchesKernel, Table
<1>4. SelectInv
  BY <1>1, <1>2, <1>3 DEF SelectInv
<1> QED
  BY <1>4, SelectIs

-----------------------------------------------------------------------------
(* The poll server                                                         *)

LEMMA PollNames ==
  /\ Poll!Nobody = Nobody /\ Poll!NoFd = NoFd /\ Poll!Fds = Fds /\ Poll!Listen = 0
  /\ Poll!Table = Table /\ Poll!Table' = Table'
  /\ Poll!OpenFds = OpenFds /\ Poll!OpenFds' = OpenFds'
  /\ Poll!Running = Running /\ Poll!Running' = Running'
  /\ Poll!AllClosed = AllClosed
  /\ \A f : Poll!Ready(f) = Ready(f) /\ Poll!Ready(f)' = Ready(f)'
  /\ \A c : Poll!Readable(c) = Readable(c) /\ Poll!Readable(c)' = Readable(c)'
  /\ \A f : Poll!Closed(f) = Closed(f)
  /\ \A S : Poll!Least(S) = Least(S)
BY DEF Poll!Nobody, Nobody, Poll!NoFd, NoFd, Poll!Fds, Fds, Poll!Table, Table,
       Poll!OpenFds, OpenFds, Poll!Running, Running, Poll!AllClosed, AllClosed,
       Poll!Ready, Ready, Poll!Readable, Readable, Poll!Closed, Closed,
       Poll!Least, Least, Poll!Listen

LEMMA PollStates ==
  /\ Poll!NetInv = NetInv /\ Poll!NetInv' = NetInv'
  /\ Poll!TableMatchesKernel = TableMatchesKernel
  /\ Poll!TableMatchesKernel' = TableMatchesKernel'
BY PollNames
DEF Poll!NetInv, NetInv, Poll!ConnectionsOnce, ConnectionsOnce, Poll!Queued, Queued,
    Poll!Open, Open, Poll!TableMatchesKernel, TableMatchesKernel

LEMMA PollSteps ==
  /\ \A c : Poll!ClientStep(c) = ClientStep(c)
  /\ \A f : Poll!Accept(f) = Accept(f)
  /\ \A c, n : /\ Poll!ReadPieces(c, n) = ReadPieces(c, n)
               /\ Poll!WritePieces(c, n) = WritePieces(c, n)
BY PollNames
DEF Poll!ClientStep, ClientStep, Poll!Connect, Connect, Poll!SendLine, SendLine,
    Poll!ReadAnswer, ReadAnswer, Poll!Quit, Quit, Poll!Open, Open, Poll!Queued, Queued,
    Poll!Accept, Accept, Poll!FreeFds, FreeFds, Poll!ReadPieces, ReadPieces,
    Poll!WritePieces, WritePieces, Poll!ReportReset, ReportReset

\* The invariant in the names used here.
PollHits == {k \in i..maxi : (k = 0 \/ client[k] # NoFd) /\ k \in revents}

PollInv ==
  /\ NetInv /\ TableMatchesKernel
  /\ client \in [0..3 -> Fds \cup {NoFd}] /\ client[0] = NoFd
  /\ maxi \in 0..3 /\ revents \subseteq 0..3
  /\ pc \in {"poll", "accept", "scan", "full", "failed", "killed"}
  /\ pc = "accept" => i = 0 /\ backlog # <<>> /\ 0 \in revents
  /\ pc = "scan" => /\ i \in 0..4
                    /\ 0 \in PollHits \/ \A k \in PollHits : Ready(client[k])

LEMMA PollIs ==
  /\ Poll!IInv = PollInv /\ Poll!IInv' = PollInv'
  /\ Poll!Hits = PollHits /\ Poll!Hits' = PollHits'
  /\ Poll!Hit = Least(PollHits)
<1>1. Poll!Hits = PollHits /\ Poll!Hits' = PollHits'
  BY PollNames DEF Poll!Hits, PollHits
<1>2. /\ Poll!TableTypeOK =
           (client \in [0..3 -> Fds \cup {NoFd}] /\ maxi \in Table \cup {-1})
      /\ Poll!TableTypeOK' =
           (client' \in [0..3 -> Fds \cup {NoFd}] /\ maxi' \in Table' \cup {-1})
  <2>1. 0..4-1 = 0..3
    OBVIOUS
  <2>2. Poll!TableTypeOK =
          (client \in [0..4-1 -> Fds \cup {NoFd}] /\ maxi \in Table \cup {-1})
    BY PollNames, Zenon DEF Poll!TableTypeOK
  <2>3. Poll!TableTypeOK' =
          (client' \in [0..4-1 -> Fds \cup {NoFd}] /\ maxi' \in Table' \cup {-1})
    BY PollNames, Zenon DEF Poll!TableTypeOK
  <2> QED
    BY <2>1, <2>2, <2>3
<1>3. /\ client \in [0..3 -> Fds \cup {NoFd}] => Table = 0..3
      /\ client' \in [0..3 -> Fds \cup {NoFd}] => Table' = 0..3
  BY DEF Table
<1>4. Poll!IInv = PollInv
  BY <1>1, <1>2, <1>3, PollNames, PollStates DEF Poll!IInv, PollInv
<1>5. Poll!IInv' = PollInv'
  BY <1>1, <1>2, <1>3, PollNames, PollStates DEF Poll!IInv, PollInv
<1>6. Poll!Hit = Least(PollHits)
  BY <1>1, PollNames DEF Poll!Hit
<1> QED
  BY <1>1, <1>4, <1>5, <1>6

LEMMA PollFacts ==
  ASSUME PollInv
  PROVE  /\ Table = 0..3 /\ maxi \in 0..3 /\ maxi \in 0..3 \cup {-1}
         /\ Running <=> pc \in {"poll", "accept", "scan"}
<1>1. Table = 0..3
  BY DEF PollInv, Table
<1> QED
  BY <1>1 DEF PollInv, Running

LEMMA PollPoll ==
  ASSUME PollInv, Poll!Poll
  PROVE  PollInv'
<1> DEFINE ready == {k \in 0..maxi : IF k = 0 THEN backlog # <<>>
                                     ELSE client[k] # NoFd /\ Readable(fdt[client[k]])}
<1>1. /\ pc = "poll" /\ i' = 0 /\ UNCHANGED <<netVars, client, maxi>>
      /\ revents' = (revents \ 0..maxi) \cup ready
      /\ pc' = (IF 0 \in ready THEN "accept" ELSE "scan")
  BY PollNames DEF Poll!Poll, Poll!Polled, Poll!netVars, netVars
<1>2. UNCHANGED <<place, inb, outb, peer, backlog, fdt>>
  BY <1>1 DEF netVars
<1>3. NetInv' /\ OpenFds' = OpenFds /\ Table' = Table /\ Running /\ Running'
  BY <1>1, <1>2
  DEF PollInv, NetInv, ConnectionsOnce, Queued, Open, OpenFds, Table, Running
<1>4. TableMatchesKernel'
  BY <1>1, <1>3 DEF PollInv, TableMatchesKernel
<1>5. revents' \subseteq 0..3 /\ maxi \in 0..3
  <2>1. maxi \in 0..3 /\ revents \subseteq 0..3
    BY DEF PollInv
  <2>2. ready \subseteq 0..3
    <3>1. ready \subseteq 0..maxi
      OBVIOUS
    <3> HIDE DEF ready
    <3> QED
      BY <2>1, <3>1
  <2> HIDE DEF ready
  <2> QED
    BY <1>1, <2>1, <2>2
<1>6. \A k \in 0..maxi : k # 0 /\ client[k] # NoFd /\ k \in revents' => Ready(client[k])'
  <2>1. \A k \in 0..maxi : k \in revents' => k \in ready
    BY <1>1
  <2>2. \A k \in 0..maxi : client[k] # NoFd => fdt[client[k]] # Nobody
    <3>1. \A k \in 0..3 : client[k] # NoFd => client[k] \in OpenFds
      BY <1>3, PollFacts, TableHas DEF PollInv
    <3> QED
      BY <1>5, <3>1 DEF OpenFds
  <2> QED
    BY <1>1, <1>2, <2>1, <2>2 DEF Ready, Readable
<1>7. CASE 0 \in ready
  BY <1>1, <1>2, <1>3, <1>4, <1>5, <1>7 DEF PollInv
<1>8. CASE 0 \notin ready
  <2>1. 0 \notin revents'
    BY <1>1, <1>5, <1>8
  <2>2. \A k \in PollHits' : Ready(client[k])'
    BY <1>1, <1>6, <2>1 DEF PollHits
  <2> QED
    BY <1>1, <1>3, <1>4, <1>5, <1>8, <2>2 DEF PollInv
<1> QED
  BY <1>7, <1>8

LEMMA PollAccept ==
  ASSUME PollInv, Poll!AcceptClient
  PROVE  PollInv'
<1> DEFINE e == Least(Poll!FreeEntries)
<1>1. /\ pc = "accept" /\ Poll!FreeEntries # {}
      /\ pc' \in {"poll", "scan"}
      /\ maxi' = (IF e > maxi THEN e ELSE maxi)
      /\ UNCHANGED <<place, inb, outb, peer, revents, i>>
  BY PollNames DEF Poll!AcceptClient
<1>2. PICK fd \in Fds \cup {NoFd} : Accept(fd) /\ client' = [client EXCEPT ![e] = fd]
  BY PollNames, PollSteps DEF Poll!AcceptClient
<1>3. e \in 0..3 /\ client[e] = NoFd /\ e # 0
  <2>1. Poll!FreeEntries = {k \in 0..3 \ {0} : client[k] = NoFd}
    BY PollNames, PollFacts DEF Poll!FreeEntries
  <2>2. Poll!FreeEntries \in SUBSET Nat
    BY <2>1
  <2>3. e \in Poll!FreeEntries
    BY <1>1, <2>2, LeastIsIn
  <2> QED
    BY <2>1, <2>3
<1> HIDE DEF e
<1>4. Running /\ Running' /\ backlog # <<>> /\ i = 0 /\ 0 \in revents
  BY <1>1 DEF Running, PollInv
<1>5. /\ NetInv'
      /\ \/ fd = NoFd /\ fdt' = fdt /\ OpenFds' = OpenFds
         \/ fd \in Fds /\ fdt[fd] = Nobody /\ OpenFds' = OpenFds \cup {fd}
  BY <1>1, <1>2, <1>4, AcceptKeeps DEF PollInv
<1>6. /\ TableMatchesKernel'
      /\ client' \in [0..3 -> Fds \cup {NoFd}] /\ maxi' \in 0..3
      /\ \A k \in 0..3 : k # e => client'[k] = client[k]
  <2>1. 4 - 1 = 3 /\ 4 \in Nat
    OBVIOUS
  <2> QED
    BY <1>1, <1>2, <1>3, <1>4, <1>5, <2>1, PollFacts, TableAccept DEF PollInv
<1>7. client'[0] = NoFd
  BY <1>3, <1>6 DEF PollInv
<1>8. 0 \in PollHits' /\ i' \in 0..4
  BY <1>1, <1>4, <1>6 DEF PollHits
<1> QED
  BY <1>1, <1>5, <1>6, <1>7, <1>8 DEF PollInv

\* The entry a client's report is handled in; that of listenfd was not reported.
LEMMA PollScan ==
  ASSUME PollInv, Poll!AtClientHit, NEW k, k = Least(PollHits)
  PROVE  /\ pc = "scan" /\ k \in 1..3 /\ k \in PollHits /\ i \in Nat /\ i <= k /\ k <= maxi
         /\ client[k] \in Fds /\ client[k] # NoFd /\ fdt[client[k]] \in Clients
         /\ Ready(client[k])
         /\ \A l \in PollHits : /\ l \in 0..3 /\ l # 0 /\ client[l] \in Fds /\ Ready(client[l])
                                /\ l # k => client[l] # client[k]
                                /\ l # k => fdt[client[l]] # fdt[client[k]]
<1>1. pc = "scan" /\ PollHits # {} /\ k # 0
  BY PollNames, PollIs DEF Poll!AtClientHit
<1>2. /\ i \in 0..4 /\ maxi \in 0..3
      /\ 0 \in PollHits \/ \A l \in PollHits : Ready(client[l])
  BY <1>1 DEF PollInv
<1>3. PollHits \in SUBSET (i..maxi) /\ PollHits \in SUBSET Nat
  BY <1>2 DEF PollHits
<1>4. k \in PollHits /\ \A l \in PollHits : k <= l
  BY <1>1, <1>3, LeastIsIn
<1>5. k \in i..maxi /\ k \in Nat
  BY <1>3, <1>4
<1>6. 0 \notin PollHits
  BY <1>1, <1>4, <1>5
<1>7. \A l \in PollHits : l \in 0..3 /\ l # 0 /\ client[l] # NoFd /\ Ready(client[l])
  BY <1>2, <1>3, <1>6 DEF PollHits
<1>8. Running
  BY <1>1 DEF Running
<1>9. /\ \A l \in 0..3 : client[l] # NoFd => client[l] \in Fds
      /\ \A l, m \in 0..3 : client[l] = client[m] /\ client[l] # NoFd => l = m
  <2>1. 4 - 1 = 3 /\ 4 \in Nat
    OBVIOUS
  <2>2. client \in [0..3 -> Fds \cup {NoFd}] /\ maxi \in 0..3 \cup {-1} /\ TableMatchesKernel
    BY PollFacts DEF PollInv
  <2> QED
    BY <1>8, <2>1, <2>2, TableHas
<1>10. \A f, g \in Fds : fdt[f] = fdt[g] /\ fdt[f] # Nobody => f = g
  BY DEF PollInv, NetInv, ConnectionsOnce
<1>11. \A l \in PollHits : /\ client[l] \in Fds
                           /\ l # k => client[l] # client[k]
                           /\ l # k => fdt[client[l]] # fdt[client[k]]
  BY <1>4, <1>7, <1>9, <1>10 DEF Ready
<1>12. fdt[client[k]] \in Clients
  BY <1>4, <1>7, <1>11 DEF Ready, PollInv, NetInv
<1> QED
  BY <1>1, <1>2, <1>4, <1>5, <1>7, <1>11, <1>12

LEMMA PollEcho ==
  ASSUME PollInv, Poll!Echo
  PROVE  PollInv'
<1> DEFINE k == Least(PollHits)
           c == fdt[client[k]]
<1>1. /\ Poll!AtClientHit
      /\ \E n \in 1..inb[c] : ReadPieces(c, n) /\ WritePieces(c, n)
      /\ UNCHANGED <<place, backlog, client, revents, maxi>>
      /\ \/ pc' = "killed" /\ fdt' = AllClosed
         \/ pc' \in {"poll", "scan"} /\ i' = k + 1 /\ fdt' = fdt
  BY PollNames, PollIs, PollSteps DEF Poll!Echo, Poll!Conn, Poll!Handled
<1>2. /\ pc = "scan" /\ k \in 1..3 /\ k \in PollHits /\ i \in Nat /\ i <= k /\ k <= maxi
      /\ c \in Clients
      /\ \A l \in PollHits : /\ client[l] \in Fds /\ Ready(client[l])
                             /\ l # k => fdt[client[l]] # c
  BY <1>1, PollScan
<1> HIDE DEF k
<1>3. /\ NetInv'
      /\ \A f \in Fds : fdt'[f] = fdt[f] /\ Ready(f) /\ fdt[f] # c => Ready(f)'
  <2>1. PICK n \in 1..inb[c] : ReadPieces(c, n) /\ WritePieces(c, n)
    BY <1>1
  <2>2. fdt' = fdt \/ fdt' = AllClosed
    BY <1>1
  <2>3. NetInv /\ c \in Clients
    BY <1>2 DEF PollInv
  <2> HIDE DEF c
  <2> QED
    BY <1>1, <2>1, <2>2, <2>3, EchoKeeps
<1>4. /\ client' \in [0..3 -> Fds \cup {NoFd}] /\ client'[0] = NoFd
      /\ maxi' \in 0..3 /\ revents' \subseteq 0..3
  BY <1>1 DEF PollInv
<1>5. CASE pc' = "killed" /\ fdt' = AllClosed
  BY <1>3, <1>4, <1>5 DEF PollInv, Running, TableMatchesKernel
<1>6. CASE pc' \in {"poll", "scan"} /\ i' = k + 1 /\ fdt' = fdt
  <2>1. Running /\ OpenFds' = OpenFds /\ Table' = Table
    BY <1>1, <1>2, <1>6 DEF Running, OpenFds, Table
  <2>2. TableMatchesKernel'
    BY <1>1, <2>1 DEF PollInv, TableMatchesKernel
  <2>3. i' \in 0..4
    BY <1>2, <1>6
  <2>4. PollHits' \subseteq PollHits \ {k}
    BY <1>1, <1>2, <1>6 DEF PollHits
  <2>5. \A l \in PollHits' : Ready(client[l])'
    BY <1>1, <1>2, <1>3, <1>6, <2>4
  <2> QED
    BY <1>3, <1>4, <1>6, <2>2, <2>3, <2>5 DEF PollInv
<1> QED
  BY <1>1, <1>5, <1>6

LEMMA PollClose ==
  ASSUME PollInv, Poll!CloseClient
  PROVE  PollInv'
<1> DEFINE k == Least(PollHits)
           f == client[k]
<1>1. /\ Poll!AtClientHit /\ fdt' = Closed(f) /\ client' = [client EXCEPT ![k] = NoFd]
      /\ i' = k + 1 /\ pc' \in {"poll", "scan"}
      /\ UNCHANGED <<place, inb, outb, backlog, maxi, revents>>
      /\ peer' = peer \/ peer' = [peer EXCEPT ![fdt[f]] = "broken"]
  BY PollNames, PollIs DEF Poll!CloseClient, Poll!Conn, Poll!Handled, Poll!ReportReset
<1>2. /\ pc = "scan" /\ k \in 1..3 /\ k \in PollHits /\ i \in Nat /\ i <= k /\ k <= maxi
      /\ f \in Fds /\ f # NoFd /\ fdt[f] \in Clients
      /\ \A l \in PollHits : /\ l \in 0..3 /\ l # 0 /\ client[l] \in Fds /\ Ready(client[l])
                             /\ l # k => client[l] # f
  BY <1>1, PollScan
<1> HIDE DEF k
<1>3. Running /\ Running'
  BY <1>1, <1>2 DEF Running
<1>4. /\ peer' \in [Clients -> {"open", "fin", "rst", "broken"}]
      /\ \A d \in Clients : peer[d] # "open" => peer'[d] # "open"
  BY <1>1, <1>2 DEF PollInv, NetInv
<1>5. /\ NetInv' /\ OpenFds' = OpenFds \ {f} /\ \A g \in Fds : g # f => fdt'[g] = fdt[g]
  <2>1. NetInv /\ f \in Fds
    BY <1>2 DEF PollInv
  <2> HIDE DEF f
  <2> QED
    BY <1>1, <1>4, <2>1, CloseKeeps
<1>6. /\ TableMatchesKernel' /\ client' \in [0..3 -> Fds \cup {NoFd}]
      /\ \A l \in 0..3 : l # k => client'[l] = client[l]
  <2>1. 4 - 1 = 3 /\ 4 \in Nat /\ k \in 0..3
    BY <1>2
  <2>2. client \in [0..3 -> Fds \cup {NoFd}] /\ TableMatchesKernel
    BY DEF PollInv
  <2> QED
    BY <1>1, <1>2, <1>3, <1>5, <2>1, <2>2, TableDrop
<1>7. client'[0] = NoFd /\ maxi' \in 0..3 /\ revents' \subseteq 0..3 /\ i' \in 0..4
  BY <1>1, <1>2, <1>6 DEF PollInv
<1>8. \A l \in PollHits' : Ready(client[l])'
  <2>1. \A l \in PollHits' : l \in k+1..maxi /\ l \in 0..3 /\ l \in revents
                             /\ (l = 0 \/ client'[l] # NoFd)
    BY <1>1, <1>2 DEF PollHits, PollInv
  <2>2. \A l \in PollHits' : l # k /\ client'[l] = client[l] /\ l \in PollHits
    BY <1>2, <1>6, <2>1 DEF PollHits
  <2>3. \A l \in PollHits' : fdt'[client[l]] = fdt[client[l]] /\ Ready(client[l])
                             /\ client[l] \in Fds
    BY <1>2, <1>5, <2>2
  <2> QED
    BY <1>1, <1>4, <2>2, <2>3 DEF Ready, Readable, PollInv, NetInv
<1> QED
  BY <1>1, <1>5, <1>6, <1>7, <1>8 DEF PollInv

LEMMA PollOthers ==
  ASSUME PollInv, Poll!TooManyClients \/ Poll!ReadListen \/ Poll!ScanEnds
  PROVE  PollInv'
<1>1. UNCHANGED <<place, inb, outb, peer, client, revents, maxi>>
  BY DEF Poll!TooManyClients, Poll!ReadListen, Poll!ScanEnds, Poll!netVars
<1>2. /\ client' \in [0..3 -> Fds \cup {NoFd}] /\ client'[0] = NoFd
      /\ maxi' \in 0..3 /\ revents' \subseteq 0..3 /\ Table' = Table
  BY <1>1 DEF PollInv, Table
<1>3. CASE Poll!TooManyClients \/ Poll!ReadListen
  <2>1. /\ pc' \in {"full", "failed"} /\ fdt' = AllClosed
        /\ backlog' = backlog \/ (backlog # <<>> /\ backlog' = Tail(backlog))
    BY <1>3, PollNames DEF Poll!TooManyClients, Poll!ReadListen, PollInv
  <2>2. NetInv'
    BY <1>1, <2>1, ExitKeeps DEF PollInv
  <2> QED
    BY <1>2, <2>1, <2>2 DEF PollInv, TableMatchesKernel, Running
<1>4. CASE Poll!ScanEnds
  <2>1. pc = "scan" /\ pc' = "poll" /\ UNCHANGED <<backlog, fdt>>
    BY <1>4 DEF Poll!ScanEnds, Poll!netVars
  <2>2. NetInv' /\ OpenFds' = OpenFds /\ Running
    BY <1>1, <2>1 DEF PollInv, NetInv, ConnectionsOnce, Queued, Open, OpenFds, Running
  <2> QED
    BY <1>1, <1>2, <2>1, <2>2 DEF PollInv, TableMatchesKernel
<1> QED
  BY <1>3, <1>4

\* A step of a client, or none.
LEMMA PollClient ==
  ASSUME PollInv, UNCHANGED <<client, maxi, pc, revents, i>>, NetInv', fdt' = fdt,
         backlog # <<>> => backlog' # <<>>, \A f \in Fds : Ready(f) => Ready(f)'
  PROVE  PollInv'
<1>1. OpenFds' = OpenFds /\ Table' = Table /\ (Running' <=> Running) /\ PollHits' = PollHits
  BY DEF OpenFds, Table, Running, PollHits
<1>2. TableMatchesKernel'
  BY <1>1 DEF PollInv, TableMatchesKernel
<1>3. pc = "scan" => 0 \in PollHits' \/ \A k \in PollHits' : Ready(client[k])'
  <2>1. ASSUME pc = "scan", 0 \notin PollHits, NEW k \in PollHits
        PROVE  client[k] \in Fds /\ Ready(client[k])
    BY <2>1 DEF PollInv, PollHits
  <2> QED
    BY <1>1, <2>1
<1> QED
  BY <1>1, <1>2, <1>3 DEF PollInv

LEMMA PollStep ==
  ASSUME Poll!IInv, Poll!Next \/ UNCHANGED vars
  PROVE  Poll!IInv'
<1>1. PollInv
  BY PollIs
<1>2. CASE UNCHANGED vars
  <2>1. /\ UNCHANGED <<place, inb, outb, peer, backlog, fdt>>
        /\ UNCHANGED <<client, maxi, pc, revents, i>>
    BY <1>2 DEF vars, netVars, tabVars
  <2>2. NetInv' /\ \A f : Ready(f) => Ready(f)'
    BY <1>1, <2>1 DEF PollInv, NetInv, ConnectionsOnce, Queued, Open, Ready, Readable
  <2>3. PollInv'
    BY <1>1, <2>1, <2>2, PollClient
  <2> QED
    BY <2>3, PollIs
<1>3. CASE Poll!Server
  <2>1. PollInv'
    BY <1>1, <1>3, PollPoll, PollAccept, PollEcho, PollClose, PollOthers DEF Poll!Server
  <2> QED
    BY <2>1, PollIs
<1>4. ASSUME NEW c \in Clients, Poll!ClientStep(c),
             UNCHANGED <<Poll!tabVars, pc, Poll!srvVars>>
      PROVE  Poll!IInv'
  <2>1. ClientStep(c) /\ UNCHANGED <<client, maxi, pc, revents, i>>
    BY <1>4, PollSteps DEF Poll!tabVars, Poll!srvVars
  <2>2. /\ NetInv' /\ fdt' = fdt
        /\ backlog # <<>> => backlog' # <<>>
        /\ \A f \in Fds : Ready(f) => Ready(f)'
    BY <1>1, <2>1, ClientKeeps DEF PollInv
  <2>3. PollInv'
    BY <1>1, <2>1, <2>2, PollClient
  <2> QED
    BY <2>3, PollIs
<1> QED
  BY <1>2, <1>3, <1>4 DEF Poll!Next

LEMMA PollInit == Poll!Init => Poll!IInv
<1> SUFFICES ASSUME Poll!Init PROVE Poll!IInv
  OBVIOUS
<1>1. 0..4-1 = 0..3
  OBVIOUS
<1>2. /\ place = [c \in Clients |-> "off"] /\ inb = [c \in Clients |-> 0]
      /\ outb = [c \in Clients |-> 0] /\ peer = [c \in Clients |-> "open"]
      /\ backlog = <<>> /\ fdt = [f \in Fds |-> Nobody]
      /\ client = [k \in 0..4-1 |-> NoFd] /\ maxi = 0 /\ revents \in SUBSET Table
      /\ pc = "poll"
  BY PollNames, Zenon DEF Poll!Init, Poll!NetInit, Poll!TableInit
<1>3. NetInv /\ OpenFds = {}
  BY <1>2, NetInit0
<1>4. client = [k \in 0..3 |-> NoFd] /\ Table = 0..3
  BY <1>1, <1>2 DEF Table
<1>5. TableMatchesKernel
  BY <1>2, <1>3, <1>4 DEF TableMatchesKernel
<1>6. PollInv
  BY <1>2, <1>3, <1>4, <1>5 DEF PollInv
<1> QED
  BY <1>6, PollIs

-----------------------------------------------------------------------------
(* The epoll server                                                        *)

LEMMA EpollNames ==
  /\ EpollReset!Nobody = Nobody /\ EpollReset!NoFd = NoFd /\ EpollReset!Fds = Fds
  /\ EpollReset!Listen = -2
  /\ EpollReset!Table = Table /\ EpollReset!Table' = Table'
  /\ EpollReset!OpenFds = OpenFds /\ EpollReset!OpenFds' = OpenFds'
  /\ EpollReset!Running = Running /\ EpollReset!Running' = Running'
  /\ EpollReset!AllClosed = AllClosed /\ EpollReset!FreeFds = FreeFds
  /\ \A f : EpollReset!Ready(f) = Ready(f) /\ EpollReset!Ready(f)' = Ready(f)'
  /\ \A c : EpollReset!Readable(c) = Readable(c) /\ EpollReset!Readable(c)' = Readable(c)'
  /\ \A c : EpollReset!AtEnd(c) = AtEnd(c) /\ EpollReset!AtReset(c) = AtReset(c)
  /\ \A f : EpollReset!Closed(f) = Closed(f)
  /\ \A S : EpollReset!Least(S) = Least(S)
BY DEF EpollReset!Nobody, Nobody, EpollReset!NoFd, NoFd, EpollReset!Fds, Fds,
       EpollReset!Table, Table, EpollReset!OpenFds, OpenFds, EpollReset!Running, Running,
       EpollReset!AllClosed, AllClosed, EpollReset!FreeFds, FreeFds,
       EpollReset!Ready, Ready, EpollReset!Readable, Readable, EpollReset!AtEnd, AtEnd,
       EpollReset!AtReset, AtReset, EpollReset!Closed, Closed,
       EpollReset!Least, Least, EpollReset!Listen

LEMMA EpollCardinality == \A S : EpollReset!Cardinality(S) = Cardinality(S)
BY Zenon DEF EpollReset!Cardinality, Cardinality

LEMMA EpollStates ==
  /\ EpollReset!NetInv = NetInv /\ EpollReset!NetInv' = NetInv'
  /\ EpollReset!TableTypeOK = TableTypeOK /\ EpollReset!TableTypeOK' = TableTypeOK'
  /\ EpollReset!TableMatchesKernel = TableMatchesKernel
  /\ EpollReset!TableMatchesKernel' = TableMatchesKernel'
BY EpollNames
DEF EpollReset!NetInv, NetInv, EpollReset!ConnectionsOnce, ConnectionsOnce,
    EpollReset!Queued, Queued, EpollReset!Open, Open, EpollReset!TableTypeOK, TableTypeOK,
    EpollReset!TableMatchesKernel, TableMatchesKernel

LEMMA EpollSteps ==
  /\ \A c : EpollReset!ClientStep(c) = ClientStep(c)
  /\ \A f : EpollReset!Accept(f) = Accept(f)
  /\ \A c, n : /\ EpollReset!ReadPieces(c, n) = ReadPieces(c, n)
               /\ EpollReset!WritePieces(c, n) = WritePieces(c, n)
BY EpollNames
DEF EpollReset!ClientStep, ClientStep, EpollReset!Connect, Connect,
    EpollReset!SendLine, SendLine, EpollReset!ReadAnswer, ReadAnswer, EpollReset!Quit, Quit,
    EpollReset!Open, Open, EpollReset!Queued, Queued, EpollReset!Accept, Accept,
    EpollReset!ReadPieces, ReadPieces, EpollReset!WritePieces, WritePieces,
    EpollReset!ReportReset, ReportReset

\* The invariant in the names used here, and what it has besides when connections are
\* ended in order.
EpollInv ==
  /\ NetInv /\ TableTypeOK
  /\ pc \in {"wait", "events", "full", "failed", "killed"}
  /\ watched \subseteq Fds /\ events \subseteq Fds \cup {-2}
  /\ Running => watched = OpenFds
  /\ Running => \A f \in OpenFds : \E k \in 0..maxi : client[k] = f
  /\ pc = "events" => /\ -2 \in events => backlog # <<>>
                      /\ i \in Nat /\ i + Cardinality(events) <= TableSize

Orderly ==
  /\ TableMatchesKernel
  /\ \A c \in Clients : peer[c] # "rst"
  /\ pc = "events" => \A f \in events \ {-2} : Ready(f)

LEMMA EpollIs ==
  /\ EpollReset!IInv = EpollInv /\ EpollReset!IInv' = EpollInv'
  /\ EpollReset!OrderlyIInv <=> EpollInv /\ Orderly
  /\ EpollReset!OrderlyIInv' <=> EpollInv' /\ Orderly'
<1>1. EpollReset!IInv = EpollInv
  BY EpollNames, EpollStates, EpollCardinality
  DEF EpollReset!IInv, EpollReset!SetMatchesKernel, EpollInv
<1>2. EpollReset!IInv' = EpollInv'
  BY EpollNames, EpollStates, EpollCardinality
  DEF EpollReset!IInv, EpollReset!SetMatchesKernel, EpollInv
<1>3. EpollReset!OrderlyIInv <=> EpollInv /\ Orderly
  BY <1>1, EpollNames, EpollStates
  DEF EpollReset!OrderlyIInv, EpollReset!ReadsDoNotBlock, Orderly, Ready
<1>4. EpollReset!OrderlyIInv' <=> EpollInv' /\ Orderly'
  BY <1>2, EpollNames, EpollStates
  DEF EpollReset!OrderlyIInv, EpollReset!ReadsDoNotBlock, Orderly, Ready
<1> QED
  BY <1>1, <1>2, <1>3, <1>4

LEMMA EpollFacts ==
  ASSUME EpollInv
  PROVE  /\ client \in [0..TableSize-1 -> Fds \cup {NoFd}]
         /\ Table = 0..TableSize-1 /\ TableSize \in Nat \ {0}
         /\ maxi \in 0..TableSize-1 \cup {-1} /\ maxi \in Int
         /\ Running <=> pc \in {"wait", "events"}
         /\ -2 \notin Fds
<1>1. client \in [0..TableSize-1 -> Fds \cup {NoFd}] /\ maxi \in Table \cup {-1}
  BY DEF EpollInv, TableTypeOK
<1>2. Table = 0..TableSize-1 /\ TableSize \in Nat \ {0} /\ -2 \notin Fds
  BY <1>1, ConstantFacts DEF Table
<1>3. maxi \in Int
  BY <1>1, <1>2
<1>4. Running <=> pc \in {"wait", "events"}
  BY DEF EpollInv, Running
<1> QED
  BY <1>1, <1>2, <1>3, <1>4

\* The events are numbered within the table.
LEMMA EventTaken ==
  ASSUME EpollInv, pc = "events", NEW e \in events
  PROVE  /\ i \in 0..TableSize-1
         /\ i + 1 \in Nat /\ i + 1 + Cardinality(events \ {e}) <= TableSize
<1>1. IsFiniteSet(events)
  <2>1. 0 \in Int /\ NumFds - 1 \in Int
    BY ConstantFacts
  <2>2. IsFiniteSet(Fds)
    BY <2>1, FS_Interval DEF Fds
  <2>3. IsFiniteSet(Fds \cup {-2})
    BY <2>2, FS_AddElement
  <2> QED
    BY <2>3, FS_Subset DEF EpollInv
<1>2. Cardinality(events) \in Nat /\ Cardinality(events \ {e}) = Cardinality(events) - 1
      /\ Cardinality(events \ {e}) \in Nat
  BY <1>1, FS_CardinalityType, FS_RemoveElement
<1>3. i \in Nat /\ i + Cardinality(events) <= TableSize /\ TableSize \in Nat
  BY EpollFacts DEF EpollInv
<1> HIDE DEF EpollInv
<1> QED
  BY <1>2, <1>3

LEMMA EpollWait ==
  ASSUME EpollInv, EpollReset!Wait \/ EpollReset!WaitAgain
  PROVE  EpollInv' /\ (Orderly => Orderly')
<1>1. UNCHANGED <<place, inb, outb, peer, backlog, fdt, client, maxi, watched>>
  BY DEF EpollReset!Wait, EpollReset!WaitAgain, EpollReset!netVars
<1>2. pc \in {"wait", "events"} /\ pc' \in {"wait", "events"}
  BY DEF EpollReset!Wait, EpollReset!WaitAgain
<1>3. NetInv' /\ OpenFds' = OpenFds /\ Table' = Table /\ Running /\ Running'
  BY <1>1, <1>2 DEF EpollInv, NetInv, ConnectionsOnce, Queued, Open, OpenFds, Table, Running
<1>4. /\ TableTypeOK' /\ watched' \subseteq Fds
      /\ watched' = OpenFds' /\ \A f \in OpenFds' : \E k \in 0..maxi' : client'[k] = f
  BY <1>1, <1>3 DEF EpollInv, TableTypeOK
<1>5. TableMatchesKernel => TableMatchesKernel'
  BY <1>1, <1>3 DEF TableMatchesKernel
<1>6. CASE EpollReset!WaitAgain
  <2>1. pc' = "wait" /\ events' = events
    BY <1>6 DEF EpollReset!WaitAgain
  <2> QED
    BY <1>1, <1>3, <1>4, <1>5, <2>1 DEF EpollInv, Orderly
<1>7. CASE EpollReset!Wait
  <2> DEFINE ready == {f \in watched : Readable(fdt[f])}
                        \cup (IF backlog # <<>> THEN {-2} ELSE {})
  <2>1. /\ pc' = "events" /\ i' = 0
        /\ events' \subseteq ready /\ Cardinality(events') <= TableSize
    BY <1>7, EpollNames, EpollCardinality DEF EpollReset!Wait
  <2>2. watched = OpenFds /\ -2 \notin Fds
    BY <1>3, EpollFacts DEF EpollInv
  <2>3. /\ events' \subseteq Fds \cup {-2}
        /\ -2 \in events' => backlog' # <<>>
        /\ \A f \in events' \ {-2} : Ready(f)'
    BY <1>1, <2>1, <2>2 DEF OpenFds, Ready, Readable
  <2>4. i' \in Nat /\ i' + Cardinality(events') <= TableSize
    <3>1. IsFiniteSet(events')
      <4>1. 0 \in Int /\ NumFds - 1 \in Int
        BY ConstantFacts
      <4>2. IsFiniteSet(Fds \cup {-2})
        BY <4>1, FS_Interval, FS_AddElement DEF Fds
      <4> QED
        BY <2>3, <4>2, FS_Subset
    <3>2. Cardinality(events') \in Nat
      BY <3>1, FS_CardinalityType
    <3> QED
      BY <2>1, <3>2
  <2> HIDE DEF ready
  <2> QED
    BY <1>1, <1>3, <1>4, <1>5, <2>1, <2>3, <2>4 DEF EpollInv, Orderly
<1> QED
  BY <1>6, <1>7

LEMMA EpollAccept ==
  ASSUME EpollInv, EpollReset!AcceptClient
  PROVE  EpollInv' /\ (Orderly => Orderly')
<1> DEFINE e == Least(EpollReset!FreeEntries)
<1>1. /\ pc = "events" /\ pc' = "events" /\ -2 \in events /\ EpollReset!FreeEntries # {}
      /\ events' = events \ {-2} /\ i' = i + 1
      /\ maxi' = (IF e > maxi THEN e ELSE maxi)
      /\ UNCHANGED <<place, inb, outb, peer>>
  BY EpollNames DEF EpollReset!AcceptClient, EpollReset!NextEvent
<1>2. PICK fd \in Fds : /\ Accept(fd) /\ client' = [client EXCEPT ![e] = fd]
                        /\ watched' = watched \cup {fd}
  BY EpollNames, EpollSteps DEF EpollReset!AcceptClient, EpollReset!Watch
<1>3. e \in 0..TableSize-1 /\ client[e] = NoFd
  <2>1. EpollReset!FreeEntries = {k \in 0..TableSize-1 : client[k] = NoFd}
    BY EpollNames, EpollFacts DEF EpollReset!FreeEntries
  <2>2. EpollReset!FreeEntries \in SUBSET Nat
    BY <2>1
  <2>3. e \in EpollReset!FreeEntries
    BY <1>1, <2>2, LeastIsIn
  <2> QED
    BY <2>1, <2>3
<1> HIDE DEF e
<1>4. Running /\ Running' /\ backlog # <<>>
  BY <1>1 DEF Running, EpollInv
<1>5. /\ NetInv' /\ fd # NoFd /\ fdt[fd] = Nobody
      /\ \A f \in Fds : f # fd => fdt'[f] = fdt[f]
      /\ OpenFds' = OpenFds \cup {fd}
  BY <1>1, <1>2, <1>4, AcceptKeeps, ConstantFacts DEF EpollInv
<1>6. /\ client' \in [0..TableSize-1 -> Fds \cup {NoFd}] /\ maxi' \in 0..TableSize-1
      /\ maxi' >= maxi /\ e <= maxi'
      /\ client'[e] = fd /\ \A k \in 0..TableSize-1 : k # e => client'[k] = client[k]
  BY <1>1, <1>2, <1>3, EpollFacts
<1>7. TableTypeOK'
  BY <1>6 DEF TableTypeOK, Table
<1>8. watched' \subseteq Fds /\ watched' = OpenFds'
  BY <1>2, <1>4, <1>5 DEF EpollInv
<1>9. \A f \in OpenFds' : \E k \in 0..maxi' : client'[k] = f
  <2>1. ASSUME NEW f \in OpenFds PROVE \E k \in 0..maxi' : client'[k] = f
    <3>1. PICK k \in 0..maxi : client[k] = f
      BY <1>4 DEF EpollInv
    <3>2. k \in 0..TableSize-1 /\ k \in 0..maxi'
      BY <1>6, EpollFacts
    <3>3. k # e
      BY <1>3, <3>1, ConstantFacts DEF OpenFds
    <3> QED
      BY <1>6, <3>1, <3>2, <3>3
  <2>2. \E k \in 0..maxi' : client'[k] = fd
    BY <1>3, <1>6
  <2> QED
    BY <1>5, <2>1, <2>2
<1>10. /\ events' \subseteq Fds \cup {-2} /\ -2 \notin events'
       /\ i' \in Nat /\ i' + Cardinality(events') <= TableSize
  <2>1. i + 1 \in Nat /\ i + 1 + Cardinality(events \ {-2}) <= TableSize
    BY <1>1, EventTaken
  <2> QED
    BY <1>1, <2>1 DEF EpollInv
<1>11. TableMatchesKernel => TableMatchesKernel'
  BY <1>1, <1>2, <1>3, <1>4, <1>5, EpollFacts, TableAccept
<1>12. ASSUME Orderly PROVE \A f \in events' \ {-2} : Ready(f)'
  <2>1. \A f \in events' \ {-2} : f \in Fds /\ Ready(f)
    BY <1>1, <1>12 DEF Orderly, EpollInv
  <2>2. \A f \in events' \ {-2} : fdt'[f] = fdt[f]
    BY <1>5, <2>1 DEF Ready
  <2> QED
    BY <1>1, <2>1, <2>2 DEF Ready, Readable
<1>13. EpollInv'
  BY <1>1, <1>5, <1>7, <1>8, <1>9, <1>10 DEF EpollInv
<1>14. Orderly => Orderly'
  BY <1>1, <1>11, <1>12 DEF Orderly
<1> QED
  BY <1>13, <1>14

\* The process ends: nothing is claimed of its table any more.
LEMMA EpollExit ==
  ASSUME EpollInv, NetInv', pc' \in {"full", "failed", "killed"}, watched' = {},
         UNCHANGED <<events, client, maxi>>
  PROVE  EpollInv' /\ TableMatchesKernel'
<1>1. ~Running'
  BY DEF Running
<1>2. TableTypeOK'
  BY DEF EpollInv, TableTypeOK, Table
<1> QED
  BY <1>1, <1>2 DEF EpollInv, TableMatchesKernel

LEMMA EpollFails ==
  ASSUME EpollInv, EpollReset!TooManyClients \/ \E f \in Fds : EpollReset!ReadFails(f)
  PROVE  EpollInv' /\ (Orderly => Orderly')
<1>1. /\ pc' \in {"full", "failed"} /\ fdt' = AllClosed /\ watched' = {}
      /\ UNCHANGED <<place, inb, outb, peer, backlog, events, client, maxi>>
  BY EpollNames DEF EpollReset!TooManyClients, EpollReset!ReadFails, EpollReset!Exit
<1>2. NetInv'
  BY <1>1, ExitKeeps DEF EpollInv
<1>3. EpollInv' /\ TableMatchesKernel'
  BY <1>1, <1>2, EpollExit
<1> QED
  BY <1>1, <1>3 DEF Orderly

LEMMA EpollEcho ==
  ASSUME EpollInv, NEW f \in Fds, EpollReset!Echo(f)
  PROVE  EpollInv' /\ (Orderly => Orderly')
<1> DEFINE c == fdt[f]
<1>1. /\ pc = "events" /\ f \in events /\ c # Nobody
      /\ \E n \in 1..inb[c] : ReadPieces(c, n) /\ WritePieces(c, n)
      /\ UNCHANGED <<place, backlog, client, maxi>>
      /\ \/ /\ pc' = "killed" /\ fdt' = AllClosed /\ watched' = {} /\ events' = events
         \/ /\ pc' = pc /\ events' = events \ {f} /\ i' = i + 1
            /\ UNCHANGED <<fdt, watched>>
  BY EpollNames, EpollSteps
  DEF EpollReset!Echo, EpollReset!AtEvent, EpollReset!Exit, EpollReset!NextEvent
<1>2. c \in Clients
  BY <1>1 DEF EpollInv, NetInv
<1>3. PICK n \in 1..inb[c] : ReadPieces(c, n) /\ WritePieces(c, n)
  BY <1>1
<1>4. \A d \in Clients : d # c => peer'[d] = peer[d]
  BY <1>2, <1>3 DEF EpollInv, NetInv, WritePieces, ReportReset
<1>5. (\A d \in Clients : peer[d] # "rst") => \A d \in Clients : peer'[d] # "rst"
  <2>1. peer[c] # "rst" => peer'[c] # "rst"
    BY <1>2, <1>3 DEF EpollInv, NetInv, WritePieces
  <2> QED
    BY <1>4, <2>1
<1>6. /\ NetInv'
      /\ \A g \in Fds : fdt'[g] = fdt[g] /\ Ready(g) /\ fdt[g] # c => Ready(g)'
  <2>1. fdt' = fdt \/ fdt' = AllClosed
    BY <1>1
  <2>2. NetInv
    BY DEF EpollInv
  <2> HIDE DEF c
  <2> QED
    BY <1>1, <1>2, <1>3, <2>1, <2>2, EchoKeeps
<1>7. CASE pc' = "killed" /\ fdt' = AllClosed /\ watched' = {} /\ events' = events
  <2>1. EpollInv' /\ TableMatchesKernel'
    BY <1>1, <1>6, <1>7, EpollExit
  <2> QED
    BY <1>5, <1>7, <2>1 DEF Orderly
<1>8. CASE /\ pc' = pc /\ events' = events \ {f} /\ i' = i + 1
           /\ UNCHANGED <<fdt, watched>>
  <2>1. Running /\ Running' /\ OpenFds' = OpenFds /\ Table' = Table
    BY <1>1, <1>8 DEF Running, OpenFds, Table
  <2>2. TableTypeOK' /\ (TableMatchesKernel => TableMatchesKernel')
    BY <1>1, <2>1 DEF EpollInv, TableTypeOK, TableMatchesKernel
  <2>3. i' \in Nat /\ i' + Cardinality(events') <= TableSize
    <3>1. i + 1 \in Nat /\ i + 1 + Cardinality(events \ {f}) <= TableSize
      BY <1>1, EventTaken
    <3> QED
      BY <1>8, <3>1
  <2>4. /\ events' \subseteq Fds \cup {-2} /\ -2 \in events' => backlog' # <<>>
        /\ watched' \subseteq Fds /\ watched' = OpenFds'
        /\ \A g \in OpenFds' : \E k \in 0..maxi' : client'[k] = g
    BY <1>1, <1>8, <2>1 DEF EpollInv
  <2>5. EpollInv'
    BY <1>1, <1>6, <1>8, <2>2, <2>3, <2>4 DEF EpollInv
  <2>6. ASSUME Orderly PROVE \A g \in events' \ {-2} : Ready(g)'
    <3>1. \A g \in events' \ {-2} : g \in Fds /\ g # f /\ Ready(g)
      BY <1>1, <1>8, <2>6 DEF Orderly, EpollInv
    <3>2. \A g \in events' \ {-2} : fdt[g] # c
      BY <1>1, <3>1 DEF EpollInv, NetInv, ConnectionsOnce
    <3> QED
      BY <1>6, <1>8, <3>1, <3>2
  <2>7. Orderly => Orderly'
    BY <1>1, <1>5, <1>8, <2>2, <2>6 DEF Orderly
  <2> QED
    BY <2>5, <2>7
<1> QED
  BY <1>1, <1>7, <1>8

LEMMA EpollClose ==
  ASSUME EpollInv, NEW f \in Fds, EpollReset!CloseClient(f)
  PROVE  EpollInv' /\ (Orderly => Orderly')
<1>1. /\ pc = "events" /\ pc' = "events" /\ f \in events /\ fdt[f] # Nobody
      /\ watched' = watched \ {f}
      /\ fdt' = (IF \E k \in 0..maxi : client[k] = f THEN Closed(f) ELSE fdt)
      /\ client' = [k \in Table |-> IF k <= maxi /\ client[k] = f THEN NoFd ELSE client[k]]
      /\ events' = events \ {f} /\ i' = i + 1
      /\ UNCHANGED <<place, inb, outb, peer, backlog, maxi>>
  BY EpollNames
  DEF EpollReset!CloseClient, EpollReset!AtEvent, EpollReset!NextEvent,
      EpollReset!ClosedFor, EpollReset!EntriesWithout
<1>2. Running /\ Running' /\ f \in OpenFds
  BY <1>1 DEF Running, OpenFds
<1>3. PICK e \in 0..maxi : client[e] = f
  BY <1>2 DEF EpollInv
<1>4. e \in 0..TableSize-1 /\ f # NoFd /\ 0..maxi \subseteq 0..TableSize-1
  BY <1>3, EpollFacts, ConstantFacts
<1>5. fdt' = Closed(f)
  BY <1>1, <1>3
<1>6. /\ NetInv' /\ OpenFds' = OpenFds \ {f} /\ \A g \in Fds : g # f => fdt'[g] = fdt[g]
  <2>1. peer' \in [Clients -> {"open", "fin", "rst", "broken"}] /\ NetInv
    BY <1>1 DEF EpollInv, NetInv
  <2> QED
    BY <1>1, <1>5, <2>1, CloseKeeps
<1>7. /\ client' \in [0..TableSize-1 -> Fds \cup {NoFd}]
      /\ \A k \in 0..TableSize-1 : client[k] # f => client'[k] = client[k]
      /\ \A k \in 0..maxi : client[k] = f => client'[k] = NoFd
  BY <1>1, <1>4, EpollFacts
<1>8. TableTypeOK'
  BY <1>1, <1>7, EpollFacts DEF TableTypeOK, Table
<1>9. \A g \in OpenFds' : \E k \in 0..maxi' : client'[k] = g
  <2>1. \A g \in OpenFds' : g # f /\ \E k \in 0..maxi : client[k] = g
    BY <1>2, <1>6 DEF EpollInv
  <2> QED
    BY <1>1, <1>4, <1>7, <2>1
<1>10. /\ watched' \subseteq Fds /\ watched' = OpenFds'
       /\ events' \subseteq Fds \cup {-2} /\ -2 \in events' => backlog' # <<>>
  BY <1>1, <1>2, <1>6 DEF EpollInv
<1>11. i' \in Nat /\ i' + Cardinality(events') <= TableSize
  <2>1. i + 1 \in Nat /\ i + 1 + Cardinality(events \ {f}) <= TableSize
    BY <1>1, EventTaken
  <2> QED
    BY <1>1, <2>1
<1>12. EpollInv'
  BY <1>1, <1>6, <1>8, <1>9, <1>10, <1>11 DEF EpollInv
<1>13. ASSUME TableMatchesKernel PROVE TableMatchesKernel'
  <2>1. \A k, l \in 0..TableSize-1 : client[k] = client[l] /\ client[k] # NoFd => k = l
    BY <1>2, <1>13, EpollFacts, TableHas
  <2>2. client' = [client EXCEPT ![e] = NoFd]
    <3>1. \A k \in 0..TableSize-1 : client'[k] = (IF k = e THEN NoFd ELSE client[k])
      BY <1>3, <1>4, <1>7, <2>1
    <3> QED
      BY <1>7, <3>1, EpollFacts
  <2>3. OpenFds' = OpenFds \ {client[e]} /\ client[e] # NoFd
    BY <1>3, <1>4, <1>6
  <2> QED
    BY <1>1, <1>2, <1>4, <1>13, <2>2, <2>3, EpollFacts, TableDrop
<1>14. ASSUME Orderly PROVE \A g \in events' \ {-2} : Ready(g)'
  <2>1. \A g \in events' \ {-2} : g \in Fds /\ g # f /\ Ready(g)
    BY <1>1, <1>14 DEF Orderly, EpollInv
  <2> QED
    BY <1>1, <1>6, <2>1 DEF Ready, Readable
<1>15. Orderly => Orderly'
  BY <1>1, <1>13, <1>14 DEF Orderly
<1> QED
  BY <1>12, <1>15

\* The reset of a connection closes the descriptor in the entry numbered like the event,
\* and the kernel stops watching that one.
LEMMA EpollAbort ==
  ASSUME EpollInv, NEW f \in Fds, EpollReset!AbortClient(f)
  PROVE  EpollInv' /\ ~Orderly
<1>1. /\ pc = "events" /\ pc' = "events" /\ f \in events /\ fdt[f] # Nobody
      /\ peer[fdt[f]] = "rst" /\ peer' = [peer EXCEPT ![fdt[f]] = "broken"]
      /\ fdt' = (IF client[i] = NoFd THEN fdt ELSE Closed(client[i]))
      /\ watched' = watched \ {client[i]}
      /\ events' = events \ {f} /\ i' = i + 1
      /\ UNCHANGED <<place, inb, outb, backlog, client, maxi>>
  BY EpollNames
  DEF EpollReset!AbortClient, EpollReset!AtEvent, EpollReset!NextEvent,
      EpollReset!ReportReset, AtReset
<1>2. fdt[f] \in Clients
  BY <1>1 DEF EpollInv, NetInv
<1>3. ~Orderly
  BY <1>1, <1>2 DEF Orderly
<1>4. i \in 0..TableSize-1 /\ i + 1 \in Nat /\ i + 1 + Cardinality(events \ {f}) <= TableSize
  BY <1>1, EventTaken
<1>5. client[i] \in Fds \cup {NoFd}
  BY <1>4, EpollFacts
<1>6. peer' \in [Clients -> {"open", "fin", "rst", "broken"}]
  BY <1>1 DEF EpollInv, NetInv
<1>7. NetInv' /\ OpenFds' = OpenFds \ {client[i]}
  <2>1. CASE client[i] = NoFd
    <3>1. fdt' = fdt
      BY <1>1, <2>1
    <3>2. NetInv'
      <4>1. ConnectionsOnce' /\ backlog' \in Seq(Clients)
        BY <1>1, <3>1, OnceKept DEF EpollInv, NetInv
      <4> QED
        BY <1>1, <1>6, <3>1, <4>1 DEF EpollInv, NetInv
    <3>3. OpenFds' = OpenFds /\ client[i] \notin OpenFds
      BY <2>1, <3>1, ConstantFacts DEF OpenFds
    <3> QED
      BY <3>2, <3>3
  <2>2. CASE client[i] # NoFd
    <3>1. client[i] \in Fds /\ fdt' = Closed(client[i]) /\ NetInv
      BY <1>1, <1>5, <2>2 DEF EpollInv
    <3> QED
      BY <1>1, <1>6, <3>1, CloseKeeps
  <2> QED
    BY <2>1, <2>2
<1>8. Running /\ Running'
  BY <1>1 DEF Running
<1>9. TableTypeOK'
  BY <1>1 DEF EpollInv, TableTypeOK, Table
<1>10. /\ watched' \subseteq Fds /\ watched' = OpenFds'
       /\ \A g \in OpenFds' : \E k \in 0..maxi' : client'[k] = g
       /\ events' \subseteq Fds \cup {-2} /\ -2 \in events' => backlog' # <<>>
  BY <1>1, <1>7, <1>8 DEF EpollInv
<1>11. i' \in Nat /\ i' + Cardinality(events') <= TableSize
  BY <1>1, <1>4
<1>12. EpollInv'
  BY <1>1, <1>7, <1>9, <1>10, <1>11 DEF EpollInv
<1> QED
  BY <1>3, <1>12

\* A step of a client, or none.
LEMMA EpollClient ==
  ASSUME EpollInv, UNCHANGED <<client, maxi, pc, watched, events, i>>, NetInv', fdt' = fdt,
         backlog # <<>> => backlog' # <<>>, \A f \in Fds : Ready(f) => Ready(f)'
  PROVE  /\ EpollInv'
         /\ Orderly /\ (\A c \in Clients : peer'[c] # "rst") => Orderly'
<1>1. OpenFds' = OpenFds /\ Table' = Table /\ (Running' <=> Running)
  BY DEF OpenFds, Table, Running
<1>2. TableTypeOK' /\ (TableMatchesKernel => TableMatchesKernel')
  BY <1>1 DEF EpollInv, TableTypeOK, TableMatchesKernel
<1>3. EpollInv'
  BY <1>1, <1>2 DEF EpollInv
<1>4. ASSUME Orderly, pc = "events" PROVE \A f \in events \ {-2} : Ready(f)'
  BY <1>4 DEF Orderly, EpollInv
<1> QED
  BY <1>2, <1>3, <1>4 DEF Orderly

LEMMA EpollServer ==
  ASSUME EpollInv, EpollReset!Server
  PROVE  EpollInv' /\ (Orderly => Orderly')
<1>1. CASE EpollReset!Wait \/ EpollReset!WaitAgain
  BY <1>1, EpollWait
<1>2. CASE EpollReset!AcceptClient
  BY <1>2, EpollAccept
<1>3. CASE EpollReset!TooManyClients \/ \E f \in Fds : EpollReset!ReadFails(f)
  BY <1>3, EpollFails
<1>4. ASSUME NEW f \in Fds,
             EpollReset!Echo(f) \/ EpollReset!CloseClient(f) \/ EpollReset!AbortClient(f)
      PROVE  EpollInv' /\ (Orderly => Orderly')
  BY <1>4, EpollEcho, EpollClose, EpollAbort
<1> QED
  BY <1>1, <1>2, <1>3, <1>4, EpollNames DEF EpollReset!Server

LEMMA EpollIdle ==
  ASSUME EpollInv, UNCHANGED vars
  PROVE  EpollInv' /\ (Orderly => Orderly')
<1>1. /\ UNCHANGED <<place, inb, outb, peer, backlog, fdt>>
      /\ UNCHANGED <<client, maxi, pc, watched, events, i>>
  BY DEF vars, netVars, tabVars
<1>2. NetInv' /\ \A f : Ready(f) => Ready(f)'
  BY <1>1 DEF EpollInv, NetInv, ConnectionsOnce, Queued, Open, Ready, Readable
<1>3. EpollInv' /\ (Orderly /\ (\A c \in Clients : peer'[c] # "rst") => Orderly')
  BY <1>1, <1>2, EpollClient
<1>4. Orderly => \A c \in Clients : peer'[c] # "rst"
  BY <1>1 DEF Orderly
<1> QED
  BY <1>3, <1>4

LEMMA EpollResetStep ==
  ASSUME EpollReset!IInv, EpollReset!Next \/ UNCHANGED vars
  PROVE  EpollReset!IInv'
<1>1. EpollInv
  BY EpollIs
<1>2. CASE UNCHANGED vars \/ EpollReset!Server
  BY <1>1, <1>2, EpollIdle, EpollServer, EpollIs
<1>3. ASSUME NEW c \in Clients, EpollReset!ClientStep(c),
             UNCHANGED <<EpollReset!tabVars, pc, EpollReset!srvVars>>
      PROVE  EpollReset!IInv'
  <2>1. ClientStep(c) /\ UNCHANGED <<client, maxi, pc, watched, events, i>>
    BY <1>3, EpollSteps DEF EpollReset!tabVars, EpollReset!srvVars
  <2>2. /\ NetInv' /\ fdt' = fdt
        /\ backlog # <<>> => backlog' # <<>>
        /\ \A f \in Fds : Ready(f) => Ready(f)'
    BY <1>1, <2>1, ClientKeeps DEF EpollInv
  <2>3. EpollInv'
    BY <1>1, <2>1, <2>2, EpollClient
  <2> QED
    BY <2>3, EpollIs
<1> QED
  BY <1>2, <1>3 DEF EpollReset!Next

\* The epoll server whose clients end their connections in order: what it does is also
\* possible with resets.
LEMMA OrderlyNames ==
  /\ Epoll!Nobody = Nobody /\ Epoll!NoFd = NoFd /\ Epoll!Fds = Fds /\ Epoll!Listen = -2
  /\ Epoll!Table = Table /\ Epoll!Table' = Table'
  /\ Epoll!OpenFds = OpenFds /\ Epoll!OpenFds' = OpenFds'
  /\ Epoll!Running = Running /\ Epoll!Running' = Running'
  /\ Epoll!AllClosed = AllClosed /\ Epoll!FreeFds = FreeFds
  /\ \A c : Epoll!Readable(c) = Readable(c) /\ Epoll!Readable(c)' = Readable(c)'
  /\ \A c : Epoll!AtEnd(c) = AtEnd(c) /\ Epoll!AtReset(c) = AtReset(c)
  /\ \A f : Epoll!Closed(f) = Closed(f)
  /\ \A S : Epoll!Least(S) = Least(S)
BY DEF Epoll!Nobody, Nobody, Epoll!NoFd, NoFd, Epoll!Fds, Fds, Epoll!Table, Table,
       Epoll!OpenFds, OpenFds, Epoll!Running, Running, Epoll!AllClosed, AllClosed,
       Epoll!FreeFds, FreeFds, Epoll!Readable, Readable, Epoll!AtEnd, AtEnd,
       Epoll!AtReset, AtReset, Epoll!Closed, Closed, Epoll!Least, Least, Epoll!Listen

LEMMA OrderlyCardinality == \A S : Epoll!Cardinality(S) = Cardinality(S)
BY Zenon DEF Epoll!Cardinality, Cardinality

LEMMA OrderlyStates ==
  /\ Epoll!NetInv = NetInv /\ Epoll!NetInv' = NetInv'
  /\ Epoll!TableTypeOK = TableTypeOK /\ Epoll!TableTypeOK' = TableTypeOK'
  /\ Epoll!TableMatchesKernel = TableMatchesKernel
  /\ Epoll!TableMatchesKernel' = TableMatchesKernel'
BY OrderlyNames
DEF Epoll!NetInv, NetInv, Epoll!ConnectionsOnce, ConnectionsOnce, Epoll!Queued, Queued,
    Epoll!Open, Open, Epoll!TableTypeOK, TableTypeOK,
    Epoll!TableMatchesKernel, TableMatchesKernel

LEMMA OrderlyIs ==
  /\ Epoll!OrderlyIInv <=> EpollInv /\ Orderly
  /\ Epoll!OrderlyIInv' <=> EpollInv' /\ Orderly'
<1>1. Epoll!IInv = EpollInv
  BY OrderlyNames, OrderlyStates, OrderlyCardinality
  DEF Epoll!IInv, Epoll!SetMatchesKernel, EpollInv
<1>2. Epoll!IInv' = EpollInv'
  BY OrderlyNames, OrderlyStates, OrderlyCardinality
  DEF Epoll!IInv, Epoll!SetMatchesKernel, EpollInv
<1>3. Epoll!OrderlyIInv <=> EpollInv /\ Orderly
  BY <1>1, OrderlyNames, OrderlyStates
  DEF Epoll!OrderlyIInv, Epoll!ReadsDoNotBlock, Orderly, Ready
<1>4. Epoll!OrderlyIInv' <=> EpollInv' /\ Orderly'
  BY <1>2, OrderlyNames, OrderlyStates
  DEF Epoll!OrderlyIInv, Epoll!ReadsDoNotBlock, Orderly, Ready
<1> QED
  BY <1>3, <1>4

LEMMA OrderlyClient ==
  ASSUME NetInv, NEW c \in Clients, Epoll!ClientStep(c),
         \A d \in Clients : peer[d] # "rst"
  PROVE  ClientStep(c) /\ \A d \in Clients : peer'[d] # "rst"
<1>1. /\ Epoll!Connect(c) => Connect(c) /\ peer' = peer
      /\ Epoll!SendLine(c) => SendLine(c) /\ peer' = peer
      /\ Epoll!ReadAnswer(c) => ReadAnswer(c) /\ peer' = peer
  BY OrderlyNames
  DEF Epoll!Connect, Connect, Epoll!SendLine, SendLine, Epoll!ReadAnswer, ReadAnswer,
      Epoll!Open, Open, Epoll!Queued, Queued
<1>2. Epoll!Quit(c) => Quit(c) /\ peer' = [peer EXCEPT ![c] = "fin"]
  BY DEF Epoll!Quit, Quit
<1>3. ClientStep(c) /\ (peer' = peer \/ peer' = [peer EXCEPT ![c] = "fin"])
  BY <1>1, <1>2 DEF Epoll!ClientStep, ClientStep
<1> QED
  BY <1>3 DEF NetInv

LEMMA OrderlySteps ==
  /\ \A f : Epoll!Accept(f) = EpollReset!Accept(f)
  /\ \A c, n : /\ Epoll!ReadPieces(c, n) = EpollReset!ReadPieces(c, n)
               /\ Epoll!WritePieces(c, n) => EpollReset!WritePieces(c, n)
<1>1. \A f : Epoll!Accept(f) = EpollReset!Accept(f)
  BY OrderlyNames, EpollNames DEF Epoll!Accept, EpollReset!Accept
<1>2. \A c, n : Epoll!ReadPieces(c, n) = EpollReset!ReadPieces(c, n)
  BY DEF Epoll!ReadPieces, EpollReset!ReadPieces
<1>3. \A c, n : Epoll!WritePieces(c, n) => EpollReset!WritePieces(c, n)
  BY DEF Epoll!WritePieces, EpollReset!WritePieces, Epoll!ReportReset, EpollReset!ReportReset
<1> QED
  BY <1>1, <1>2, <1>3

LEMMA OrderlyServer == Epoll!Server => EpollReset!Server
<1>1. Epoll!Wait => EpollReset!Wait
  BY OrderlyNames, EpollNames, OrderlyCardinality, EpollCardinality
  DEF Epoll!Wait, EpollReset!Wait, Epoll!netVars, EpollReset!netVars
<1>2. Epoll!WaitAgain => EpollReset!WaitAgain
  BY DEF Epoll!WaitAgain, EpollReset!WaitAgain, Epoll!netVars, EpollReset!netVars
<1>3. Epoll!FreeEntries = EpollReset!FreeEntries
  BY OrderlyNames, EpollNames DEF Epoll!FreeEntries, EpollReset!FreeEntries
<1>4. Epoll!AcceptClient => EpollReset!AcceptClient
  BY <1>3, OrderlyNames, EpollNames, OrderlySteps
  DEF Epoll!AcceptClient, EpollReset!AcceptClient, Epoll!NextEvent, EpollReset!NextEvent,
      Epoll!Watch, EpollReset!Watch
<1>5. \A how : Epoll!Exit(how) = EpollReset!Exit(how)
  BY OrderlyNames, EpollNames DEF Epoll!Exit, EpollReset!Exit
<1>6. Epoll!TooManyClients => EpollReset!TooManyClients
  BY <1>3, <1>5, OrderlyNames, EpollNames
  DEF Epoll!TooManyClients, EpollReset!TooManyClients
<1>7. ASSUME NEW f \in Fds
      PROVE  /\ Epoll!Echo(f) => EpollReset!Echo(f)
             /\ Epoll!CloseClient(f) => EpollReset!CloseClient(f)
             /\ Epoll!AbortClient(f) => EpollReset!AbortClient(f)
             /\ Epoll!ReadFails(f) => EpollReset!ReadFails(f)
  <2>1. Epoll!AtEvent(f) = EpollReset!AtEvent(f)
    BY DEF Epoll!AtEvent, EpollReset!AtEvent
  <2>2. \A e : Epoll!NextEvent(e) = EpollReset!NextEvent(e)
    BY DEF Epoll!NextEvent, EpollReset!NextEvent
  <2>3. Epoll!Echo(f) => EpollReset!Echo(f)
    BY <1>5, <2>1, <2>2, OrderlyNames, EpollNames, OrderlySteps
    DEF Epoll!Echo, EpollReset!Echo, Epoll!Deadly, EpollReset!Deadly
  <2>4. Epoll!CloseClient(f) => EpollReset!CloseClient(f)
    BY <2>1, <2>2, OrderlyNames, EpollNames
    DEF Epoll!CloseClient, EpollReset!CloseClient, Epoll!ClosedFor, EpollReset!ClosedFor,
        Epoll!EntriesWithout, EpollReset!EntriesWithout
  <2>5. Epoll!AbortClient(f) => EpollReset!AbortClient(f)
    BY <2>1, <2>2, OrderlyNames, EpollNames
    DEF Epoll!AbortClient, EpollReset!AbortClient, Epoll!ReportReset, EpollReset!ReportReset
  <2>6. Epoll!ReadFails(f) => EpollReset!ReadFails(f)
    BY <1>5, <2>1, OrderlyNames, EpollNames DEF Epoll!ReadFails, EpollReset!ReadFails
  <2> QED
    BY <2>3, <2>4, <2>5, <2>6
<1> QED
  BY <1>1, <1>2, <1>4, <1>6, <1>7, OrderlyNames, EpollNames
  DEF Epoll!Server, EpollReset!Server

LEMMA OrderlyStep ==
  ASSUME Epoll!OrderlyIInv, Epoll!Next \/ UNCHANGED vars
  PROVE  Epoll!OrderlyIInv'
<1>1. EpollInv /\ Orderly
  BY OrderlyIs
<1>2. CASE UNCHANGED vars \/ Epoll!Server
  BY <1>1, <1>2, EpollIdle, EpollServer, OrderlyServer, OrderlyIs
<1>3. ASSUME NEW c \in Clients, Epoll!ClientStep(c),
             UNCHANGED <<Epoll!tabVars, pc, Epoll!srvVars>>
      PROVE  Epoll!OrderlyIInv'
  <2>1. /\ ClientStep(c) /\ \A d \in Clients : peer'[d] # "rst"
        /\ UNCHANGED <<client, maxi, pc, watched, events, i>>
    BY <1>1, <1>3, OrderlyClient DEF Epoll!tabVars, Epoll!srvVars, EpollInv, Orderly
  <2>2. /\ NetInv' /\ fdt' = fdt
        /\ backlog # <<>> => backlog' # <<>>
        /\ \A f \in Fds : Ready(f) => Ready(f)'
    BY <1>1, <2>1, ClientKeeps DEF EpollInv
  <2>3. EpollInv' /\ Orderly'
    BY <1>1, <2>1, <2>2, EpollClient
  <2> QED
    BY <2>3, OrderlyIs
<1> QED
  BY <1>2, <1>3 DEF Epoll!Next

LEMMA EpollStart ==
  ASSUME place = [c \in Clients |-> "off"], inb = [c \in Clients |-> 0],
         outb = [c \in Clients |-> 0], peer = [c \in Clients |-> "open"],
         backlog = <<>>, fdt = [f \in Fds |-> Nobody],
         client = [k \in 0..TableSize-1 |-> NoFd], maxi = -1,
         pc = "wait", watched = {}, events = {}
  PROVE  EpollInv /\ Orderly
<1>1. NetInv /\ OpenFds = {}
  BY NetInit0
<1>2. TableTypeOK /\ TableMatchesKernel
  BY <1>1 DEF TableTypeOK, TableMatchesKernel, Table
<1> QED
  BY <1>1, <1>2 DEF EpollInv, Orderly

LEMMA EpollInits ==
  /\ Epoll!Init => Epoll!OrderlyIInv
  /\ EpollReset!Init => EpollReset!IInv
<1>1. ASSUME Epoll!Init PROVE EpollInv /\ Orderly
  BY <1>1, OrderlyNames, EpollStart DEF Epoll!Init, Epoll!NetInit, Epoll!TableInit
<1>2. ASSUME EpollReset!Init PROVE EpollInv
  BY <1>2, EpollNames, EpollStart
  DEF EpollReset!Init, EpollReset!NetInit, EpollReset!TableInit
<1> QED
  BY <1>1, <1>2, OrderlyIs, EpollIs

-----------------------------------------------------------------------------
(* The servers                                                             *)

LEMMA InitIInv == Init => IInv
BY SelectInit, PollInit, EpollInits DEF Init, IInv

LEMMA StepIInv == IInv /\ [Next]_vars => IInv'
<1> SUFFICES ASSUME IInv, [Next]_vars PROVE IInv'
  OBVIOUS
<1>1. kind' = kind
  BY DEF Next, vars, SelectOnly, PollOnly, EpollOnly
<1>2. /\ kind = "select" => Select!Next \/ UNCHANGED vars
      /\ kind = "poll" => Poll!Next \/ UNCHANGED vars
      /\ kind = "epoll" => Epoll!Next \/ UNCHANGED vars
      /\ kind = "epollReset" => EpollReset!Next \/ UNCHANGED vars
  BY DEF Next
<1>3. kind = "select" => Select!IInv'
  BY <1>2, SelectStep DEF IInv
<1>4. kind = "poll" => Poll!IInv'
  BY <1>2, PollStep DEF IInv
<1>5. kind = "epoll" => Epoll!OrderlyIInv'
  BY <1>2, OrderlyStep DEF IInv
<1>6. kind = "epollReset" => EpollReset!IInv'
  BY <1>2, EpollResetStep DEF IInv
<1> QED
  BY <1>1, <1>3, <1>4, <1>5, <1>6 DEF IInv

THEOREM InvariantHolds == FairSpec => []IInv
<1>1. Init => IInv
  BY InitIInv
<1>2. IInv /\ [Next]_vars => IInv'
  BY StepIInv
<1> QED
  BY <1>1, <1>2, PTL DEF FairSpec

\* The select server may stop its scan when it has counted the reports: as many
\* entries are left as reports.
THEOREM CountedReports == FairSpec => []ReportsCounted
<1>1. IInv => ReportsCounted
  BY DEF IInv, ReportsCounted, Select!IInv, Select!ReportsCounted
<1> QED
  BY <1>1, InvariantHolds, PTL

\* No server of the three reads from a connection that has nothing to read: not the
\* select and poll servers whatever their clients do, nor the epoll server when no
\* connection is reset.
THEOREM ReadsReturn == FairSpec => []ReadsDoNotBlock
<1>1. ASSUME IInv PROVE ReadsDoNotBlock
  <2>1. CASE kind = "select"
    <3>1. Select!ReadsDoNotBlock
      BY <1>1, <2>1 DEF IInv, Select!IInv, Select!ReadsDoNotBlock
    <3> QED
      BY <2>1, <3>1 DEF ReadsDoNotBlock
  <2>2. CASE kind = "poll"
    <3>1. ASSUME Poll!AtClientHit
          PROVE  Poll!Conn # Poll!Nobody /\ Poll!Readable(Poll!Conn)
      <4> DEFINE k == Least(PollHits)
      <4>1. PollInv /\ Poll!Conn = fdt[client[k]]
        BY <1>1, <2>2, PollIs DEF IInv, Poll!Conn
      <4>2. Ready(client[k])
        BY <3>1, <4>1, PollScan
      <4> QED
        BY <4>1, <4>2, PollNames DEF Ready
    <3>2. Poll!ReadsDoNotBlock
      BY <3>1 DEF Poll!ReadsDoNotBlock
    <3> QED
      BY <2>2, <3>2 DEF ReadsDoNotBlock
  <2>3. CASE kind = "epoll"
    <3>1. Epoll!ReadsDoNotBlock
      BY <1>1, <2>3 DEF IInv, Epoll!OrderlyIInv
    <3> QED
      BY <2>3, <3>1 DEF ReadsDoNotBlock
  <2>4. CASE kind \notin {"select", "poll", "epoll"}
    BY <2>4 DEF ReadsDoNotBlock
  <2> QED
    BY <2>1, <2>2, <2>3, <2>4
<1> QED
  BY <1>1, InvariantHolds, PTL

\* The tables and the sets the servers give to the kernel agree with what is open, over
\* all reuses of entries and descriptors.
THEOREM TablesAgree == FairSpec => []ServersMatchKernel
<1>1. ASSUME IInv PROVE ServersMatchKernel
  <2>1. SetMatchesKernel
    <3>1. CASE kind = "select"
      <4>1. Select!SetMatchesKernel
        BY <1>1, <3>1 DEF IInv, Select!IInv
      <4> QED
        BY <3>1, <4>1 DEF SetMatchesKernel
    <3>2. CASE kind \in {"epoll", "epollReset"}
      <4>1. EpollInv
        BY <1>1, <3>2, OrderlyIs, EpollIs DEF IInv
      <4>2. Epoll!SetMatchesKernel
        BY <4>1, OrderlyNames DEF Epoll!SetMatchesKernel, EpollInv
      <4> QED
        BY <3>2, <4>2 DEF SetMatchesKernel
    <3>3. CASE kind \notin {"select", "epoll", "epollReset"}
      BY <3>3 DEF SetMatchesKernel
    <3> QED
      BY <3>1, <3>2, <3>3
  <2>2. TablesMatchKernel
    <3>1. CASE kind = "select"
      BY <1>1, <3>1, SelectIs DEF IInv, SelectInv, TablesMatchKernel
    <3>2. CASE kind = "poll"
      BY <1>1, <3>2, PollIs DEF IInv, PollInv, TablesMatchKernel
    <3>3. CASE kind = "epoll"
      BY <1>1, <3>3, OrderlyIs DEF IInv, Orderly, TablesMatchKernel
    <3> QED
      BY <3>1, <3>2, <3>3 DEF TablesMatchKernel
  <2> QED
    BY <2>1, <2>2 DEF ServersMatchKernel
<1> QED
  BY <1>1, InvariantHolds, PTL

-----------------------------------------------------------------------------
(* Who is disconnected                                                     *)

\* What a step may do to the descriptors.
EndsNobody     == fdt' = fdt
ExitsNow       == fdt' = AllClosed /\ ~Running'
AcceptsOne     == \E f \in Fds \cup {NoFd} : Accept(f)
ClosesEnded    == \E f : fdt' = Closed(f) /\ peer[fdt[f]] # "open"
Harmless       == EndsNobody \/ ExitsNow \/ AcceptsOne \/ ClosesEnded

FdtIsTable == fdt = [f \in Fds |-> fdt[f]]

LEMMA HarmlessEnds == FdtIsTable /\ Harmless => EndsOnlyEnded /\ FdtIsTable'
<1>1. ASSUME NEW c \in Clients, Open(c), ~Open(c)', Running', FdtIsTable, Harmless
      PROVE  peer[c] # "open"
  <2>1. PICK f \in Fds : fdt[f] = c /\ fdt'[f] # c
    BY <1>1 DEF Open
  <2>2. c # Nobody
    BY ConstantFacts
  <2>3. ~EndsNobody /\ ~ExitsNow
    BY <1>1, <2>1 DEF EndsNobody, ExitsNow
  <2>4. CASE AcceptsOne
    <3>1. PICK g \in Fds \cup {NoFd} : Accept(g)
      BY <2>4 DEF AcceptsOne
    <3>2. CASE FreeFds = {}
      BY <2>1, <3>1, <3>2 DEF Accept
    <3>3. CASE FreeFds # {}
      <4>1. Least(FreeFds) \in FreeFds /\ fdt' = [fdt EXCEPT ![Least(FreeFds)] = Head(backlog)]
        <5>1. FreeFds \in SUBSET Nat
          BY ConstantFacts DEF FreeFds
        <5> QED
          BY <3>1, <3>3, <5>1, LeastIsIn DEF Accept
      <4>2. f # Least(FreeFds)
        BY <2>1, <2>2, <4>1 DEF FreeFds
      <4> QED
        BY <1>1, <2>1, <4>1, <4>2 DEF FdtIsTable
    <3> QED
      BY <3>2, <3>3
  <2>5. CASE ClosesEnded
    BY <1>1, <2>1, <2>5 DEF ClosesEnded, Closed, FdtIsTable
  <2> QED
    BY <1>1, <2>3, <2>4, <2>5 DEF Harmless
<1>2. ASSUME FdtIsTable, Harmless PROVE FdtIsTable'
  BY <1>2 DEF FdtIsTable, Harmless, EndsNobody, ExitsNow, AllClosed, AcceptsOne, Accept,
              ClosesEnded, Closed
<1> QED
  BY <1>1, <1>2 DEF EndsOnlyEnded

LEMMA SelectHarmless == Select!Next => Harmless
<1>1. /\ Select!NoFd = NoFd /\ Select!Fds = Fds /\ Select!AllClosed = AllClosed
      /\ \A f : Select!Closed(f) = Closed(f) /\ Select!Accept(f) = Accept(f)
  BY DEF Select!NoFd, NoFd, Select!Fds, Fds, Select!Nobody, Nobody, Select!AllClosed, AllClosed,
         Select!Closed, Closed, Select!Accept, Accept, Select!FreeFds, FreeFds, Select!Least, Least
<1>2. ASSUME NEW c \in Clients, Select!ClientStep(c) PROVE EndsNobody
  BY <1>2 DEF Select!ClientStep, Select!Connect, Select!SendLine, Select!ReadAnswer, Select!Quit, EndsNobody
<1>3. Select!Select \/ Select!IgnoreError \/ Select!ScanEnds => EndsNobody
  BY DEF Select!Select, Select!IgnoreError, Select!ScanEnds, Select!netVars, EndsNobody
<1>4. Select!TooManyClients => ExitsNow
  BY <1>1 DEF Select!TooManyClients, ExitsNow, Running
<1>5. Select!Echo => EndsNobody \/ ExitsNow
  BY <1>1 DEF Select!Echo, EndsNobody, ExitsNow, Running
<1>6. Select!AcceptClient => AcceptsOne
  BY <1>1 DEF Select!AcceptClient, AcceptsOne
<1>7. ASSUME Select!CloseClient PROVE Harmless
  <2> DEFINE f == client[Select!Least(Select!Hits)]
  <2>1. fdt' = Closed(f) /\ peer[fdt[f]] # "open"
    BY <1>1, <1>7 DEF Select!CloseClient, Select!AtEnd
  <2> QED
    BY <2>1 DEF ClosesEnded, Harmless
<1> QED
  BY <1>2, <1>3, <1>4, <1>5, <1>6, <1>7 DEF Select!Next, Select!Server, Harmless

LEMMA SelectFullHarmless == SelectFull!Next => Harmless
<1>1. /\ SelectFull!NoFd = NoFd /\ SelectFull!Fds = Fds /\ SelectFull!AllClosed = AllClosed
      /\ \A f : SelectFull!Closed(f) = Closed(f) /\ SelectFull!Accept(f) = Accept(f)
  BY DEF SelectFull!NoFd, NoFd, SelectFull!Fds, Fds, SelectFull!Nobody, Nobody, SelectFull!AllClosed, AllClosed,
         SelectFull!Closed, Closed, SelectFull!Accept, Accept, SelectFull!FreeFds, FreeFds, SelectFull!Least, Least
<1>2. ASSUME NEW c \in Clients, SelectFull!ClientStep(c) PROVE EndsNobody
  BY <1>2 DEF SelectFull!ClientStep, SelectFull!Connect, SelectFull!SendLine, SelectFull!ReadAnswer, SelectFull!Quit, EndsNobody
<1>3. SelectFull!Select \/ SelectFull!IgnoreError \/ SelectFull!ScanEnds => EndsNobody
  BY DEF SelectFull!Select, SelectFull!IgnoreError, SelectFull!ScanEnds, SelectFull!netVars, EndsNobody
<1>4. SelectFull!TooManyClients => ExitsNow
  BY <1>1 DEF SelectFull!TooManyClients, ExitsNow, Running
<1>5. SelectFull!Echo => EndsNobody \/ ExitsNow
  BY <1>1 DEF SelectFull!Echo, EndsNobody, ExitsNow, Running
<1>6. SelectFull!AcceptClient => AcceptsOne
  BY <1>1 DEF SelectFull!AcceptClient, AcceptsOne
<1>7. ASSUME SelectFull!CloseClient PROVE Harmless
  <2> DEFINE f == client[SelectFull!Least(SelectFull!Hits)]
  <2>1. fdt' = Closed(f) /\ peer[fdt[f]] # "open"
    BY <1>1, <1>7 DEF SelectFull!CloseClient, SelectFull!AtEnd
  <2> QED
    BY <2>1 DEF ClosesEnded, Harmless
<1> QED
  BY <1>2, <1>3, <1>4, <1>5, <1>6, <1>7 DEF SelectFull!Next, SelectFull!Server, Harmless

LEMMA PollHarmless == Poll!Next => Harmless
<1>1. /\ Poll!NoFd = NoFd /\ Poll!Fds = Fds /\ Poll!AllClosed = AllClosed
      /\ \A f : Poll!Closed(f) = Closed(f) /\ Poll!Accept(f) = Accept(f)
  BY DEF Poll!NoFd, NoFd, Poll!Fds, Fds, Poll!Nobody, Nobody, Poll!AllClosed, AllClosed,
         Poll!Closed, Closed, Poll!Accept, Accept, Poll!FreeFds, FreeFds, Poll!Least, Least
<1>2. ASSUME NEW c \in Clients, Poll!ClientStep(c) PROVE EndsNobody
  BY <1>2 DEF Poll!ClientStep, Poll!Connect, Poll!SendLine, Poll!ReadAnswer, Poll!Quit, EndsNobody
<1>3. Poll!Poll \/ Poll!ScanEnds => EndsNobody
  BY DEF Poll!Poll, Poll!ScanEnds, Poll!netVars, EndsNobody
<1>4. Poll!TooManyClients \/ Poll!ReadListen => ExitsNow
  BY <1>1 DEF Poll!TooManyClients, Poll!ReadListen, ExitsNow, Running
<1>5. Poll!Echo => EndsNobody \/ ExitsNow
  BY <1>1 DEF Poll!Echo, EndsNobody, ExitsNow, Running
<1>6. Poll!AcceptClient => AcceptsOne
  BY <1>1 DEF Poll!AcceptClient, AcceptsOne
<1>7. ASSUME Poll!CloseClient PROVE Harmless
  <2> DEFINE f == client[Poll!Hit]
  <2>1. fdt' = Closed(f) /\ peer[fdt[f]] # "open"
    BY <1>1, <1>7 DEF Poll!CloseClient, Poll!AtEnd, Poll!AtReset, Poll!Conn
  <2> QED
    BY <2>1 DEF ClosesEnded, Harmless
<1> QED
  BY <1>2, <1>3, <1>4, <1>5, <1>6, <1>7 DEF Poll!Next, Poll!Server, Harmless

LEMMA PollFullHarmless == PollFull!Next => Harmless
<1>1. /\ PollFull!NoFd = NoFd /\ PollFull!Fds = Fds /\ PollFull!AllClosed = AllClosed
      /\ \A f : PollFull!Closed(f) = Closed(f) /\ PollFull!Accept(f) = Accept(f)
  BY DEF PollFull!NoFd, NoFd, PollFull!Fds, Fds, PollFull!Nobody, Nobody, PollFull!AllClosed, AllClosed,
         PollFull!Closed, Closed, PollFull!Accept, Accept, PollFull!FreeFds, FreeFds, PollFull!Least, Least
<1>2. ASSUME NEW c \in Clients, PollFull!ClientStep(c) PROVE EndsNobody
  BY <1>2 DEF PollFull!ClientStep, PollFull!Connect, PollFull!SendLine, PollFull!ReadAnswer, PollFull!Quit, EndsNobody
<1>3. PollFull!Poll \/ PollFull!ScanEnds => EndsNobody
  BY DEF PollFull!Poll, PollFull!ScanEnds, PollFull!netVars, EndsNobody
<1>4. PollFull!TooManyClients \/ PollFull!ReadListen => ExitsNow
  BY <1>1 DEF PollFull!TooManyClients, PollFull!ReadListen, ExitsNow, Running
<1>5. PollFull!Echo => EndsNobody \/ ExitsNow
  BY <1>1 DEF PollFull!Echo, EndsNobody, ExitsNow, Running
<1>6. PollFull!AcceptClient => AcceptsOne
  BY <1>1 DEF PollFull!AcceptClient, AcceptsOne
<1>7. ASSUME PollFull!CloseClient PROVE Harmless
  <2> DEFINE f == client[PollFull!Hit]
  <2>1. fdt' = Closed(f) /\ peer[fdt[f]] # "open"
    BY <1>1, <1>7 DEF PollFull!CloseClient, PollFull!AtEnd, PollFull!AtReset, PollFull!Conn
  <2> QED
    BY <2>1 DEF ClosesEnded, Harmless
<1> QED
  BY <1>2, <1>3, <1>4, <1>5, <1>6, <1>7 DEF PollFull!Next, PollFull!Server, Harmless

\* A reset, which would close another connection, does not happen.
LEMMA EpollHarmless == EpollInv /\ Orderly /\ Epoll!Next => Harmless
<1>1. /\ Epoll!NoFd = NoFd /\ Epoll!Fds = Fds /\ Epoll!AllClosed = AllClosed
      /\ \A f : Epoll!Closed(f) = Closed(f) /\ Epoll!Accept(f) = Accept(f)
  BY DEF Epoll!NoFd, NoFd, Epoll!Fds, Fds, Epoll!Nobody, Nobody, Epoll!AllClosed, AllClosed,
         Epoll!Closed, Closed, Epoll!Accept, Accept, Epoll!FreeFds, FreeFds, Epoll!Least, Least
<1>2. ASSUME NEW c \in Clients, Epoll!ClientStep(c) PROVE EndsNobody
  BY <1>2 DEF Epoll!ClientStep, Epoll!Connect, Epoll!SendLine, Epoll!ReadAnswer, Epoll!Quit, EndsNobody
<1>3. Epoll!Wait \/ Epoll!WaitAgain => EndsNobody
  BY DEF Epoll!Wait, Epoll!WaitAgain, Epoll!netVars, EndsNobody
<1>4. Epoll!TooManyClients => ExitsNow
  BY <1>1 DEF Epoll!TooManyClients, Epoll!Exit, ExitsNow, Running
<1>5. Epoll!AcceptClient => AcceptsOne
  BY <1>1 DEF Epoll!AcceptClient, AcceptsOne
<1>6. ASSUME NEW f \in Fds
      PROVE  /\ Epoll!Echo(f) => EndsNobody \/ ExitsNow
             /\ Epoll!ReadFails(f) => ExitsNow
  BY <1>1 DEF Epoll!Echo, Epoll!ReadFails, Epoll!Exit, EndsNobody, ExitsNow, Running
<1>7. ASSUME NEW f \in Fds, Epoll!CloseClient(f) PROVE EndsNobody \/ ClosesEnded
  BY <1>1, <1>7 DEF Epoll!CloseClient, Epoll!ClosedFor, Epoll!AtEnd, EndsNobody, ClosesEnded
<1>8. ASSUME NEW f \in Fds, Epoll!AbortClient(f), EpollInv, Orderly PROVE FALSE
  BY <1>8, OrderlyNames
  DEF Epoll!AbortClient, Epoll!AtEvent, Epoll!AtReset, EpollInv, NetInv, Orderly
<1> QED
  BY <1>1, <1>2, <1>3, <1>4, <1>5, <1>6, <1>7, <1>8 DEF Epoll!Next, Epoll!Server, Harmless

\* In the two compositions with full tables nothing else is known of the descriptors.
FullIInv == kind \in {"selectFull", "pollFull"} => FdtIsTable

LEMMA FullInvariant == FairSpec => []FullIInv
<1>1. Init => FullIInv
  <2>1. ASSUME SelectFull!Init \/ PollFull!Init PROVE FdtIsTable
    BY <2>1 DEF SelectFull!Init, SelectFull!NetInit, SelectFull!Fds, PollFull!Init,
                PollFull!NetInit, PollFull!Fds, Fds, FdtIsTable
  <2> QED
    BY <2>1 DEF Init, FullIInv
<1>2. FullIInv /\ [Next]_vars => FullIInv'
  <2> SUFFICES ASSUME FullIInv, [Next]_vars, kind' \in {"selectFull", "pollFull"}
               PROVE  FdtIsTable'
    BY DEF FullIInv
  <2>1. kind' = kind /\ FdtIsTable
    BY DEF Next, vars, SelectOnly, PollOnly, EpollOnly, FullIInv
  <2>2. CASE UNCHANGED vars
    BY <2>1, <2>2 DEF vars, netVars, FdtIsTable
  <2>3. CASE SelectFull!Next \/ PollFull!Next
    BY <2>1, <2>3, SelectFullHarmless, PollFullHarmless, HarmlessEnds
  <2> QED
    BY <2>1, <2>2, <2>3 DEF Next
<1> QED
  BY <1>1, <1>2, PTL DEF FairSpec

\* A server that goes on ends only connections whose client ended them: the only steps
\* that take a descriptor from an open connection are its end and the end of the process.
THEOREM OthersKept == FairSpec => OthersStayConnected
<1>1. ASSUME IInv, FullIInv, [Next]_vars PROVE [Kept => EndsOnlyEnded]_netVars
  <2>1. CASE UNCHANGED vars
    BY <2>1 DEF vars
  <2>2. CASE kind = "select" /\ Select!Next
    BY <1>1, <2>2, SelectHarmless, HarmlessEnds, SelectIs DEF IInv, SelectInv, NetInv, FdtIsTable
  <2>3. CASE kind = "selectFull" /\ SelectFull!Next
    BY <1>1, <2>3, SelectFullHarmless, HarmlessEnds DEF FullIInv
  <2>4. CASE kind = "poll" /\ Poll!Next
    BY <1>1, <2>4, PollHarmless, HarmlessEnds, PollIs DEF IInv, PollInv, NetInv, FdtIsTable
  <2>5. CASE kind = "pollFull" /\ PollFull!Next
    BY <1>1, <2>5, PollFullHarmless, HarmlessEnds DEF FullIInv
  <2>6. CASE kind = "epoll" /\ Epoll!Next
    <3>1. EpollInv /\ Orderly /\ FdtIsTable
      BY <1>1, <2>6, OrderlyIs DEF IInv, EpollInv, NetInv, FdtIsTable
    <3> QED
      BY <2>6, <3>1, EpollHarmless, HarmlessEnds
  <2>7. CASE kind = "epollReset"
    BY <2>7 DEF Kept
  <2> QED
    BY <1>1, <2>1, <2>2, <2>3, <2>4, <2>5, <2>6, <2>7 DEF Next
<1> QED
  BY <1>1, InvariantHolds, FullInvariant, PTL DEF FairSpec, OthersStayConnected
-----------------------------------------------------------------------------
(* The types, for all instances                                            *)

\* Of one client: pieces move on, or are lost.
LEMMA TrafficMoves ==
  ASSUME Traffic, NEW c \in Clients,
         NEW l \in 0..MaxLines, NEW m \in Nat, NEW n \in Nat,
         m + n + l * LinePieces <= inb[c] + outb[c] + lines[c] * LinePieces,
         lines' = [lines EXCEPT ![c] = l], inb' = [inb EXCEPT ![c] = m],
         outb' = [outb EXCEPT ![c] = n]
  PROVE  Traffic'
<1>1. /\ lines' \in [Clients -> 0..MaxLines] /\ lines'[c] = l
      /\ inb' \in [Clients -> Nat] /\ inb'[c] = m
      /\ outb' \in [Clients -> Nat] /\ outb'[c] = n
      /\ \A d \in Clients : d # c => lines'[d] = lines[d] /\ inb'[d] = inb[d] /\ outb'[d] = outb[d]
  BY DEF Traffic
<1>2. MaxLines \in Nat /\ LinePieces \in Nat
  BY NetAssumption
<1>3. inb'[c] + outb'[c] + lines'[c] * LinePieces <= MaxLines * LinePieces
  <2> DEFINE a == l * LinePieces
             b == lines[c] * LinePieces
             z == MaxLines * LinePieces
  <2>1. a \in Int /\ b \in Int /\ z \in Int
    BY <1>2 DEF Traffic
  <2>2. m + n + a <= inb[c] + outb[c] + b /\ inb[c] + outb[c] + b <= z
    BY DEF Traffic
  <2> HIDE DEF a, b, z
  <2>3. m + n + a <= z
    BY <2>1, <2>2 DEF Traffic
  <2> QED
    BY <1>1, <2>3 DEF a, z
<1>4. \A d \in Clients : d # c =>
        inb'[d] + outb'[d] + lines'[d] * LinePieces <= MaxLines * LinePieces
  BY <1>1 DEF Traffic
<1> QED
  BY <1>1, <1>3, <1>4 DEF Traffic

\* The steps of a client.
LEMMA ClientTraffic ==
  ASSUME Traffic, NEW c \in Clients, ClientStep(c)
  PROVE  Traffic'
<1>1. lines[c] \in 0..MaxLines /\ inb[c] \in Nat /\ outb[c] \in Nat
  BY DEF Traffic
<1>2. /\ lines = [lines EXCEPT ![c] = lines[c]] /\ inb = [inb EXCEPT ![c] = inb[c]]
      /\ outb = [outb EXCEPT ![c] = outb[c]]
  BY DEF Traffic
<1>3. LinePieces \in Nat /\ MaxLines \in Nat /\ lines[c] * LinePieces \in Nat
  BY <1>1, NetAssumption
<1>4. CASE Connect(c)
  BY <1>4 DEF Connect, Traffic
<1>5. CASE SendLine(c)
  <2>1. lines[c] - 1 \in 0..MaxLines /\ inb[c] + LinePieces \in Nat
    BY <1>1, <1>3, <1>5 DEF SendLine
  <2>2. (lines[c] - 1) * LinePieces + LinePieces = lines[c] * LinePieces
    BY <1>1, <1>3
  <2>3. /\ lines' = [lines EXCEPT ![c] = lines[c] - 1]
        /\ inb' = [inb EXCEPT ![c] = inb[c] + LinePieces] /\ outb' = [outb EXCEPT ![c] = outb[c]]
    BY <1>2, <1>5 DEF SendLine
  <2>4. (inb[c] + LinePieces) + outb[c] + (lines[c] - 1) * LinePieces
          <= inb[c] + outb[c] + lines[c] * LinePieces
    BY <1>1, <1>3, <2>2
  <2> QED
    BY <1>1, <2>1, <2>3, <2>4, TrafficMoves
<1>6. CASE ReadAnswer(c)
  <2>1. PICK n \in 1..outb[c] : outb' = [outb EXCEPT ![c] = outb[c] - n]
    BY <1>6 DEF ReadAnswer
  <2>2. /\ outb[c] - n \in Nat
        /\ inb[c] + (outb[c] - n) + lines[c] * LinePieces
             <= inb[c] + outb[c] + lines[c] * LinePieces
    BY <1>1, <1>3
  <2>3. lines' = [lines EXCEPT ![c] = lines[c]] /\ inb' = [inb EXCEPT ![c] = inb[c]]
    BY <1>2, <1>6 DEF ReadAnswer
  <2> QED
    BY <1>1, <2>1, <2>2, <2>3, TrafficMoves
<1>7. CASE Quit(c)
  <2>1. inb[c] + 0 + lines[c] * LinePieces <= inb[c] + outb[c] + lines[c] * LinePieces
    BY <1>1, <1>3
  <2>2. /\ lines' = [lines EXCEPT ![c] = lines[c]] /\ inb' = [inb EXCEPT ![c] = inb[c]]
        /\ outb' = [outb EXCEPT ![c] = 0]
    BY <1>2, <1>7 DEF Quit
  <2> QED
    BY <1>1, <2>1, <2>2, TrafficMoves
<1> QED
  BY <1>4, <1>5, <1>6, <1>7 DEF ClientStep

\* What the clients and servers keep of the net beside the bounds; backlog is not empty
\* when accept is called.
NetTypes ==
  /\ Traffic
  /\ place \in [Clients -> {"off", "typing", "reading", "closed"}]
  /\ peer \in [Clients -> {"open", "fin", "rst", "broken"}]
  /\ backlog \in Seq(Clients)
  /\ fdt \in [Fds -> Clients \cup {Nobody}]

LEMMA NetTypesAre == NetTypes => NetTypeOK
<1> SUFFICES ASSUME NetTypes PROVE NetTypeOK
  OBVIOUS
<1>1. ASSUME NEW c \in Clients
      PROVE  inb[c] \in 0..MaxLines * LinePieces /\ outb[c] \in 0..MaxLines * LinePieces
  <2>1. lines[c] \in Nat /\ inb[c] \in Nat /\ outb[c] \in Nat
    BY DEF NetTypes, Traffic
  <2> DEFINE y == lines[c] * LinePieces
             z == MaxLines * LinePieces
  <2>2. y \in Nat /\ z \in Nat
    BY <2>1, NetAssumption
  <2>3. inb[c] + outb[c] + y <= z
    BY DEF NetTypes, Traffic
  <2> HIDE DEF y, z
  <2>4. inb[c] \in 0..z /\ outb[c] \in 0..z
    BY <2>1, <2>2, <2>3
  <2> QED
    BY <2>4 DEF z
<1> QED
  BY <1>1 DEF NetTypes, Traffic, NetTypeOK

LEMMA NetTypesBegin == NetInit => NetTypes
<1> SUFFICES ASSUME NetInit PROVE NetTypes
  OBVIOUS
<1>1. MaxLines \in Nat /\ MaxLines * LinePieces \in Nat
  BY NetAssumption
<1> DEFINE z == MaxLines * LinePieces
<1> HIDE DEF z
<1>2. \A c \in Clients : inb[c] + outb[c] + z <= z
  BY <1>1 DEF NetInit, z
<1> QED
  BY <1>1, <1>2 DEF NetInit, NetTypes, Traffic, z

LEMMA ClientTypes ==
  ASSUME NetTypes, NEW c \in Clients, ClientStep(c)
  PROVE  NetTypes' /\ (backlog # <<>> => backlog' # <<>>)
<1>1. Traffic'
  BY ClientTraffic DEF NetTypes
<1>2. backlog' = backlog \/ backlog' = Append(backlog, c)
  BY DEF ClientStep, Connect, SendLine, ReadAnswer, Quit
<1>3. backlog' \in Seq(Clients) /\ (backlog # <<>> => backlog' # <<>>)
  BY <1>2, AppendProperties DEF NetTypes
<1> QED
  BY <1>1, <1>3 DEF NetTypes, ClientStep, Connect, SendLine, ReadAnswer, Quit

\* read, and write if there was something to read; a descriptor may be closed, or all.
LEMMA ReadTypes ==
  ASSUME NetTypes, NEW c, UNCHANGED <<place, lines, backlog>>,
         fdt' = fdt \/ fdt' = AllClosed \/ (\E f : fdt' = Closed(f)),
         \/ \E n \in 1..inb[c] : ReadPieces(c, n) /\ WritePieces(c, n)
         \/ UNCHANGED <<inb, outb>> /\ (ReportReset(c) \/ peer' = peer)
  PROVE  NetTypes'
<1>1. fdt' \in [Fds -> Clients \cup {Nobody}]
  BY DEF NetTypes, AllClosed, Closed
<1>2. peer' \in [Clients -> {"open", "fin", "rst", "broken"}]
  BY DEF NetTypes, WritePieces, ReportReset
<1>3. Traffic'
  <2>1. CASE UNCHANGED <<inb, outb>>
    BY <2>1 DEF NetTypes, Traffic
  <2>2. CASE \E n \in 1..inb[c] : ReadPieces(c, n) /\ WritePieces(c, n)
    <3>1. PICK n \in 1..inb[c] : ReadPieces(c, n) /\ WritePieces(c, n)
      BY <2>2
    <3>2. CASE c \in Clients
      <4>1. lines[c] \in 0..MaxLines /\ inb[c] \in Nat /\ outb[c] \in Nat
        BY <3>2 DEF NetTypes, Traffic
      <4>2. lines[c] * LinePieces \in Nat
        BY <4>1, NetAssumption
      <4>3. PICK k \in {0, n} : outb' = [outb EXCEPT ![c] = outb[c] + k]
        <5>1. outb' = outb \/ outb' = [outb EXCEPT ![c] = outb[c] + n]
          BY <3>1 DEF WritePieces
        <5>2. outb = [outb EXCEPT ![c] = outb[c] + 0]
          BY <4>1 DEF NetTypes, Traffic
        <5> QED
          BY <5>1, <5>2
      <4>4. /\ inb[c] - n \in Nat /\ outb[c] + k \in Nat
            /\ (inb[c] - n) + (outb[c] + k) + lines[c] * LinePieces
                 <= inb[c] + outb[c] + lines[c] * LinePieces
        BY <4>1, <4>2
      <4>5. inb' = [inb EXCEPT ![c] = inb[c] - n] /\ lines' = [lines EXCEPT ![c] = lines[c]]
        BY <3>1, <3>2 DEF ReadPieces, NetTypes, Traffic
      <4> QED
        BY <3>2, <4>1, <4>3, <4>4, <4>5, TrafficMoves DEF NetTypes
    <3>3. CASE c \notin Clients
      <4>1. inb' = inb /\ outb' = outb
        BY <3>1, <3>3 DEF ReadPieces, WritePieces, NetTypes, Traffic
      <4> QED
        BY <4>1 DEF NetTypes, Traffic
    <3> QED
      BY <3>2, <3>3
  <2> QED
    BY <2>1, <2>2
<1> QED
  BY <1>1, <1>2, <1>3 DEF NetTypes

\* accept, or the end of the program at a new connection.
LEMMA AcceptTypes ==
  ASSUME NetTypes, backlog # <<>>, UNCHANGED <<place, lines, inb, outb, peer>>,
         NEW fd, Accept(fd)
  PROVE  NetTypes' /\ fd \in Fds \cup {NoFd}
<1>1. Head(backlog) \in Clients /\ Tail(backlog) \in Seq(Clients)
  BY HeadTailProperties DEF NetTypes
<1>2. backlog' \in Seq(Clients) /\ fdt' \in [Fds -> Clients \cup {Nobody}]
  BY <1>1 DEF NetTypes, Accept
<1>3. FreeFds # {} => Least(FreeFds) \in Fds
  BY ConstantFacts, LeastIsIn DEF FreeFds
<1> QED
  BY <1>2, <1>3 DEF NetTypes, Traffic, Accept

LEMMA ExitTypes ==
  ASSUME NetTypes, UNCHANGED <<place, lines, inb, outb, peer>>, fdt' = AllClosed,
         backlog' = backlog \/ (backlog # <<>> /\ backlog' = Tail(backlog))
  PROVE  NetTypes'
<1>1. backlog' \in Seq(Clients)
  BY HeadTailProperties DEF NetTypes
<1> QED
  BY <1>1 DEF NetTypes, Traffic, AllClosed

LEMMA IdleTypes == NetTypes /\ UNCHANGED netVars => NetTypes'
BY DEF NetTypes, Traffic, netVars

\* What a step of a server does to the net.
ServerReads(c) ==
  /\ UNCHANGED <<place, lines, backlog>>
  /\ fdt' = fdt \/ fdt' = AllClosed \/ \E f : fdt' = Closed(f)
  /\ \/ \E n \in 1..inb[c] : ReadPieces(c, n) /\ WritePieces(c, n)
     \/ UNCHANGED <<inb, outb>> /\ (ReportReset(c) \/ peer' = peer)

ServerAccepts ==
  backlog # <<>> /\ (\E fd : Accept(fd)) /\ UNCHANGED <<place, lines, inb, outb, peer>>

ServerEnds ==
  /\ fdt' = AllClosed /\ UNCHANGED <<place, lines, inb, outb, peer>>
  /\ backlog' = backlog \/ (backlog # <<>> /\ backlog' = Tail(backlog))

NetMoves == UNCHANGED netVars \/ ServerAccepts \/ ServerEnds \/ \E c : ServerReads(c)

LEMMA NetMoved == NetTypes /\ NetMoves => NetTypes'
<1> SUFFICES ASSUME NetTypes, NetMoves PROVE NetTypes'
  OBVIOUS
<1>1. CASE UNCHANGED netVars
  BY <1>1, IdleTypes
<1>2. CASE ServerAccepts
  BY <1>2, AcceptTypes DEF ServerAccepts
<1>3. CASE ServerEnds
  BY <1>3, ExitTypes DEF ServerEnds
<1>4. ASSUME NEW c, ServerReads(c) PROVE NetTypes'
  BY <1>4, ReadTypes DEF ServerReads
<1> QED
  BY <1>1, <1>2, <1>3, <1>4 DEF NetMoves

\* Reports are counted as natural numbers.
LEMMA SomeReported ==
  ASSUME NEW a \in Int, NEW b \in Int, NEW S \in SUBSET (a..b)
  PROVE  IsFiniteSet(S) /\ Cardinality(S) \in Nat /\ (S # {} => Cardinality(S) >= 1)
<1>1. IsFiniteSet(S)
  BY FS_Interval, FS_Subset
<1>2. Cardinality(S) \in Nat /\ (S # {} => Cardinality(S) # 0)
  BY <1>1, FS_CardinalityType, FS_EmptySet
<1> QED
  BY <1>1, <1>2

\* The types of the select server with a table of n entries; a report is left wherever
\* one is handled.
SelectTypes(n) ==
  /\ NetTypes
  /\ client \in [0..n-1 -> Fds \cup {NoFd}] /\ maxi \in 0..n-1 \cup {-1}
  /\ pc \in {"select", "accept", "scan", "full", "killed"}
  /\ maxfd \in Fds \cup {-1} /\ allset \subseteq Fds /\ rset \subseteq Fds
  /\ listenReady \in BOOLEAN /\ nready \in Nat /\ i \in 0..n
  /\ pc = "accept" => backlog # <<>>
  /\ pc \in {"accept", "scan"} => nready >= 1

LEMMA SelectStepTypes == SelectTypes(TableSize) /\ Select!Next => SelectTypes(TableSize)'
<1> SUFFICES ASSUME SelectTypes(TableSize), Select!Next PROVE SelectTypes(TableSize)'
  OBVIOUS
<1>1. /\ Select!Nobody = Nobody /\ Select!NoFd = NoFd /\ Select!Fds = Fds
      /\ Select!AllClosed = AllClosed
      /\ Select!Table = 0..TableSize-1 /\ TableSize \in Nat
      /\ \A f : Select!Closed(f) = Closed(f) /\ Select!Accept(f) = Accept(f)
      /\ \A S : Select!Least(S) = Least(S)
  BY TableAssumption
  DEF Select!NoFd, NoFd, Select!Fds, Fds, Select!Nobody, Nobody, Select!AllClosed, AllClosed,
      Select!Closed, Closed, Select!Accept, Accept, Select!FreeFds, FreeFds, Select!Least, Least,
      Select!Table, SelectTypes
<1>2. /\ \A c, m : Select!ReadPieces(c, m) /\ Select!WritePieces(c, m)
                     => ReadPieces(c, m) /\ WritePieces(c, m)
      /\ \A c : Select!ReportReset(c) = ReportReset(c)
  BY DEF Select!ReadPieces, ReadPieces, Select!WritePieces, WritePieces,
         Select!ReportReset, ReportReset
<1>3. NoFd = -1 /\ Fds \subseteq Nat
  BY ConstantFacts DEF NoFd
<1>4. ASSUME NEW c \in Clients, Select!ClientStep(c),
             UNCHANGED <<Select!tabVars, pc, Select!srvVars>>
      PROVE  SelectTypes(TableSize)'
  <2>1. ClientStep(c)
    BY <1>1, <1>4
    DEF Select!ClientStep, ClientStep, Select!Connect, Connect, Select!SendLine, SendLine,
        Select!Open, Open, Select!Queued, Queued, Select!ReadAnswer, ReadAnswer, Select!Quit, Quit
  <2>2. NetTypes' /\ (backlog # <<>> => backlog' # <<>>)
    BY <2>1, ClientTypes DEF SelectTypes
  <2> QED
    BY <1>4, <2>2 DEF SelectTypes, Select!tabVars, Select!srvVars
<1>5. CASE Select!Select
  <2>1. PICK ready \in SUBSET Fds :
          /\ ready # {} \/ backlog # <<>>
          /\ rset' = ready /\ listenReady' = (backlog # <<>>)
          /\ nready' = Cardinality(ready) + (IF backlog # <<>> THEN 1 ELSE 0)
          /\ pc' = IF backlog # <<>> THEN "accept" ELSE "scan"
    <3> DEFINE r == {f \in Select!Monitored :
                       fdt[f] # Select!Nobody /\ Select!Readable(fdt[f])}
    <3>1. Select!Cardinality(r) = Cardinality(r)
      BY Zenon DEF Select!Cardinality, Cardinality
    <3>2. r \in SUBSET Fds
      BY DEF Select!Monitored, SelectTypes
    <3>3. /\ r # {} \/ backlog # <<>>
          /\ rset' = r /\ listenReady' = (backlog # <<>>)
          /\ nready' = Select!Cardinality(r) + (IF backlog # <<>> THEN 1 ELSE 0)
          /\ pc' = IF backlog # <<>> THEN "accept" ELSE "scan"
      BY <1>5 DEF Select!Select
    <3> QED
      BY <3>1, <3>2, <3>3
  <2>2. Cardinality(ready) \in Nat /\ (ready # {} => Cardinality(ready) >= 1)
    <3>1. 0 \in Int /\ NumFds - 1 \in Int /\ ready \in SUBSET (0..NumFds-1)
      BY ConstantFacts DEF Fds
    <3> QED
      BY <3>1, SomeReported
  <2>3. UNCHANGED netVars /\ UNCHANGED <<client, maxi, maxfd, allset>> /\ i' = 0
    BY <1>5 DEF Select!Select, Select!netVars, netVars
  <2>4. nready' \in Nat /\ nready' >= 1
    BY <2>1, <2>2
  <2>5. NetTypes' /\ backlog' = backlog
    BY <2>3, IdleTypes DEF SelectTypes, netVars
  <2> QED
    BY <1>1, <2>1, <2>3, <2>4, <2>5 DEF SelectTypes
<1>6. CASE Select!AcceptClient
  <2> DEFINE e == Select!Least(Select!FreeEntries)
  <2>1. e \in 0..TableSize-1
    <3>1. /\ Select!FreeEntries # {} /\ Select!FreeEntries \in SUBSET Nat
          /\ Select!FreeEntries \subseteq 0..TableSize-1
      BY <1>1, <1>6 DEF Select!FreeEntries, Select!AcceptClient
    <3>2. Least(Select!FreeEntries) \in Select!FreeEntries
      BY <3>1, LeastIsIn
    <3> QED
      BY <1>1, <3>1, <3>2
  <2>2. PICK fd \in Fds \cup {NoFd} :
          /\ Accept(fd) /\ client' = [client EXCEPT ![e] = fd]
          /\ allset' = allset \cup ({fd} \ {NoFd}) /\ maxfd' = IF fd > maxfd THEN fd ELSE maxfd
    BY <1>1, <1>6 DEF Select!AcceptClient
  <2>3. /\ maxi' = IF e > maxi THEN e ELSE maxi
        /\ nready' = nready - 1 /\ pc' = (IF nready = 1 THEN "select" ELSE "scan")
        /\ UNCHANGED <<place, lines, inb, outb, peer, rset, listenReady, i>>
        /\ pc = "accept"
    BY <1>6 DEF Select!AcceptClient
  <2> HIDE DEF e
  <2>4. ServerAccepts
    BY <2>2, <2>3 DEF ServerAccepts, SelectTypes
  <2>5. NetTypes'
    BY <2>4, NetMoved DEF NetMoves, SelectTypes
  <2>6. /\ nready' \in Nat /\ pc' \in {"select", "scan"}
        /\ pc' \in {"accept", "scan"} => nready' >= 1
    BY <2>3 DEF SelectTypes
  <2>7. /\ client' \in [0..TableSize-1 -> Fds \cup {NoFd}] /\ maxi' \in 0..TableSize-1 \cup {-1}
        /\ maxfd' \in Fds \cup {-1} /\ allset' \subseteq Fds
    BY <1>3, <2>1, <2>2, <2>3 DEF SelectTypes
  <2> QED
    BY <2>3, <2>5, <2>6, <2>7 DEF SelectTypes
<1>7. CASE Select!TooManyClients
  <2>1. /\ ServerEnds /\ pc' = "full"
        /\ UNCHANGED <<client, maxi, maxfd, allset, rset, listenReady, nready, i>>
    BY <1>1, <1>7 DEF Select!TooManyClients, ServerEnds, SelectTypes
  <2>2. NetTypes'
    BY <2>1, NetMoved DEF NetMoves, SelectTypes
  <2> QED
    BY <2>1, <2>2 DEF SelectTypes
<1>8. CASE Select!ScanEnds
  <2>1. UNCHANGED netVars /\ pc' = "select"
        /\ UNCHANGED <<client, maxi, maxfd, allset, rset, listenReady, nready, i>>
    BY <1>8 DEF Select!ScanEnds, Select!netVars, netVars
  <2>2. NetTypes'
    BY <2>1, IdleTypes DEF SelectTypes
  <2> QED
    BY <2>1, <2>2 DEF SelectTypes
<1>9. CASE Select!Echo \/ Select!CloseClient \/ Select!IgnoreError
  <2> DEFINE k == Select!Least(Select!Hits)
  <2>1. pc = "scan" /\ k \in 0..TableSize-1 /\ nready \in Nat /\ nready >= 1
    <3>1. pc = "scan" /\ Select!Hits # {}
      BY <1>9 DEF Select!Echo, Select!CloseClient, Select!IgnoreError
    <3>2. i \in Nat /\ maxi \in Int /\ maxi <= TableSize - 1
      BY <1>1 DEF SelectTypes
    <3>3. Select!Hits \subseteq 0..TableSize-1 /\ Select!Hits \in SUBSET Nat
      BY <1>1, <3>2 DEF Select!Hits
    <3>4. Least(Select!Hits) \in Select!Hits
      BY <3>1, <3>3, LeastIsIn
    <3> QED
      BY <1>1, <3>1, <3>3, <3>4 DEF SelectTypes
  <2>2. ServerReads(fdt[client[k]])
    BY <1>1, <1>2, <1>9
    DEF Select!Echo, Select!CloseClient, Select!IgnoreError, Select!Handled, ServerReads
  <2>3. NetTypes'
    BY <2>2, NetMoved DEF NetMoves, SelectTypes
  <2>4. /\ \/ nready' = nready - 1 /\ i' = k + 1 /\ pc' = (IF nready = 1 THEN "select" ELSE "scan")
           \/ UNCHANGED <<nready, i>> /\ pc' = "killed"
        /\ client' = client \/ client' = [client EXCEPT ![k] = NoFd]
        /\ allset' \subseteq allset /\ UNCHANGED <<maxi, maxfd, rset, listenReady>>
    BY <1>1, <1>9
    DEF Select!Echo, Select!CloseClient, Select!IgnoreError, Select!Handled, Select!Drop
  <2> HIDE DEF k
  <2>5. /\ nready' \in Nat /\ i' \in 0..TableSize /\ pc' \in {"select", "scan", "killed"}
        /\ pc' = "scan" => nready' >= 1
    <3>1. CASE nready' = nready - 1 /\ i' = k + 1 /\ pc' = (IF nready = 1 THEN "select" ELSE "scan")
      BY <1>1, <2>1, <3>1
    <3>2. CASE UNCHANGED <<nready, i>> /\ pc' = "killed"
      BY <3>2 DEF SelectTypes
    <3> QED
      BY <2>4, <3>1, <3>2
  <2>6. client' \in [0..TableSize-1 -> Fds \cup {NoFd}]
    BY <2>4 DEF SelectTypes
  <2> QED
    BY <2>3, <2>4, <2>5, <2>6 DEF SelectTypes
<1> QED
  BY <1>4, <1>5, <1>6, <1>7, <1>8, <1>9 DEF Select!Next, Select!Server

LEMMA SelectStartTypes == Select!Init => SelectTypes(TableSize)
<1> SUFFICES ASSUME Select!Init PROVE SelectTypes(TableSize)
  OBVIOUS
<1>1. /\ Select!Nobody = Nobody /\ Select!NoFd = NoFd /\ Select!Fds = Fds /\ TableSize \in Nat
  BY TableAssumption DEF Select!NoFd, NoFd, Select!Fds, Fds, Select!Nobody, Nobody
<1>2. NetTypes
  <2>1. NetInit
    BY <1>1 DEF Select!Init, Select!NetInit, NetInit
  <2> QED
    BY <2>1, NetTypesBegin
<1>3. /\ client \in [0..TableSize-1 -> Fds \cup {NoFd}] /\ maxi = -1 /\ maxfd = -1 /\ pc = "select"
      /\ allset = {} /\ rset = {} /\ listenReady = FALSE
  BY <1>1 DEF Select!Init, Select!TableInit
<1>4. nready \in Nat /\ i \in 0..TableSize
  BY <1>1 DEF Select!Init
<1> QED
  BY <1>2, <1>3, <1>4 DEF SelectTypes

LEMMA SelectAreTypes == SelectTypes(TableSize) => Select!TypeOK
<1> SUFFICES ASSUME SelectTypes(TableSize) PROVE Select!TypeOK
  OBVIOUS
<1>1. /\ Select!Nobody = Nobody /\ Select!NoFd = NoFd /\ Select!Fds = Fds
      /\ Select!Table = 0..TableSize-1
  BY DEF Select!NoFd, NoFd, Select!Fds, Fds, Select!Nobody, Nobody, Select!Table, SelectTypes
<1>2. Select!NetTypeOK
  BY <1>1, NetTypesAre DEF SelectTypes, NetTypeOK, Select!NetTypeOK
<1> QED
  BY <1>1, <1>2 DEF SelectTypes, Select!TypeOK, Select!TableTypeOK

LEMMA SelectFullStepTypes == SelectTypes(1) /\ SelectFull!Next => SelectTypes(1)'
<1> SUFFICES ASSUME SelectTypes(1), SelectFull!Next PROVE SelectTypes(1)'
  OBVIOUS
<1>1. /\ SelectFull!Nobody = Nobody /\ SelectFull!NoFd = NoFd /\ SelectFull!Fds = Fds
      /\ SelectFull!AllClosed = AllClosed
      /\ SelectFull!Table = 0..1-1 /\ 1 \in Nat
      /\ \A f : SelectFull!Closed(f) = Closed(f) /\ SelectFull!Accept(f) = Accept(f)
      /\ \A S : SelectFull!Least(S) = Least(S)
  BY TableAssumption
  DEF SelectFull!NoFd, NoFd, SelectFull!Fds, Fds, SelectFull!Nobody, Nobody, SelectFull!AllClosed, AllClosed,
      SelectFull!Closed, Closed, SelectFull!Accept, Accept, SelectFull!FreeFds, FreeFds, SelectFull!Least, Least,
      SelectFull!Table, SelectTypes
<1>2. /\ \A c, m : SelectFull!ReadPieces(c, m) /\ SelectFull!WritePieces(c, m)
                     => ReadPieces(c, m) /\ WritePieces(c, m)
      /\ \A c : SelectFull!ReportReset(c) = ReportReset(c)
  BY DEF SelectFull!ReadPieces, ReadPieces, SelectFull!WritePieces, WritePieces,
         SelectFull!ReportReset, ReportReset
<1>3. NoFd = -1 /\ Fds \subseteq Nat
  BY ConstantFacts DEF NoFd
<1>4. ASSUME NEW c \in Clients, SelectFull!ClientStep(c),
             UNCHANGED <<SelectFull!tabVars, pc, SelectFull!srvVars>>
      PROVE  SelectTypes(1)'
  <2>1. ClientStep(c)
    BY <1>1, <1>4
    DEF SelectFull!ClientStep, ClientStep, SelectFull!Connect, Connect, SelectFull!SendLine, SendLine,
        SelectFull!Open, Open, SelectFull!Queued, Queued, SelectFull!ReadAnswer, ReadAnswer, SelectFull!Quit, Quit
  <2>2. NetTypes' /\ (backlog # <<>> => backlog' # <<>>)
    BY <2>1, ClientTypes DEF SelectTypes
  <2> QED
    BY <1>4, <2>2 DEF SelectTypes, SelectFull!tabVars, SelectFull!srvVars
<1>5. CASE SelectFull!Select
  <2>1. PICK ready \in SUBSET Fds :
          /\ ready # {} \/ backlog # <<>>
          /\ rset' = ready /\ listenReady' = (backlog # <<>>)
          /\ nready' = Cardinality(ready) + (IF backlog # <<>> THEN 1 ELSE 0)
          /\ pc' = IF backlog # <<>> THEN "accept" ELSE "scan"
    <3> DEFINE r == {f \in SelectFull!Monitored :
                       fdt[f] # SelectFull!Nobody /\ SelectFull!Readable(fdt[f])}
    <3>1. SelectFull!Cardinality(r) = Cardinality(r)
      BY Zenon DEF SelectFull!Cardinality, Cardinality
    <3>2. r \in SUBSET Fds
      BY DEF SelectFull!Monitored, SelectTypes
    <3>3. /\ r # {} \/ backlog # <<>>
          /\ rset' = r /\ listenReady' = (backlog # <<>>)
          /\ nready' = SelectFull!Cardinality(r) + (IF backlog # <<>> THEN 1 ELSE 0)
          /\ pc' = IF backlog # <<>> THEN "accept" ELSE "scan"
      BY <1>5 DEF SelectFull!Select
    <3> QED
      BY <3>1, <3>2, <3>3
  <2>2. Cardinality(ready) \in Nat /\ (ready # {} => Cardinality(ready) >= 1)
    <3>1. 0 \in Int /\ NumFds - 1 \in Int /\ ready \in SUBSET (0..NumFds-1)
      BY ConstantFacts DEF Fds
    <3> QED
      BY <3>1, SomeReported
  <2>3. UNCHANGED netVars /\ UNCHANGED <<client, maxi, maxfd, allset>> /\ i' = 0
    BY <1>5 DEF SelectFull!Select, SelectFull!netVars, netVars
  <2>4. nready' \in Nat /\ nready' >= 1
    BY <2>1, <2>2
  <2>5. NetTypes' /\ backlog' = backlog
    BY <2>3, IdleTypes DEF SelectTypes, netVars
  <2> QED
    BY <1>1, <2>1, <2>3, <2>4, <2>5 DEF SelectTypes
<1>6. CASE SelectFull!AcceptClient
  <2> DEFINE e == SelectFull!Least(SelectFull!FreeEntries)
  <2>1. e \in 0..1-1
    <3>1. /\ SelectFull!FreeEntries # {} /\ SelectFull!FreeEntries \in SUBSET Nat
          /\ SelectFull!FreeEntries \subseteq 0..1-1
      BY <1>1, <1>6 DEF SelectFull!FreeEntries, SelectFull!AcceptClient
    <3>2. Least(SelectFull!FreeEntries) \in SelectFull!FreeEntries
      BY <3>1, LeastIsIn
    <3> QED
      BY <1>1, <3>1, <3>2
  <2>2. PICK fd \in Fds \cup {NoFd} :
          /\ Accept(fd) /\ client' = [client EXCEPT ![e] = fd]
          /\ allset' = allset \cup ({fd} \ {NoFd}) /\ maxfd' = IF fd > maxfd THEN fd ELSE maxfd
    BY <1>1, <1>6 DEF SelectFull!AcceptClient
  <2>3. /\ maxi' = IF e > maxi THEN e ELSE maxi
        /\ nready' = nready - 1 /\ pc' = (IF nready = 1 THEN "select" ELSE "scan")
        /\ UNCHANGED <<place, lines, inb, outb, peer, rset, listenReady, i>>
        /\ pc = "accept"
    BY <1>6 DEF SelectFull!AcceptClient
  <2> HIDE DEF e
  <2>4. ServerAccepts
    BY <2>2, <2>3 DEF ServerAccepts, SelectTypes
  <2>5. NetTypes'
    BY <2>4, NetMoved DEF NetMoves, SelectTypes
  <2>6. /\ nready' \in Nat /\ pc' \in {"select", "scan"}
        /\ pc' \in {"accept", "scan"} => nready' >= 1
    BY <2>3 DEF SelectTypes
  <2>7. /\ client' \in [0..1-1 -> Fds \cup {NoFd}] /\ maxi' \in 0..1-1 \cup {-1}
        /\ maxfd' \in Fds \cup {-1} /\ allset' \subseteq Fds
    BY <1>3, <2>1, <2>2, <2>3 DEF SelectTypes
  <2> QED
    BY <2>3, <2>5, <2>6, <2>7 DEF SelectTypes
<1>7. CASE SelectFull!TooManyClients
  <2>1. /\ ServerEnds /\ pc' = "full"
        /\ UNCHANGED <<client, maxi, maxfd, allset, rset, listenReady, nready, i>>
    BY <1>1, <1>7 DEF SelectFull!TooManyClients, ServerEnds, SelectTypes
  <2>2. NetTypes'
    BY <2>1, NetMoved DEF NetMoves, SelectTypes
  <2> QED
    BY <2>1, <2>2 DEF SelectTypes
<1>8. CASE SelectFull!ScanEnds
  <2>1. UNCHANGED netVars /\ pc' = "select"
        /\ UNCHANGED <<client, maxi, maxfd, allset, rset, listenReady, nready, i>>
    BY <1>8 DEF SelectFull!ScanEnds, SelectFull!netVars, netVars
  <2>2. NetTypes'
    BY <2>1, IdleTypes DEF SelectTypes
  <2> QED
    BY <2>1, <2>2 DEF SelectTypes
<1>9. CASE SelectFull!Echo \/ SelectFull!CloseClient \/ SelectFull!IgnoreError
  <2> DEFINE k == SelectFull!Least(SelectFull!Hits)
  <2>1. pc = "scan" /\ k \in 0..1-1 /\ nready \in Nat /\ nready >= 1
    <3>1. pc = "scan" /\ SelectFull!Hits # {}
      BY <1>9 DEF SelectFull!Echo, SelectFull!CloseClient, SelectFull!IgnoreError
    <3>2. i \in Nat /\ maxi \in Int /\ maxi <= 1 - 1
      BY <1>1 DEF SelectTypes
    <3>3. SelectFull!Hits \subseteq 0..1-1 /\ SelectFull!Hits \in SUBSET Nat
      BY <1>1, <3>2 DEF SelectFull!Hits
    <3>4. Least(SelectFull!Hits) \in SelectFull!Hits
      BY <3>1, <3>3, LeastIsIn
    <3> QED
      BY <1>1, <3>1, <3>3, <3>4 DEF SelectTypes
  <2>2. ServerReads(fdt[client[k]])
    BY <1>1, <1>2, <1>9
    DEF SelectFull!Echo, SelectFull!CloseClient, SelectFull!IgnoreError, SelectFull!Handled, ServerReads
  <2>3. NetTypes'
    BY <2>2, NetMoved DEF NetMoves, SelectTypes
  <2>4. /\ \/ nready' = nready - 1 /\ i' = k + 1 /\ pc' = (IF nready = 1 THEN "select" ELSE "scan")
           \/ UNCHANGED <<nready, i>> /\ pc' = "killed"
        /\ client' = client \/ client' = [client EXCEPT ![k] = NoFd]
        /\ allset' \subseteq allset /\ UNCHANGED <<maxi, maxfd, rset, listenReady>>
    BY <1>1, <1>9
    DEF SelectFull!Echo, SelectFull!CloseClient, SelectFull!IgnoreError, SelectFull!Handled, SelectFull!Drop
  <2> HIDE DEF k
  <2>5. /\ nready' \in Nat /\ i' \in 0..1 /\ pc' \in {"select", "scan", "killed"}
        /\ pc' = "scan" => nready' >= 1
    <3>1. CASE nready' = nready - 1 /\ i' = k + 1 /\ pc' = (IF nready = 1 THEN "select" ELSE "scan")
      BY <1>1, <2>1, <3>1
    <3>2. CASE UNCHANGED <<nready, i>> /\ pc' = "killed"
      BY <3>2 DEF SelectTypes
    <3> QED
      BY <2>4, <3>1, <3>2
  <2>6. client' \in [0..1-1 -> Fds \cup {NoFd}]
    BY <2>4 DEF SelectTypes
  <2> QED
    BY <2>3, <2>4, <2>5, <2>6 DEF SelectTypes
<1> QED
  BY <1>4, <1>5, <1>6, <1>7, <1>8, <1>9 DEF SelectFull!Next, SelectFull!Server

LEMMA SelectFullStartTypes == SelectFull!Init => SelectTypes(1)
<1> SUFFICES ASSUME SelectFull!Init PROVE SelectTypes(1)
  OBVIOUS
<1>1. /\ SelectFull!Nobody = Nobody /\ SelectFull!NoFd = NoFd /\ SelectFull!Fds = Fds /\ 1 \in Nat
  BY TableAssumption DEF SelectFull!NoFd, NoFd, SelectFull!Fds, Fds, SelectFull!Nobody, Nobody
<1>2. NetTypes
  <2>1. NetInit
    BY <1>1 DEF SelectFull!Init, SelectFull!NetInit, NetInit
  <2> QED
    BY <2>1, NetTypesBegin
<1>3. /\ client \in [0..1-1 -> Fds \cup {NoFd}] /\ maxi = -1 /\ maxfd = -1 /\ pc = "select"
      /\ allset = {} /\ rset = {} /\ listenReady = FALSE
  BY <1>1 DEF SelectFull!Init, SelectFull!TableInit
<1>4. nready \in Nat /\ i \in 0..1
  BY <1>1 DEF SelectFull!Init
<1> QED
  BY <1>2, <1>3, <1>4 DEF SelectTypes

LEMMA SelectFullAreTypes == SelectTypes(1) => SelectFull!TypeOK
<1> SUFFICES ASSUME SelectTypes(1) PROVE SelectFull!TypeOK
  OBVIOUS
<1>1. /\ SelectFull!Nobody = Nobody /\ SelectFull!NoFd = NoFd /\ SelectFull!Fds = Fds
      /\ SelectFull!Table = 0..1-1
  BY DEF SelectFull!NoFd, NoFd, SelectFull!Fds, Fds, SelectFull!Nobody, Nobody, SelectFull!Table, SelectTypes
<1>2. SelectFull!NetTypeOK
  BY <1>1, NetTypesAre DEF SelectTypes, NetTypeOK, SelectFull!NetTypeOK
<1> QED
  BY <1>1, <1>2 DEF SelectTypes, SelectFull!TypeOK, SelectFull!TableTypeOK

\* The same for the poll server.
PollTypes(n) ==
  /\ NetTypes
  /\ client \in [0..n-1 -> Fds \cup {NoFd}] /\ maxi \in 0..n-1
  /\ pc \in {"poll", "accept", "scan", "full", "failed", "killed"}
  /\ revents \subseteq 0..n-1 /\ nready \in Nat /\ i \in 0..n
  /\ pc = "accept" => backlog # <<>>
  /\ pc \in {"accept", "scan"} => nready >= 1

LEMMA PollStepTypes == PollTypes(4) /\ Poll!Next => PollTypes(4)'
<1> SUFFICES ASSUME PollTypes(4), Poll!Next PROVE PollTypes(4)'
  OBVIOUS
<1>1. /\ Poll!Nobody = Nobody /\ Poll!NoFd = NoFd /\ Poll!Fds = Fds
      /\ Poll!AllClosed = AllClosed
      /\ Poll!Table = 0..4-1 /\ Poll!Listen = 0
      /\ \A f : Poll!Closed(f) = Closed(f) /\ Poll!Accept(f) = Accept(f)
      /\ \A S : Poll!Least(S) = Least(S)
  BY DEF Poll!NoFd, NoFd, Poll!Fds, Fds, Poll!Nobody, Nobody, Poll!AllClosed, AllClosed,
         Poll!Closed, Closed, Poll!Accept, Accept, Poll!FreeFds, FreeFds, Poll!Least, Least,
         Poll!Table, Poll!Listen, PollTypes
<1>2. /\ \A c, m : Poll!ReadPieces(c, m) /\ Poll!WritePieces(c, m)
                     => ReadPieces(c, m) /\ WritePieces(c, m)
      /\ \A c : Poll!ReportReset(c) = ReportReset(c)
  BY DEF Poll!ReadPieces, ReadPieces, Poll!WritePieces, WritePieces,
         Poll!ReportReset, ReportReset
<1>3. maxi \in Nat /\ maxi <= 4 - 1
  BY DEF PollTypes
<1>4. ASSUME NEW c \in Clients, Poll!ClientStep(c),
             UNCHANGED <<Poll!tabVars, pc, Poll!srvVars>>
      PROVE  PollTypes(4)'
  <2>1. ClientStep(c)
    BY <1>1, <1>4
    DEF Poll!ClientStep, ClientStep, Poll!Connect, Connect, Poll!SendLine, SendLine,
        Poll!Open, Open, Poll!Queued, Queued, Poll!ReadAnswer, ReadAnswer, Poll!Quit, Quit
  <2>2. NetTypes' /\ (backlog # <<>> => backlog' # <<>>)
    BY <2>1, ClientTypes DEF PollTypes
  <2> QED
    BY <1>4, <2>2 DEF PollTypes, Poll!tabVars, Poll!srvVars
<1>5. CASE Poll!Poll
  <2>1. PICK ready \in SUBSET (0..maxi) :
          /\ ready # {} /\ (0 \in ready => backlog # <<>>)
          /\ revents' = (revents \ Poll!Polled) \cup ready
          /\ nready' = Cardinality(ready)
          /\ pc' = IF 0 \in ready THEN "accept" ELSE "scan"
    <3> DEFINE r == {k \in Poll!Polled : IF k = Poll!Listen THEN backlog # <<>>
                       ELSE client[k] # Poll!NoFd /\ Poll!Readable(fdt[client[k]])}
    <3>1. Poll!Cardinality(r) = Cardinality(r)
      BY Zenon DEF Poll!Cardinality, Cardinality
    <3>2. r \in SUBSET (0..maxi) /\ (0 \in r => backlog # <<>>)
      BY <1>1 DEF Poll!Polled
    <3>3. /\ r # {} /\ revents' = (revents \ Poll!Polled) \cup r
          /\ nready' = Poll!Cardinality(r)
          /\ pc' = IF Poll!Listen \in r THEN "accept" ELSE "scan"
      BY <1>5 DEF Poll!Poll
    <3> HIDE DEF r
    <3> QED
      BY <1>1, <3>1, <3>2, <3>3
  <2>2. Cardinality(ready) \in Nat /\ Cardinality(ready) >= 1
    <3>1. 0 \in Int /\ maxi \in Int
      BY <1>3
    <3> QED
      BY <2>1, <3>1, SomeReported
  <2>3. UNCHANGED netVars /\ UNCHANGED <<client, maxi>> /\ i' = 0
    BY <1>5 DEF Poll!Poll, Poll!netVars, netVars
  <2>4. nready' \in Nat /\ nready' >= 1 /\ revents' \subseteq 0..4-1
    <3>1. ready \subseteq 0..4-1
      BY <1>3
    <3> QED
      BY <2>1, <2>2, <3>1 DEF PollTypes
  <2>5. NetTypes' /\ backlog' = backlog
    BY <2>3, IdleTypes DEF PollTypes, netVars
  <2> QED
    BY <2>1, <2>3, <2>4, <2>5 DEF PollTypes
<1>6. CASE Poll!AcceptClient
  <2> DEFINE e == Poll!Least(Poll!FreeEntries)
  <2>1. e \in 0..4-1
    <3>1. /\ Poll!FreeEntries # {} /\ Poll!FreeEntries \in SUBSET Nat
          /\ Poll!FreeEntries \subseteq 0..4-1
      BY <1>1, <1>6 DEF Poll!FreeEntries, Poll!AcceptClient
    <3>2. Least(Poll!FreeEntries) \in Poll!FreeEntries
      BY <3>1, LeastIsIn
    <3> QED
      BY <1>1, <3>1, <3>2
  <2>2. PICK fd \in Fds \cup {NoFd} : Accept(fd) /\ client' = [client EXCEPT ![e] = fd]
    BY <1>1, <1>6 DEF Poll!AcceptClient
  <2>3. /\ maxi' = IF e > maxi THEN e ELSE maxi
        /\ nready' = nready - 1 /\ pc' = (IF nready = 1 THEN "poll" ELSE "scan")
        /\ UNCHANGED <<place, lines, inb, outb, peer, revents, i>>
        /\ pc = "accept"
    BY <1>6 DEF Poll!AcceptClient
  <2> HIDE DEF e
  <2>4. ServerAccepts
    BY <2>2, <2>3 DEF ServerAccepts, PollTypes
  <2>5. NetTypes'
    BY <2>4, NetMoved DEF NetMoves, PollTypes
  <2>6. /\ nready' \in Nat /\ pc' \in {"poll", "scan"}
        /\ pc' \in {"accept", "scan"} => nready' >= 1
    BY <2>3 DEF PollTypes
  <2>7. client' \in [0..4-1 -> Fds \cup {NoFd}] /\ maxi' \in 0..4-1
    BY <2>1, <2>2, <2>3 DEF PollTypes
  <2> QED
    BY <2>3, <2>5, <2>6, <2>7 DEF PollTypes
<1>7. CASE Poll!TooManyClients \/ Poll!ReadListen
  <2>1. /\ ServerEnds /\ pc' \in {"full", "failed"}
        /\ UNCHANGED <<client, maxi, revents, nready, i>>
    BY <1>1, <1>7 DEF Poll!TooManyClients, Poll!ReadListen, ServerEnds, PollTypes
  <2>2. NetTypes'
    BY <2>1, NetMoved DEF NetMoves, PollTypes
  <2> QED
    BY <2>1, <2>2 DEF PollTypes
<1>8. CASE Poll!ScanEnds
  <2>1. UNCHANGED netVars /\ pc' = "poll" /\ UNCHANGED <<client, maxi, revents, nready, i>>
    BY <1>8 DEF Poll!ScanEnds, Poll!netVars, netVars
  <2>2. NetTypes'
    BY <2>1, IdleTypes DEF PollTypes
  <2> QED
    BY <2>1, <2>2 DEF PollTypes
<1>9. CASE Poll!Echo \/ Poll!CloseClient
  <2> DEFINE k == Poll!Hit
  <2>1. pc = "scan" /\ k \in 0..4-1 /\ nready \in Nat /\ nready >= 1
    <3>1. pc = "scan" /\ Poll!Hits # {}
      BY <1>9 DEF Poll!Echo, Poll!CloseClient, Poll!AtClientHit
    <3>2. i \in Nat
      BY DEF PollTypes
    <3>3. Poll!Hits \subseteq 0..4-1 /\ Poll!Hits \in SUBSET Nat
      BY <1>3, <3>2 DEF Poll!Hits
    <3>4. Least(Poll!Hits) \in Poll!Hits
      BY <3>1, <3>3, LeastIsIn
    <3> QED
      BY <1>1, <3>1, <3>3, <3>4 DEF PollTypes, Poll!Hit
  <2>2. ServerReads(fdt[client[k]])
    BY <1>1, <1>2, <1>9
    DEF Poll!Echo, Poll!CloseClient, Poll!Handled, Poll!Conn, ServerReads
  <2>3. NetTypes'
    BY <2>2, NetMoved DEF NetMoves, PollTypes
  <2>4. /\ \/ nready' = nready - 1 /\ i' = k + 1 /\ pc' = (IF nready = 1 THEN "poll" ELSE "scan")
           \/ UNCHANGED <<nready, i>> /\ pc' = "killed"
        /\ client' = client \/ client' = [client EXCEPT ![k] = NoFd]
        /\ UNCHANGED <<maxi, revents>>
    BY <1>1, <1>9 DEF Poll!Echo, Poll!CloseClient, Poll!Handled
  <2> HIDE DEF k
  <2>5. /\ nready' \in Nat /\ i' \in 0..4 /\ pc' \in {"poll", "scan", "killed"}
        /\ pc' = "scan" => nready' >= 1
    <3>1. CASE nready' = nready - 1 /\ i' = k + 1 /\ pc' = (IF nready = 1 THEN "poll" ELSE "scan")
      BY <2>1, <3>1
    <3>2. CASE UNCHANGED <<nready, i>> /\ pc' = "killed"
      BY <3>2 DEF PollTypes
    <3> QED
      BY <2>4, <3>1, <3>2
  <2>6. client' \in [0..4-1 -> Fds \cup {NoFd}]
    BY <2>4 DEF PollTypes
  <2> QED
    BY <2>3, <2>4, <2>5, <2>6 DEF PollTypes
<1> QED
  BY <1>4, <1>5, <1>6, <1>7, <1>8, <1>9 DEF Poll!Next, Poll!Server

LEMMA PollStartTypes == Poll!Init => PollTypes(4)
<1> SUFFICES ASSUME Poll!Init PROVE PollTypes(4)
  OBVIOUS
<1>1. Poll!Nobody = Nobody /\ Poll!NoFd = NoFd /\ Poll!Fds = Fds
  BY DEF Poll!NoFd, NoFd, Poll!Fds, Fds, Poll!Nobody, Nobody
<1>2. NetTypes
  <2>1. NetInit
    BY <1>1 DEF Poll!Init, Poll!NetInit, NetInit
  <2> QED
    BY <2>1, NetTypesBegin
<1>3. /\ client \in [0..4-1 -> Fds \cup {NoFd}] /\ pc = "poll"
      /\ DOMAIN client = 0..4-1
  BY <1>1 DEF Poll!Init, Poll!TableInit
<1>4. nready \in Nat /\ i \in 0..4 /\ maxi \in 0..4-1 /\ revents \subseteq 0..4-1
  BY <1>3 DEF Poll!Init, Poll!Table
<1> QED
  BY <1>2, <1>3, <1>4 DEF PollTypes

LEMMA PollAreTypes == PollTypes(4) => Poll!TypeOK
<1> SUFFICES ASSUME PollTypes(4) PROVE Poll!TypeOK
  OBVIOUS
<1>1. /\ Poll!Nobody = Nobody /\ Poll!NoFd = NoFd /\ Poll!Fds = Fds
      /\ Poll!Table = 0..4-1
  BY DEF Poll!NoFd, NoFd, Poll!Fds, Fds, Poll!Nobody, Nobody, Poll!Table, PollTypes
<1>2. Poll!NetTypeOK
  BY <1>1, NetTypesAre DEF PollTypes, NetTypeOK, Poll!NetTypeOK
<1> QED
  BY <1>1, <1>2 DEF PollTypes, Poll!TypeOK, Poll!TableTypeOK

LEMMA PollFullStepTypes == PollTypes(2) /\ PollFull!Next => PollTypes(2)'
<1> SUFFICES ASSUME PollTypes(2), PollFull!Next PROVE PollTypes(2)'
  OBVIOUS
<1>1. /\ PollFull!Nobody = Nobody /\ PollFull!NoFd = NoFd /\ PollFull!Fds = Fds
      /\ PollFull!AllClosed = AllClosed
      /\ PollFull!Table = 0..2-1 /\ PollFull!Listen = 0
      /\ \A f : PollFull!Closed(f) = Closed(f) /\ PollFull!Accept(f) = Accept(f)
      /\ \A S : PollFull!Least(S) = Least(S)
  BY DEF PollFull!NoFd, NoFd, PollFull!Fds, Fds, PollFull!Nobody, Nobody, PollFull!AllClosed, AllClosed,
         PollFull!Closed, Closed, PollFull!Accept, Accept, PollFull!FreeFds, FreeFds, PollFull!Least, Least,
         PollFull!Table, PollFull!Listen, PollTypes
<1>2. /\ \A c, m : PollFull!ReadPieces(c, m) /\ PollFull!WritePieces(c, m)
                     => ReadPieces(c, m) /\ WritePieces(c, m)
      /\ \A c : PollFull!ReportReset(c) = ReportReset(c)
  BY DEF PollFull!ReadPieces, ReadPieces, PollFull!WritePieces, WritePieces,
         PollFull!ReportReset, ReportReset
<1>3. maxi \in Nat /\ maxi <= 2 - 1
  BY DEF PollTypes
<1>4. ASSUME NEW c \in Clients, PollFull!ClientStep(c),
             UNCHANGED <<PollFull!tabVars, pc, PollFull!srvVars>>
      PROVE  PollTypes(2)'
  <2>1. ClientStep(c)
    BY <1>1, <1>4
    DEF PollFull!ClientStep, ClientStep, PollFull!Connect, Connect, PollFull!SendLine, SendLine,
        PollFull!Open, Open, PollFull!Queued, Queued, PollFull!ReadAnswer, ReadAnswer, PollFull!Quit, Quit
  <2>2. NetTypes' /\ (backlog # <<>> => backlog' # <<>>)
    BY <2>1, ClientTypes DEF PollTypes
  <2> QED
    BY <1>4, <2>2 DEF PollTypes, PollFull!tabVars, PollFull!srvVars
<1>5. CASE PollFull!Poll
  <2>1. PICK ready \in SUBSET (0..maxi) :
          /\ ready # {} /\ (0 \in ready => backlog # <<>>)
          /\ revents' = (revents \ PollFull!Polled) \cup ready
          /\ nready' = Cardinality(ready)
          /\ pc' = IF 0 \in ready THEN "accept" ELSE "scan"
    <3> DEFINE r == {k \in PollFull!Polled : IF k = PollFull!Listen THEN backlog # <<>>
                       ELSE client[k] # PollFull!NoFd /\ PollFull!Readable(fdt[client[k]])}
    <3>1. PollFull!Cardinality(r) = Cardinality(r)
      BY Zenon DEF PollFull!Cardinality, Cardinality
    <3>2. r \in SUBSET (0..maxi) /\ (0 \in r => backlog # <<>>)
      BY <1>1 DEF PollFull!Polled
    <3>3. /\ r # {} /\ revents' = (revents \ PollFull!Polled) \cup r
          /\ nready' = PollFull!Cardinality(r)
          /\ pc' = IF PollFull!Listen \in r THEN "accept" ELSE "scan"
      BY <1>5 DEF PollFull!Poll
    <3> HIDE DEF r
    <3> QED
      BY <1>1, <3>1, <3>2, <3>3
  <2>2. Cardinality(ready) \in Nat /\ Cardinality(ready) >= 1
    <3>1. 0 \in Int /\ maxi \in Int
      BY <1>3
    <3> QED
      BY <2>1, <3>1, SomeReported
  <2>3. UNCHANGED netVars /\ UNCHANGED <<client, maxi>> /\ i' = 0
    BY <1>5 DEF PollFull!Poll, PollFull!netVars, netVars
  <2>4. nready' \in Nat /\ nready' >= 1 /\ revents' \subseteq 0..2-1
    <3>1. ready \subseteq 0..2-1
      BY <1>3
    <3> QED
      BY <2>1, <2>2, <3>1 DEF PollTypes
  <2>5. NetTypes' /\ backlog' = backlog
    BY <2>3, IdleTypes DEF PollTypes, netVars
  <2> QED
    BY <2>1, <2>3, <2>4, <2>5 DEF PollTypes
<1>6. CASE PollFull!AcceptClient
  <2> DEFINE e == PollFull!Least(PollFull!FreeEntries)
  <2>1. e \in 0..2-1
    <3>1. /\ PollFull!FreeEntries # {} /\ PollFull!FreeEntries \in SUBSET Nat
          /\ PollFull!FreeEntries \subseteq 0..2-1
      BY <1>1, <1>6 DEF PollFull!FreeEntries, PollFull!AcceptClient
    <3>2. Least(PollFull!FreeEntries) \in PollFull!FreeEntries
      BY <3>1, LeastIsIn
    <3> QED
      BY <1>1, <3>1, <3>2
  <2>2. PICK fd \in Fds \cup {NoFd} : Accept(fd) /\ client' = [client EXCEPT ![e] = fd]
    BY <1>1, <1>6 DEF PollFull!AcceptClient
  <2>3. /\ maxi' = IF e > maxi THEN e ELSE maxi
        /\ nready' = nready - 1 /\ pc' = (IF nready = 1 THEN "poll" ELSE "scan")
        /\ UNCHANGED <<place, lines, inb, outb, peer, revents, i>>
        /\ pc = "accept"
    BY <1>6 DEF PollFull!AcceptClient
  <2> HIDE DEF e
  <2>4. ServerAccepts
    BY <2>2, <2>3 DEF ServerAccepts, PollTypes
  <2>5. NetTypes'
    BY <2>4, NetMoved DEF NetMoves, PollTypes
  <2>6. /\ nready' \in Nat /\ pc' \in {"poll", "scan"}
        /\ pc' \in {"accept", "scan"} => nready' >= 1
    BY <2>3 DEF PollTypes
  <2>7. client' \in [0..2-1 -> Fds \cup {NoFd}] /\ maxi' \in 0..2-1
    BY <2>1, <2>2, <2>3 DEF PollTypes
  <2> QED
    BY <2>3, <2>5, <2>6, <2>7 DEF PollTypes
<1>7. CASE PollFull!TooManyClients \/ PollFull!ReadListen
  <2>1. /\ ServerEnds /\ pc' \in {"full", "failed"}
        /\ UNCHANGED <<client, maxi, revents, nready, i>>
    BY <1>1, <1>7 DEF PollFull!TooManyClients, PollFull!ReadListen, ServerEnds, PollTypes
  <2>2. NetTypes'
    BY <2>1, NetMoved DEF NetMoves, PollTypes
  <2> QED
    BY <2>1, <2>2 DEF PollTypes
<1>8. CASE PollFull!ScanEnds
  <2>1. UNCHANGED netVars /\ pc' = "poll" /\ UNCHANGED <<client, maxi, revents, nready, i>>
    BY <1>8 DEF PollFull!ScanEnds, PollFull!netVars, netVars
  <2>2. NetTypes'
    BY <2>1, IdleTypes DEF PollTypes
  <2> QED
    BY <2>1, <2>2 DEF PollTypes
<1>9. CASE PollFull!Echo \/ PollFull!CloseClient
  <2> DEFINE k == PollFull!Hit
  <2>1. pc = "scan" /\ k \in 0..2-1 /\ nready \in Nat /\ nready >= 1
    <3>1. pc = "scan" /\ PollFull!Hits # {}
      BY <1>9 DEF PollFull!Echo, PollFull!CloseClient, PollFull!AtClientHit
    <3>2. i \in Nat
      BY DEF PollTypes
    <3>3. PollFull!Hits \subseteq 0..2-1 /\ PollFull!Hits \in SUBSET Nat
      BY <1>3, <3>2 DEF PollFull!Hits
    <3>4. Least(PollFull!Hits) \in PollFull!Hits
      BY <3>1, <3>3, LeastIsIn
    <3> QED
      BY <1>1, <3>1, <3>3, <3>4 DEF PollTypes, PollFull!Hit
  <2>2. ServerReads(fdt[client[k]])
    BY <1>1, <1>2, <1>9
    DEF PollFull!Echo, PollFull!CloseClient, PollFull!Handled, PollFull!Conn, ServerReads
  <2>3. NetTypes'
    BY <2>2, NetMoved DEF NetMoves, PollTypes
  <2>4. /\ \/ nready' = nready - 1 /\ i' = k + 1 /\ pc' = (IF nready = 1 THEN "poll" ELSE "scan")
           \/ UNCHANGED <<nready, i>> /\ pc' = "killed"
        /\ client' = client \/ client' = [client EXCEPT ![k] = NoFd]
        /\ UNCHANGED <<maxi, revents>>
    BY <1>1, <1>9 DEF PollFull!Echo, PollFull!CloseClient, PollFull!Handled
  <2> HIDE DEF k
  <2>5. /\ nready' \in Nat /\ i' \in 0..2 /\ pc' \in {"poll", "scan", "killed"}
        /\ pc' = "scan" => nready' >= 1
    <3>1. CASE nready' = nready - 1 /\ i' = k + 1 /\ pc' = (IF nready = 1 THEN "poll" ELSE "scan")
      BY <2>1, <3>1
    <3>2. CASE UNCHANGED <<nready, i>> /\ pc' = "killed"
      BY <3>2 DEF PollTypes
    <3> QED
      BY <2>4, <3>1, <3>2
  <2>6. client' \in [0..2-1 -> Fds \cup {NoFd}]
    BY <2>4 DEF PollTypes
  <2> QED
    BY <2>3, <2>4, <2>5, <2>6 DEF PollTypes
<1> QED
  BY <1>4, <1>5, <1>6, <1>7, <1>8, <1>9 DEF PollFull!Next, PollFull!Server

LEMMA PollFullStartTypes == PollFull!Init => PollTypes(2)
<1> SUFFICES ASSUME PollFull!Init PROVE PollTypes(2)
  OBVIOUS
<1>1. PollFull!Nobody = Nobody /\ PollFull!NoFd = NoFd /\ PollFull!Fds = Fds
  BY DEF PollFull!NoFd, NoFd, PollFull!Fds, Fds, PollFull!Nobody, Nobody
<1>2. NetTypes
  <2>1. NetInit
    BY <1>1 DEF PollFull!Init, PollFull!NetInit, NetInit
  <2> QED
    BY <2>1, NetTypesBegin
<1>3. /\ client \in [0..2-1 -> Fds \cup {NoFd}] /\ pc = "poll"
      /\ DOMAIN client = 0..2-1
  BY <1>1 DEF PollFull!Init, PollFull!TableInit
<1>4. nready \in Nat /\ i \in 0..2 /\ maxi \in 0..2-1 /\ revents \subseteq 0..2-1
  BY <1>3 DEF PollFull!Init, PollFull!Table
<1> QED
  BY <1>2, <1>3, <1>4 DEF PollTypes

LEMMA PollFullAreTypes == PollTypes(2) => PollFull!TypeOK
<1> SUFFICES ASSUME PollTypes(2) PROVE PollFull!TypeOK
  OBVIOUS
<1>1. /\ PollFull!Nobody = Nobody /\ PollFull!NoFd = NoFd /\ PollFull!Fds = Fds
      /\ PollFull!Table = 0..2-1
  BY DEF PollFull!NoFd, NoFd, PollFull!Fds, Fds, PollFull!Nobody, Nobody, PollFull!Table, PollTypes
<1>2. PollFull!NetTypeOK
  BY <1>1, NetTypesAre DEF PollTypes, NetTypeOK, PollFull!NetTypeOK
<1> QED
  BY <1>1, <1>2 DEF PollTypes, PollFull!TypeOK, PollFull!TableTypeOK

\* The epoll server, whose invariant has the types of the table: EventTaken keeps the
\* number of the event within it.
EpollTypes == NetTypes /\ i \in 0..TableSize

LEMMA EpollNetMoves ==
  ASSUME EpollInv, EpollReset!Server
  PROVE  NetMoves
<1>1. EpollReset!Wait \/ EpollReset!WaitAgain => UNCHANGED netVars
  BY DEF EpollReset!Wait, EpollReset!WaitAgain, EpollReset!netVars, netVars
<1>2. EpollReset!AcceptClient => ServerAccepts
  BY EpollNames, EpollSteps DEF EpollReset!AcceptClient, ServerAccepts, EpollInv
<1>3. EpollReset!TooManyClients => ServerEnds
  BY EpollNames DEF EpollReset!TooManyClients, EpollReset!Exit, ServerEnds
<1>4. ASSUME NEW f, EpollReset!Echo(f) PROVE ServerReads(fdt[f])
  BY <1>4, EpollNames, EpollSteps
  DEF EpollReset!Echo, EpollReset!Exit, EpollReset!NextEvent, ServerReads
<1>5. ASSUME NEW f, EpollReset!CloseClient(f) PROVE ServerReads(fdt[f])
  BY <1>5, EpollNames DEF EpollReset!CloseClient, EpollReset!ClosedFor, ServerReads
<1>6. ASSUME NEW f, EpollReset!AbortClient(f) PROVE ServerReads(fdt[f])
  BY <1>6, EpollNames
  DEF EpollReset!AbortClient, EpollReset!ReportReset, ReportReset, ServerReads
<1>7. ASSUME NEW f, EpollReset!ReadFails(f) PROVE ServerEnds
  BY <1>7, EpollNames DEF EpollReset!ReadFails, EpollReset!Exit, ServerEnds
<1> QED
  BY <1>1, <1>2, <1>3, <1>4, <1>5, <1>6, <1>7 DEF EpollReset!Server, NetMoves

LEMMA EpollServerTypes ==
  ASSUME EpollInv, EpollTypes, EpollReset!Server
  PROVE  EpollTypes'
<1>1. NetTypes'
  BY EpollNetMoves, NetMoved DEF EpollTypes
<1>2. \/ i' = i \/ i' = 0
      \/ \E e \in events : pc = "events" /\ i' = i + 1
  BY DEF EpollReset!Server, EpollReset!Wait, EpollReset!WaitAgain, EpollReset!AcceptClient,
         EpollReset!TooManyClients, EpollReset!Echo, EpollReset!CloseClient,
         EpollReset!AbortClient, EpollReset!ReadFails, EpollReset!NextEvent, EpollReset!Exit,
         EpollReset!AtEvent
<1>3. TableSize \in Nat
  BY TableAssumption
<1>4. i' \in 0..TableSize
  <2>1. CASE i' = i \/ i' = 0
    BY <1>3, <2>1 DEF EpollTypes
  <2>2. ASSUME NEW e \in events, pc = "events", i' = i + 1 PROVE i' \in 0..TableSize
    <3>1. i \in 0..TableSize-1
      BY <2>2, EventTaken
    <3> QED
      BY <1>3, <2>2, <3>1
  <2> QED
    BY <1>2, <2>1, <2>2
<1> QED
  BY <1>1, <1>4 DEF EpollTypes

LEMMA EpollStepTypes ==
  ASSUME EpollInv, EpollTypes, (Epoll!Next /\ Orderly) \/ EpollReset!Next
  PROVE  EpollTypes'
<1>1. CASE EpollReset!Server
  BY <1>1, EpollServerTypes
<1>2. CASE Epoll!Server
  BY <1>2, OrderlyServer, EpollServerTypes
<1>3. ASSUME NEW c \in Clients, ClientStep(c), i' = i PROVE EpollTypes'
  BY <1>3, ClientTypes DEF EpollTypes
<1>4. ASSUME NEW c \in Clients, EpollReset!ClientStep(c), UNCHANGED EpollReset!srvVars
      PROVE  EpollTypes'
  BY <1>3, <1>4, EpollSteps DEF EpollReset!srvVars
<1>5. ASSUME NEW c \in Clients, Epoll!ClientStep(c), UNCHANGED Epoll!srvVars, Orderly
      PROVE  EpollTypes'
  BY <1>3, <1>5, OrderlyClient DEF Epoll!srvVars, EpollInv, Orderly
<1> QED
  BY <1>1, <1>2, <1>4, <1>5 DEF Epoll!Next, EpollReset!Next

LEMMA EpollStartTypes == Epoll!Init \/ EpollReset!Init => EpollTypes
<1> SUFFICES ASSUME Epoll!Init \/ EpollReset!Init PROVE EpollTypes
  OBVIOUS
<1>1. NetInit /\ i = 0
  BY OrderlyNames, EpollNames
  DEF Epoll!Init, Epoll!NetInit, EpollReset!Init, EpollReset!NetInit, NetInit
<1>2. TableSize \in Nat
  BY TableAssumption
<1> QED
  BY <1>1, <1>2, NetTypesBegin DEF EpollTypes

LEMMA EpollAreTypes == EpollInv /\ EpollTypes => Epoll!TypeOK /\ EpollReset!TypeOK
<1> SUFFICES ASSUME EpollInv, EpollTypes PROVE Epoll!TypeOK /\ EpollReset!TypeOK
  OBVIOUS
<1>1. NetTypeOK
  BY NetTypesAre DEF EpollTypes
<1>2. Epoll!NetTypeOK /\ EpollReset!NetTypeOK
  BY <1>1, OrderlyNames, EpollNames DEF NetTypeOK, Epoll!NetTypeOK, EpollReset!NetTypeOK
<1> QED
  BY <1>2, OrderlyNames, EpollNames, OrderlyStates, EpollStates
  DEF EpollInv, EpollTypes, Epoll!TypeOK, EpollReset!TypeOK

\* What the servers need for their types, whichever runs.
TypesInv ==
  /\ kind \in {"select", "selectFull", "poll", "pollFull", "epoll", "epollReset"}
  /\ kind = "select" => SelectTypes(TableSize)
  /\ kind = "selectFull" => SelectTypes(1)
  /\ kind = "poll" => PollTypes(4)
  /\ kind = "pollFull" => PollTypes(2)
  /\ kind \in {"epoll", "epollReset"} => EpollTypes

LEMMA InitTypes == Init => TypesInv
BY SelectStartTypes, SelectFullStartTypes, PollStartTypes, PollFullStartTypes, EpollStartTypes
DEF Init, TypesInv

LEMMA StepTypes == IInv /\ TypesInv /\ [Next]_vars => TypesInv'
<1> SUFFICES ASSUME IInv, TypesInv, [Next]_vars PROVE TypesInv'
  OBVIOUS
<1>1. kind' = kind
  BY DEF Next, vars, SelectOnly, PollOnly, EpollOnly
<1>2. CASE UNCHANGED vars
  <2>1. NetTypes => NetTypes'
    BY <1>2, IdleTypes DEF vars
  <2> QED
    BY <1>1, <1>2, <2>1
    DEF TypesInv, SelectTypes, PollTypes, EpollTypes, vars, netVars, tabVars
<1>3. CASE kind = "select" /\ Select!Next
  BY <1>1, <1>3, SelectStepTypes DEF TypesInv
<1>4. CASE kind = "selectFull" /\ SelectFull!Next
  BY <1>1, <1>4, SelectFullStepTypes DEF TypesInv
<1>5. CASE kind = "poll" /\ Poll!Next
  BY <1>1, <1>5, PollStepTypes DEF TypesInv
<1>6. CASE kind = "pollFull" /\ PollFull!Next
  BY <1>1, <1>6, PollFullStepTypes DEF TypesInv
<1>7. CASE (kind = "epoll" /\ Epoll!Next) \/ (kind = "epollReset" /\ EpollReset!Next)
  <2>1. EpollInv /\ (kind = "epoll" => Orderly)
    BY <1>7, OrderlyIs, EpollIs DEF IInv
  <2> QED
    BY <1>1, <1>7, <2>1, EpollStepTypes DEF TypesInv
<1> QED
  BY <1>2, <1>3, <1>4, <1>5, <1>6, <1>7 DEF Next

\* No server leaves the types of its variables, for whatever its clients do: the counts
\* of reports and events stay within the tables, and what is under way is what was sent.
THEOREM TypesKept == FairSpec => []TypeOK
<1>1. Init => IInv /\ TypesInv
  BY InitIInv, InitTypes
<1>2. (IInv /\ TypesInv) /\ [Next]_vars => (IInv /\ TypesInv)'
  BY StepIInv, StepTypes
<1>3. ASSUME IInv, TypesInv PROVE TypeOK
  <2>1. kind \in {"epoll", "epollReset"} => EpollInv
    BY <1>3, OrderlyIs, EpollIs DEF IInv
  <2> QED
    BY <1>3, <2>1, SelectAreTypes, SelectFullAreTypes, PollAreTypes, PollFullAreTypes,
       EpollAreTypes
    DEF TypesInv, TypeOK
<1> QED
  BY <1>1, <1>2, <1>3, PTL DEF FairSpec
=============================================================================
