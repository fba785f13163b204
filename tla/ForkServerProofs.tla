------------------------- MODULE ForkServerProofs -------------------------
(***************************************************************************)
(* Proofs about ForkServer, and the sequential and the local server beside *)
(* it, for any number of clients: the parent has a waiting thread for each *)
(* child that has not been waited for, and a connection is open exactly as *)
(* long as it should be.                                                   *)
(***************************************************************************)
EXTENDS MCStreams, QueueLemmas, FiniteSetTheorems

\* The lowest of some descriptors is one of them.
LEMMA LeastIsIn ==
  ASSUME NEW S \in SUBSET Nat, S # {}
  PROVE  Least(S) \in S
BY LeastExists DEF Least

\* The constants.
LEMMA ConstantFacts ==
  /\ NumFds \in Nat /\ Nobody \notin Clients /\ NoFd \notin Fds /\ Fds \subseteq Nat
  /\ IsFiniteSet(Fds) /\ Cardinality(Fds) = NumFds
  /\ IsFiniteSet(Clients) /\ Cardinality(Clients) \in Nat /\ Cardinality(Clients) <= NumFds
<1>1. NumFds \in Nat /\ Nobody \notin Clients
  BY NetAssumption, NoClientIsNobody
<1>2. NoFd \notin Fds /\ Fds \subseteq Nat
  BY <1>1 DEF NoFd, Fds
<1>3. IsFiniteSet(0..NumFds-1) /\ Cardinality(0..NumFds-1) = NumFds
  <2>1. 0 \in Int /\ NumFds - 1 \in Int
    BY <1>1
  <2>2. /\ IsFiniteSet(0..NumFds-1)
        /\ Cardinality(0..NumFds-1) = IF 0 > NumFds - 1 THEN 0 ELSE (NumFds - 1) - 0 + 1
    BY <2>1, FS_Interval
  <2> QED
    BY <1>1, <2>2
<1> QED
  BY <1>1, <1>2, <1>3, TableAssumption, FS_CardinalityType DEF Fds

\* In the words of the lemmas about queues.
LEMMA QueuedIs ==
  /\ \A c : Queued(c) <=> InSeq(c, backlog)
  /\ OneConnection => Distinct(backlog)
BY DEF Queued, InSeq, OneConnection, Distinct

\* accept finds a descriptor: the connections that are open are other clients' than
\* the first one in the queue.
LEMMA AcceptFinds ==
  ASSUME IInv, backlog # <<>>
  PROVE  /\ Least(FreeFds) \in Fds /\ fdt[Least(FreeFds)] = Nobody
         /\ FreeFds # {} /\ Head(backlog) \in Clients /\ Queued(Head(backlog))
<1>1. backlog \in Seq(Clients) /\ OneConnection /\ fdt \in [Fds -> Clients \cup {Nobody}]
  BY DEF IInv
<1>2. Head(backlog) \in Clients /\ Queued(Head(backlog))
  BY <1>1, QueuedIs, TailHas
<1>3. ASSUME FreeFds = {}
      PROVE  FALSE
  <2> DEFINE others == Clients \ {Head(backlog)}
  <2>1. \A f \in Fds : fdt[f] \in others
    <3>1. \A f \in Fds : fdt[f] # Nobody
      BY <1>3 DEF FreeFds
    <3>2. \A f \in Fds : fdt[f] # Head(backlog)
      BY <1>1, <1>2 DEF OneConnection, Open
    <3> QED
      BY <1>1, <3>1, <3>2
  <2>2. fdt \in Injection(Fds, others)
    <3>1. fdt \in [Fds -> others]
      BY <1>1, <2>1
    <3>2. \A f, g \in Fds : fdt[f] = fdt[g] => f = g
      BY <1>1, <1>3 DEF FreeFds, OneConnection
    <3> QED
      BY <3>1, <3>2 DEF Injection, IsInjective
  <2>3. IsFiniteSet(others) /\ Cardinality(others) = Cardinality(Clients) - 1
    BY <1>2, ConstantFacts, FS_RemoveElement
  <2> HIDE DEF others
  <2>4. Cardinality(Fds) <= Cardinality(others)
    BY <2>2, <2>3, FS_Injection
  <2> QED
    BY <2>3, <2>4, ConstantFacts
<1>4. FreeFds \in SUBSET Nat
  BY ConstantFacts DEF FreeFds
<1>5. Least(FreeFds) \in FreeFds
  BY <1>3, <1>4, LeastIsIn
<1> QED
  BY <1>2, <1>3, <1>5 DEF FreeFds

LEMMA InitInv == ForkInit => IInv
<1> SUFFICES ASSUME ForkInit PROVE IInv
  OBVIOUS
<1>1. /\ place = [c \in Clients |-> "off"] /\ backlog = <<>>
      /\ fdt = [f \in Fds |-> Nobody] /\ pc = "accept" /\ confd = NoFd
      /\ child = [c \in Clients |-> "none"] /\ reapers = 0
  BY DEF ForkInit, Init, NetInit
<1>2. \A c : ~Queued(c)
  BY <1>1 DEF Queued
<1>3. \A c \in Clients : ~Open(c)
  BY <1>1, ConstantFacts DEF Open
<1>4. OneConnection
  BY <1>1, <1>2, <1>3 DEF OneConnection
<1>5. ParentHolds /\ OpenBelongs /\ ChildKeepsConnection
  BY <1>1, <1>3 DEF ParentHolds, OpenBelongs, ChildKeepsConnection
<1>6. ReapersCount
  <2>1. Unreaped = {}
    BY <1>1 DEF Unreaped
  <2> QED
    BY <1>1, <2>1, FS_EmptySet DEF ReapersCount
<1> QED
  BY <1>1, <1>4, <1>5, <1>6 DEF IInv

-----------------------------------------------------------------------------
(* The parent                                                              *)

\* accept, for a child or for the parent itself.
LEMMA AcceptStep ==
  ASSUME IInv, NEW then \in {"fork", "serve"}, AcceptClient(then), UNCHANGED procVars
  PROVE  IInv'
<1> DEFINE h == Head(backlog)
           f == Least(FreeFds)
<1>1. /\ backlog # <<>> /\ pc = "accept" /\ pc' = then
      /\ place' = place /\ child' = child /\ reapers' = reapers
  BY DEF AcceptClient, procVars
<1>2. f \in Fds /\ fdt[f] = Nobody /\ h \in Clients /\ Queued(h)
  BY <1>1, AcceptFinds
<1>3. confd' = f /\ fdt' = [fdt EXCEPT ![f] = h] /\ backlog' = Tail(backlog)
  BY <1>1, AcceptFinds DEF AcceptClient, Accept
<1> HIDE DEF f
<1>4. /\ backlog' \in Seq(Clients) /\ Distinct(backlog')
      /\ \A c : Queued(c)' <=> Queued(c) /\ c # h
  <2>1. backlog \in Seq(Clients) /\ Distinct(backlog)
    BY QueuedIs DEF IInv
  <2>2. /\ Tail(backlog) \in Seq(Clients) /\ Distinct(Tail(backlog))
        /\ \A c : InSeq(c, Tail(backlog)) <=> InSeq(c, backlog) /\ c # h
    BY <1>1, <2>1, TailHas
  <2>3. \A c : Queued(c)' <=> InSeq(c, Tail(backlog))
    BY <1>3 DEF Queued, InSeq
  <2> QED
    BY <1>3, <2>2, <2>3, QueuedIs
<1> HIDE DEF h
<1>5. /\ fdt' \in [Fds -> Clients \cup {Nobody}]
      /\ fdt'[f] = h /\ \A g \in Fds : g # f => fdt'[g] = fdt[g]
  BY <1>2, <1>3 DEF IInv
<1>6. ~Open(h) /\ child[h] = "none" /\ place[h] # "off"
  BY <1>2 DEF IInv, OneConnection
<1>7. \A c \in Clients : Open(c)' <=> Open(c) \/ c = h
  BY <1>2, <1>5, ConstantFacts DEF Open
<1>8. OneConnection'
  <2>1. \A i, j \in 1..Len(backlog') : backlog'[i] = backlog'[j] => i = j
    BY <1>4 DEF Distinct
  <2>2. \A g, k \in Fds : fdt'[g] = fdt'[k] /\ fdt'[g] # Nobody => g = k
    BY <1>5, <1>6 DEF IInv, OneConnection, Open
  <2>3. \A c \in Clients : Queued(c)' => ~Open(c)' /\ child'[c] = "none"
    BY <1>1, <1>4, <1>7 DEF IInv, OneConnection
  <2>4. \A c \in Clients : place'[c] = "off" => ~Queued(c)' /\ ~Open(c)' /\ child'[c] = "none"
    BY <1>1, <1>4, <1>6, <1>7 DEF IInv, OneConnection
  <2> QED
    BY <2>1, <2>2, <2>3, <2>4 DEF OneConnection
<1>9. Conn' = h
  BY <1>3, <1>5 DEF Conn
<1>10. ParentHolds' /\ OpenBelongs' /\ ChildKeepsConnection'
  <2>1. ParentHolds'
    BY <1>1, <1>2, <1>3, <1>6, <1>9, ConstantFacts DEF ParentHolds
  <2>2. OpenBelongs'
    BY <1>1, <1>7, <1>9 DEF IInv, OpenBelongs
  <2>3. ChildKeepsConnection'
    BY <1>1, <1>7 DEF IInv, ChildKeepsConnection
  <2> QED
    BY <2>1, <2>2, <2>3
<1>11. ReapersCount'
  BY <1>1 DEF IInv, ReapersCount, Unreaped
<1> QED
  BY <1>1, <1>2, <1>3, <1>4, <1>5, <1>8, <1>10, <1>11 DEF IInv

\* What holds of the connection in the parent's hand.
LEMMA ConnFacts ==
  ASSUME IInv, pc # "accept"
  PROVE  /\ confd \in Fds /\ Conn \in Clients /\ fdt[confd] = Conn /\ Open(Conn)
         /\ ~Queued(Conn)
<1>1. confd \in Fds /\ Conn \in Clients
  BY DEF IInv, ParentHolds
<1>2. fdt[confd] = Conn /\ Open(Conn)
  BY <1>1 DEF Conn, Open
<1> QED
  BY <1>1, <1>2 DEF IInv, OneConnection

LEMMA ForkStep ==
  ASSUME IInv, Fork \/ ForkFails
  PROVE  IInv'
<1>1. /\ UNCHANGED <<place, backlog, fdt, confd, reapers>>
      /\ pc = "fork" /\ pc' \in {"parent", "serve"}
  BY DEF Fork, ForkFails, netVars, procVars
<1>2. /\ \A c : (Queued(c)' <=> Queued(c)) /\ (Open(c)' <=> Open(c))
      /\ Conn' = Conn
  BY <1>1 DEF Queued, Open, Conn
<1>3. confd \in Fds /\ Conn \in Clients /\ Open(Conn) /\ ~Queued(Conn) /\ child[Conn] = "none"
  BY <1>1, ConnFacts DEF IInv, ParentHolds
<1>4. CASE ForkFails
  <2>1. child' = child /\ pc' = "serve"
    BY <1>4 DEF ForkFails, procVars
  <2>2. OneConnection'
    BY <1>1, <1>2, <2>1 DEF IInv, OneConnection
  <2>3. ParentHolds' /\ OpenBelongs' /\ ChildKeepsConnection'
    BY <1>1, <1>2, <1>3, <2>1, ConstantFacts
    DEF IInv, ParentHolds, OpenBelongs, ChildKeepsConnection
  <2>4. ReapersCount'
    BY <1>1, <2>1 DEF IInv, ReapersCount, Unreaped
  <2> QED
    BY <1>1, <2>1, <2>2, <2>3, <2>4 DEF IInv
<1>5. CASE Fork
  <2>1. /\ child' \in [Clients -> {"none", "running", "zombie", "reaped"}] /\ pc' = "parent"
        /\ child'[Conn] = "running" /\ \A c \in Clients : c # Conn => child'[c] = child[c]
    BY <1>3, <1>5 DEF Fork, IInv
  <2>2. OneConnection'
    BY <1>1, <1>2, <1>3, <2>1 DEF IInv, OneConnection
  <2>3. ParentHolds'
    BY <1>1, <1>2, <1>3, <2>1, ConstantFacts DEF ParentHolds
  <2>4. OpenBelongs' /\ ChildKeepsConnection'
    BY <1>1, <1>2, <1>3, <2>1 DEF IInv, OpenBelongs, ChildKeepsConnection
  <2>5. ReapersCount'
    <3>1. Unreaped' = Unreaped \cup {Conn} /\ Conn \notin Unreaped
      BY <1>3, <2>1 DEF Unreaped
    <3>2. IsFiniteSet(Unreaped)
      BY ConstantFacts, FS_Subset DEF Unreaped
    <3>3. Cardinality(Unreaped') = Cardinality(Unreaped) + 1
      BY <3>1, <3>2, FS_AddElement
    <3>4. reapers = Cardinality(Unreaped)
      BY <1>1 DEF IInv, ReapersCount
    <3> QED
      BY <1>1, <2>1, <3>3, <3>4 DEF ReapersCount
  <2> QED
    BY <1>1, <2>1, <2>2, <2>3, <2>4, <2>5 DEF IInv
<1> QED
  BY <1>4, <1>5

\* The parent's close, when nobody else has the connection.
LEMMA CloseStep ==
  ASSUME IInv, pc # "accept", fdt' = Closed(confd)
  PROVE  /\ fdt' \in [Fds -> Clients \cup {Nobody}]
         /\ \A f, g \in Fds : fdt'[f] = fdt'[g] /\ fdt'[f] # Nobody => f = g
         /\ \A c \in Clients : Open(c)' <=> Open(c) /\ c # Conn
<1>1. confd \in Fds /\ fdt[confd] = Conn /\ Conn \in Clients
  BY ConnFacts
<1>2. /\ fdt' \in [Fds -> Clients \cup {Nobody}]
      /\ fdt'[confd] = Nobody /\ \A f \in Fds : f # confd => fdt'[f] = fdt[f]
  BY <1>1 DEF Closed, IInv
<1>3. \A f \in Fds : fdt[f] = Conn <=> f = confd
  BY <1>1, ConstantFacts DEF IInv, OneConnection
<1>4. \A f, g \in Fds : fdt'[f] = fdt'[g] /\ fdt'[f] # Nobody => f = g
  BY <1>2 DEF IInv, OneConnection
<1>5. \A c \in Clients : Open(c)' <=> Open(c) /\ c # Conn
  BY <1>1, <1>2, <1>3, ConstantFacts DEF Open
<1> QED
  BY <1>2, <1>4, <1>5

\* Back to accept, with a close or, for a child that is there, without one.
LEMMA BackToAccept ==
  ASSUME IInv, pc # "accept", pc' = "accept", confd' = NoFd,
         UNCHANGED <<place, backlog, child>>,
         fdt' = Closed(confd) \/ (fdt' = fdt /\ child[Conn] = "running"),
         child[Conn] = "running" => fdt' = fdt
  PROVE  /\ fdt' \in [Fds -> Clients \cup {Nobody}]
         /\ OneConnection' /\ ParentHolds' /\ OpenBelongs' /\ ChildKeepsConnection'
<1>1. /\ fdt' \in [Fds -> Clients \cup {Nobody}]
      /\ \A f, g \in Fds : fdt'[f] = fdt'[g] /\ fdt'[f] # Nobody => f = g
      /\ \A c \in Clients : Open(c)' <=> Open(c) /\ (c # Conn \/ child[c] = "running")
  <2>1. CASE child[Conn] = "running"
    BY <2>1 DEF IInv, OneConnection, Open
  <2>2. CASE child[Conn] # "running"
    BY <2>2, CloseStep
  <2> QED
    BY <2>1, <2>2
<1>2. \A c : Queued(c)' <=> Queued(c)
  BY DEF Queued
<1>3. OneConnection'
  BY <1>1, <1>2 DEF IInv, OneConnection
<1>4. ParentHolds'
  BY DEF ParentHolds
<1>5. OpenBelongs' /\ ChildKeepsConnection'
  BY <1>1 DEF IInv, OpenBelongs, ChildKeepsConnection
<1> QED
  BY <1>1, <1>3, <1>4, <1>5

LEMMA StartReaperStep ==
  ASSUME IInv, StartReaper
  PROVE  IInv'
<1>1. /\ pc = "parent" /\ pc' = "accept" /\ confd' = NoFd /\ reapers' = reapers + 1
      /\ UNCHANGED <<place, backlog, child>>
      /\ fdt' = IF child[Conn] = "running" THEN fdt ELSE Closed(confd)
  BY DEF StartReaper, ParentCloses, ReapersWithNew
<1>2. /\ fdt' \in [Fds -> Clients \cup {Nobody}]
      /\ OneConnection' /\ ParentHolds' /\ OpenBelongs' /\ ChildKeepsConnection'
  BY <1>1, BackToAccept
<1>3. ReapersCount'
  BY <1>1 DEF IInv, ReapersCount, Unreaped
<1> QED
  BY <1>1, <1>2, <1>3 DEF IInv

LEMMA ServeInlineStep ==
  ASSUME IInv, ServeInline
  PROVE  IInv'
<1>1. /\ pc = "serve" /\ pc' = "accept" /\ confd' = NoFd /\ reapers' = reapers
      /\ UNCHANGED <<place, backlog, child>> /\ fdt' = Closed(confd)
  BY DEF ServeInline, ServeOnce, procVars
<1>2. child[Conn] = "none"
  BY <1>1 DEF IInv, ParentHolds
<1>3. /\ fdt' \in [Fds -> Clients \cup {Nobody}]
      /\ OneConnection' /\ ParentHolds' /\ OpenBelongs' /\ ChildKeepsConnection'
  BY <1>1, <1>2, BackToAccept
<1>4. ReapersCount'
  BY <1>1 DEF IInv, ReapersCount, Unreaped
<1> QED
  BY <1>1, <1>3, <1>4 DEF IInv

-----------------------------------------------------------------------------
(* The threads that wait, the children and the clients                     *)

\* Where only the end of a child is waited for, the connections stay what they are.
LEMMA ReapStep ==
  ASSUME IInv, Reap
  PROVE  IInv'
<1>1. /\ UNCHANGED <<place, backlog, fdt, pc, confd>>
      /\ reapers > 0 /\ reapers' = reapers - 1 /\ reapers \in Nat
  BY DEF Reap, vars, netVars, IInv
<1>2. IsFiniteSet(Unreaped) /\ Cardinality(Unreaped) \in Nat
  BY ConstantFacts, FS_Subset, FS_CardinalityType DEF Unreaped
<1>3. Unreaped # {}
  <2>1. Cardinality(Unreaped) > 0
    BY <1>1, <1>2 DEF IInv, ReapersCount
  <2>2. Cardinality({}) = 0
    BY FS_EmptySet
  <2> QED
    BY <2>1, <2>2
<1>4. PICK c \in Clients : child[c] = "zombie" /\ child' = [child EXCEPT ![c] = "reaped"]
  BY <1>3 DEF Reap, Waitable
<1>5. /\ child' \in [Clients -> {"none", "running", "zombie", "reaped"}]
      /\ child'[c] = "reaped" /\ \A d \in Clients : d # c => child'[d] = child[d]
  BY <1>4 DEF IInv
<1>6. /\ \A d : (Queued(d)' <=> Queued(d)) /\ (Open(d)' <=> Open(d))
      /\ Conn' = Conn
  BY <1>1 DEF Queued, Open, Conn
<1>7. OneConnection'
  BY <1>1, <1>4, <1>5, <1>6 DEF IInv, OneConnection
<1>8. ParentHolds' /\ OpenBelongs' /\ ChildKeepsConnection'
  BY <1>1, <1>4, <1>5, <1>6 DEF IInv, ParentHolds, OpenBelongs, ChildKeepsConnection
<1>9. ReapersCount'
  <2>1. Unreaped' = Unreaped \ {c} /\ c \in Unreaped
    BY <1>4, <1>5 DEF Unreaped
  <2>2. Cardinality(Unreaped') = Cardinality(Unreaped) - 1
    BY <1>2, <2>1, FS_RemoveElement
  <2> QED
    BY <1>1, <1>2, <2>2 DEF IInv, ReapersCount
<1> QED
  BY <1>1, <1>5, <1>7, <1>8, <1>9 DEF IInv

\* A child that ends takes its descriptor with it; the parent's stays.
LEMMA ChildStep ==
  ASSUME IInv, NEW c \in Clients, ChildEcho(c) \/ ChildReset(c) \/ ChildAtEnd(c)
  PROVE  IInv'
<1>1. /\ UNCHANGED <<place, backlog, pc, confd, reapers>> /\ child[c] = "running"
      /\ \/ child' = child /\ fdt' = fdt
         \/ /\ child' = [child EXCEPT ![c] = "zombie"]
            /\ fdt' = [f \in Fds |-> IF fdt[f] = c /\ f # confd THEN Nobody ELSE fdt[f]]
  <2>1. CASE ChildEcho(c)
    BY <2>1 DEF ChildEcho, ChildWrites
  <2>2. CASE ChildReset(c)
    BY <2>2 DEF ChildReset, procVars
  <2>3. CASE ChildAtEnd(c)
    BY <2>3 DEF ChildAtEnd, ChildWrites
  <2> QED
    BY <2>1, <2>2, <2>3
<1>2. \A d : Queued(d)' <=> Queued(d)
  BY <1>1 DEF Queued
<1>3. CASE child' = child /\ fdt' = fdt
  <2>1. (\A d : Open(d)' <=> Open(d)) /\ Conn' = Conn
    BY <1>1, <1>3 DEF Open, Conn
  <2>2. OneConnection'
    BY <1>1, <1>2, <1>3, <2>1 DEF IInv, OneConnection
  <2>3. ParentHolds' /\ OpenBelongs' /\ ChildKeepsConnection'
    BY <1>1, <1>3, <2>1 DEF IInv, ParentHolds, OpenBelongs, ChildKeepsConnection
  <2>4. ReapersCount'
    BY <1>1, <1>3 DEF IInv, ReapersCount, Unreaped
  <2> QED
    BY <1>1, <1>3, <2>2, <2>3, <2>4 DEF IInv
<1>4. CASE /\ child' = [child EXCEPT ![c] = "zombie"]
           /\ fdt' = [f \in Fds |-> IF fdt[f] = c /\ f # confd THEN Nobody ELSE fdt[f]]
  <2>1. /\ child' \in [Clients -> {"none", "running", "zombie", "reaped"}]
        /\ child'[c] = "zombie" /\ \A d \in Clients : d # c => child'[d] = child[d]
    BY <1>4 DEF IInv
  <2>2. /\ fdt' \in [Fds -> Clients \cup {Nobody}]
        /\ \A f \in Fds : fdt'[f] = fdt[f] \/ fdt'[f] = Nobody
        /\ \A f \in Fds : fdt[f] # c => fdt'[f] = fdt[f]
        /\ \A f \in Fds : fdt'[f] = c => f = confd
        /\ confd \in Fds => fdt'[confd] = fdt[confd]
    BY <1>4, ConstantFacts DEF IInv
  <2>3. /\ \A d \in Clients : Open(d)' => Open(d)
        /\ \A d \in Clients : d # c /\ Open(d) => Open(d)'
        /\ Open(c)' => confd \in Fds /\ fdt[confd] = c
    BY <2>2, ConstantFacts DEF Open
  <2>4. pc # "accept" => Conn' = Conn /\ confd \in Fds /\ fdt[confd] = Conn
    BY <1>1, <2>2, ConnFacts DEF Conn
  <2>5. OneConnection'
    <3>1. \A f, g \in Fds : fdt'[f] = fdt'[g] /\ fdt'[f] # Nobody => f = g
      BY <2>2 DEF IInv, OneConnection
    <3>2. \A d \in Clients : Queued(d)' => ~Open(d)' /\ child'[d] = "none"
      BY <1>1, <1>2, <2>1, <2>3 DEF IInv, OneConnection
    <3>3. \A d \in Clients : place'[d] = "off" => ~Queued(d)' /\ ~Open(d)' /\ child'[d] = "none"
      BY <1>1, <1>2, <2>1, <2>3 DEF IInv, OneConnection
    <3> QED
      BY <1>1, <3>1, <3>2, <3>3 DEF IInv, OneConnection
  <2>6. ParentHolds'
    BY <1>1, <2>1, <2>4 DEF IInv, ParentHolds
  <2>7. OpenBelongs'
    <3>1. Open(c)' => pc # "accept" /\ c = Conn
      BY <2>3, <2>4, ConstantFacts DEF IInv, ParentHolds
    <3>2. \A d \in Clients : d # c /\ Open(d)' => child'[d] = "running" \/ (pc # "accept" /\ d = Conn)
      BY <2>1, <2>3 DEF IInv, OpenBelongs
    <3> QED
      BY <1>1, <2>4, <3>1, <3>2 DEF OpenBelongs
  <2>8. ChildKeepsConnection'
    BY <2>1, <2>3 DEF IInv, ChildKeepsConnection
  <2>9. ReapersCount'
    <3>1. Unreaped' = Unreaped
      BY <1>1, <2>1 DEF Unreaped
    <3> QED
      BY <1>1, <3>1 DEF IInv, ReapersCount
  <2> QED
    BY <1>1, <2>1, <2>2, <2>5, <2>6, <2>7, <2>8, <2>9 DEF IInv
<1> QED
  BY <1>1, <1>3, <1>4

LEMMA ClientsStep ==
  ASSUME IInv, NEW c \in Clients, ClientStep(c), UNCHANGED <<pc, confd, procVars>>
  PROVE  IInv'
<1>1. UNCHANGED <<pc, confd, child, reapers, fdt>>
  BY DEF ClientStep, Connect, SendLine, ReadAnswer, Quit, procVars
<1>2. (\A d : Open(d)' <=> Open(d)) /\ Conn' = Conn
  BY <1>1 DEF Open, Conn
<1>3. ReapersCount'
  BY <1>1 DEF IInv, ReapersCount, Unreaped
<1>4. ParentHolds' /\ OpenBelongs' /\ ChildKeepsConnection'
  BY <1>1, <1>2 DEF IInv, ParentHolds, OpenBelongs, ChildKeepsConnection
<1>5. /\ place' \in [Clients -> {"off", "typing", "reading", "closed"}]
      /\ backlog' \in Seq(Clients) /\ OneConnection'
  <2>1. CASE Connect(c)
    <3>1. /\ place[c] = "off" /\ backlog' = Append(backlog, c)
          /\ place' \in [Clients -> {"off", "typing", "reading", "closed"}]
          /\ place'[c] = "typing" /\ \A d \in Clients : d # c => place'[d] = place[d]
      BY <2>1 DEF Connect, IInv
    <3>2. ~Queued(c) /\ ~Open(c) /\ child[c] = "none"
      BY <3>1 DEF IInv, OneConnection
    <3>3. /\ backlog' \in Seq(Clients) /\ Distinct(backlog')
          /\ \A d : Queued(d)' <=> Queued(d) \/ d = c
      <4>1. backlog \in Seq(Clients) /\ Distinct(backlog) /\ ~InSeq(c, backlog)
        BY <3>2, QueuedIs DEF IInv
      <4>2. /\ Append(backlog, c) \in Seq(Clients) /\ Distinct(Append(backlog, c))
            /\ \A d : InSeq(d, Append(backlog, c)) <=> InSeq(d, backlog) \/ d = c
        BY <4>1, AppendHas
      <4>3. \A d : Queued(d)' <=> InSeq(d, Append(backlog, c))
        BY <3>1 DEF Queued, InSeq
      <4> QED
        BY <3>1, <4>2, <4>3, QueuedIs
    <3>4. OneConnection'
      <4>1. \A i, j \in 1..Len(backlog') : backlog'[i] = backlog'[j] => i = j
        BY <3>3 DEF Distinct
      <4>2. \A f, g \in Fds : fdt'[f] = fdt'[g] /\ fdt'[f] # Nobody => f = g
        BY <1>1 DEF IInv, OneConnection
      <4>3. \A d \in Clients : Queued(d)' => ~Open(d)' /\ child'[d] = "none"
        BY <1>1, <1>2, <3>2, <3>3 DEF IInv, OneConnection
      <4>4. \A d \in Clients :
              place'[d] = "off" => ~Queued(d)' /\ ~Open(d)' /\ child'[d] = "none"
        BY <1>1, <1>2, <3>1, <3>3 DEF IInv, OneConnection
      <4> QED
        BY <4>1, <4>2, <4>3, <4>4 DEF OneConnection
    <3> QED
      BY <3>1, <3>3, <3>4
  <2>2. CASE SendLine(c) \/ ReadAnswer(c) \/ Quit(c)
    <3>1. /\ backlog' = backlog
          /\ place' \in [Clients -> {"off", "typing", "reading", "closed"}]
          /\ \A d \in Clients : place'[d] = "off" => place[d] = "off"
      BY <2>2 DEF SendLine, ReadAnswer, Quit, IInv
    <3>2. \A d : Queued(d)' <=> Queued(d)
      BY <3>1 DEF Queued
    <3>3. OneConnection'
      BY <1>1, <1>2, <3>1, <3>2 DEF IInv, OneConnection
    <3> QED
      BY <3>1, <3>3 DEF IInv
  <2> QED
    BY <2>1, <2>2 DEF ClientStep
<1> QED
  BY <1>1, <1>3, <1>4, <1>5 DEF IInv

-----------------------------------------------------------------------------
LEMMA NextInv == IInv /\ [ForkNext]_allVars => IInv'
<1> SUFFICES ASSUME IInv, [ForkNext]_allVars PROVE IInv'
  OBVIOUS
<1>1. CASE UNCHANGED allVars
  <2>1. UNCHANGED <<place, backlog, fdt, pc, confd, child, reapers>>
    BY <1>1 DEF allVars, vars, netVars, procVars
  <2>2. /\ \A d : (Queued(d)' <=> Queued(d)) /\ (Open(d)' <=> Open(d))
        /\ Conn' = Conn /\ Unreaped' = Unreaped
    BY <2>1 DEF Queued, Open, Conn, Unreaped
  <2>3. OneConnection'
    BY <2>1, <2>2 DEF IInv, OneConnection
  <2>4. ParentHolds' /\ OpenBelongs' /\ ChildKeepsConnection' /\ ReapersCount'
    BY <2>1, <2>2 DEF IInv, ParentHolds, OpenBelongs, ChildKeepsConnection, ReapersCount
  <2> QED
    BY <2>1, <2>3, <2>4 DEF IInv
<1>2. CASE Parent
  BY <1>2, AcceptStep, ForkStep, StartReaperStep, ServeInlineStep DEF Parent, ForkAccept
<1>3. CASE Reap
  BY <1>3, ReapStep
<1>4. ASSUME NEW c \in Clients, Child(c)
      PROVE  IInv'
  BY <1>4, ChildStep DEF Child
<1>5. ASSUME NEW c \in Clients, ClientStep(c), UNCHANGED <<pc, confd, procVars>>
      PROVE  IInv'
  BY <1>5, ClientsStep
<1> QED
  BY <1>1, <1>2, <1>3, <1>4, <1>5 DEF ForkNext

\* The sequential server takes the same steps as a parent whose forks fail.
LEMMA SequentialStep == IInv /\ Next /\ Only => IInv'
<1> SUFFICES ASSUME IInv, Next, Only PROVE IInv'
  OBVIOUS
<1>1. CASE Server
  BY <1>1, AcceptStep, ServeInlineStep DEF Server, ServeInline, Only
<1>2. ASSUME NEW c \in Clients, ClientStep(c), UNCHANGED <<pc, confd>>
      PROVE  IInv'
  BY <1>2, ClientsStep DEF Only, procVars
<1> QED
  BY <1>1, <1>2 DEF Next

-----------------------------------------------------------------------------
(* What is on its way                                                      *)

\* Of one client: pieces move on, or are lost.
LEMMA TrafficMoves ==
  ASSUME Traffic, NEW c \in Clients,
         NEW l \in 0..MaxLines, NEW m \in Nat, NEW n \in Nat,
         m + n + l * LinePieces <= inb[c] + outb[c] + lines[c] * LinePieces,
         lines' = [lines EXCEPT ![c] = l], inb' = [inb EXCEPT ![c] = m],
         outb' = [outb EXCEPT ![c] = n]
  PROVE  Traffic'
<1>1. /\ lines' \in [Clients -> 0..MaxLines] /\ lines'[c] = l
      /\ inb' \in [Clients -> Nat] /\ inb'[c] = m
      /\ outb' \in [Clients -> Nat] /\ outb'[c] = n
      /\ \A d \in Clients : d # c => lines'[d] = lines[d] /\ inb'[d] = inb[d] /\ outb'[d] = outb[d]
  BY DEF Traffic
<1>2. MaxLines \in Nat /\ LinePieces \in Nat
  BY NetAssumption
<1>3. inb'[c] + outb'[c] + lines'[c] * LinePieces <= MaxLines * LinePieces
  <2> DEFINE a == l * LinePieces
             b == lines[c] * LinePieces
             z == MaxLines * LinePieces
  <2>1. a \in Int /\ b \in Int /\ z \in Int
    BY <1>2 DEF Traffic
  <2>2. m + n + a <= inb[c] + outb[c] + b /\ inb[c] + outb[c] + b <= z
    BY DEF Traffic
  <2> HIDE DEF a, b, z
  <2>3. m + n + a <= z
    BY <2>1, <2>2 DEF Traffic
  <2> QED
    BY <1>1, <2>3 DEF a, z
<1>4. \A d \in Clients : d # c =>
        inb'[d] + outb'[d] + lines'[d] * LinePieces <= MaxLines * LinePieces
  BY <1>1 DEF Traffic
<1> QED
  BY <1>1, <1>3, <1>4 DEF Traffic

\* The steps of a client.
LEMMA ClientTraffic ==
  ASSUME Traffic, NEW c \in Clients, ClientStep(c)
  PROVE  Traffic'
<1>1. lines[c] \in 0..MaxLines /\ inb[c] \in Nat /\ outb[c] \in Nat
  BY DEF Traffic
<1>2. /\ lines = [lines EXCEPT ![c] = lines[c]] /\ inb = [inb EXCEPT ![c] = inb[c]]
      /\ outb = [outb EXCEPT ![c] = outb[c]]
  BY DEF Traffic
<1>3. LinePieces \in Nat /\ MaxLines \in Nat /\ lines[c] * LinePieces \in Nat
  BY <1>1, NetAssumption
<1>4. CASE Connect(c)
  BY <1>4 DEF Connect, Traffic
<1>5. CASE SendLine(c)
  <2>1. lines[c] - 1 \in 0..MaxLines /\ inb[c] + LinePieces \in Nat
    BY <1>1, <1>3, <1>5 DEF SendLine
  <2>2. (lines[c] - 1) * LinePieces + LinePieces = lines[c] * LinePieces
    BY <1>1, <1>3
  <2>3. /\ lines' = [lines EXCEPT ![c] = lines[c] - 1]
        /\ inb' = [inb EXCEPT ![c] = inb[c] + LinePieces] /\ outb' = [outb EXCEPT ![c] = outb[c]]
    BY <1>2, <1>5 DEF SendLine
  <2>4. (inb[c] + LinePieces) + outb[c] + (lines[c] - 1) * LinePieces
          <= inb[c] + outb[c] + lines[c] * LinePieces
    BY <1>1, <1>3, <2>2
  <2> QED
    BY <1>1, <2>1, <2>3, <2>4, TrafficMoves
<1>6. CASE ReadAnswer(c)
  <2>1. PICK n \in 1..outb[c] : outb' = [outb EXCEPT ![c] = outb[c] - n]
    BY <1>6 DEF ReadAnswer
  <2>2. /\ outb[c] - n \in Nat
        /\ inb[c] + (outb[c] - n) + lines[c] * LinePieces
             <= inb[c] + outb[c] + lines[c] * LinePieces
    BY <1>1, <1>3
  <2>3. lines' = [lines EXCEPT ![c] = lines[c]] /\ inb' = [inb EXCEPT ![c] = inb[c]]
    BY <1>2, <1>6 DEF ReadAnswer
  <2> QED
    BY <1>1, <2>1, <2>2, <2>3, TrafficMoves
<1>7. CASE Quit(c)
  <2>1. inb[c] + 0 + lines[c] * LinePieces <= inb[c] + outb[c] + lines[c] * LinePieces
    BY <1>1, <1>3
  <2>2. /\ lines' = [lines EXCEPT ![c] = lines[c]] /\ inb' = [inb EXCEPT ![c] = inb[c]]
        /\ outb' = [outb EXCEPT ![c] = 0]
    BY <1>2, <1>7 DEF Quit
  <2> QED
    BY <1>1, <2>1, <2>2, TrafficMoves
<1> QED
  BY <1>4, <1>5, <1>6, <1>7 DEF ClientStep

\* A server reads some pieces, and writes them back or fails to.
LEMMA ServerTraffic ==
  ASSUME Traffic, NEW c \in Clients, NEW n \in 1..inb[c], ReadPieces(c, n), lines' = lines,
         WritePieces(c, n) \/ outb' = outb
  PROVE  Traffic'
<1>1. lines[c] \in 0..MaxLines /\ inb[c] \in Nat /\ outb[c] \in Nat
  BY DEF Traffic
<1>2. lines[c] * LinePieces \in Nat
  BY <1>1, NetAssumption
<1>3. PICK k \in {0, n} : outb' = [outb EXCEPT ![c] = outb[c] + k]
  <2>1. outb' = outb \/ outb' = [outb EXCEPT ![c] = outb[c] + n]
    BY DEF WritePieces
  <2>2. outb = [outb EXCEPT ![c] = outb[c] + 0]
    BY <1>1 DEF Traffic
  <2> QED
    BY <2>1, <2>2
<1>4. /\ inb[c] - n \in Nat /\ outb[c] + k \in Nat
      /\ (inb[c] - n) + (outb[c] + k) + lines[c] * LinePieces
           <= inb[c] + outb[c] + lines[c] * LinePieces
  BY <1>1, <1>2
<1>5. inb' = [inb EXCEPT ![c] = inb[c] - n] /\ lines' = [lines EXCEPT ![c] = lines[c]]
  BY DEF ReadPieces, Traffic
<1> QED
  BY <1>1, <1>3, <1>4, <1>5, TrafficMoves

-----------------------------------------------------------------------------
(* The local server                                                        *)

\* Its clients are the same.
LEMMA LocalClient == \A c : Local!ClientStep(c) = ClientStep(c)
BY DEF Local!ClientStep, ClientStep, Local!Connect, Connect, Local!SendLine, SendLine,
       Local!ReadAnswer, ReadAnswer, Local!Quit, Quit, Local!Open, Open, Local!Queued, Queued,
       Local!Fds, Fds

\* It accepts while it has no connection, so that accept finds a descriptor.
LEMMA LocalAccepts ==
  ASSUME LocalInv, AcceptClient("serve"), UNCHANGED <<child, reapers>>
  PROVE  LocalInv'
<1>1. pc = "accept" /\ backlog # <<>> /\ pc' = "serve"
  BY DEF AcceptClient
<1>2. Head(backlog) \in Clients /\ Tail(backlog) \in Seq(Clients)
  BY <1>1, HeadTailProperties DEF LocalInv
<1>3. Least(FreeFds) \in Fds /\ FreeFds # {}
  <2>1. FreeFds = Fds
    BY <1>1 DEF LocalInv, FreeFds
  <2>2. 0 \in Fds
    <3>1. Clients # {}
      BY <1>2
    <3>2. Cardinality(Clients) # 0
      BY <3>1, ConstantFacts, FS_EmptySet
    <3> QED
      BY <3>2, ConstantFacts DEF Fds
  <2> QED
    BY <2>1, <2>2, LeastIsIn, ConstantFacts
<1>4. /\ confd' = Least(FreeFds) /\ backlog' = Tail(backlog)
      /\ fdt' = [fdt EXCEPT ![confd'] = Head(backlog)]
  BY <1>3 DEF AcceptClient, Accept
<1>5. fdt' \in [Fds -> Clients \cup {Nobody}] /\ Conn' \in Clients /\ confd' \in Fds
  BY <1>2, <1>3, <1>4 DEF LocalInv, Conn
<1> QED
  BY <1>1, <1>2, <1>4, <1>5 DEF LocalInv

\* A step of the local server or of a client.
LEMMA LocalStep ==
  ASSUME LocalInv, Local!LocalNext, UNCHANGED procVars
  PROVE  LocalInv'
<1>1. CASE Local!AcceptOne
  <2>1. AcceptClient("serve")
    BY <1>1 DEF Local!AcceptOne, Local!AcceptClient, AcceptClient, Local!Accept, Accept,
                Local!FreeFds, FreeFds, Local!Fds, Fds, Local!Nobody, Nobody, Local!NoFd, NoFd,
                Local!Least, Least
  <2> QED
    BY <2>1, LocalAccepts DEF procVars
<1>2. CASE Local!EchoLocal \/ Local!IgnoreError \/ Local!CloseLocal
  <2>1. /\ pc = "serve" /\ backlog' = backlog
        /\ \/ pc' = pc /\ UNCHANGED <<fdt, confd>>
           \/ pc' \in {"done", "killed"} /\ fdt' \in [Fds -> Clients \cup {Nobody}]
    BY <1>2 DEF Local!EchoLocal, Local!IgnoreError, Local!CloseLocal, Local!LeaveLoop,
                Local!AllClosed, Local!Closed, Local!Fds, Fds, Local!Nobody, Nobody, LocalInv
  <2> QED
    BY <2>1 DEF LocalInv, Conn, procVars
<1>3. ASSUME NEW c \in Clients, ClientStep(c), UNCHANGED <<pc, confd>>
      PROVE  LocalInv'
  <2>1. backlog' \in Seq(Clients) /\ fdt' = fdt
    BY <1>3, AppendProperties DEF ClientStep, Connect, SendLine, ReadAnswer, Quit, LocalInv
  <2> QED
    BY <1>3, <2>1 DEF LocalInv, Conn, procVars
<1>4. ASSUME NEW c \in Clients, Local!ClientStep(c), UNCHANGED <<pc, confd>>
      PROVE  LocalInv'
  BY <1>3, <1>4, LocalClient
<1> QED
  BY <1>1, <1>2, <1>4 DEF Local!LocalNext, Local!LocalServes

-----------------------------------------------------------------------------
(* The three servers                                                       *)

NetTypes ==
  /\ place \in [Clients -> {"off", "typing", "reading", "closed"}]
  /\ peer \in [Clients -> {"open", "fin", "rst", "broken"}]

LEMMA ClientTypes ==
  ASSUME NetTypes, NEW c \in Clients, ClientStep(c)
  PROVE  NetTypes'
BY DEF NetTypes, ClientStep, Connect, SendLine, ReadAnswer, Quit

\* What the servers do to a connection.
LEMMA ServerNet ==
  ASSUME Traffic, NetTypes, NEW c \in Clients, UNCHANGED <<place, lines>>,
         \/ \E n \in 1..inb[c] : /\ ReadPieces(c, n)
                                 /\ WritePieces(c, n) \/ UNCHANGED <<outb, peer>>
         \/ UNCHANGED <<inb, outb>> /\ (ReportReset(c) \/ peer' = peer)
  PROVE  Traffic' /\ NetTypes'
<1>1. NetTypes'
  BY DEF NetTypes, WritePieces, ReportReset
<1>2. Traffic'
  <2>1. CASE \E n \in 1..inb[c] : /\ ReadPieces(c, n)
                                  /\ WritePieces(c, n) \/ UNCHANGED <<outb, peer>>
    BY <2>1, ServerTraffic
  <2>2. CASE UNCHANGED <<inb, outb>>
    BY <2>2 DEF Traffic
  <2> QED
    BY <2>1, <2>2
<1> QED
  BY <1>1, <1>2

LEMMA NetIdle ==
  ASSUME Traffic, NetTypes, UNCHANGED <<place, lines, inb, outb, peer>>
  PROVE  Traffic' /\ NetTypes'
BY DEF Traffic, NetTypes

\* What is on its way, under each of the servers.
LEMMA NetGoesOn == MCInv /\ MCNext => Traffic' /\ NetTypes'
<1> SUFFICES ASSUME MCInv, MCNext PROVE Traffic' /\ NetTypes'
  OBVIOUS
<1> DEFINE Good == Traffic' /\ NetTypes'
<1>1. Traffic /\ NetTypes
  BY DEF MCInv, NetTypes
<1>2. ASSUME NEW c \in Clients, ClientStep(c) PROVE Good
  BY <1>1, <1>2, ClientTraffic, ClientTypes
<1>3. ASSUME IInv, ServeOnce PROVE Good
  <2>1. Conn \in Clients
    BY <1>3, ConnFacts DEF ServeOnce
  <2> QED
    BY <1>1, <1>3, <2>1, ServerNet DEF ServeOnce
<1>4. ASSUME NEW c \in Clients, Child(c) PROVE Good
  <2>1. CASE ChildEcho(c) \/ ChildReset(c)
    BY <1>1, <2>1, ServerNet DEF ChildEcho, ChildReset, Pieces
  <2>2. CASE ChildAtEnd(c)
    BY <1>1, <2>2, NetIdle DEF ChildAtEnd
  <2> QED
    BY <1>4, <2>1, <2>2 DEF Child
<1>5. ASSUME NEW then, AcceptClient(then) PROVE Good
  BY <1>1, <1>5, NetIdle DEF AcceptClient
<1>6. CASE Fork \/ ForkFails \/ StartReaper \/ Reap
  BY <1>1, <1>6, NetIdle DEF Fork, ForkFails, StartReaper, Reap, vars, netVars
<1>7. CASE kind = "fork" /\ ForkNext
  <2>1. IInv
    BY <1>7 DEF MCInv
  <2> QED
    BY <1>2, <1>3, <1>4, <1>5, <1>6, <1>7, <2>1
    DEF ForkNext, Parent, ForkAccept, ServeInline
<1>8. CASE kind = "sequential" /\ Next
  <2>1. IInv
    BY <1>8 DEF MCInv
  <2> QED
    BY <1>2, <1>3, <1>5, <1>8, <2>1 DEF Next, Server
<1>9. CASE kind = "local" /\ Local!LocalNext
  <2>1. LocalInv
    BY <1>9 DEF MCInv
  <2>2. CASE Local!AcceptOne
    BY <1>1, <2>2, NetIdle DEF Local!AcceptOne, Local!AcceptClient
  <2>3. CASE Local!EchoLocal
    <3>1. Conn \in Clients /\ Local!Conn = Conn
      BY <2>1, <2>3 DEF LocalInv, Local!EchoLocal, Local!Conn, Conn
    <3>2. PICK n \in 1..inb[Conn] : /\ ReadPieces(Conn, n)
                                    /\ WritePieces(Conn, n) \/ UNCHANGED <<outb, peer>>
      BY <2>3, <3>1 DEF Local!EchoLocal, Local!ReadPieces, ReadPieces, Local!WritePieces,
                        WritePieces, Local!ReportReset, ReportReset
    <3> QED
      BY <1>1, <2>3, <3>1, <3>2, ServerNet DEF Local!EchoLocal
  <2>4. CASE Local!IgnoreError
    <3>1. Conn \in Clients /\ Local!Conn = Conn
      BY <2>1, <2>4 DEF LocalInv, Local!IgnoreError, Local!Conn, Conn
    <3> QED
      BY <1>1, <2>4, <3>1, ServerNet DEF Local!IgnoreError, Local!ReportReset, ReportReset
  <2>5. CASE Local!CloseLocal
    BY <1>1, <2>5, NetIdle DEF Local!CloseLocal
  <2> QED
    BY <1>2, <1>9, <2>2, <2>3, <2>4, <2>5, LocalClient DEF Local!LocalNext, Local!LocalServes
<1> QED
  BY <1>7, <1>8, <1>9 DEF MCNext

LEMMA StreamsBegin == MCInit => MCInv
<1> SUFFICES ASSUME MCInit PROVE MCInv
  OBVIOUS
<1>1. ForkInit /\ kind \in {"fork", "sequential", "local"}
  BY DEF MCInit
<1>2. IInv
  BY <1>1, InitInv
<1>3. LocalInv
  BY <1>1 DEF ForkInit, Init, NetInit, LocalInv
<1>4. Traffic
  <2>1. MaxLines \in Nat /\ MaxLines * LinePieces \in Nat
    BY NetAssumption
  <2> DEFINE z == MaxLines * LinePieces
  <2> HIDE DEF z
  <2>2. \A c \in Clients : inb[c] + outb[c] + z <= z
    BY <1>1, <2>1 DEF ForkInit, Init, NetInit, z
  <2> QED
    BY <1>1, <2>1, <2>2 DEF ForkInit, Init, NetInit, Traffic, z
<1> QED
  BY <1>1, <1>2, <1>3, <1>4 DEF ForkInit, Init, NetInit, MCInv

LEMMA StreamsGoOn == MCInv /\ [MCNext]_mcVars => MCInv'
<1> SUFFICES ASSUME MCInv, [MCNext]_mcVars PROVE MCInv'
  OBVIOUS
<1>1. CASE UNCHANGED mcVars
  <2>1. UNCHANGED allVars /\ kind' = kind
    BY <1>1 DEF mcVars
  <2>2. UNCHANGED <<place, lines, inb, outb, peer, backlog, fdt, pc, confd, child, reapers>>
    BY <2>1 DEF allVars, vars, netVars, procVars
  <2>3. LocalInv => LocalInv'
    BY <2>2 DEF LocalInv, Conn
  <2>4. Traffic' /\ NetTypes'
    BY <2>2, NetIdle DEF MCInv, NetTypes
  <2> QED
    BY <2>1, <2>3, <2>4, NextInv DEF MCInv, NetTypes
<1>2. CASE MCNext
  <2>1. kind' = kind
    BY <1>2 DEF MCNext, Only
  <2>2. kind # "local" => IInv'
    BY <1>2, NextInv, SequentialStep DEF MCNext, MCInv
  <2>3. kind = "local" => LocalInv'
    BY <1>2, LocalStep DEF MCNext, MCInv, Only
  <2>4. Traffic' /\ NetTypes'
    BY <1>2, NetGoesOn
  <2> QED
    BY <2>1, <2>2, <2>3, <2>4 DEF MCInv, NetTypes
<1> QED
  BY <1>1, <1>2

\* The forking server, and the sequential and the local one beside it, keep their
\* invariants (the loops of the three server.c).
THEOREM InvariantHolds == MCSpec => []MCInv
BY StreamsBegin, StreamsGoOn, PTL DEF MCSpec

\* Children that are not waited for: none in the local server.
LEMMA ReapersRight == MCInv => ReaperForEachChild /\ ConnectionsHeld
<1>1. IInv => ReaperForEachChild
  BY DEF IInv, ReapersCount, ReaperForEachChild
<1>2. IInv => ConnectionsHeld
  BY DEF IInv, OpenBelongs, ConnectionsHeld, ParentHoldsNothing
<1>3. LocalInv => ReaperForEachChild
  <2>1. LocalInv => Unreaped = {} /\ reapers = 0
    BY DEF LocalInv, Unreaped
  <2> QED
    BY <2>1, FS_EmptySet DEF ReaperForEachChild
<1>4. LocalInv => ConnectionsHeld
  BY ConstantFacts DEF LocalInv, ConnectionsHeld, ParentHoldsNothing, ChildKeepsConnection, Open
<1> QED
  BY <1>1, <1>2, <1>3, <1>4 DEF MCInv

\* The bounds of the types: what is on its way is no more than was sent, and there are
\* no more waiting threads than clients.
LEMMA StreamTypes == MCInv => StreamTypeOK
<1> SUFFICES ASSUME MCInv PROVE StreamTypeOK
  OBVIOUS
<1>1. ASSUME NEW c \in Clients
      PROVE  inb[c] \in 0..MaxLines * LinePieces /\ outb[c] \in 0..MaxLines * LinePieces
  <2>1. lines[c] \in Nat /\ inb[c] \in Nat /\ outb[c] \in Nat
    BY DEF MCInv, Traffic
  <2> DEFINE y == lines[c] * LinePieces
             z == MaxLines * LinePieces
  <2>2. y \in Nat /\ z \in Nat
    BY <2>1, NetAssumption
  <2>3. inb[c] + outb[c] + y <= z
    BY DEF MCInv, Traffic
  <2> HIDE DEF y, z
  <2>4. inb[c] \in 0..z /\ outb[c] \in 0..z
    BY <2>1, <2>2, <2>3
  <2> QED
    BY <2>4 DEF z
<1>2. /\ inb \in [Clients -> 0..MaxLines * LinePieces]
      /\ outb \in [Clients -> 0..MaxLines * LinePieces]
      /\ lines \in [Clients -> 0..MaxLines]
  BY <1>1 DEF MCInv, Traffic
<1>3. CASE kind = "local"
  BY <1>2, <1>3 DEF MCInv, LocalInv, StreamTypeOK, NetTypeOK
<1>4. CASE kind # "local"
  <2>1. reapers \in 0..Cardinality(Clients)
    <3>1. Cardinality(Unreaped) <= Cardinality(Clients) /\ Cardinality(Unreaped) \in Nat
      <4>1. Unreaped \subseteq Clients
        BY DEF Unreaped
      <4> QED
        BY <4>1, ConstantFacts, FS_Subset, FS_CardinalityType
    <3> QED
      BY <1>4, <3>1, ConstantFacts DEF MCInv, IInv, ReapersCount
  <2> QED
    BY <1>2, <1>4, <2>1 DEF MCInv, IInv, StreamTypeOK, NetTypeOK, ForkTypeOK
<1> QED
  BY <1>3, <1>4

\* Whatever its clients do, no variable of the server that runs leaves its type.
THEOREM StreamTypesKept == MCSpec => []StreamTypeOK
BY InvariantHolds, StreamTypes, PTL

\* Although a waiting thread gets whichever child has ended, there is one for each child
\* that has not been waited for: none finds that there is nothing to wait for, and no
\* child stays a zombie for want of a thread.
THEOREM ReapersSuffice == MCSpec => []ReaperForEachChild
BY InvariantHolds, ReapersRight, PTL

\* What is open between two connections belongs to a child that is there, and no child
\* loses its connection to the parent's closes, to other children's ends or to an accept.
THEOREM ConnectionsAreHeld == MCSpec => []ConnectionsHeld
BY InvariantHolds, ReapersRight, PTL
=============================================================================
