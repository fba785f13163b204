-------------------------- MODULE ProducerConsumer --------------------------
(***************************************************************************)
(* src/010_thread_sync/04thread_sync_pthread_cond.c: a producer and a      *)
(* consumer over a linked list, with one mutex and one condition variable  *)
(* that the producer signals after it has released the mutex.              *)
(***************************************************************************)
EXTENDS Naturals, Sequences, FiniteSets

CONSTANTS
  Producers, Consumers,   \* main starts one of each
  Nodes,                  \* bound: struct msg's that can be allocated at a time
  NoNode                  \* NULL

Actors == Producers \cap Consumers = {} /\ NoNode \notin Nodes

VARIABLES
  list,     \* the nodes linked from head, newest first
  heap,     \* nodes allocated
  mp,       \* each thread's pointer
  pc,       \* where each thread is
  lock,     \* the consumer that has the mutex between steps, if any
  waiting   \* consumers blocked on g_cond

vars == <<list, heap, mp, pc, lock, waiting>>

Init ==
  /\ list = <<>> /\ heap = {}
  /\ mp = [t \in Producers \cup Consumers |-> NoNode]
  /\ pc = [t \in Producers \cup Consumers |-> IF t \in Producers THEN "make" ELSE "test"]
  /\ lock = {} /\ waiting = {}

Make(t) ==
  /\ pc[t] = "make"
  /\ \E n \in Nodes \ heap :
       /\ heap' = heap \cup {n}
       /\ mp' = [mp EXCEPT ![t] = n]
  /\ pc' = [pc EXCEPT ![t] = "push"]
  /\ UNCHANGED <<list, lock, waiting>>

Push(t) ==
  /\ pc[t] = "push" /\ lock = {}
  /\ list' = <<mp[t]>> \o list
  /\ pc' = [pc EXCEPT ![t] = "signal"]
  /\ UNCHANGED <<heap, mp, lock, waiting>>

\* (if nobody was signalled)
SignalNobody == UNCHANGED waiting

\* pthread_cond_signal, without the mutex.
WakeOne == waiting' \in IF waiting = {} THEN {{}} ELSE {waiting \ {w} : w \in waiting}

Signal(t) ==
  /\ pc[t] = "signal"
  /\ WakeOne
  /\ pc' = [pc EXCEPT ![t] = "make"]
  /\ UNCHANGED <<list, heap, mp, lock>>

\* The consumer has the mutex, from the start of its loop or when the wait returns.
HasLock(t) ==
  /\ lock = {}
  /\ pc[t] = "test" \/ (pc[t] = "waiting" /\ t \notin waiting)

\* The list is empty: on to the wait, still with the mutex.
FoundEmpty(t) ==
  /\ HasLock(t) /\ list = <<>>
  /\ lock' = {t}
  /\ pc' = [pc EXCEPT ![t] = "toWait"]
  /\ UNCHANGED <<list, heap, mp, waiting>>

\* The mutex is released and the consumer blocked in one step.
Wait(t) ==
  /\ pc[t] = "toWait"
  /\ lock' = {}
  /\ waiting' = waiting \cup {t}
  /\ pc' = [pc EXCEPT ![t] = "waiting"]
  /\ UNCHANGED <<list, heap, mp>>

\* pthread_cond_wait may return without a signal.
Spurious(t) ==
  /\ t \in waiting
  /\ waiting' = waiting \ {t}
  /\ UNCHANGED <<list, heap, mp, pc, lock>>

\* (if head was not moved on)
KeepHead == list

MoveHead == Tail(list)

Take(t) ==
  /\ HasLock(t) /\ list # <<>>
  /\ mp' = [mp EXCEPT ![t] = Head(list)]
  /\ list' = MoveHead
  /\ pc' = [pc EXCEPT ![t] = "free"]
  /\ UNCHANGED <<heap, lock, waiting>>

Free(t) ==
  /\ pc[t] = "free"
  /\ heap' = heap \ {mp[t]}
  /\ pc' = [pc EXCEPT ![t] = "test"]
  /\ UNCHANGED <<list, mp, lock, waiting>>

Producer(t) == Make(t) \/ Push(t) \/ Signal(t)
Consumer(t) == FoundEmpty(t) \/ Wait(t) \/ Take(t) \/ Free(t)

Next ==
  \/ \E t \in Producers : Producer(t)
  \/ \E t \in Consumers : Consumer(t) \/ Spurious(t)

Spec == Init /\ [][Next]_vars

-----------------------------------------------------------------------------
TypeOK ==
  /\ list \in Seq(Nodes) /\ heap \subseteq Nodes
  /\ mp \in [Producers \cup Consumers -> Nodes \cup {NoNode}]
  /\ pc \in [Producers \cup Consumers ->
             {"make", "push", "signal", "test", "toWait", "waiting", "free"}]
  /\ \A t \in Producers : pc[t] \in {"make", "push", "signal"}
  /\ \A t \in Consumers : pc[t] \in {"test", "toWait", "waiting", "free"}
  /\ lock \subseteq Consumers /\ waiting \subseteq Consumers

\* The nodes a thread has in its hands: made and not linked, or unlinked and not freed.
Held == {t \in Producers : pc[t] = "push"} \cup {t \in Consumers : pc[t] = "free"}

Linked  == {list[k] : k \in 1..Len(list)}
InHands == {mp[t] : t \in Held}

\* Each allocated node is in the list or in the hands of one thread, and nowhere twice:
\* nothing is leaked, freed twice, or freed while it is linked.
NodesAccounted ==
  /\ heap = Linked \cup InHands
  /\ Cardinality(heap) = Len(list) + Cardinality(Held)

\* The same without counting: what Free frees is neither linked nor in other hands.
OneOwner ==
  /\ \A i, j \in 1..Len(list) : list[i] = list[j] => i = j
  /\ \A t, u \in Held : mp[t] = mp[u] => t = u
  /\ \A i \in 1..Len(list), t \in Held : list[i] # mp[t]

\* All consumers sleep while there are nodes only if a signal is still to come: none
\* is lost between the test and the wait, or for being sent without the mutex.
NoSleepOverNodes ==
  Consumers \subseteq waiting /\ list # <<>> => \E t \in Producers : pc[t] = "signal"

\* Nothing is linked between a consumer's test and its wait: it has the mutex.
EmptyUntilWait == \A t \in Consumers : pc[t] = "toWait" => lock = {t} /\ list = <<>>

\* The list never loses a node and is never slept over.
ListHolds == NodesAccounted /\ NoSleepOverNodes

\* The inductive invariant.
IInv ==
  /\ TypeOK /\ IsFiniteSet(Held) /\ IsFiniteSet(heap)
  /\ NodesAccounted /\ OneOwner
  /\ EmptyUntilWait /\ NoSleepOverNodes
=============================================================================
