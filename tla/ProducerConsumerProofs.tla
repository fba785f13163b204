----------------------- MODULE ProducerConsumerProofs -----------------------
(***************************************************************************)
(* Proofs about ProducerConsumer, for any numbers of producers, consumers  *)
(* and nodes: every node has one owner until it is freed, and consumers do *)
(* not all sleep over a list that holds one.                               *)
(***************************************************************************)
EXTENDS ProducerConsumer, Integers, FiniteSetTheorems, SequenceTheorems, TLAPS

\* A sequence with a new first element.
LEMMA PushEntries ==
  ASSUME NEW S, NEW q \in Seq(S), NEW e \in S
  PROVE  /\ <<e>> \o q \in Seq(S)
         /\ Len(<<e>> \o q) = Len(q) + 1
         /\ (<<e>> \o q)[1] = e
         /\ \A i \in 2..Len(q)+1 : (<<e>> \o q)[i] = q[i - 1]
<1>1. <<e>> \in Seq(S) /\ Len(<<e>>) = 1 /\ <<e>>[1] = e /\ Len(q) \in Nat
  OBVIOUS
<1> DEFINE one == <<e>>
<1> HIDE DEF one
<1>2. /\ one \o q \in Seq(S)
      /\ Len(one \o q) = 1 + Len(q)
      /\ \A i \in 1..1+Len(q) : (one \o q)[i] = IF i <= 1 THEN one[i] ELSE q[i - 1]
  BY <1>1, ConcatProperties DEF one
<1>3. (one \o q)[1] = e
  BY <1>1, <1>2 DEF one
<1>4. \A i \in 2..Len(q)+1 : (one \o q)[i] = q[i - 1]
  BY <1>1, <1>2
<1> QED
  BY <1>1, <1>2, <1>3, <1>4 DEF one

LEMMA InitInv == Consumers # {} /\ Actors /\ Init => IInv
<1> SUFFICES ASSUME Consumers # {}, Actors, Init PROVE IInv
  OBVIOUS
<1>1. Held = {} /\ Linked = {} /\ InHands = {}
  <2>1. Held = {}
    BY DEF Init, Held, Actors
  <2>2. Linked = {}
    BY DEF Init, Linked
  <2> QED
    BY <2>1, <2>2 DEF InHands
<1>2. TypeOK
  BY DEF Init, TypeOK, Actors
<1>3. IsFiniteSet(Held) /\ IsFiniteSet(heap) /\ Cardinality(Held) = 0 /\ Cardinality(heap) = 0
  BY <1>1, FS_EmptySet DEF Init
<1>4. NodesAccounted /\ OneOwner
  BY <1>1, <1>3 DEF Init, NodesAccounted, OneOwner
<1>5. EmptyUntilWait /\ NoSleepOverNodes
  BY DEF Init, EmptyUntilWait, NoSleepOverNodes, Actors
<1> QED
  BY <1>2, <1>3, <1>4, <1>5 DEF IInv

LEMMA MakeStep ==
  ASSUME Actors, IInv, NEW t \in Producers, Make(t)
  PROVE  IInv'
<1>1. PICK n \in Nodes \ heap : heap' = heap \cup {n} /\ mp' = [mp EXCEPT ![t] = n]
  BY DEF Make
<1>2. /\ Held' = Held \cup {t} /\ t \notin Held
      /\ mp'[t] = n /\ \A u \in Held : mp'[u] = mp[u]
  BY <1>1 DEF Make, Held, Actors, IInv, TypeOK
<1>3. TypeOK'
  BY <1>1 DEF Make, Actors, IInv, TypeOK
<1>4. InHands' = InHands \cup {n} /\ Linked' = Linked
  BY <1>2 DEF Make, InHands, Linked
<1>5. /\ IsFiniteSet(heap') /\ Cardinality(heap') = Cardinality(heap) + 1
      /\ IsFiniteSet(Held') /\ Cardinality(Held') = Cardinality(Held) + 1
  BY <1>1, <1>2, FS_AddElement DEF IInv
<1>6. NodesAccounted'
  <2>1. heap' = Linked' \cup InHands'
    BY <1>1, <1>4 DEF IInv, NodesAccounted
  <2>2. Cardinality(heap) \in Nat /\ Cardinality(Held) \in Nat /\ Len(list) \in Nat
    BY FS_CardinalityType DEF IInv, TypeOK
  <2>3. Cardinality(heap') = Len(list') + Cardinality(Held')
    BY <1>5, <2>2 DEF Make, IInv, NodesAccounted
  <2> QED
    BY <2>1, <2>3 DEF NodesAccounted
<1>7. OneOwner'
  BY <1>1, <1>2 DEF Make, IInv, OneOwner, NodesAccounted, Linked, InHands
<1>8. EmptyUntilWait' /\ NoSleepOverNodes'
  BY DEF Make, Actors, IInv, TypeOK, EmptyUntilWait, NoSleepOverNodes
<1> QED
  BY <1>3, <1>5, <1>6, <1>7, <1>8 DEF IInv

LEMMA PushStep ==
  ASSUME Actors, IInv, NEW t \in Producers, Push(t)
  PROVE  IInv'
<1>1. Held' = Held \ {t} /\ t \in Held
  BY DEF Push, Held, Actors, IInv, TypeOK
<1>2. list \in Seq(Nodes) /\ Len(list) \in Nat /\ mp[t] \in Nodes
  BY <1>1 DEF IInv, TypeOK, NodesAccounted, InHands
<1>3. /\ list' \in Seq(Nodes) /\ Len(list') = Len(list) + 1
      /\ list'[1] = mp[t] /\ \A i \in 2..Len(list)+1 : list'[i] = list[i - 1]
  BY <1>2, PushEntries DEF Push
<1>4. TypeOK'
  BY <1>3 DEF Push, Actors, IInv, TypeOK
<1>5. IsFiniteSet(Held') /\ Cardinality(Held') = Cardinality(Held) - 1
  BY <1>1, FS_RemoveElement DEF IInv
<1>6. NodesAccounted'
  <2>1. Linked' = Linked \cup {mp[t]}
    <3>1. \A k \in 1..Len(list) : k + 1 \in 2..Len(list)+1 /\ (k + 1) - 1 = k
      BY <1>2
    <3>2. \A k \in 2..Len(list)+1 : k - 1 \in 1..Len(list)
      BY <1>2
    <3>3. \A k \in 1..Len(list)+1 : k = 1 \/ k \in 2..Len(list)+1
      BY <1>2
    <3>4. 1 \in 1..Len(list)+1 /\ 2..Len(list)+1 \subseteq 1..Len(list)+1
      BY <1>2
    <3>5. Linked' \subseteq Linked \cup {mp[t]}
      BY <1>3, <3>2, <3>3 DEF Linked
    <3>6. ASSUME NEW k \in 1..Len(list)
          PROVE  list[k] \in Linked'
      BY <1>3, <3>1, <3>4 DEF Linked
    <3> QED
      BY <1>3, <3>4, <3>5, <3>6 DEF Linked
  <2>2. InHands = InHands' \cup {mp[t]}
    BY <1>1 DEF Push, InHands
  <2>3. Cardinality(heap) \in Nat /\ Cardinality(Held) \in Nat
    BY FS_CardinalityType DEF IInv
  <2>4. Cardinality(heap') = Len(list') + Cardinality(Held')
    BY <1>2, <1>3, <1>5, <2>3 DEF Push, IInv, NodesAccounted
  <2> QED
    BY <2>1, <2>2, <2>4 DEF Push, IInv, NodesAccounted
<1>7. OneOwner'
  <2>1. \A i \in 1..Len(list)+1 : i = 1 \/ (i \in 2..Len(list)+1 /\ i - 1 \in 1..Len(list))
    BY <1>2
  <2>2. mp' = mp /\ Held' \subseteq Held /\ t \notin Held'
    BY <1>1 DEF Push
  <2>3. \A i, j \in 1..Len(list)+1 : list'[i] = list'[j] => i = j
    <3>1. \A i \in 2..Len(list)+1 : list'[i] # mp[t]
      BY <1>1, <1>3, <2>1 DEF IInv, OneOwner
    <3>2. ASSUME NEW i \in 2..Len(list)+1, NEW j \in 2..Len(list)+1, list'[i] = list'[j]
          PROVE  i = j
      <4>1. i - 1 \in 1..Len(list) /\ j - 1 \in 1..Len(list) /\ (i - 1 = j - 1 => i = j)
        BY <1>2
      <4> QED
        BY <1>3, <3>2, <4>1 DEF IInv, OneOwner
    <3> QED
      BY <1>3, <2>1, <3>1, <3>2
  <2>4. \A u, w \in Held' : mp'[u] = mp'[w] => u = w
    BY <2>2 DEF IInv, OneOwner
  <2>5. \A i \in 1..Len(list)+1, u \in Held' : list'[i] # mp'[u]
    BY <1>1, <1>3, <2>1, <2>2 DEF IInv, OneOwner
  <2> QED
    BY <1>3, <2>3, <2>4, <2>5 DEF OneOwner
<1>8. EmptyUntilWait' /\ NoSleepOverNodes'
  BY DEF Push, Actors, IInv, TypeOK, EmptyUntilWait, NoSleepOverNodes
<1> QED
  BY <1>4, <1>5, <1>6, <1>7, <1>8 DEF Push, IInv

LEMMA TakeStep ==
  ASSUME Actors, IInv, NEW t \in Consumers, Take(t)
  PROVE  IInv'
<1>1. list \in Seq(Nodes) /\ Len(list) \in Nat \ {0} /\ Head(list) = list[1]
  BY DEF Take, IInv, TypeOK
<1>2. /\ list' \in Seq(Nodes) /\ Len(list') = Len(list) - 1
      /\ \A i \in 1..Len(list)-1 : list'[i] = list[i + 1]
  BY <1>1, HeadTailProperties DEF Take, MoveHead
<1>3. /\ Held' = Held \cup {t} /\ t \notin Held
      /\ mp'[t] = list[1] /\ \A u \in Held : mp'[u] = mp[u]
  BY <1>1 DEF Take, HasLock, Held, Actors, IInv, TypeOK
<1>4. TypeOK'
  <2>1. list[1] \in Nodes
    BY <1>1
  <2> QED
    BY <1>1, <1>2, <2>1 DEF Take, HasLock, Actors, IInv, TypeOK
<1>5. IsFiniteSet(Held') /\ Cardinality(Held') = Cardinality(Held) + 1
  BY <1>3, FS_AddElement DEF IInv
<1>6. NodesAccounted'
  <2>1. Linked = Linked' \cup {list[1]}
    <3>1. \A k \in 1..Len(list)-1 : k + 1 \in 1..Len(list)
      BY <1>1
    <3>2. \A k \in 1..Len(list) : k = 1 \/ (k - 1 \in 1..Len(list)-1 /\ (k - 1) + 1 = k)
      BY <1>1
    <3>3. 1 \in 1..Len(list)
      BY <1>1
    <3>4. Linked' \subseteq Linked
      BY <1>2, <3>1 DEF Linked
    <3>5. ASSUME NEW k \in 1..Len(list), k # 1
          PROVE  list[k] \in Linked'
      <4>1. k - 1 \in 1..Len(list)-1 /\ list'[k - 1] = list[k]
        BY <1>2, <3>2, <3>5
      <4> QED
        BY <1>2, <4>1 DEF Linked
    <3> QED
      BY <3>3, <3>4, <3>5 DEF Linked
  <2>2. InHands' = InHands \cup {list[1]}
    BY <1>3 DEF InHands
  <2>3. Cardinality(heap) \in Nat /\ Cardinality(Held) \in Nat
    BY FS_CardinalityType DEF IInv
  <2>4. Cardinality(heap') = Len(list') + Cardinality(Held')
    BY <1>1, <1>2, <1>5, <2>3 DEF Take, IInv, NodesAccounted
  <2> QED
    BY <2>1, <2>2, <2>4 DEF Take, IInv, NodesAccounted
<1>7. OneOwner'
  <2>1. \A i \in 1..Len(list)-1 : i + 1 \in 1..Len(list) /\ i + 1 # 1
    BY <1>1
  <2>2. ASSUME NEW i \in 1..Len(list)-1, NEW j \in 1..Len(list)-1, list'[i] = list'[j]
        PROVE  i = j
    <3>1. i + 1 = j + 1 => i = j
      BY <1>1
    <3> QED
      BY <1>2, <2>1, <2>2, <3>1 DEF IInv, OneOwner
  <2>3. \A u \in Held : mp[u] # list[1]
    BY <1>1 DEF IInv, OneOwner
  <2>4. \A u, w \in Held' : mp'[u] = mp'[w] => u = w
    BY <1>3, <2>3 DEF IInv, OneOwner
  <2>5. \A i \in 1..Len(list)-1 : list'[i] # list[1]
    BY <1>1, <1>2, <2>1 DEF IInv, OneOwner
  <2>6. \A i \in 1..Len(list)-1, u \in Held' : list'[i] # mp'[u]
    BY <1>2, <1>3, <2>1, <2>5 DEF IInv, OneOwner
  <2> QED
    BY <1>2, <2>2, <2>4, <2>6 DEF OneOwner
<1>8. EmptyUntilWait' /\ NoSleepOverNodes'
  BY DEF Take, HasLock, Actors, IInv, TypeOK, EmptyUntilWait, NoSleepOverNodes
<1> QED
  BY <1>4, <1>5, <1>6, <1>7, <1>8 DEF Take, IInv

\* free() gives back a node that nobody else holds.
LEMMA FreeStep ==
  ASSUME Actors, IInv, NEW t \in Consumers, Free(t)
  PROVE  IInv'
<1>1. Held' = Held \ {t} /\ t \in Held /\ mp' = mp /\ list' = list
  BY DEF Free, Held, Actors, IInv, TypeOK
<1>2. TypeOK'
  BY DEF Free, Actors, IInv, TypeOK
<1>3. mp[t] \in heap
  BY <1>1 DEF IInv, NodesAccounted, InHands
<1>4. /\ IsFiniteSet(heap') /\ Cardinality(heap') = Cardinality(heap) - 1
      /\ IsFiniteSet(Held') /\ Cardinality(Held') = Cardinality(Held) - 1
  BY <1>1, <1>3, FS_RemoveElement DEF Free, IInv
<1>5. NodesAccounted'
  <2>1. mp[t] \notin Linked /\ Linked' = Linked
    BY <1>1 DEF IInv, OneOwner, Linked
  <2>2. InHands' = InHands \ {mp[t]}
    BY <1>1 DEF IInv, OneOwner, InHands
  <2>3. Cardinality(heap) \in Nat /\ Cardinality(Held) \in Nat /\ Len(list) \in Nat
    BY FS_CardinalityType DEF IInv, TypeOK
  <2>4. Cardinality(heap') = Len(list') + Cardinality(Held')
    BY <1>1, <1>4, <2>3 DEF IInv, NodesAccounted
  <2> QED
    BY <2>1, <2>2, <2>4 DEF Free, IInv, NodesAccounted
<1>6. OneOwner'
  BY <1>1 DEF IInv, OneOwner
<1>7. EmptyUntilWait' /\ NoSleepOverNodes'
  BY DEF Free, Actors, IInv, TypeOK, EmptyUntilWait, NoSleepOverNodes
<1> QED
  BY <1>2, <1>4, <1>5, <1>6, <1>7 DEF IInv

\* The other steps are about the mutex and the condition variable: no node changes hands.
LEMMA NodesUntouched ==
  ASSUME IInv, UNCHANGED <<list, heap, mp>>, Held' = Held
  PROVE  IsFiniteSet(Held') /\ IsFiniteSet(heap') /\ NodesAccounted' /\ OneOwner'
<1>1. Linked' = Linked /\ InHands' = InHands
  BY DEF Linked, InHands
<1> QED
  BY <1>1 DEF IInv, NodesAccounted, OneOwner

\* A signal wakes a consumer when all sleep, so that not all sleep any more.
LEMMA SignalStep ==
  ASSUME Consumers # {}, Actors, IInv, NEW t \in Producers, Signal(t)
  PROVE  IInv'
<1>1. UNCHANGED <<list, heap, mp, lock>> /\ Held' = Held
  BY DEF Signal, Held, Actors, IInv, TypeOK
<1>2. (waiting = {} /\ waiting' = {}) \/ \E w \in waiting : waiting' = waiting \ {w}
  BY DEF Signal, WakeOne
<1>3. TypeOK'
  BY <1>2 DEF Signal, Actors, IInv, TypeOK
<1>4. EmptyUntilWait'
  BY DEF Signal, Actors, IInv, TypeOK, EmptyUntilWait
<1>5. ~(Consumers \subseteq waiting')
  BY <1>2 DEF IInv, TypeOK
<1> QED
  BY <1>1, <1>3, <1>4, <1>5, NodesUntouched DEF IInv, NoSleepOverNodes

LEMMA ConsumerWaits ==
  ASSUME Actors, IInv, NEW t \in Consumers, FoundEmpty(t) \/ Wait(t) \/ Spurious(t)
  PROVE  IInv'
<1>1. UNCHANGED <<list, heap, mp>> /\ Held' = Held
  BY DEF FoundEmpty, Wait, Spurious, HasLock, Held, Actors, IInv, TypeOK
<1>2. TypeOK'
  BY DEF FoundEmpty, Wait, Spurious, HasLock, Actors, IInv, TypeOK
<1>3. EmptyUntilWait'
  <2>1. CASE FoundEmpty(t)
    BY <2>1 DEF FoundEmpty, HasLock, IInv, TypeOK, EmptyUntilWait
  <2>2. CASE Wait(t)
    BY <2>2 DEF Wait, IInv, TypeOK, EmptyUntilWait
  <2>3. CASE Spurious(t)
    BY <2>3 DEF Spurious, IInv, EmptyUntilWait
  <2> QED
    BY <2>1, <2>2, <2>3
<1>4. NoSleepOverNodes'
  <2>1. CASE FoundEmpty(t)
    BY <2>1 DEF FoundEmpty, NoSleepOverNodes
  <2>2. CASE Wait(t)
    BY <2>2 DEF Wait, IInv, EmptyUntilWait, NoSleepOverNodes
  <2>3. CASE Spurious(t)
    BY <2>3 DEF Spurious, IInv, NoSleepOverNodes
  <2> QED
    BY <2>1, <2>2, <2>3
<1> QED
  BY <1>1, <1>2, <1>3, <1>4, NodesUntouched DEF IInv

LEMMA NextInv == Consumers # {} /\ Actors /\ IInv /\ [Next]_vars => IInv'
<1> SUFFICES ASSUME Consumers # {}, Actors, IInv, [Next]_vars PROVE IInv'
  OBVIOUS
<1>1. ASSUME NEW t \in Producers, Producer(t)
      PROVE  IInv'
  BY <1>1, MakeStep, PushStep, SignalStep DEF Producer
<1>2. ASSUME NEW t \in Consumers, Consumer(t) \/ Spurious(t)
      PROVE  IInv'
  BY <1>2, TakeStep, FreeStep, ConsumerWaits DEF Consumer
<1>3. CASE UNCHANGED vars
  <2>1. Held' = Held
    BY <1>3 DEF vars, Held
  <2>2. TypeOK' /\ EmptyUntilWait' /\ NoSleepOverNodes'
    BY <1>3 DEF vars, IInv, TypeOK, EmptyUntilWait, NoSleepOverNodes
  <2> QED
    BY <1>3, <2>1, <2>2, NodesUntouched DEF vars, IInv
<1> QED
  BY <1>1, <1>2, <1>3 DEF Next

\* The list never loses a node, frees none twice and frees none that is still linked,
\* and pthread_cond_signal, sent after the mutex is released, comes too late for no
\* consumer: as long as all of them sleep over a node, another signal is on its way.
THEOREM ListIsKept ==
  ASSUME Consumers # {}, Actors
  PROVE  Spec => []ListHolds
<1>1. Init => IInv
  BY InitInv
<1>2. IInv /\ [Next]_vars => IInv'
  BY NextInv
<1>3. IInv => ListHolds
  BY DEF IInv, ListHolds
<1> QED
  BY <1>1, <1>2, <1>3, PTL DEF Spec
=============================================================================
