----------------------------- MODULE SyncProofs -----------------------------
(***************************************************************************)
(* Proofs about SemaphoreRing, ThreadLives, ProcessFamily and PoolCreate,  *)
(* for all values of their constants, and, with those of CounterProofs and *)
(* ProducerConsumerProofs, about their composition MCSync.                 *)
(***************************************************************************)
EXTENDS MCSync, QueueLemmas

-----------------------------------------------------------------------------
(* The semaphore ring: the two semaphores keep the producer and the        *)
(* consumer off each other's slots, and the ring is a bounded queue.       *)

\* What the invariant says of the slots the two threads stand at.
LEMMA RingFacts ==
  ASSUME IInv
  PROVE  /\ RingSize \in Nat \ {0}
         /\ First \in 0..RingSize-1
         /\ Stored \in 0..RingSize
         /\ ppc = "use" => Stored \in 0..RingSize-1 /\ p = (First + Stored) % RingSize
         /\ cpc = "use" => Stored \in 1..RingSize /\ c = First
<1>1. RingSize \in Nat \ {0}
  BY RingAssumption
<1>2. First \in 0..RingSize-1
  <2>1. c \in 0..RingSize-1
    BY DEF IInv, TypeOK, Slots
  <2>2. c + 1 \in 0..2*RingSize-1
    BY <1>1, <2>1
  <2>3. NextSlot(c) \in 0..RingSize-1
    BY <1>1, <2>2, ModWrap DEF NextSlot
  <2> QED
    BY <2>1, <2>3 DEF First
<1>3. /\ Stored \in 0..RingSize
      /\ ppc = "use" => Stored \in 0..RingSize-1
      /\ cpc = "use" => Stored \in 1..RingSize
  BY <1>1 DEF IInv, TypeOK, SlotsAccounted, Stored
<1>4. ppc = "use" => p = (First + Stored) % RingSize
  BY DEF IInv, NumbersInOrder, Behind
<1>5. cpc = "use" => c = First
  BY DEF First
<1> QED
  BY <1>1, <1>2, <1>3, <1>4, <1>5


\* The invariant is inductive.
LEMMA RingInitInv == Init => IInv
<1> SUFFICES ASSUME Init PROVE IInv
  OBVIOUS
<1>1. RingSize \in Nat \ {0} /\ 0 \in 0..RingSize-1 /\ MaxItems \in Nat
  BY RingAssumption
<1>2. First = 0 /\ Stored = 0 /\ Behind = 0
  BY DEF Init, First, Stored, Behind
<1>3. TypeOK /\ SlotsAccounted
  BY <1>1, <1>2 DEF Init, TypeOK, SlotsAccounted, Slots, Items
<1>4. NumbersInOrder
  <2>1. Stored < made /\ got = 1..made-Stored-1
    BY <1>2 DEF Init
  <2>2. Behind = (First + Stored) % RingSize
    BY <1>1, <1>2, PlaceZero
  <2>3. ASSUME NEW s \in Slots
        PROVE  ring[s] = IF Offset(s) < Stored THEN made - Stored + Offset(s) ELSE Empty
    BY <1>1, <1>2, <2>3 DEF Init, Offset, Slots
  <2> QED
    BY <2>1, <2>2, <2>3 DEF NumbersInOrder
<1> QED
  BY <1>3, <1>4 DEF IInv, Init

\* Only the two threads' work on a slot touches the numbers in the ring: the other
\* steps move a thread or a semaphore and leave the queue as it is.
Keeps == UNCHANGED <<ring, made, got>> /\ First' = First /\ Stored' = Stored /\ Behind' = Behind

LEMMA SemaphoreStep ==
  ASSUME IInv, PWait \/ PPost \/ CWait \/ CPost
  PROVE  IInv' /\ Keeps
<1>1. RingSize \in Nat \ {0} /\ MaxItems \in Nat
  BY RingAssumption
<1>2. Keeps
  <2>1. UNCHANGED <<ring, made, got>>
    BY DEF PWait, PPost, CWait, CPost, prodVars, consVars
  <2>2. First' = First
    BY DEF PWait, PPost, CWait, CPost, prodVars, consVars, First
  <2>3. Stored' = Stored
    BY DEF PWait, PPost, CWait, CPost, CMayGo, PostBlank, prodVars, consVars, Stored, IInv, TypeOK
  <2>4. Behind' = Behind
    BY DEF PWait, PPost, CWait, CPost, prodVars, consVars, Behind
  <2> QED
    BY <2>1, <2>2, <2>3, <2>4 DEF Keeps
<1>3. SlotsAccounted'
  BY <1>1, <1>2 DEF PWait, PPost, CWait, CPost, CMayGo, PostBlank, prodVars, consVars,
                    SlotsAccounted, Stored, IInv, TypeOK, Keeps
<1>4. NumbersInOrder'
  <2>1. \A s \in Slots : Offset(s)' = Offset(s)
    BY <1>2 DEF Offset, Keeps
  <2> QED
    BY <1>2, <2>1 DEF IInv, NumbersInOrder, Keeps
<1>5. TypeOK'
  <2>1. blank' \in 0..RingSize /\ product' \in 0..RingSize
    BY <1>1 DEF PWait, PPost, CWait, CPost, CMayGo, PostBlank, prodVars, consVars,
                IInv, TypeOK, SlotsAccounted, Stored
  <2>2. p' \in Slots /\ c' \in Slots
    <3>1. /\ p \in 0..RingSize-1 /\ p + 1 \in 0..2*RingSize-1
          /\ c \in 0..RingSize-1 /\ c + 1 \in 0..2*RingSize-1
      BY <1>1 DEF IInv, TypeOK, Slots
    <3>2. NextSlot(p) \in Slots /\ NextSlot(c) \in Slots
      BY <1>1, <3>1, ModWrap DEF NextSlot, Slots
    <3> QED
      BY <3>1, <3>2 DEF PWait, PPost, CWait, CPost, prodVars, consVars, Slots
  <2>3. /\ ppc' \in {"wait", "use", "post"} /\ cpc' \in {"wait", "use", "post"}
    BY DEF PWait, PPost, CWait, CPost, prodVars, consVars, IInv, TypeOK
  <2> QED
    BY <1>2, <2>1, <2>2, <2>3 DEF IInv, TypeOK, Keeps
<1>6. (ppc = "use" => made \in Items)'
  BY DEF PWait, PPost, CWait, CPost, prodVars, consVars, IInv
<1> QED
  BY <1>2, <1>3, <1>4, <1>5, <1>6 DEF IInv

\* The slot the producer fills is the one behind the newest number.
LEMMA ProduceStep ==
  ASSUME IInv, Produce
  PROVE  IInv'
<1>1. /\ RingSize \in Nat \ {0} /\ MaxItems \in Nat
      /\ First \in 0..RingSize-1 /\ Stored \in 0..RingSize-1
      /\ p = (First + Stored) % RingSize
  BY RingFacts, RingAssumption DEF Produce
<1>2. /\ p \in Slots /\ p \in 0..RingSize-1 /\ made \in Nat /\ made \in Items
      /\ ring \in [Slots -> Items \cup {Empty}]
  BY DEF Produce, IInv, TypeOK, Slots, Items
<1>3. First' = First /\ Stored' = Stored + 1 /\ made' = made + 1 /\ got' = got
  BY DEF Produce, consVars, First, Stored, IInv, TypeOK
<1>4. Behind' = (p + 1) % RingSize
  BY DEF Produce, Behind, NextSlot
<1>5. ring'[p] = made /\ \A s \in Slots : s # p => ring'[s] = ring[s]
  BY <1>2 DEF Produce
<1>6. TypeOK'
  <2>1. ring' \in [Slots -> Items \cup {Empty}]
    BY <1>2 DEF Produce
  <2>2. made' \in 1..MaxItems+1
    BY <1>1, <1>2, <1>3 DEF Items
  <2> QED
    BY <2>1, <2>2 DEF Produce, consVars, IInv, TypeOK
<1>7. SlotsAccounted'
  BY <1>1 DEF Produce, consVars, SlotsAccounted, Stored, IInv, TypeOK
<1>8. NumbersInOrder'
  <2>1. Stored < made /\ got = 1..made-Stored-1
    BY DEF IInv, NumbersInOrder
  <2>2. Stored + 1 < made + 1 /\ (made + 1) - (Stored + 1) = made - Stored
    BY <1>1, <1>2, <2>1
  <2>3. Behind' = (First' + Stored') % RingSize
    BY <1>1, <1>3, <1>4, ModInsert
  <2>4. ASSUME NEW s \in Slots
        PROVE  ring'[s] = IF Offset(s)' < Stored' THEN made' - Stored' + Offset(s)' ELSE Empty
    <3>1. Offset(s)' = Offset(s) /\ Offset(s) = Distance(s, First, RingSize)
      BY <1>3 DEF Offset, Distance
    <3>2. ring[s] = IF Offset(s) < Stored THEN made - Stored + Offset(s) ELSE Empty
      BY DEF IInv, NumbersInOrder
    <3>3. Offset(s) \in 0..RingSize-1
      BY <1>1, <3>1, DistanceNext DEF Slots
    <3>4. s = p <=> Offset(s) = Stored
      <4>1. Distance(p, First, RingSize) = Stored
        BY <1>1, DistanceIs
      <4>2. Distance(s, First, RingSize) = Distance(p, First, RingSize) => s = p
        BY <1>1, <1>2, DistanceTells DEF Slots
      <4> QED
        BY <3>1, <4>1, <4>2
    <3>5. CASE s = p
      BY <1>1, <1>2, <1>3, <1>5, <2>2, <3>1, <3>3, <3>4, <3>5
    <3>6. CASE s # p
      BY <1>1, <1>2, <1>3, <1>5, <2>2, <3>1, <3>2, <3>3, <3>4, <3>6
    <3> QED
      BY <3>5, <3>6
  <2> QED
    BY <1>3, <2>1, <2>2, <2>3, <2>4 DEF NumbersInOrder
<1> QED
  BY <1>6, <1>7, <1>8 DEF IInv, Produce

\* The slot the consumer empties holds the oldest number.
LEMMA ConsumedIsOldest ==
  ASSUME IInv, cpc = "use"
  PROVE  ring[c] = made - Stored /\ ring[c] \in Items
<1>1. RingSize \in Nat \ {0} /\ First \in 0..RingSize-1 /\ Stored \in 1..RingSize /\ c = First
  BY RingFacts
<1>2. c \in Slots /\ made \in 1..MaxItems+1 /\ MaxItems \in Nat /\ Stored < made
  BY RingAssumption DEF IInv, TypeOK, NumbersInOrder
<1>3. Offset(c) = 0
  BY <1>1 DEF Offset
<1>4. ring[c] = IF Offset(c) < Stored THEN made - Stored + Offset(c) ELSE Empty
  BY <1>2 DEF IInv, NumbersInOrder
<1>5. made - Stored + 0 = made - Stored /\ made - Stored \in Items
  BY <1>1, <1>2 DEF Items
<1>6. Offset(c) < Stored
  BY <1>1, <1>3
<1> QED
  BY <1>3, <1>4, <1>5, <1>6

LEMMA ConsumeStep ==
  ASSUME IInv, Consume
  PROVE  IInv'
<1>1. /\ RingSize \in Nat \ {0} /\ MaxItems \in Nat
      /\ First \in 0..RingSize-1 /\ Stored \in 1..RingSize /\ c = First
  BY RingFacts, RingAssumption DEF Consume
<1>2. /\ c \in Slots /\ made \in Nat /\ ring \in [Slots -> Items \cup {Empty}]
  BY DEF IInv, TypeOK
<1>3. /\ First' = (First + 1) % RingSize /\ Stored' = Stored - 1 /\ made' = made
      /\ Behind' = Behind
  BY <1>1 DEF Consume, prodVars, First, NextSlot, Stored, Behind, IInv, TypeOK
<1>4. ring'[c] = Empty /\ \A s \in Slots : s # c => ring'[s] = ring[s]
  BY <1>2 DEF Consume, Cleared
<1>5. ring[c] = made - Stored /\ ring[c] \in Items
  BY ConsumedIsOldest DEF Consume
<1>6. got' = got \cup {made - Stored}
  BY <1>5 DEF Consume
<1>7. TypeOK'
  <2>1. ring' \in [Slots -> Items \cup {Empty}]
    BY <1>2 DEF Consume, Cleared
  <2>2. got' \subseteq Items
    BY <1>5 DEF Consume, IInv, TypeOK
  <2> QED
    BY <2>1, <2>2 DEF Consume, prodVars, IInv, TypeOK
<1>8. SlotsAccounted'
  BY <1>1 DEF Consume, prodVars, SlotsAccounted, Stored, IInv, TypeOK
<1>9. NumbersInOrder'
  <2>1. /\ Stored < made /\ got = 1..made-Stored-1
        /\ Behind = (First + Stored) % RingSize
    BY DEF IInv, NumbersInOrder
  <2>2. Stored - 1 < made /\ got' = 1..made-(Stored-1)-1
    BY <1>1, <1>2, <1>6, <2>1
  <2>3. (First + Stored) % RingSize = (((First + 1) % RingSize) + (Stored - 1)) % RingSize
    BY <1>1, ModTake
  <2>4. ASSUME NEW s \in Slots
        PROVE  ring'[s] = IF Offset(s)' < Stored' THEN made' - Stored' + Offset(s)' ELSE Empty
    <3>1. /\ Offset(s) = Distance(s, First, RingSize)
          /\ Offset(s)' = Distance(s, (First + 1) % RingSize, RingSize)
      BY <1>3 DEF Offset, Distance
    <3>2. ring[s] = IF Offset(s) < Stored THEN made - Stored + Offset(s) ELSE Empty
      BY DEF IInv, NumbersInOrder
    <3>3. Offset(s) \in 0..RingSize-1 /\ (Offset(s) = 0 <=> s = c)
      BY <1>1, <3>1, DistanceNext DEF Slots
    <3>4. Offset(s)' = IF s = c THEN RingSize - 1 ELSE Offset(s) - 1
      BY <1>1, <3>1, DistanceNext DEF Slots
    <3>5. CASE s = c
      BY <1>1, <1>3, <1>4, <3>4, <3>5
    <3>6. CASE s # c
      BY <1>1, <1>2, <1>3, <1>4, <3>2, <3>3, <3>4, <3>6
    <3> QED
      BY <3>5, <3>6
  <2> QED
    BY <1>3, <2>1, <2>2, <2>3, <2>4 DEF NumbersInOrder
<1> QED
  BY <1>7, <1>8, <1>9 DEF IInv, Consume, prodVars

\* Every step of the two threads keeps the invariant.
LEMMA RingNextInv == IInv /\ [Next]_vars => IInv'
<1> SUFFICES ASSUME IInv, [Next]_vars PROVE IInv'
  OBVIOUS
<1>1. CASE Produce
  BY <1>1, ProduceStep
<1>2. CASE Consume
  BY <1>2, ConsumeStep
<1>3. CASE PWait \/ PPost \/ CWait \/ CPost
  BY <1>3, SemaphoreStep
<1>4. CASE UNCHANGED vars
  <2>1. UNCHANGED <<First, Stored, Behind>> /\ \A s \in Slots : Offset(s)' = Offset(s)
    BY <1>4 DEF vars, prodVars, consVars, First, Stored, Behind, Offset
  <2>2. TypeOK' /\ SlotsAccounted' /\ (ppc = "use" => made \in Items)'
    BY <1>4, <2>1 DEF IInv, TypeOK, SlotsAccounted, vars, prodVars, consVars
  <2>3. NumbersInOrder'
    BY <1>4, <2>1 DEF IInv, NumbersInOrder, vars, prodVars, consVars
  <2> QED
    BY <2>2, <2>3 DEF IInv
<1> QED
  BY <1>1, <1>2, <1>3, <1>4 DEF Next, Producer, Consumer

\* The semaphores' program keeps its invariant, its variables' types among it.
THEOREM RingInvariant == Spec => []IInv
BY RingInitInv, RingNextInv, PTL DEF Spec

LEMMA RingInvSlots == IInv => RingSlotsKept
<1> SUFFICES ASSUME IInv PROVE RingSlotsKept
  OBVIOUS
<1>1. NoOverwrite
  <2> SUFFICES ASSUME ppc = "use" PROVE ring[p] = Empty
    BY DEF NoOverwrite
  <2>1. /\ RingSize \in Nat \ {0} /\ First \in 0..RingSize-1 /\ Stored \in 0..RingSize-1
        /\ p = (First + Stored) % RingSize
    BY RingFacts
  <2>2. Offset(p) = Stored
    BY <2>1, DistanceIs DEF Offset, Distance
  <2>3. ring[p] = IF Offset(p) < Stored THEN made - Stored + Offset(p) ELSE Empty
    BY DEF IInv, TypeOK, NumbersInOrder
  <2> QED
    BY <2>1, <2>2, <2>3
<1>2. NoUnderflow
  BY ConsumedIsOldest DEF NoUnderflow, Items, Empty
<1> QED
  BY <1>1, <1>2 DEF RingSlotsKept, IInv

\* sem_wait(&blank_number) is enough for the producer to find its slot empty, and
\* sem_wait(&product_number) for the consumer to find its slot filled: no slot is
\* overwritten, read empty or lost, and the numbers come out in the order they went in.
THEOREM RingKept == Spec => []RingSlotsKept
BY RingInvSlots, RingInvariant, PTL

-----------------------------------------------------------------------------
(* The ring is a bounded queue                                             *)

\* What the queue holds: the numbers made last, oldest first.
LEMMA QueuedNumbers ==
  ASSUME IInv
  PROVE  /\ Queued = RingSeq(ring, First, Stored, RingSize)
         /\ Len(Queued) = Stored
         /\ \A k \in 1..Stored : Queued[k] # made
<1>1. /\ RingSize \in Nat \ {0} /\ First \in 0..RingSize-1
      /\ Stored \in 0..RingSize /\ made \in Nat
  BY RingFacts DEF IInv, TypeOK
<1>2. Queued = RingSeq(ring, First, Stored, RingSize)
  BY DEF Queued, RingSeq
<1>3. Len(Queued) = Stored
  BY <1>1, <1>2, RingSeqLen
<1>4. ASSUME NEW k \in 1..Stored
      PROVE  Queued[k] # made
  <2> DEFINE spot == (First + (k - 1)) % RingSize
  <2>1. k - 1 \in 0..RingSize-1 /\ k - 1 < Stored
    BY <1>1
  <2>2. spot \in 0..RingSize-1 /\ Distance(spot, First, RingSize) = k - 1
    BY <1>1, <2>1, DistanceIs
  <2>3. Queued[k] = ring[spot]
    BY <1>1, <1>2, RingSeqEntry
  <2> HIDE DEF spot
  <2>4. ring[spot] = IF Offset(spot) < Stored THEN made - Stored + Offset(spot) ELSE Empty
    BY <2>2 DEF IInv, NumbersInOrder, Slots
  <2>5. Offset(spot) = k - 1
    BY <2>2 DEF Offset, Distance
  <2> QED
    BY <1>1, <2>1, <2>3, <2>4, <2>5
<1> QED
  BY <1>2, <1>3, <1>4

\* What the producer stores is appended.
LEMMA QueuedProduce ==
  ASSUME IInv, Produce
  PROVE  Queued' = Append(Queued, made)
<1>1. /\ RingSize \in Nat \ {0} /\ First \in 0..RingSize-1 /\ Stored \in 0..RingSize-1
      /\ p = (First + Stored) % RingSize
  BY RingFacts DEF Produce
<1>2. First' = First /\ Stored' = Stored + 1
  BY DEF Produce, consVars, First, Stored, IInv, TypeOK
<1>3. \A s \in 0..RingSize-1 : s # p => ring'[s] = ring[s]
  BY DEF Produce, IInv, TypeOK, Slots
<1>4. ring'[p] = made
  BY DEF Produce, IInv, TypeOK
<1>5. RingSeq(ring', First, Stored', RingSize)
        = Append(RingSeq(ring, First, Stored, RingSize), ring'[p])
  BY <1>1, <1>2, <1>3, RingSeqAppend
<1> QED
  BY <1>2, <1>4, <1>5 DEF Queued, RingSeq

\* What the consumer takes is the first one.
LEMMA QueuedConsume ==
  ASSUME IInv, Consume
  PROVE  Queued # <<>> /\ Head(Queued) = ring[c] /\ Queued' = Tail(Queued)
<1>1. /\ RingSize \in Nat \ {0} /\ First \in 0..RingSize-1 /\ Stored \in 1..RingSize
      /\ c = First
  BY RingFacts DEF Consume
<1>2. First' = (First + 1) % RingSize /\ Stored' = Stored - 1
  BY <1>1 DEF Consume, prodVars, First, NextSlot, Stored, IInv, TypeOK
<1>3. \A s \in 0..RingSize-1 : s # First => ring'[s] = ring[s]
  BY <1>1 DEF Consume, Cleared, IInv, TypeOK, Slots
<1>4. RingSeq(ring, First, Stored, RingSize) # <<>>
  BY <1>1, <1>3, RingSeqTail
<1>5. Head(RingSeq(ring, First, Stored, RingSize)) = ring[First]
  BY <1>1, <1>3, RingSeqTail
<1>6. RingSeq(ring', First', Stored', RingSize) = Tail(RingSeq(ring, First, Stored, RingSize))
  BY <1>1, <1>2, <1>3, RingSeqTail
<1>7. /\ Queued = RingSeq(ring, First, Stored, RingSize)
      /\ Queued' = RingSeq(ring', First', Stored', RingSize)
  BY DEF Queued, RingSeq
<1> QED
  BY <1>1, <1>4, <1>5, <1>6, <1>7

\* The program implements the queue: what the producer stores is put, what the
\* consumer takes is got, in order and once; the semaphore calls are no steps of it.
THEOREM RingIsTaskQueue == Spec => ImplementsTaskQueue
<1>1. Init => Abs!Init
  BY DEF Init, Abs!Init, Queued, Stored
<1>2. IInv /\ [Next]_vars => [Abs!Next]_(Abs!vars)
  <2> SUFFICES ASSUME IInv, [Next]_vars PROVE [Abs!Next]_(Abs!vars)
    OBVIOUS
  <2>1. CASE Produce
    <3>1. Queued' = Append(Queued, made)
      BY <2>1, QueuedProduce
    <3>2. Len(Queued) < RingSize
      BY <2>1, QueuedNumbers, RingFacts DEF Produce
    <3>3. \A k \in 1..Len(Queued) : Queued[k] # made
      BY QueuedNumbers
    <3>4. made \in Items /\ made \notin got
      BY <2>1, RingFacts DEF Produce, IInv, TypeOK, NumbersInOrder
    <3>5. got' = got
      BY <2>1 DEF Produce, consVars
    <3>6. Abs!Put(made)
      BY <3>1, <3>2, <3>3, <3>4, <3>5 DEF Abs!Put
    <3> QED
      BY <3>4, <3>6 DEF Abs!Next
  <2>2. CASE Consume
    <3>1. Queued # <<>> /\ Head(Queued) = ring[c] /\ Queued' = Tail(Queued)
      BY <2>2, QueuedConsume
    <3>2. Abs!Get
      BY <2>2, <3>1 DEF Consume, Abs!Get
    <3> QED
      BY <3>2 DEF Abs!Next
  <2>3. CASE PWait \/ PPost \/ CWait \/ CPost
    <3>1. Keeps
      BY <2>3, SemaphoreStep
    <3>2. Queued' = Queued /\ got' = got
      BY <3>1 DEF Keeps, Queued
    <3> QED
      BY <3>2 DEF Abs!vars
  <2>4. CASE UNCHANGED vars
    BY <2>4 DEF vars, prodVars, consVars, Abs!vars, Queued, First, Stored
  <2> QED
    BY <2>1, <2>2, <2>3, <2>4 DEF Next, Producer, Consumer
<1> QED
  BY <1>1, <1>2, RingInvariant, PTL DEF Spec, ImplementsTaskQueue, Abs!Spec

-----------------------------------------------------------------------------
(* Sequences that grow at the end                                           *)

FirstThen(q, v, w) == \A i \in 1..Len(q) : q[i] = IF i = 1 THEN v ELSE w

LEMMA AppendEntries ==
  ASSUME NEW S, NEW q \in Seq(S), NEW e \in S
  PROVE  /\ Append(q, e) \in Seq(S) /\ Len(Append(q, e)) = Len(q) + 1 /\ Len(q) \in Nat
         /\ Append(q, e)[Len(q) + 1] = e
         /\ \A i \in 1..Len(q) : Append(q, e)[i] = q[i]
         /\ \A i \in 1..Len(q)+1 :
              i = Len(q) + 1 \/ (i \in 1..Len(q) /\ Append(q, e)[i] = q[i])
<1>1. /\ Append(q, e) \in Seq(S) /\ Len(Append(q, e)) = Len(q) + 1 /\ Len(q) \in Nat
      /\ Append(q, e)[Len(q) + 1] = e
      /\ \A i \in 1..Len(q) : Append(q, e)[i] = q[i]
  OBVIOUS
<1>2. ASSUME NEW i \in 1..Len(q)+1
      PROVE  i = Len(q) + 1 \/ (i \in 1..Len(q) /\ Append(q, e)[i] = q[i])
  <2>1. i = Len(q) + 1 \/ i \in 1..Len(q)
    BY <1>1
  <2>2. i \in 1..Len(q) => Append(q, e)[i] = q[i]
    BY <1>1
  <2> QED
    BY <2>1, <2>2, Zenon
<1> QED
  BY <1>1, <1>2, Zenon

\* The first value, and then another each time.
LEMMA AppendRest ==
  ASSUME NEW S, NEW q \in Seq(S), NEW e \in S, NEW v, NEW w,
         FirstThen(q, v, w), e = IF q = <<>> THEN v ELSE w
  PROVE  FirstThen(Append(q, e), v, w) /\ Append(q, e) # <<>>
<1>1. q = <<>> => Len(q) = 0
  OBVIOUS
<1>2. Len(q) = 0 => q = <<>>
  OBVIOUS
<1>3. FirstThen(Append(q, e), v, w)
  BY <1>1, <1>2, AppendEntries DEF FirstThen
<1>4. Append(q, e) # <<>>
  <2>1. Len(Append(q, e)) = Len(q) + 1 /\ Len(q) \in Nat
    BY AppendEntries
  <2>2. Len(Append(q, e)) # 0
    BY <2>1
  <2>3. Len(<<>>) = 0
    OBVIOUS
  <2> QED
    BY <2>2, <2>3, Zenon
<1> QED
  BY <1>3, <1>4

-----------------------------------------------------------------------------
(* The threads of 009_thread                                               *)

\* What the second thread of a join returns when it is the i-th call.
ThreadValue(i) == IF i < 3 THEN i ELSE Lives!Canceled

\* 02pthreadFunctionSet.c: a thread is started when the one before has been joined.
FunctionsInv ==
  LET n == Len(joins)
  IN  /\ n \in 0..3 /\ \A i \in 1..n : joins[i] = ThreadValue(i)
      /\ main \in {"create", "join", "cancel", "return", "exited"}
      /\ main = "create" => nth = n /\ n < 3 /\ thread = IF n = 0 THEN "none" ELSE "gone"
      /\ main \in {"join", "cancel"} => nth = n + 1 /\ n < 3 /\ thread \in {"running", "ended"}
      /\ thread = "ended" => value = ThreadValue(nth)
      /\ main = "cancel" => nth = 3
      /\ asked => nth = 3 /\ main # "cancel"
      /\ main \in {"return", "exited"} => n = 3 /\ nth = 3 /\ thread = "gone"
      /\ ~process => main = "exited"

\* 03pthread_detach.c: the thread is gone when the first join has returned.
JoinAgainInv ==
  /\ main \in {"create", "join"} /\ process
  /\ main = "create" => thread = "none"
  /\ thread = "ended" => value = 1
  /\ thread = "gone" <=> joins # <<>>
  /\ FirstThen(joins, 1, Lives!ESRCH)

TestCancelInv ==
  main \in {"create", "cancel", "sleep"} /\ process /\ joins = <<>>

\* 06pthread_attr_init.c: the thread is gone when its loop is done, at whatever time
\* main leaves.
DetachedInv ==
  /\ main \in {"create", "join", "pthread_exit", "exited"}
  /\ main = "create" => thread = "none"
  /\ thread \in {"none", "running", "gone"}
  /\ thread = "gone" => counted = Turns
  /\ ~process => thread = "gone"
  /\ \A i \in 1..Len(joins) : joins[i] \in {Lives!EINVAL, Lives!ESRCH}

LivesInv ==
  /\ Lives!TypeOK /\ joins \in Seq(Int)
  /\ main = "create" => nth < 3
  /\ prog # "functions" => nth \in 0..1 /\ (nth = 0 <=> main = "create")
  /\ prog = "functions"  => FunctionsInv
  /\ prog = "join again" => JoinAgainInv
  /\ prog = "testcancel" => TestCancelInv
  /\ prog = "detached"   => DetachedInv

LEMMA LivesInitInv == Lives!Init => LivesInv
<1> SUFFICES ASSUME Lives!Init PROVE LivesInv
  OBVIOUS
<1>1. joins = <<>> /\ joins \in Seq(Int) /\ Len(joins) = 0
  BY DEF Lives!Init
<1>2. Lives!TypeOK
  <2>1. counted \in 0..Turns /\ Len(joins) <= MaxJoins
    BY <1>1, SyncAssumption DEF Lives!Init
  <2>2. value \in Lives!Values /\ prog \in Lives!Programs
    BY DEF Lives!Init, Lives!Values
  <2>3. asked \in BOOLEAN /\ process \in BOOLEAN
    BY DEF Lives!Init
  <2>4. main = "create" /\ nth = 0 /\ thread = "none"
    BY DEF Lives!Init
  <2> QED
    BY <2>1, <2>2, <2>3, <2>4 DEF Lives!TypeOK
<1>3. FunctionsInv /\ JoinAgainInv /\ DetachedInv /\ (prog = "testcancel" => TestCancelInv)
  BY <1>1 DEF Lives!Init, FunctionsInv, JoinAgainInv, FirstThen, TestCancelInv, DetachedInv
<1>4. main = "create" /\ nth = 0
  BY DEF Lives!Init
<1> QED
  BY <1>1, <1>2, <1>3, <1>4 DEF LivesInv

\* What a step may do, for the proofs that follow.
OthersSame == (asked' <=> asked) /\ (process' <=> process)

ThreadCounts ==
  /\ thread = "running"
  /\ UNCHANGED <<main, nth, thread, value, joins>> /\ OthersSame

ThreadEnds ==
  /\ thread = "running" /\ thread' = IF prog = "detached" THEN "gone" ELSE "ended"
  /\ \/ prog = "functions" /\ nth < 3 /\ value' = nth
     \/ prog \in {"join again", "detached"} /\ counted = Turns /\ value' = 1
     \/ prog \in {"functions", "testcancel"} /\ asked /\ value' = Lives!Canceled
  /\ UNCHANGED <<main, nth, counted, joins>> /\ OthersSame

MainCreates ==
  /\ main = "create" /\ nth' = nth + 1 /\ thread' = "running"
  /\ main' = CASE prog = "functions"  -> IF nth < 2 THEN "join" ELSE "cancel"
               [] prog = "testcancel" -> "cancel"
               [] OTHER               -> "join"
  /\ UNCHANGED <<value, joins>> /\ OthersSame

MainCancels ==
  /\ main = "cancel" /\ main' = (IF prog = "functions" THEN "join" ELSE "sleep") /\ asked'
  /\ UNCHANGED <<nth, thread, counted, value, joins>> /\ (process' <=> process)

MainJoins ==
  /\ main = "join" /\ Len(joins) < MaxJoins
  /\ main' = CASE prog = "functions" -> IF nth < 3 THEN "create" ELSE "return"
               [] prog = "detached"  -> "pthread_exit"
               [] OTHER              -> "join"
  /\ \E e \in Int :
       /\ joins' = Append(joins, e)
       /\ \/ prog # "detached" /\ thread = "ended" /\ thread' = "gone" /\ e = value
          \/ prog # "detached" /\ thread = "gone" /\ thread' = "gone" /\ e = Lives!ESRCH
          \/ prog = "detached" /\ thread' = thread /\ e \in {Lives!EINVAL, Lives!ESRCH}
  /\ UNCHANGED <<nth, counted, value>> /\ OthersSame

MainEnds ==
  /\ main' = "exited"
  /\ \/ main = "return" /\ ~process'
     \/ main = "pthread_exit" /\ (process' <=> process)
     \/ main = "exited" /\ thread = "gone" /\ ~process'
  /\ UNCHANGED <<nth, thread, counted, value, joins>> /\ (asked' <=> asked)

LEMMA LivesSteps ==
  ASSUME LivesInv, Lives!Next
  PROVE  /\ prog' = prog
         /\ ThreadCounts \/ ThreadEnds \/ MainCreates \/ MainCancels \/ MainJoins \/ MainEnds
<1>1. CASE Lives!Count
  BY <1>1 DEF Lives!Count, Lives!Works, ThreadCounts, OthersSame
<1>2. CASE Lives!Returns
  BY <1>2 DEF Lives!Returns, Lives!Works, Lives!Ends, Lives!Detached, ThreadEnds, OthersSame
<1>3. CASE Lives!Cancelled
  BY <1>3
  DEF Lives!Cancelled, Lives!NoticesCancel, Lives!Works, Lives!Ends, Lives!Detached, ThreadEnds,
      OthersSame
<1>4. CASE Lives!Create
  BY <1>4 DEF Lives!Create, Lives!MainAt, Lives!AfterCreate, MainCreates, OthersSame
<1>5. CASE Lives!Cancel
  BY <1>5 DEF Lives!Cancel, Lives!MainAt, MainCancels
<1>6. CASE Lives!Join
  <2>1. /\ prog' = prog /\ main = "join" /\ Len(joins) < MaxJoins
        /\ main' = Lives!AfterJoin
        /\ UNCHANGED <<nth, counted, value>> /\ OthersSame
    BY <1>6 DEF Lives!Join, Lives!MainAt, OthersSame
  <2>2. PICK e \in Int :
          /\ joins' = Append(joins, e)
          /\ \/ ~Lives!Detached /\ thread = "ended" /\ thread' = "gone" /\ e = value
             \/ ~Lives!Detached /\ thread = "gone" /\ thread' = "gone" /\ e = Lives!ESRCH
             \/ Lives!Detached /\ thread' = thread /\ e \in {Lives!EINVAL, Lives!ESRCH}
    <3>1. value \in Int
      <4>1. value \in Lives!Values
        BY DEF LivesInv, Lives!TypeOK
      <4> QED
        BY <4>1 DEF Lives!Values, Lives!Canceled
    <3>2. Lives!ESRCH \in Int /\ Lives!EINVAL \in Int
      BY DEF Lives!ESRCH, Lives!EINVAL
    <3>3. \E e :
          /\ joins' = Append(joins, e)
          /\ \/ ~Lives!Detached /\ thread = "ended" /\ thread' = "gone" /\ e = value
             \/ ~Lives!Detached /\ thread = "gone" /\ thread' = "gone" /\ e = Lives!ESRCH
             \/ Lives!Detached /\ thread' = thread /\ e \in {Lives!EINVAL, Lives!ESRCH}
      BY <1>6 DEF Lives!Join, Lives!Released
    <3> QED
      BY <3>1, <3>2, <3>3
  <2> QED
    BY <2>1, <2>2 DEF MainJoins, Lives!AfterJoin, Lives!Detached
<1>7. CASE Lives!MainReturns \/ Lives!MainExits \/ Lives!LastEnds
  BY <1>7
  DEF Lives!MainReturns, Lives!MainExits, Lives!LastEnds, Lives!MainAt, Lives!ProcessGoesOn,
      MainEnds
<1> QED
  BY <1>1, <1>2, <1>3, <1>4, <1>5, <1>6, <1>7 DEF Lives!Next, Lives!Thread, Lives!Main

LEMMA LivesTypes ==
  ASSUME LivesInv, Lives!Next
  PROVE  Lives!TypeOK' /\ joins' \in Seq(Int)
<1>1. joins' \in Seq(Int) /\ Len(joins') <= MaxJoins
  <2>0. joins \in Seq(Int) /\ Len(joins) <= MaxJoins
    BY DEF LivesInv, Lives!TypeOK
  <2>1. CASE joins' = joins
    BY <2>0, <2>1
  <2>2. CASE MainJoins
    <3>1. PICK e \in Int : Len(joins) < MaxJoins /\ joins' = Append(joins, e)
      BY <2>2 DEF MainJoins
    <3> QED
      BY <2>0, <3>1, AppendEntries, SyncAssumption
  <2> QED
    BY <2>1, <2>2, LivesSteps
    DEF ThreadCounts, ThreadEnds, MainCreates, MainCancels, MainEnds
<1>2. /\ prog \in Lives!Programs /\ asked \in BOOLEAN /\ process \in BOOLEAN
      /\ main \in {"create", "join", "cancel", "sleep", "return", "pthread_exit", "exited"}
      /\ thread \in {"none", "running", "ended", "gone"}
  BY DEF LivesInv, Lives!TypeOK
<1>3. nth \in 0..3 /\ counted \in 0..Turns /\ value \in Lives!Values /\ Turns \in Nat
  BY SyncAssumption DEF LivesInv, Lives!TypeOK
<1>4. CASE Lives!Count
  <2>1. counted' \in 0..Turns
    <3>1. counted < Turns /\ counted' = counted + 1
      BY <1>4 DEF Lives!Count
    <3> QED
      BY <1>3, <3>1
  <2> QED
    BY <1>1, <1>2, <1>3, <1>4, <2>1 DEF Lives!Count, Lives!TypeOK
<1>5. CASE Lives!Returns
  <2>1. prog = "functions" /\ thread = "running" => nth # 0
    BY <1>2 DEF LivesInv, FunctionsInv
  <2>2. value' \in {1, 2}
    <3>1. value' = 1 \/ (value' = nth /\ nth < 3 /\ prog = "functions" /\ thread = "running")
      BY <1>5 DEF Lives!Returns, Lives!Works, Lives!Ends
    <3> QED
      BY <1>3, <2>1, <3>1
  <2>3. value' \in Lives!Values
    BY <2>2 DEF Lives!Values
  <2> QED
    BY <1>1, <1>2, <1>3, <1>5, <2>3 DEF Lives!Returns, Lives!Ends, Lives!TypeOK
<1>6. CASE Lives!Cancelled
  BY <1>1, <1>2, <1>3, <1>6 DEF Lives!Cancelled, Lives!Ends, Lives!Values, Lives!TypeOK
<1>7. CASE Lives!Create
  <2>1. nth' \in 0..3 /\ counted' \in 0..Turns
    <3>1. main = "create" /\ nth' = nth + 1 /\ counted' = 0
      BY <1>7 DEF Lives!Create, Lives!MainAt
    <3>2. nth < 3
      BY <3>1 DEF LivesInv
    <3> QED
      BY <1>3, <3>1, <3>2
  <2> QED
    BY <1>1, <1>2, <1>3, <1>7, <2>1 DEF Lives!Create, Lives!AfterCreate, Lives!TypeOK
<1>8. CASE Lives!Cancel
  BY <1>1, <1>2, <1>3, <1>8 DEF Lives!Cancel, Lives!TypeOK
<1>9. CASE Lives!Join
  BY <1>1, <1>2, <1>3, <1>9 DEF Lives!Join, Lives!AfterJoin, Lives!Released, Lives!TypeOK
<1>10. CASE Lives!MainReturns \/ Lives!MainExits \/ Lives!LastEnds
  BY <1>1, <1>2, <1>3, <1>10
  DEF Lives!MainReturns, Lives!MainExits, Lives!LastEnds, Lives!ProcessGoesOn, Lives!TypeOK
<1> QED
  BY <1>4, <1>5, <1>6, <1>7, <1>8, <1>9, <1>10 DEF Lives!Next, Lives!Thread, Lives!Main

\* What a join appends to what the joins before have returned.
LEMMA JoinAppends ==
  ASSUME LivesInv, MainJoins
  PROVE  \E e \in Int :
           /\ \/ prog # "detached" /\ thread = "ended" /\ thread' = "gone" /\ e = value
              \/ prog # "detached" /\ thread = "gone" /\ thread' = "gone" /\ e = Lives!ESRCH
              \/ prog = "detached" /\ thread' = thread /\ e \in {Lives!EINVAL, Lives!ESRCH}
           /\ Len(joins) \in Nat /\ Len(joins') = Len(joins) + 1
           /\ joins'[Len(joins) + 1] = e
           /\ \A i \in 1..Len(joins)+1 :
                i = Len(joins) + 1 \/ (i \in 1..Len(joins) /\ joins'[i] = joins[i])
<1>1. PICK e \in Int :
        /\ joins' = Append(joins, e)
        /\ \/ prog # "detached" /\ thread = "ended" /\ thread' = "gone" /\ e = value
           \/ prog # "detached" /\ thread = "gone" /\ thread' = "gone" /\ e = Lives!ESRCH
           \/ prog = "detached" /\ thread' = thread /\ e \in {Lives!EINVAL, Lives!ESRCH}
  BY DEF MainJoins
<1>2. joins \in Seq(Int)
  BY DEF LivesInv
<1>3. /\ Len(joins') = Len(joins) + 1 /\ Len(joins) \in Nat
      /\ joins'[Len(joins) + 1] = e
      /\ \A i \in 1..Len(joins)+1 :
           i = Len(joins) + 1 \/ (i \in 1..Len(joins) /\ joins'[i] = joins[i])
  BY <1>1, <1>2, AppendEntries
<1> QED
  BY <1>1, <1>3

LEMMA FunctionsStep ==
  ASSUME LivesInv, Lives!Next, prog = "functions"
  PROVE  FunctionsInv'
<1>1. FunctionsInv /\ nth \in 0..3 /\ thread \in {"none", "running", "ended", "gone"}
  BY DEF LivesInv, Lives!TypeOK
<1>2. CASE ThreadCounts
  BY <1>1, <1>2 DEF ThreadCounts, OthersSame, FunctionsInv
<1>3. CASE ThreadEnds
  BY <1>1, <1>3 DEF ThreadEnds, OthersSame, FunctionsInv, ThreadValue
<1>4. CASE MainCreates
  BY <1>1, <1>4 DEF MainCreates, OthersSame, FunctionsInv
<1>5. CASE MainCancels
  BY <1>1, <1>5 DEF MainCancels, FunctionsInv
<1>6. CASE MainJoins
  <2>1. /\ Len(joins) \in 0..2 /\ nth = Len(joins) + 1 /\ thread \in {"running", "ended"}
        /\ thread = "ended" => value = ThreadValue(nth)
        /\ \A i \in 1..Len(joins) : joins[i] = ThreadValue(i)
    BY <1>1, <1>6 DEF FunctionsInv, MainJoins
  <2>2. /\ thread = "ended" /\ thread' = "gone" /\ Len(joins') = Len(joins) + 1
        /\ \A i \in 1..Len(joins') : joins'[i] = ThreadValue(i)
    BY <1>6, <2>1, JoinAppends
  <2> QED
    BY <1>1, <1>6, <2>1, <2>2 DEF MainJoins, OthersSame, FunctionsInv
<1>7. CASE MainEnds
  BY <1>1, <1>7 DEF MainEnds, FunctionsInv
<1> QED
  BY <1>2, <1>3, <1>4, <1>5, <1>6, <1>7, LivesSteps

LEMMA JoinAgainJoins ==
  ASSUME LivesInv, MainJoins, prog = "join again"
  PROVE  JoinAgainInv'
<1>1. JoinAgainInv /\ joins \in Seq(Int)
  BY DEF LivesInv
<1>2. PICK e \in Int :
        /\ joins' = Append(joins, e) /\ thread' = "gone"
        /\ \/ thread = "ended" /\ e = value
           \/ thread = "gone" /\ e = Lives!ESRCH
  BY DEF MainJoins
<1>4. e = IF joins = <<>> THEN 1 ELSE Lives!ESRCH
  BY <1>1, <1>2 DEF JoinAgainInv
<1>5. FirstThen(joins', 1, Lives!ESRCH) /\ joins' # <<>>
  <2>1. FirstThen(joins, 1, Lives!ESRCH)
    BY <1>1 DEF JoinAgainInv
  <2>2. FirstThen(Append(joins, e), 1, Lives!ESRCH) /\ Append(joins, e) # <<>>
    BY <1>1, <1>4, <2>1, AppendRest
  <2> QED
    BY <1>2, <2>2
<1>6. main' = "join" /\ (process' <=> process) /\ process
  BY <1>1 DEF MainJoins, OthersSame, JoinAgainInv
<1> QED
  BY <1>2, <1>5, <1>6 DEF JoinAgainInv

LEMMA JoinAgainStep ==
  ASSUME LivesInv, Lives!Next, prog = "join again"
  PROVE  JoinAgainInv'
<1>1. JoinAgainInv
  BY DEF LivesInv
<1>2. CASE ThreadCounts \/ ThreadEnds \/ MainCreates \/ MainCancels \/ MainEnds
  BY <1>1, <1>2
  DEF ThreadCounts, ThreadEnds, MainCreates, MainCancels, MainEnds, OthersSame, JoinAgainInv
<1>3. CASE MainJoins
  BY <1>3, JoinAgainJoins
<1> QED
  BY <1>2, <1>3, LivesSteps

LEMMA TestCancelStep ==
  ASSUME LivesInv, Lives!Next, prog = "testcancel"
  PROVE  TestCancelInv'
<1>1. TestCancelInv
  BY DEF LivesInv
<1> QED
  BY <1>1, LivesSteps
  DEF ThreadCounts, ThreadEnds, MainCreates, MainCancels, MainJoins, MainEnds, OthersSame,
      TestCancelInv

LEMMA DetachedStep ==
  ASSUME LivesInv, Lives!Next, prog = "detached"
  PROVE  DetachedInv'
<1>1. DetachedInv
  BY DEF LivesInv
<1>2. CASE ThreadCounts
  <2>1. thread = "running" /\ thread' = "running"
    BY <1>2 DEF ThreadCounts
  <2> QED
    BY <1>1, <1>2, <2>1 DEF ThreadCounts, OthersSame, DetachedInv
<1>3. CASE ThreadEnds \/ MainCreates \/ MainCancels \/ MainEnds
  BY <1>1, <1>3
  DEF ThreadEnds, MainCreates, MainCancels, MainEnds, OthersSame, DetachedInv
<1>4. CASE MainJoins
  <2>1. /\ thread' = thread
        /\ \A i \in 1..Len(joins') : joins'[i] \in {Lives!EINVAL, Lives!ESRCH}
    BY <1>1, <1>4, JoinAppends DEF DetachedInv
  <2> QED
    BY <1>1, <1>4, <2>1 DEF MainJoins, OthersSame, DetachedInv
<1> QED
  BY <1>2, <1>3, <1>4, LivesSteps

LEMMA LivesNextInv == LivesInv /\ [Lives!Next]_(Lives!vars) => LivesInv'
<1> SUFFICES ASSUME LivesInv, [Lives!Next]_(Lives!vars) PROVE LivesInv'
  OBVIOUS
<1>1. CASE Lives!Next
  <2>1. nth \in 0..3
    BY DEF LivesInv, Lives!TypeOK
  <2>2. main' = "create" => nth' < 3
    BY <1>1, <2>1, LivesSteps
    DEF LivesInv, FunctionsInv, JoinAgainInv, TestCancelInv, DetachedInv,
        ThreadCounts, ThreadEnds, MainCreates, MainCancels, MainJoins, MainEnds
  <2>3. prog # "functions" => nth' \in 0..1 /\ (nth' = 0 <=> main' = "create")
    <3> SUFFICES ASSUME prog # "functions"
                 PROVE  nth' \in 0..1 /\ (nth' = 0 <=> main' = "create")
      OBVIOUS
    <3>1. nth \in 0..1 /\ (nth = 0 <=> main = "create")
      BY DEF LivesInv
    <3>2. CASE MainCreates
      BY <3>1, <3>2 DEF MainCreates
    <3>3. CASE ~MainCreates
      BY <1>1, <3>1, <3>3, LivesSteps
      DEF ThreadCounts, ThreadEnds, MainCancels, MainJoins, MainEnds
    <3> QED
      BY <3>2, <3>3
  <2>4. prog' = prog
    BY <1>1, LivesSteps
  <2> QED
    BY <1>1, <2>2, <2>3, <2>4, LivesTypes, FunctionsStep, JoinAgainStep, TestCancelStep,
       DetachedStep
    DEF LivesInv
<1>2. CASE UNCHANGED Lives!vars
  BY <1>2
  DEF Lives!vars, LivesInv, Lives!TypeOK, FunctionsInv, JoinAgainInv, TestCancelInv, DetachedInv
<1> QED
  BY <1>1, <1>2

\* Where two sequences of the same length have the same entries.
LEMMA SameEntries ==
  ASSUME NEW q \in Seq(Int), NEW r \in Seq(Int), Len(q) = Len(r),
         \A i \in 1..Len(q) : q[i] = r[i]
  PROVE  q = r
OBVIOUS

LEMMA FirstEntries ==
  ASSUME NEW q \in Seq(Int), NEW n \in 0..Len(q)
  PROVE  /\ SubSeq(q, 1, n) \in Seq(Int) /\ Len(SubSeq(q, 1, n)) = n
         /\ \A i \in 1..n : SubSeq(q, 1, n)[i] = q[i]
OBVIOUS

\* What the invariant says of the joins and of the end of the process.
LEMMA LivesInvOrders == LivesInv => Lives!JoinsOnce /\ Lives!EndsBeforeProcess
<1> SUFFICES ASSUME LivesInv PROVE Lives!JoinsOnce /\ Lives!EndsBeforeProcess
  OBVIOUS
<1>1. prog \in {"functions", "join again", "testcancel", "detached"}
  BY DEF LivesInv, Lives!TypeOK, Lives!Programs
<1>2. prog = "functions" => joins = SubSeq(<<1, 2, Lives!Canceled>>, 1, Len(joins))
  <2> SUFFICES ASSUME prog = "functions"
               PROVE  joins = SubSeq(<<1, 2, Lives!Canceled>>, 1, Len(joins))
    OBVIOUS
  <2> DEFINE q == <<1, 2, Lives!Canceled>>
  <2>1. /\ Len(joins) \in 0..3 /\ joins \in Seq(Int)
        /\ \A i \in 1..Len(joins) : joins[i] = ThreadValue(i)
    BY DEF LivesInv, FunctionsInv
  <2>2. /\ q \in Seq(Int) /\ Len(q) = 3
        /\ \A i \in 1..3 : q[i] = ThreadValue(i)
    <3>1. Lives!Canceled \in Int
      BY DEF Lives!Canceled
    <3>2. ThreadValue(1) = 1 /\ ThreadValue(2) = 2 /\ ThreadValue(3) = Lives!Canceled
      BY DEF ThreadValue
    <3>3. q[1] = 1 /\ q[2] = 2 /\ q[3] = Lives!Canceled
      OBVIOUS
    <3>4. \A i \in 1..3 : i = 1 \/ i = 2 \/ i = 3
      OBVIOUS
    <3>5. \A i \in 1..3 : q[i] = ThreadValue(i)
      <4> HIDE DEF q
      <4> QED
        BY <3>2, <3>3, <3>4
    <3> QED
      BY <3>1, <3>5
  <2> HIDE DEF q
  <2>3. /\ SubSeq(q, 1, Len(joins)) \in Seq(Int)
        /\ Len(SubSeq(q, 1, Len(joins))) = Len(joins)
        /\ \A i \in 1..Len(joins) : SubSeq(q, 1, Len(joins))[i] = q[i]
    BY <2>1, <2>2, FirstEntries
  <2>4. \A i \in 1..Len(joins) : joins[i] = SubSeq(q, 1, Len(joins))[i]
    <3>1. \A i \in 1..Len(joins) : i \in 1..3
      BY <2>1
    <3> QED
      BY <2>1, <2>2, <2>3, <3>1, Zenon
  <2>5. joins = SubSeq(q, 1, Len(joins))
    BY <2>1, <2>3, <2>4, SameEntries
  <2> QED
    BY <2>5 DEF q
<1>3. /\ prog = "join again" =>
           \A i \in 1..Len(joins) : joins[i] = IF i = 1 THEN 1 ELSE Lives!ESRCH
      /\ prog \in {"testcancel", "detached"} =>
           \A i \in 1..Len(joins) : joins[i] \in {Lives!EINVAL, Lives!ESRCH}
  <2>1. prog = "join again" =>
          \A i \in 1..Len(joins) : joins[i] = IF i = 1 THEN 1 ELSE Lives!ESRCH
    BY DEF LivesInv, JoinAgainInv, FirstThen
  <2>2. prog = "detached" =>
          \A i \in 1..Len(joins) : joins[i] \in {Lives!EINVAL, Lives!ESRCH}
    BY DEF LivesInv, DetachedInv
  <2>3. prog = "testcancel" =>
          \A i \in 1..Len(joins) : joins[i] \in {Lives!EINVAL, Lives!ESRCH}
    BY DEF LivesInv, TestCancelInv
  <2> QED
    BY <2>1, <2>2, <2>3
<1>4. Lives!JoinsOnce
  <2>1. CASE prog = "functions"
    BY <1>2, <2>1, SMT DEF Lives!JoinsOnce
  <2>2. CASE prog = "join again"
    BY <1>3, <2>2, Zenon DEF Lives!JoinsOnce
  <2>3. CASE prog \in {"testcancel", "detached"}
    BY <1>3, <2>3, Zenon DEF Lives!JoinsOnce
  <2> QED
    BY <1>1, <2>1, <2>2, <2>3
<1>5. Lives!EndsBeforeProcess
  BY <1>1
  DEF LivesInv, FunctionsInv, JoinAgainInv, TestCancelInv, DetachedInv, Lives!EndsBeforeProcess
<1> QED
  BY <1>4, <1>5

-----------------------------------------------------------------------------
(* Parents and children                                                      *)

\* The descriptors of the child as it becomes a daemon.
FdsInv ==
  /\ child \in {"none", "setsid", "close"} => \A f \in 0..2 : fds[f] = "terminal"
  /\ child \in {"close", "open", "dup", "daemon"} => session = "own"
  /\ child = "open" => fds[0] = "closed" /\ fds[1] = "terminal" /\ fds[2] = "terminal"
  /\ child \in {"dup", "daemon"} => fds[0] = "null"
  /\ child = "daemon" => fds[1] = "null" /\ fds[2] = "null"

\* Who has ended has left its child to init, and nobody is left a zombie by it.
FamilyInv ==
  /\ Family!TypeOK
  /\ child = "none" => parent # "on"
  /\ parent = "fork" => child = "none"
  /\ ppid = "init" <=> parent = "ended"
  /\ child = "zombie" => parent = "on"
  /\ said = "init" => parent = "ended"
  /\ FirstThen(waits, "child", "none")
  /\ waits # <<>> => child = "gone"
  /\ (child = "gone" /\ parent = "on") => waits # <<>>
  /\ FdsInv

LEMMA FamilyInitInv == Family!Init => FamilyInv
<1> SUFFICES ASSUME Family!Init PROVE FamilyInv
  OBVIOUS
<1>1. /\ parent = "fork" /\ child = "none" /\ ppid = "parent" /\ waits = <<>>
      /\ said = "nobody" /\ Len(waits) = 0
  BY DEF Family!Init
<1>2. \A f \in 0..2 : fds[f] = "terminal"
  BY DEF Family!Init, Family!Standard
<1>3. Family!TypeOK
  <2>1. fds \in [Family!Standard -> {"terminal", "null", Family!NoFile}]
    BY DEF Family!Init
  <2>2. waits \in Seq({"child", "none"})
    BY <1>1
  <2>3. family \in Family!Families /\ session = "terminal" /\ terminal \in BOOLEAN
    BY DEF Family!Init
  <2> QED
    BY <1>1, <2>1, <2>2, <2>3 DEF Family!TypeOK
<1>4. FirstThen(waits, "child", "none")
  BY <1>1 DEF FirstThen
<1> QED
  BY <1>1, <1>2, <1>3, <1>4 DEF FamilyInv, FdsInv

LEMMA FamilyTypes ==
  ASSUME Family!TypeOK, Family!Next
  PROVE  Family!TypeOK'
<1>1. waits' \in Seq({"child", "none"})
  <2>0. waits \in Seq({"child", "none"})
    BY DEF Family!TypeOK
  <2>1. waits' = waits \/ waits' = Append(waits, "child") \/ waits' = Append(waits, "none")
    BY DEF Family!Next, Family!Fork, Family!Wait, Family!ParentReturns, Family!PrintParent,
           Family!ChildMoves, Family!KillParent, Family!KillChild, Family!Hangup, Family!SetSid,
           Family!CloseInput, Family!OpenNull, Family!DupNull, Family!ChildReturns
  <2> QED
    BY <2>0, <2>1
<1>2. fds' \in [Family!Standard -> {"terminal", "null", Family!NoFile}]
  <2>0. fds \in [Family!Standard -> {"terminal", "null", Family!NoFile}]
    BY DEF Family!TypeOK
  <2>1. CASE Family!OpenNull
    BY <2>0, <2>1 DEF Family!OpenNull
  <2>2. CASE Family!CloseInput
    BY <2>0, <2>2 DEF Family!CloseInput
  <2>3. CASE Family!DupNull
    BY <2>0, <2>3 DEF Family!DupNull, Family!Standard
  <2>4. CASE fds' = fds
    BY <2>0, <2>4
  <2> QED
    BY <2>1, <2>2, <2>3, <2>4
    DEF Family!Next, Family!Fork, Family!Wait, Family!ParentReturns, Family!PrintParent,
        Family!ChildMoves, Family!KillParent, Family!KillChild, Family!Hangup, Family!SetSid,
        Family!ChildReturns, Family!childVars
<1>3. /\ family' = family /\ family \in Family!Families /\ terminal' \in BOOLEAN
      /\ parent' \in {"fork", "on", "ended"}
      /\ ppid' \in {"parent", "init"} /\ said' \in {"nobody", "parent", "init"}
      /\ session' \in {"terminal", "own"}
      /\ child' \in {"none", "sleep", "print", "setsid", "close", "open", "dup", "daemon",
                     "zombie", "gone"}
  BY DEF Family!TypeOK, Family!Next, Family!Fork, Family!Wait, Family!ParentReturns,
         Family!PrintParent, Family!ChildMoves, Family!KillParent, Family!KillChild,
         Family!Hangup, Family!SetSid, Family!CloseInput, Family!OpenNull, Family!DupNull,
         Family!ChildReturns, Family!childVars, Family!ParentEnds, Family!ChildEnds,
         Family!InitReaps, Family!FirstStep, Family!Reap, Family!NewSession
<1> QED
  BY <1>1, <1>2, <1>3 DEF Family!TypeOK

LEMMA FdsStep ==
  ASSUME FamilyInv, Family!Next
  PROVE  FdsInv'
<1>1. FdsInv /\ fds \in [0..2 -> {"terminal", "null", "closed"}]
  BY DEF FamilyInv, Family!TypeOK, Family!Standard, Family!NoFile
<1>2. CASE Family!OpenNull
  <2>1. fds[0] = "closed" /\ fds[1] = "terminal" /\ fds[2] = "terminal" /\ session = "own"
    BY <1>1, <1>2 DEF FdsInv, Family!OpenNull
  <2>2. Family!LowestFree = 0
    <3> DEFINE F(f) == fds[f] = Family!NoFile /\ \A g \in 0..f-1 : fds[g] # Family!NoFile
    <3>1. 0 \in Family!Standard /\ F(0)
      BY <2>1 DEF Family!Standard, Family!NoFile
    <3>2. \A f \in Family!Standard : F(f) => f = 0
      BY <2>1 DEF Family!Standard, Family!NoFile
    <3> HIDE DEF F
    <3>3. (CHOOSE f \in Family!Standard : F(f)) = 0
      BY <3>1, <3>2
    <3> QED
      BY <3>3 DEF F, Family!LowestFree
  <2>3. fds' = [fds EXCEPT ![0] = "null"]
    BY <1>2, <2>2 DEF Family!OpenNull
  <2>4. fds'[0] = "null"
    BY <1>1, <2>3
  <2> QED
    BY <1>2, <2>1, <2>4 DEF FdsInv, Family!OpenNull
<1>3. CASE Family!CloseInput
  <2>1. fds' = [fds EXCEPT ![0] = "closed"] /\ session = "own" /\ child' = "open"
        /\ UNCHANGED session /\ \A f \in 0..2 : fds[f] = "terminal"
    BY <1>1, <1>3 DEF FdsInv, Family!CloseInput, Family!NoFile
  <2>2. fds'[0] = "closed" /\ fds'[1] = "terminal" /\ fds'[2] = "terminal"
    BY <1>1, <2>1
  <2> QED
    BY <2>1, <2>2 DEF FdsInv
<1>4. CASE Family!DupNull
  <2>1. fds[0] = "null" /\ session = "own" /\ session' = session
    BY <1>1, <1>4 DEF FdsInv, Family!DupNull
  <2>2. \/ fds' = [fds EXCEPT ![1] = fds[0]] /\ child' = "dup"
        \/ fds[1] = fds[0] /\ fds' = [fds EXCEPT ![2] = fds[0]] /\ child' = "daemon"
    BY <1>4 DEF Family!DupNull
  <2>3. fds'[0] = "null" /\ (child' = "daemon" => fds'[1] = "null" /\ fds'[2] = "null")
    BY <1>1, <2>1, <2>2
  <2> QED
    BY <2>1, <2>2, <2>3 DEF FdsInv
<1>5. CASE Family!Fork
  BY <1>1, <1>5 DEF FamilyInv, FdsInv, Family!Fork, Family!FirstStep, Family!childVars
<1>6. CASE Family!SetSid
  BY <1>1, <1>6 DEF FdsInv, Family!SetSid, Family!NewSession
<1>7. CASE Family!Wait \/ Family!ParentReturns \/ Family!PrintParent \/ Family!ChildReturns
             \/ Family!KillParent \/ Family!KillChild \/ Family!Hangup
  <2>1. fds' = fds /\ session' = session /\ (child' = child \/ child' \in {"zombie", "gone"})
    BY <1>7
    DEF Family!Wait, Family!ParentReturns, Family!PrintParent, Family!ChildReturns,
        Family!KillParent, Family!KillChild, Family!Hangup, Family!childVars,
        Family!ParentEnds, Family!ChildEnds, Family!InitReaps, Family!Reap
  <2> QED
    BY <1>1, <2>1 DEF FdsInv
<1> QED
  BY <1>2, <1>3, <1>4, <1>5, <1>6, <1>7 DEF Family!Next, Family!ChildMoves

LEMMA FamilyNextInv == FamilyInv /\ [Family!Next]_(Family!vars) => FamilyInv'
<1> SUFFICES ASSUME FamilyInv, [Family!Next]_(Family!vars) PROVE FamilyInv'
  OBVIOUS
<1>1. CASE Family!Next
  <2>1. Family!TypeOK' /\ FdsInv'
    BY <1>1, FamilyTypes, FdsStep DEF FamilyInv
  <2>2. /\ parent \in {"fork", "on", "ended"} /\ ppid \in {"parent", "init"}
        /\ waits \in Seq({"child", "none"})
    BY DEF FamilyInv, Family!TypeOK
  <2>3. CASE Family!Wait
    <3>1. /\ parent = "on" /\ child' = "gone"
          /\ UNCHANGED <<parent, ppid, said>>
          /\ \/ child = "zombie" /\ waits' = Append(waits, "child")
             \/ child = "gone" /\ waits' = Append(waits, "none")
      BY <2>3 DEF Family!Wait, Family!Reap, Family!childVars
    <3>2. PICK e \in {"child", "none"} :
            waits' = Append(waits, e) /\ e = IF waits = <<>> THEN "child" ELSE "none"
      BY <3>1 DEF FamilyInv
    <3>3. FirstThen(waits, "child", "none")
      BY DEF FamilyInv
    <3>4. FirstThen(Append(waits, e), "child", "none") /\ Append(waits, e) # <<>>
      BY <2>2, <3>2, <3>3, AppendRest, Zenon
    <3>5. FirstThen(waits', "child", "none") /\ waits' # <<>>
      BY <3>2, <3>4
    <3> QED
      BY <2>1, <3>1, <3>5 DEF FamilyInv
  <2>4. CASE Family!Fork
    BY <2>1, <2>4 DEF FamilyInv, FirstThen, Family!Fork, Family!FirstStep, Family!childVars
  <2>5. CASE Family!ParentReturns \/ Family!KillParent \/ Family!Hangup
    <3>1. /\ parent' = "ended" /\ ppid' = "init" /\ waits' = waits
          /\ child' \in {child, "gone"} /\ child' # "zombie"
      BY <2>5
      DEF Family!ParentReturns, Family!KillParent, Family!Hangup, Family!ParentEnds,
          Family!InitReaps
    <3> QED
      BY <2>1, <3>1 DEF FamilyInv, FirstThen
  <2>6. CASE Family!PrintParent \/ Family!SetSid \/ Family!CloseInput \/ Family!OpenNull
             \/ Family!DupNull
    <3>1. /\ UNCHANGED <<parent, ppid, waits>> /\ said' \in {said, ppid}
          /\ child' = child \/ child' \in {"sleep", "close", "open", "dup", "daemon"}
          /\ child \notin {"none", "zombie", "gone"}
      BY <2>6
      DEF Family!PrintParent, Family!SetSid, Family!CloseInput, Family!OpenNull, Family!DupNull
    <3> QED
      BY <2>1, <3>1 DEF FamilyInv, FirstThen
  <2>7. CASE Family!ChildReturns \/ Family!KillChild
    <3>1. /\ UNCHANGED <<parent, ppid, said, waits>>
          /\ child' = IF ppid = "init" THEN "gone" ELSE "zombie"
          /\ child \notin {"none", "zombie", "gone"}
      BY <2>7
      DEF Family!ChildReturns, Family!KillChild, Family!ChildRuns, Family!ChildEnds,
          Family!InitReaps, Family!childVars
    <3> QED
      BY <2>1, <2>2, <3>1 DEF FamilyInv, FirstThen
  <2> QED
    BY <1>1, <2>3, <2>4, <2>5, <2>6, <2>7 DEF Family!Next, Family!ChildMoves
<1>2. CASE UNCHANGED Family!vars
  BY <1>2
  DEF Family!vars, Family!childVars, FamilyInv, FdsInv, FirstThen, Family!TypeOK
<1> QED
  BY <1>1, <1>2

\* What the invariant says of zombies and of the daemon.
LEMMA FamilyInvOrders == FamilyInv => Family!ZombieHasParent /\ Family!DaemonDetached
<1> SUFFICES ASSUME FamilyInv PROVE Family!ZombieHasParent /\ Family!DaemonDetached
  OBVIOUS
<1>1. FirstThen(waits, "child", "none") /\ waits \in Seq({"child", "none"})
  BY DEF FamilyInv, Family!TypeOK
<1>2. waits # <<>> => 1 \in 1..Len(waits)
  BY <1>1
<1>3. waits # <<>> => waits[1] = "child"
  BY <1>1, <1>2 DEF FirstThen
<1>4. \A i \in 1..Len(waits) :
        waits[i] = (IF i = 1 /\ waits[1] = "child" THEN "child" ELSE "none")
  BY <1>1 DEF FirstThen
<1>5. child = "zombie" => parent = "on" /\ ppid = "parent"
  BY DEF FamilyInv, Family!TypeOK
<1>6. /\ said = "init" => parent = "ended"
      /\ waits # <<>> => child = "gone"
  BY DEF FamilyInv
<1>7. Family!DaemonDetached
  BY DEF FamilyInv, FdsInv, Family!DaemonDetached, Family!Standard
<1> QED
  BY <1>3, <1>4, <1>5, <1>6, <1>7 DEF Family!ZombieHasParent

-----------------------------------------------------------------------------
(* The start of the thread pool                                              *)

\* The blocks and the pointers to them, by the parts that have been made.
Made(parts) ==
  /\ blocks = {"pool"} \cup parts
  /\ \A q \in parts : pointer[q] = q
  /\ \A q \in {"threads", "task_queue"} \ parts : pointer[q] \in {Pool!Unset, "NULL"}

\* What there is when a call fails, and nothing but that call has.
FailedInv ==
  \/ failed = {"threads"} /\ Made({}) /\ pointer["threads"] = "NULL"
  \/ failed = {"task_queue"} /\ Made({"threads"}) /\ pointer["task_queue"] = "NULL"
  \/ failed = {"locks"} /\ Made({"threads", "task_queue"})

PoolInv ==
  /\ Pool!TypeOK /\ Pool!CleanUpFrees
  /\ DOMAIN pointer = {"threads", "task_queue"}
  /\ place # "end" => misused = {}
  /\ place \notin {"destroy", "free", "end"} => failed = {}
  /\ place = "pool" => blocks = {} /\ pointer["threads"] = Pool!Unset
  /\ place = "threads" => Made({})
  /\ place = "task_queue" => Made({"threads"})
  /\ place \in {"locks", "start", "destroy"} => Made({"threads", "task_queue"})
  /\ place \in {"pool", "threads"} => pointer["task_queue"] = Pool!Unset
  /\ place = "destroy" => failed = IF threads = Pool!Created THEN {} ELSE {"pthread_create"}
  /\ place = "free" => FailedInv

LEMMA PoolInitInv == Pool!Init => PoolInv
  BY DEF Pool!Init, PoolInv, Pool!TypeOK, Pool!CleanUpFrees

LEMMA PoolNextInv == PoolInv /\ [Pool!Next]_(Pool!vars) => PoolInv'
<1> SUFFICES ASSUME PoolInv, [Pool!Next]_(Pool!vars) PROVE PoolInv'
  OBVIOUS
<1>1. CASE Pool!MakePool
  BY <1>1 DEF PoolInv, Pool!MakePool, Pool!Fails, Made, Pool!TypeOK, Pool!CleanUpFrees
<1>2. CASE Pool!MakePart("threads", "task_queue")
  BY <1>2
  DEF PoolInv, Pool!MakePart, Pool!Fails, Made, FailedInv, Pool!TypeOK, Pool!CleanUpFrees
<1>3. CASE Pool!MakePart("task_queue", "locks")
  BY <1>3
  DEF PoolInv, Pool!MakePart, Pool!Fails, Made, FailedInv, Pool!TypeOK, Pool!CleanUpFrees
<1>4. CASE Pool!InitLocks
  BY <1>4
  DEF PoolInv, Pool!InitLocks, Pool!Fails, Made, FailedInv, Pool!TypeOK,
      Pool!CleanUpFrees, Pool!Objects
<1>5. CASE Pool!Start
  <2>1. /\ place = "start" /\ place' = "destroy" /\ threads' \in SUBSET Pool!Created
        /\ failed' = IF threads' = Pool!Created THEN failed ELSE failed \cup {"pthread_create"}
        /\ UNCHANGED <<blocks, pointer, objects, misused>>
    BY <1>5 DEF Pool!Start, Pool!Fails
  <2>2. failed = {} /\ misused = {}
    BY <2>1 DEF PoolInv
  <2>3. failed' = IF threads' = Pool!Created THEN {} ELSE {"pthread_create"}
    BY <2>1, <2>2
  <2> QED
    BY <2>1, <2>2, <2>3 DEF PoolInv, Made, Pool!TypeOK, Pool!CleanUpFrees
<1>6. CASE Pool!Free
  <2>1. PICK wild \in SUBSET {part \in DOMAIN pointer : pointer[part] = Pool!Unset} :
          misused' = wild \cup Pool!WrongJoins \cup (Pool!Destroys \ objects)
    BY <1>6 DEF Pool!Free
  <2>2. /\ place' = "end" /\ place \in {"free", "destroy"}
        /\ UNCHANGED <<pointer, objects, threads, failed>>
        /\ blocks' = blocks \ {pointer["task_queue"], pointer["threads"], "pool"}
    BY <1>6 DEF Pool!Free, Pool!FreesParts
  <2>3. \/ Made({}) \/ Made({"threads"}) \/ Made({"threads", "task_queue"})
    BY <2>2 DEF PoolInv, FailedInv
  <2>4. blocks' = {}
    BY <2>2, <2>3 DEF Made
  <2>5. "task_queue" \in misused' => failed = {"threads"}
    BY <2>1, <2>2
    DEF PoolInv, FailedInv, Made, Pool!WrongJoins, Pool!Destroys, Pool!Objects, Pool!Unset
  <2>6. misused' \cap Pool!Objects # {} => failed \in {{"task_queue"}, {"locks"}}
    BY <2>1, <2>2
    DEF PoolInv, FailedInv, Made, Pool!WrongJoins, Pool!Destroys, Pool!Objects,
        Pool!CleanUpFrees, Pool!Unset
  <2>7. "tid" \in misused' => failed = {"pthread_create"}
    BY <2>1, <2>2
    DEF PoolInv, FailedInv, Made, Pool!WrongJoins, Pool!Destroys, Pool!Objects,
        Pool!CleanUpFrees, Pool!Unset
  <2>8. Pool!TypeOK'
    BY <2>1, <2>2, <2>4
    DEF PoolInv, FailedInv, Made, Pool!WrongJoins, Pool!Destroys, Pool!Objects,
        Pool!TypeOK, Pool!Unset
  <2> QED
    BY <2>2, <2>4, <2>5, <2>6, <2>7, <2>8 DEF PoolInv, Pool!CleanUpFrees
<1>7. CASE UNCHANGED Pool!vars
  BY <1>7 DEF Pool!vars, PoolInv, FailedInv, Made, Pool!TypeOK, Pool!CleanUpFrees
<1> QED
  BY <1>1, <1>2, <1>3, <1>4, <1>5, <1>6, <1>7 DEF Pool!Next

-----------------------------------------------------------------------------
(* The composition                                                          *)

Two   == INSTANCE CounterProofs
           WITH Threads <- {1, 2}, t1 <- 1, t2 <- 2, Readers <- {1, 2}, Parent <- 1, Child <- 2
Many  == INSTANCE CounterProofs
           WITH t1 <- 1, t2 <- 2, Readers <- {1, 2}, Parent <- 1, Child <- 2
Nodes1 == INSTANCE ProducerConsumerProofs WITH Producers <- {1}, Consumers <- {2}, NoNode <- 0

Kinds ==
  {"open", "mutex", "rwlock", "process", "file", "list", "ring", "lives", "family", "pool"}

\* The program that runs has its own invariant; those of the ring, and of the programs
\* with variables of their own, hold whichever runs.
KindInv ==
  /\ kind \in Kinds
  /\ kind = "mutex"   => Two!MutexInv
  /\ kind = "open"    => Two!OpenInv
  /\ kind = "process" => Two!ProcInv
  /\ kind = "rwlock"  => Many!RwLockInv
  /\ kind = "file"    => Many!CSInv
  /\ kind = "list"    => Nodes1!IInv

\* A step of the program that runs, and what the others' proofs call it.
LEMMA TwoGo ==
  ASSUME NEW t \in {1, 2}
  PROVE  /\ Mutex!Go(t) => Two!Mutex!Next
         /\ Open!Go(t) => Two!Open!Next
<1>1. Mutex!Go(t) => Two!Mutex!Go(t)
  BY DEF Mutex!Go, Two!Mutex!Go, Mutex!LockedEnter, Two!Mutex!LockedEnter, Mutex!Enter,
         Two!Mutex!Enter, Mutex!Acquire, Two!Mutex!Acquire, Mutex!Load, Two!Mutex!Load,
         Mutex!Store, Two!Mutex!Store, Mutex!Leave, Two!Mutex!Leave, Mutex!Release,
         Two!Mutex!Release
<1>2. Open!Go(t) => Two!Open!Go(t)
  BY DEF Open!Go, Two!Open!Go, Open!OpenEnter, Two!Open!OpenEnter, Open!Enter, Two!Open!Enter,
         Open!Load, Two!Open!Load, Open!Store, Two!Open!Store, Open!Leave, Two!Open!Leave,
         Open!Release, Two!Open!Release
<1> QED
  BY <1>1, <1>2 DEF Two!Mutex!Next, Two!Open!Next

LEMMA ProcessGo ==
  ASSUME NEW t \in {1, 2}
  PROVE  /\ Process!Fork => Two!Process!Next
         /\ Process!Loop(t) \/ Process!CleanUp(t) => Two!Process!Next
<1>1. Process!Fork => Two!Process!Fork
  BY DEF Process!Fork, Two!Process!Fork, Process!csVars, Two!Process!csVars
<1>2. Process!Loop(t) => Two!Process!Loop(t)
  BY DEF Process!Loop, Two!Process!Loop, Process!Lock, Two!Process!Lock, Process!LockedEnter,
         Two!Process!LockedEnter, Process!OpenEnter, Two!Process!OpenEnter, Process!Enter,
         Two!Process!Enter, Process!Acquire, Two!Process!Acquire, Process!Load,
         Two!Process!Load, Process!Store, Two!Process!Store, Process!Leave,
         Two!Process!Leave, Process!Release, Two!Process!Release, Process!Adds,
         Two!Process!Adds, Process!procVars, Two!Process!procVars
<1>3. Process!CleanUp(t) => Two!Process!CleanUp(t)
  BY DEF Process!CleanUp, Two!Process!CleanUp, Process!Ready, Two!Process!Ready,
         Process!Finished, Two!Process!Finished, Process!csVars, Two!Process!csVars
<1> QED
  BY <1>1, <1>2, <1>3 DEF Two!Process!Next

LEMMA ManyGo ==
  ASSUME NEW t \in Threads
  PROVE  /\ t <= 2 /\ RwLock!Read(t) => Many!RwLock!Next
         /\ t > 2 /\ RwLock!Write(t) => Many!RwLock!Next
         /\ File!Lock(t) \/ File!Unlock(t) \/ File!Killed(t) => Many!File!Next
<1>1. RwLock!Read(t) => Many!RwLock!Read(t)
  BY DEF RwLock!Read, Many!RwLock!Read, RwLock!LockedEnter, Many!RwLock!LockedEnter,
         RwLock!Enter, Many!RwLock!Enter, RwLock!Acquire, Many!RwLock!Acquire,
         RwLock!PrintNum, Many!RwLock!PrintNum, RwLock!Leave, Many!RwLock!Leave,
         RwLock!Release, Many!RwLock!Release
<1>2. RwLock!Write(t) => Many!RwLock!Write(t)
  BY DEF RwLock!Write, Many!RwLock!Write, RwLock!LockedEnter, Many!RwLock!LockedEnter,
         RwLock!Enter, Many!RwLock!Enter, RwLock!Acquire, Many!RwLock!Acquire,
         RwLock!Load, Many!RwLock!Load, RwLock!Store, Many!RwLock!Store, RwLock!Leave,
         Many!RwLock!Leave, RwLock!Release, Many!RwLock!Release
<1>3. File!Lock(t) \/ File!Unlock(t) \/ File!Killed(t)
        => Many!File!Lock(t) \/ Many!File!Unlock(t) \/ Many!File!Killed(t)
  BY DEF File!Lock, Many!File!Lock, File!LockedEnter, Many!File!LockedEnter, File!Enter,
         Many!File!Enter, File!Acquire, Many!File!Acquire, File!Unlock, Many!File!Unlock,
         File!Killed, Many!File!Killed, File!Release, Many!File!Release
<1>4. /\ t <= 2 => t \in {1, 2}
      /\ t > 2 => t \in Threads \ {1, 2}
  BY SyncAssumption
<1> QED
  BY <1>1, <1>2, <1>3, <1>4 DEF Many!RwLock!Next, Many!File!Next

LEMMA ListGo ==
  /\ List!Producer(1) => Nodes1!Next
  /\ List!Consumer(2) \/ List!Spurious(2) => Nodes1!Next
<1>1. List!Producer(1) => Nodes1!Producer(1)
  BY DEF List!Producer, Nodes1!Producer, List!Make, Nodes1!Make, List!Push, Nodes1!Push,
         List!Signal, Nodes1!Signal, List!WakeOne, Nodes1!WakeOne
<1>2. List!Consumer(2) \/ List!Spurious(2) => Nodes1!Consumer(2) \/ Nodes1!Spurious(2)
  BY DEF List!Consumer, Nodes1!Consumer, List!FoundEmpty, Nodes1!FoundEmpty, List!HasLock,
         Nodes1!HasLock, List!Wait, Nodes1!Wait, List!Take, Nodes1!Take, List!MoveHead,
         Nodes1!MoveHead, List!Free, Nodes1!Free, List!Spurious, Nodes1!Spurious
<1> QED
  BY <1>1, <1>2 DEF Nodes1!Next

\* (each instance has its own IsFiniteSet)
LEMMA ThreadsFinite == Many!IsFiniteSet(Threads)
<1>1. IsFiniteSet(Threads)
  BY SyncAssumption
<1> QED
  BY <1>1, Zenon DEF IsFiniteSet, Many!IsFiniteSet

LEMMA KindInitInv == MCInit => KindInv
<1> SUFFICES ASSUME MCInit PROVE KindInv
  OBVIOUS
<1>1. Many!IsFiniteSet(Threads)
  BY ThreadsFinite
<1>6. kind \in Kinds
  BY DEF MCInit, Kinds
<1>2. CASE kind \in {"mutex", "open"}
  <2>1. Mutex!Init
    BY <1>2 DEF MCInit
  <2>2. Two!Mutex!Init /\ Two!Open!Init
    BY <2>1
    DEF Mutex!Init, Mutex!CSInit, Two!Mutex!Init, Two!Mutex!CSInit, Two!Open!Init,
        Two!Open!CSInit
  <2>3. Two!Mutex!TwoThreads /\ Two!Open!TwoThreads
    BY DEF Two!Mutex!TwoThreads, Two!Open!TwoThreads
  <2>4. Two!MutexInv
    BY <2>2, <2>3, Two!MutexInitInv, RoundsAssumption
  <2>5. Two!OpenInv
    BY <2>2, <2>3, Two!OpenInitInv, RoundsAssumption
  <2> QED
    BY <1>2, <2>4, <2>5, <1>6 DEF KindInv
<1>3. CASE kind = "process"
  <2>1. Process!Init
    BY <1>3 DEF MCInit
  <2>2. Two!Process!Init
    BY <2>1 DEF Process!Init, Process!CSInit, Two!Process!Init, Two!Process!CSInit
  <2>3. Two!Process!TwoProcesses
    BY DEF Two!Process!TwoProcesses
  <2>4. Two!ProcInv
    BY <2>2, <2>3, Two!ProcInitInv, RoundsAssumption
  <2> QED
    BY <1>3, <2>4, <1>6 DEF KindInv
<1>4. CASE kind \in {"rwlock", "file"}
  <2>1. CSInit
    BY <1>4 DEF MCInit
  <2>2. Many!RwLock!Init /\ Many!CSInit
    BY <2>1 DEF CSInit, Many!RwLock!Init, Many!RwLock!CSInit, Many!CSInit
  <2>3. Many!RwLockInv
    BY <1>1, <2>2, Many!RwLockInitInv, RoundsAssumption
  <2>4. Many!CSInv
    BY <2>2, Many!CSInitInv, RoundsAssumption
  <2> QED
    BY <1>4, <2>3, <2>4, <1>6 DEF KindInv
<1>5. CASE kind = "list"
  <2>1. List!Init
    BY <1>5 DEF MCInit
  <2>2. Nodes1!Init
    BY <2>1 DEF List!Init, Nodes1!Init
  <2>3. Nodes1!Actors
    BY SyncAssumption DEF Nodes1!Actors
  <2>4. Nodes1!IInv
    BY <2>2, <2>3, Nodes1!InitInv
  <2> QED
    BY <1>5, <2>4, <1>6 DEF KindInv
<1>7. kind \notin {"mutex", "open", "process", "rwlock", "file", "list"} => KindInv
  BY <1>6 DEF KindInv
<1> QED
  BY <1>2, <1>3, <1>4, <1>5, <1>7

\* A step of the composition is a step of the program that runs, or leaves what it has
\* alone.
LEMMA KindStep ==
  ASSUME KindInv, [MCNext]_mcVars
  PROVE  /\ kind' = kind
         /\ kind = "mutex"   => [Two!Mutex!Next]_(Two!Mutex!csVars)
         /\ kind = "open"    => [Two!Open!Next]_(Two!Open!csVars)
         /\ kind = "process" => [Two!Process!Next]_(Two!Process!vars)
         /\ kind = "rwlock"  => [Many!RwLock!Next]_(Many!RwLock!csVars)
         /\ kind = "file"    => [Many!File!Next]_(Many!File!csVars)
         /\ kind = "list"    => [Nodes1!Next]_(Nodes1!vars)
<1>1. kind \in {"mutex", "open"} => DOMAIN pc = {1, 2}
  BY DEF KindInv, Two!MutexInv, Two!OpenInv, Two!CSInv, Two!CSTypeOK
<1>2. kind = "process" => DOMAIN pc = {1, 2}
  BY DEF KindInv, Two!ProcInv, Two!Process!TypeOK, Two!Process!CSTypeOK
<1>3. CASE UNCHANGED mcVars
  BY <1>3
  DEF mcVars, syncVars, csVars, procVars, listVars, Two!Mutex!csVars, Two!Open!csVars,
      Two!Process!vars, Two!Process!csVars, Two!Process!procVars, Many!RwLock!csVars,
      Many!File!csVars, Nodes1!vars
<1>4. CASE LivesOnly \/ FamilyOnly \/ PoolOnly
  BY <1>4 DEF LivesOnly, FamilyOnly, PoolOnly
<1>5. ASSUME NEW t \in Threads, Step(t) \/ Event(t)
      PROVE  /\ kind' = kind
             /\ kind = "mutex"   => Two!Mutex!Next
             /\ kind = "open"    => Two!Open!Next
             /\ kind = "process" => Two!Process!Next
             /\ kind = "rwlock"  => Many!RwLock!Next
             /\ kind = "file"    => Many!File!Next
             /\ kind = "list"    => Nodes1!Next
  <2>1. kind' = kind
    BY <1>5 DEF Step, Event, CSOnly, ProcessOnly, ListOnly, RingOnly
  <2>2. kind \in {"mutex", "open", "process"} => t \in {1, 2}
    BY <1>1, <1>2, <1>5 DEF Step, Event
  <2>3. kind = "mutex" => Two!Mutex!Next
    BY <1>5, <2>2, TwoGo DEF Step, Event
  <2>4. kind = "open" => Two!Open!Next
    BY <1>5, <2>2, TwoGo DEF Step, Event
  <2>5. kind = "process" => Two!Process!Next
    BY <1>5, <2>2, ProcessGo DEF Step, Event
  <2>6. kind = "rwlock" => Many!RwLock!Next
    BY <1>5, ManyGo DEF Step, Event
  <2>7. kind = "file" => Many!File!Next
    BY <1>5, ManyGo DEF Step, Event
  <2>8. kind = "list" => Nodes1!Next
    BY <1>5, ListGo DEF Step, Event
  <2> QED
    BY <2>1, <2>3, <2>4, <2>5, <2>6, <2>7, <2>8
<1> QED
  BY <1>3, <1>4, <1>5 DEF MCNext

LEMMA KindNextInv == KindInv /\ [MCNext]_mcVars => KindInv'
<1> SUFFICES ASSUME KindInv, [MCNext]_mcVars PROVE KindInv'
  OBVIOUS
<1>1. kind' = kind
  BY KindStep
<1>2. /\ Two!Mutex!TwoThreads /\ Two!Open!TwoThreads /\ Two!Process!TwoProcesses
      /\ Nodes1!Actors /\ Many!IsFiniteSet(Threads) /\ {1, 2} \subseteq Threads
  BY ThreadsFinite, SyncAssumption
  DEF Two!Mutex!TwoThreads, Two!Open!TwoThreads, Two!Process!TwoProcesses, Nodes1!Actors
<1>3. kind = "mutex" => Two!MutexInv'
  BY <1>2, KindStep, Two!MutexNextInv, RoundsAssumption DEF KindInv
<1>4. kind = "open" => Two!OpenInv'
  BY <1>2, KindStep, Two!OpenNextInv, RoundsAssumption DEF KindInv
<1>5. kind = "process" => Two!ProcInv'
  BY <1>2, KindStep, Two!ProcNextInv, RoundsAssumption DEF KindInv
<1>6. kind = "rwlock" => Many!RwLockInv'
  BY <1>2, KindStep, Many!RwLockNextInv, RoundsAssumption DEF KindInv
<1>7. kind = "file" => Many!CSInv'
  BY <1>2, KindStep, Many!FileNextInv, RoundsAssumption DEF KindInv
<1>8. kind = "list" => Nodes1!IInv'
  BY <1>2, KindStep, Nodes1!NextInv DEF KindInv
<1> QED
  BY <1>1, <1>3, <1>4, <1>5, <1>6, <1>7, <1>8 DEF KindInv

-----------------------------------------------------------------------------
(* What the invariant says                                                  *)

LEMMA KindInvExclusive == KindInv => OneInside
<1> SUFFICES ASSUME KindInv PROVE OneInside
  OBVIOUS
<1>1. ASSUME kind \in {"rwlock", "file"} PROVE Exclusive
  <2>1. Many!Exclusive
    BY <1>1, Many!CSExclusive, RoundsAssumption DEF KindInv, Many!RwLockInv
  <2> QED
    BY <2>1 DEF Many!Exclusive, Many!Inside, Exclusive, Inside
<1>2. ASSUME kind = "mutex" PROVE Mutex!Exclusive
  <2>1. Two!Exclusive
    BY <1>2, Two!CSExclusive, RoundsAssumption DEF KindInv, Two!MutexInv
  <2> QED
    BY <2>1 DEF Two!Exclusive, Two!Inside, Mutex!Exclusive, Mutex!Inside
<1>3. ASSUME kind = "process" PROVE Process!Exclusive
  <2>1. Two!Exclusive
    BY <1>3 DEF KindInv, Two!ProcInv
  <2> QED
    BY <2>1 DEF Two!Exclusive, Two!Inside, Process!Exclusive, Process!Inside
<1>4. CASE kind \in {"rwlock", "file"}
  BY <1>1, <1>4, Zenon DEF OneInside
<1>5. CASE kind = "mutex"
  BY <1>2, <1>5, Zenon DEF OneInside
<1>6. CASE kind = "process"
  BY <1>3, <1>6, Zenon DEF OneInside
<1> QED
  BY <1>4, <1>5, <1>6 DEF OneInside

LEMMA KindInvCounts == KindInv => CountIsRight
<1> SUFFICES ASSUME KindInv PROVE CountIsRight
  OBVIOUS
<1>1. ASSUME kind = "mutex" PROVE Mutex!CountIsRight
  <2>1. Two!Mutex!TwoThreads
    BY DEF Two!Mutex!TwoThreads
  <2>2. Two!Mutex!CountIsRight
    BY <1>1, <2>1, Two!MutexInvCounts, RoundsAssumption DEF KindInv
  <2> QED
    BY <2>2
    DEF Two!Mutex!CountIsRight, Mutex!CountIsRight, Two!Mutex!NoUpdateLost, Mutex!NoUpdateLost,
        Two!Mutex!CountBounds, Mutex!CountBounds, Two!Mutex!Stored, Mutex!Stored,
        Two!Mutex!AllDone, Mutex!AllDone, Two!Mutex!Finished, Mutex!Finished
<1>2. ASSUME kind = "open" PROVE Open!CountIsRight
  <2>1. Two!Open!TwoThreads
    BY DEF Two!Open!TwoThreads
  <2>2. Two!Open!CountIsRight
    BY <1>2, <2>1, Two!OpenInvCounts, RoundsAssumption DEF KindInv
  <2> QED
    BY <2>2
    DEF Two!Open!CountIsRight, Open!CountIsRight, Two!Open!NoUpdateLost, Open!NoUpdateLost,
        Two!Open!CountBounds, Open!CountBounds, Two!Open!Stored, Open!Stored,
        Two!Open!AllDone, Open!AllDone, Two!Open!Finished, Open!Finished
<1>3. ASSUME kind = "rwlock" PROVE RwLock!NoUpdateLost
  <2>1. Many!RwLock!NoUpdateLost
    BY <1>3, ThreadsFinite, Many!RwLockInvCounts, RoundsAssumption DEF KindInv
  <2> QED
    BY <2>1, Zenon
    DEF Many!RwLock!NoUpdateLost, RwLock!NoUpdateLost, Many!RwLock!MapThenSumSet,
        RwLock!MapThenSumSet, Many!RwLock!MapThenFoldSet, RwLock!MapThenFoldSet,
        Many!RwLock!Stored, RwLock!Stored
<1>4. ASSUME kind = "process" PROVE Process!NoUpdateLost
  <2>1. num = 2 * Two!Process!Stored(1) + Two!Process!Stored(2)
    BY <1>4 DEF KindInv, Two!ProcInv
  <2> QED
    BY <2>1 DEF Process!NoUpdateLost, Two!Process!Stored, Process!Stored
<1>5. CASE kind = "mutex"
  BY <1>1, <1>5, Zenon DEF CountIsRight
<1>6. CASE kind = "open"
  BY <1>2, <1>6, Zenon DEF CountIsRight
<1>7. CASE kind = "rwlock"
  BY <1>3, <1>7, Zenon DEF CountIsRight
<1>8. CASE kind = "process"
  BY <1>4, <1>8, Zenon DEF CountIsRight
<1> QED
  BY <1>5, <1>6, <1>7, <1>8 DEF CountIsRight

LEMMA KindInvList == KindInv => ListHolds
<1> SUFFICES ASSUME KindInv, kind = "list" PROVE List!ListHolds
  BY DEF ListHolds
<1>1. Nodes1!ListHolds
  BY DEF KindInv, Nodes1!IInv, Nodes1!ListHolds
<1>2. Nodes1!Held = List!Held /\ Nodes1!Linked = List!Linked /\ Nodes1!InHands = List!InHands
  BY DEF Nodes1!Held, List!Held, Nodes1!Linked, List!Linked, Nodes1!InHands, List!InHands
<1>3. \A S : Nodes1!Cardinality(S) = List!Cardinality(S)
  BY Zenon DEF Nodes1!Cardinality, List!Cardinality
<1>4. List!NodesAccounted
  <2>1. /\ heap = List!Linked \cup List!InHands
        /\ Nodes1!Cardinality(heap) = Len(list) + Nodes1!Cardinality(List!Held)
    BY <1>1, <1>2 DEF Nodes1!ListHolds, Nodes1!NodesAccounted
  <2>2. List!Cardinality(heap) = Len(list) + List!Cardinality(List!Held)
    BY <1>3, <2>1, Zenon
  <2> QED
    BY <2>1, <2>2 DEF List!NodesAccounted
<1>5. List!NoSleepOverNodes
  BY <1>1, Zenon DEF Nodes1!ListHolds, Nodes1!NoSleepOverNodes, List!NoSleepOverNodes
<1> QED
  BY <1>4, <1>5 DEF List!ListHolds

LEMMA KindInvTypes ==
  ASSUME KindInv
  PROVE  /\ kind = "list"    => List!TypeOK
         /\ kind = "process" => Process!TypeOK
         /\ kind \in {"rwlock", "file"} => CSTypeOK
         /\ kind \in {"mutex", "open"}  => Mutex!CSTypeOK
<1>1. kind = "list" => List!TypeOK
  BY DEF KindInv, Nodes1!IInv, Nodes1!TypeOK, List!TypeOK
<1>2. kind = "process" => Process!TypeOK
  BY DEF KindInv, Two!ProcInv, Two!Process!TypeOK, Process!TypeOK, Two!Process!CSTypeOK,
         Process!CSTypeOK
<1>3. kind \in {"rwlock", "file"} => CSTypeOK
  BY DEF KindInv, Many!RwLockInv, Many!CSInv, Many!CSTypeOK, CSTypeOK
<1>4. kind \in {"mutex", "open"} => Mutex!CSTypeOK
  BY DEF KindInv, Two!MutexInv, Two!OpenInv, Two!CSInv, Two!CSTypeOK, Mutex!CSTypeOK
<1> QED
  BY <1>1, <1>2, <1>3, <1>4

-----------------------------------------------------------------------------
(* The invariant of the composition, and what follows from it               *)

MCInv == KindInv /\ IInv /\ LivesInv /\ FamilyInv /\ PoolInv

\* Each program with variables of its own makes its steps, or none.
LEMMA MCSteps ==
  [MCNext]_mcVars => /\ [Next]_vars
                     /\ [Lives!Next]_(Lives!vars)
                     /\ [Family!Next]_(Family!vars)
                     /\ [Pool!Next]_(Pool!vars)
<1>1. ASSUME NEW t \in Threads, Step(t) \/ Event(t)
      PROVE  [Next]_vars /\ UNCHANGED moreVars
  BY <1>1
  DEF Step, Event, CSOnly, ProcessOnly, ListOnly, RingOnly, Next
<1>2. /\ UNCHANGED moreVars => UNCHANGED <<lifeVars, famVars, poolVars>>
      /\ UNCHANGED syncVars => UNCHANGED vars
      /\ UNCHANGED mcVars => UNCHANGED <<syncVars, moreVars>>
      /\ UNCHANGED lifeVars => UNCHANGED Lives!vars
      /\ UNCHANGED famVars => UNCHANGED Family!vars
      /\ UNCHANGED poolVars => UNCHANGED Pool!vars
  BY DEF mcVars, syncVars, moreVars, lifeVars, famVars, poolVars, Lives!vars, Family!vars,
         Family!childVars, Pool!vars
<1>3. CASE UNCHANGED mcVars
  BY <1>2, <1>3
<1>4. CASE \E t \in Threads : Step(t) \/ Event(t)
  BY <1>1, <1>2, <1>4
<1>5. CASE Lives!Next /\ LivesOnly
  BY <1>2, <1>5 DEF LivesOnly
<1>6. CASE Family!Next /\ FamilyOnly
  BY <1>2, <1>6 DEF FamilyOnly
<1>7. CASE Pool!Next /\ PoolOnly
  BY <1>2, <1>7 DEF PoolOnly
<1> QED
  BY <1>3, <1>4, <1>5, <1>6, <1>7 DEF MCNext

LEMMA MCInitInv == MCInit => MCInv
BY KindInitInv, RingInitInv, LivesInitInv, FamilyInitInv, PoolInitInv DEF MCInit, MCInv

LEMMA MCNextInv == MCInv /\ [MCNext]_mcVars => MCInv'
BY MCSteps, KindNextInv, RingNextInv, LivesNextInv, FamilyNextInv, PoolNextInv DEF MCInv

\* All the programs keep their invariants together.
THEOREM SyncInvariant == MCSpec => []MCInv
BY MCInitInv, MCNextInv, PTL DEF MCSpec

\* Every variable of the program that runs keeps its type.
THEOREM TypesKept == MCSpec => []MCTypeOK
<1>1. MCInv => MCTypeOK
  <2> SUFFICES ASSUME MCInv PROVE MCTypeOK
    OBVIOUS
  <2>1. TypeOK /\ Lives!TypeOK /\ Family!TypeOK /\ Pool!TypeOK
    BY DEF MCInv, IInv, LivesInv, FamilyInv, PoolInv
  <2>2. /\ kind = "list"    => List!TypeOK
        /\ kind = "process" => Process!TypeOK
        /\ kind \in {"rwlock", "file"} => CSTypeOK
        /\ kind \in {"mutex", "open"}  => Mutex!CSTypeOK
    BY KindInvTypes DEF MCInv
  <2>3. kind \in Kinds
    BY DEF MCInv, KindInv
  <2>4. CASE kind = "list"
    BY <2>2, <2>4, Zenon DEF MCTypeOK
  <2>5. CASE kind = "ring"
    BY <2>1, <2>5, Zenon DEF MCTypeOK
  <2>6. CASE kind = "process"
    BY <2>2, <2>6, Zenon DEF MCTypeOK
  <2>7. CASE kind \in {"rwlock", "file"}
    BY <2>2, <2>7, Zenon DEF MCTypeOK
  <2>8. CASE kind = "lives"
    BY <2>1, <2>8, Zenon DEF MCTypeOK
  <2>9. CASE kind = "family"
    BY <2>1, <2>9, Zenon DEF MCTypeOK
  <2>10. CASE kind = "pool"
    BY <2>1, <2>10, Zenon DEF MCTypeOK
  <2>11. CASE kind \in {"mutex", "open"}
    BY <2>2, <2>11, Zenon DEF MCTypeOK
  <2> QED
    BY <2>3, <2>4, <2>5, <2>6, <2>7, <2>8, <2>9, <2>10, <2>11 DEF Kinds
<1> QED
  BY <1>1, SyncInvariant, PTL

\* Whoever is between lock and unlock is alone there: two threads with the mutex, any
\* number of readers and writers or of processes that lock the file, which may be
\* killed, and a parent whose mutex the child has destroyed.
THEOREM OneIsInside == MCSpec => []OneInside
<1>1. MCInv => OneInside
  BY KindInvExclusive DEF MCInv
<1> QED
  BY <1>1, SyncInvariant, PTL

\* No addition to the shared number is lost under a lock, of however many writers, and
\* without one it stays between its bounds.
THEOREM CountsAreRight == MCSpec => []CountIsRight
<1>1. MCInv => CountIsRight
  BY KindInvCounts DEF MCInv
<1> QED
  BY <1>1, SyncInvariant, PTL

\* The list's nodes have one owner each, and the consumer does not sleep over them.
THEOREM ListIsHeld == MCSpec => []ListHolds
<1>1. MCInv => ListHolds
  BY KindInvList DEF MCInv
<1> QED
  BY <1>1, SyncInvariant, PTL

\* The ring is not disturbed by the other programs: in the composition, too, its slots
\* are kept, and it is a bounded queue.
THEOREM RingStaysKept == MCSpec => []RingSlotsKept /\ ImplementsTaskQueue
<1>1. MCSpec => Spec
  <2>1. MCInit => Init
    BY DEF MCInit
  <2>2. [MCNext]_mcVars => [Next]_vars
    BY MCSteps
  <2> QED
    BY <2>1, <2>2, PTL DEF MCSpec, Spec
<1> QED
  BY <1>1, RingKept, RingIsTaskQueue, PTL

\* Each join of 009_thread returns what the thread it waits for has returned, once; no
\* process ends before its thread has; no zombie is left for good, in whatever order
\* parent, child and the kills come; and a daemon has nothing of the terminal.
THEOREM LivesAreInOrder == MCSpec => []LivesInOrder
<1>1. MCInv => LivesInOrder
  BY LivesInvOrders, FamilyInvOrders DEF MCInv, LivesInOrder
<1> QED
  BY <1>1, SyncInvariant, PTL

\* Whichever call of threadpool_create fails, threadpool_free leaves nothing allocated,
\* and touches only those things that were never set that the failed call names.
THEOREM CleanUpIsComplete == MCSpec => []CleanUpFrees
<1>1. MCInv => CleanUpFrees
  BY DEF MCInv, PoolInv, CleanUpFrees
<1> QED
  BY <1>1, SyncInvariant, PTL
=============================================================================
