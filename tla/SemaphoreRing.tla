--------------------------- MODULE SemaphoreRing ---------------------------
(***************************************************************************)
(* src/010_thread_sync/05thread_sync_sem_t.c: a producer and a consumer    *)
(* over a ring of numbers, kept apart by two semaphores only.              *)
(***************************************************************************)
EXTENDS Integers, Sequences

CONSTANTS
  RingSize,   \* DEF_NUM
  MaxItems    \* bound: numbers produced; each is identified with its turn

ASSUME RingAssumption == RingSize \in Nat \ {0} /\ MaxItems \in Nat

Slots == 0..RingSize-1
Items == 1..MaxItems
Empty == 0

VARIABLES
  ring,      \* queue[]
  blank,     \* blank_number
  product,   \* product_number
  p, c,      \* the producer's and the consumer's index
  ppc, cpc,  \* where they are: "wait", "use" (the slot), "post"
  made,      \* the producer's next number
  got        \* the numbers the consumer has printed

prodVars == <<p, ppc, made>>
consVars == <<c, cpc, got>>
vars     == <<ring, blank, product, prodVars, consVars>>

Init ==
  /\ ring = [s \in Slots |-> Empty]
  /\ blank = RingSize /\ product = 0
  /\ p = 0 /\ c = 0
  /\ ppc = "wait" /\ cpc = "wait"
  /\ made = 1 /\ got = {}

NextSlot(s) == (s + 1) % RingSize

\* sem_wait(&blank_number)
PWait ==
  /\ ppc = "wait" /\ made \in Items
  /\ blank > 0
  /\ blank' = blank - 1
  /\ ppc' = "use"
  /\ UNCHANGED <<ring, product, p, made, consVars>>

Produce ==
  /\ ppc = "use"
  /\ ring' = [ring EXCEPT ![p] = made]
  /\ made' = made + 1
  /\ ppc' = "post"
  /\ UNCHANGED <<blank, product, p, consVars>>

\* sem_post(&product_number), and on to the next slot.
PPost ==
  /\ ppc = "post"
  /\ product' = product + 1
  /\ p' = NextSlot(p)
  /\ ppc' = "wait"
  /\ UNCHANGED <<ring, blank, made, consVars>>

\* (if the consumer went on once anything had been produced)
CWaitNot == product > 0 \/ made > 1

CMayGo == product > 0

\* sem_wait(&product_number)
CWait ==
  /\ cpc = "wait"
  /\ CMayGo
  /\ product' = product - 1
  /\ cpc' = "use"
  /\ UNCHANGED <<ring, blank, c, got, prodVars>>

\* (if the slot was not cleared)
LeftInPlace == ring

Cleared == [ring EXCEPT ![c] = Empty]

Consume ==
  /\ cpc = "use"
  /\ got' = got \cup {ring[c]}
  /\ ring' = Cleared
  /\ cpc' = "post"
  /\ UNCHANGED <<blank, product, c, prodVars>>

\* (if the consumer gave back two slots)
PostTwice == blank' = blank + 2

PostBlank == blank' = blank + 1

\* sem_post(&blank_number), and on to the next slot.
CPost ==
  /\ cpc = "post"
  /\ PostBlank
  /\ c' = NextSlot(c)
  /\ cpc' = "wait"
  /\ UNCHANGED <<ring, product, got, prodVars>>

Producer == PWait \/ Produce \/ PPost
Consumer == CWait \/ Consume \/ CPost

Next == Producer \/ Consumer

Spec == Init /\ [][Next]_vars

-----------------------------------------------------------------------------
TypeOK ==
  /\ ring \in [Slots -> Items \cup {Empty}]
  /\ blank \in 0..RingSize /\ product \in 0..RingSize
  /\ p \in Slots /\ c \in Slots
  /\ ppc \in {"wait", "use", "post"} /\ cpc \in {"wait", "use", "post"}
  /\ made \in 1..MaxItems+1 /\ got \subseteq Items

\* Numbers stored and not consumed.
Stored == product + (IF ppc = "post" THEN 1 ELSE 0) + (IF cpc = "use" THEN 1 ELSE 0)

\* The oldest of them.
First == IF cpc = "post" THEN NextSlot(c) ELSE c

\* The producer never writes into a slot that has not been consumed ("before
\* putting, one should be sure that the container is not full"), and the consumer
\* never takes from one that has not been filled.
NoOverwrite == ppc = "use" => ring[p] = Empty
NoUnderflow == cpc = "use" => ring[c] # Empty

\* Every slot is accounted for by one of the semaphores or by the thread that uses it.
SlotsAccounted ==
  blank + Stored + (IF ppc = "use" THEN 1 ELSE 0) + (IF cpc = "post" THEN 1 ELSE 0) = RingSize

\* How far a slot is behind the oldest number, and the slot behind the newest one.
Offset(s) == IF s >= First THEN s - First ELSE s + RingSize - First
Behind == IF ppc = "post" THEN NextSlot(p) ELSE p

\* The numbers are taken in the order in which they are made: those that are stored
\* are the last ones made, one after the other, and the consumer has had the others.
NumbersInOrder ==
  /\ Stored < made /\ got = 1..made-Stored-1
  /\ Behind = (First + Stored) % RingSize
  /\ \A s \in Slots : ring[s] = IF Offset(s) < Stored THEN made - Stored + Offset(s) ELSE Empty

\* Slots are neither overwritten nor read empty, none goes missing, and what is in
\* them is in order.
RingSlotsKept == NoOverwrite /\ NoUnderflow /\ SlotsAccounted /\ NumbersInOrder

\* The inductive invariant: the numbers are bounded by the turns of the producer.
IInv == TypeOK /\ (ppc = "use" => made \in Items) /\ SlotsAccounted /\ NumbersInOrder

\* The ring is a bounded queue: what is produced is consumed in order, once.
Queued == [k \in 1..Stored |-> ring[(First + k - 1) % RingSize]]
Abs == INSTANCE TaskQueue WITH
  Tasks <- Items, Capacity <- RingSize, closed <- FALSE, begun <- got, queue <- Queued
ImplementsTaskQueue == Abs!Spec
=============================================================================
