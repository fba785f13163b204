-------------------------- MODULE ThreadPoolProofs --------------------------
(***************************************************************************)
(* Theorems about the thread pool of ThreadPool.tla, for every number of   *)
(* clients, threads, slots and tasks.                                      *)
(***************************************************************************)
EXTENDS ThreadPool, QueueLemmas, FiniteSetTheorems

-----------------------------------------------------------------------------
(* The ring's indices                                                      *)

\* Moving an index on stays inside the ring.
LEMMA NextSlotInRing ==
  ASSUME NEW i \in Slots
  PROVE  NextSlot(i) \in Slots
BY SizesAssumption DEF NextSlot, Slots

\* The workers are finitely many, and so is every set of them.
LEMMA WorkersFinite ==
  ASSUME NEW S \in SUBSET Workers
  PROVE  IsFiniteSet(S) /\ Cardinality(S) \in Nat
<1>1. IsFiniteSet(Workers)
  BY FS_Interval, SizesAssumption DEF Workers
<1> QED
  BY <1>1, FS_Subset, FS_CardinalityType

-----------------------------------------------------------------------------
(* Types                                                                   *)

LEMMA TypeInit == Init => TypeOK
<1> SUFFICES ASSUME Init PROVE TypeOK
  OBVIOUS
<1>1. pc \in [Workers -> WorkerPlaces]
  BY DEF Init, WorkerPlaces
<1>2. slot \in [Slots -> Args]
  BY DEF Init, Args
<1>3. 0 \in Slots
  BY SizesAssumption DEF Slots
<1>4. seen \in [Clients -> [rear : Slots, size : Int]]
  BY <1>3 DEF Init
<1>5. task \in [Workers -> Args] /\ cur \in [Clients -> Tasks \cup {Null}]
  BY DEF Init, Args
<1>6. cpc \in [Clients -> ClientPlaces]
  BY DEF Init, ClientPlaces
<1>7. apc \in AdjustPlaces
  BY DEF Init, AdjustPlaces
<1>8. front \in Slots /\ rear \in Slots /\ size \in Int
  BY <1>3 DEF Init
<1>9. shutdown \in BOOLEAN /\ poolFreed \in BOOLEAN
  BY DEF Init
<1>10. alive \in Int /\ busy \in Nat /\ waitExit \in Nat
  BY SizesAssumption DEF Init
<1>11. aq \in Int /\ aa \in Int /\ sig \in Int /\ next \in Nat \ {0}
  BY DEF Init
<1>12. /\ waitNE \subseteq Workers /\ waitNF \subseteq Clients
       /\ freed \subseteq Args /\ begun \subseteq Args
       /\ lock \in Workers \cup {Free}
  BY DEF Init
<1> QED
  BY <1>1, <1>2, <1>4, <1>5, <1>6, <1>7, <1>8, <1>9, <1>10, <1>11, <1>12 DEF TypeOK

LEMMA TypeWorker ==
  ASSUME TypeOK, NEW w \in Workers, Worker(w)
  PROVE  TypeOK'
<1> USE DEF TypeOK, ring, counters, adjust, client, worker, sync, flags, history
<1>1. CASE WIdle(w)
  BY <1>1 DEF WIdle, WorkerPlaces
<1>2. CASE WTake(w)
  BY <1>2, NextSlotInRing DEF WTake, WorkerPlaces, BroadcastNotFull
<1>3. CASE WExit(w)
  BY <1>3 DEF WExit, WorkerPlaces
<1>4. CASE WWake(w)
  BY <1>4 DEF WWake, WorkerPlaces
<1>5. CASE WWait(w)
  BY <1>5 DEF WWait, WorkerPlaces
<1>6. CASE WBusy(w)
  BY <1>6 DEF WBusy, WorkerPlaces
<1>7. CASE WDone(w)
  BY <1>7 DEF WDone, WorkerPlaces, Args
<1>8. CASE WSpurious(w)
  BY <1>8 DEF WSpurious
<1> QED
  BY <1>1, <1>2, <1>3, <1>4, <1>5, <1>6, <1>7, <1>8
  DEF Worker, WorkerEnters, WorkerMoves

LEMMA TypeClient ==
  ASSUME TypeOK, NEW c \in Clients, Client(c)
  PROVE  TypeOK'
<1> USE DEF TypeOK, ring, counters, adjust, client, worker, sync, flags, history
<1>1. CASE AddCall(c)
  BY <1>1, SizesAssumption DEF AddCall, ClientPlaces, Tasks
<1>2. CASE AddWait(c)
  BY <1>2 DEF AddWait
<1>3. CASE AddInsert(c)
  BY <1>3, NextSlotInRing
  DEF AddInsert, ClientPlaces, StoreAtRear, SignalNotEmpty, Args, Null
<1>4. CASE AddLate(c)
  BY <1>4 DEF AddLate, ClientPlaces
<1>5. CASE AddLateStore(c)
  BY <1>5 DEF AddLateStore, ClientPlaces, StoreAtRear, Args, Null
<1>6. CASE AddLateAdvance(c)
  BY <1>6, NextSlotInRing DEF AddLateAdvance, ClientPlaces, SignalNotEmpty
<1>7. CASE AddLateUnlock(c)
  BY <1>7, SizesAssumption DEF AddLateUnlock, ClientPlaces, Slots
<1>8. CASE AddSpurious(c)
  BY <1>8 DEF AddSpurious
<1> QED
  BY <1>1, <1>2, <1>3, <1>4, <1>5, <1>6, <1>7, <1>8
  DEF Client, AddEnters, AddMoves

LEMMA TypeAdjust ==
  ASSUME TypeOK, Adjust
  PROVE  TypeOK'
<1> USE DEF TypeOK, ring, counters, adjust, client, worker, sync, flags, history
<1>1. CASE ASample
  BY <1>1 DEF ASample, AdjustPlaces
<1>2. CASE AGrow
  <2>1. PICK E \in Vacancies :
          /\ \E born \in SUBSET Filled(E) :
               pc' = [w \in Workers |-> IF w \in born THEN "acquire" ELSE pc[w]]
          /\ aa' = aa + Cardinality(Filled(E))
    BY <1>2 DEF AGrow
  <2>2. Filled(E) \subseteq Workers
    BY DEF Filled, Vacancies
  <2>3. Cardinality(Filled(E)) \in Nat
    BY <2>2, WorkersFinite
  <2>4. pc' \in [Workers -> WorkerPlaces]
    BY <2>1 DEF WorkerPlaces
  <2>5. aa' \in Int
    BY <2>1, <2>3
  <2> QED
    BY <1>2, <2>4, <2>5 DEF AGrow, AdjustPlaces
<1>3. CASE AShrink
  BY <1>3, SizesAssumption DEF AShrink, AdjustPlaces
<1>4. CASE ACheck
  BY <1>4 DEF ACheck, AdjustPlaces
<1>5. CASE ANoGrow
  BY <1>5 DEF ANoGrow, AdjustPlaces
<1>6. CASE ABusy
  BY <1>6 DEF ABusy, AdjustPlaces
<1>7. CASE ASignal
  BY <1>7 DEF ASignal, AdjustPlaces, SignalNotEmpty
<1> QED
  BY <1>1, <1>2, <1>3, <1>4, <1>5, <1>6, <1>7 DEF Adjust, AdjustEnters, AdjustMoves

LEMMA TypeDestroy ==
  ASSUME TypeOK, DestroyCall \/ DestroyMoves
  PROVE  TypeOK'
<1> USE DEF TypeOK, ring, counters, adjust, client, worker, sync, flags, history
<1>1. CASE DestroyCall
  BY <1>1 DEF DestroyCall, ClientPlaces
<1>2. CASE DestroyJoinAdjust
  BY <1>2 DEF DestroyJoinAdjust, ClientPlaces
<1>3. CASE DestroyBroadcast
  BY <1>3 DEF DestroyBroadcast, ClientPlaces
<1>4. CASE DestroyFree
  BY <1>4 DEF DestroyFree, ClientPlaces
<1> QED
  BY <1>1, <1>2, <1>3, <1>4 DEF DestroyMoves

LEMMA TypeNext == TypeOK /\ [Next]_vars => TypeOK'
<1> SUFFICES ASSUME TypeOK, [Next]_vars PROVE TypeOK'
  OBVIOUS
<1>1. CASE UNCHANGED vars
  BY <1>1 DEF TypeOK, vars, ring, counters, adjust, client, worker, sync, flags, history
<1> QED
  BY <1>1, TypeWorker, TypeClient, TypeAdjust, TypeDestroy DEF Next

\* Every variable keeps its type: in particular the indices of the ring stay
\* inside it, also when clients insert without the mutex.
THEOREM TypeCorrect == Spec => []TypeOK
BY TypeInit, TypeNext, PTL DEF Spec

-----------------------------------------------------------------------------
(* Threads, mutex, conditions and counters                                 *)

\* Inserting keeps the indices consistent.
LEMMA RingInsert ==
  ASSUME TypeOK, size \in 0..QueueMax-1, rear = (front + size) % QueueMax
  PROVE  NextSlot(rear) = (front + (size + 1)) % QueueMax
BY SizesAssumption, ModInsert DEF TypeOK, Slots, NextSlot

\* So does taking.
LEMMA RingTake ==
  ASSUME TypeOK, size \in 1..QueueMax, rear = (front + size) % QueueMax
  PROVE  rear = (NextSlot(front) + (size - 1)) % QueueMax
BY SizesAssumption, ModTake DEF TypeOK, Slots, NextSlot

\* More workers on their way, no new sleeper and no more tasks do no harm.
LEMMA HeadingGrows ==
  ASSUME TypeOK, TypeOK', NoSleepOverBacklog, ~shutdown,
         size' = size, waitNE' \subseteq waitNE, Heading \subseteq Heading'
  PROVE  NoSleepOverBacklog'
<1>1. Heading' \subseteq Workers
  BY DEF Heading
<1>2. IsFiniteSet(Heading')
  BY <1>1, WorkersFinite
<1>3. Cardinality(Heading) <= Cardinality(Heading')
  BY <1>2, FS_Subset
<1>4. Cardinality(Heading) \in Nat /\ Cardinality(Heading') \in Nat
  BY <1>1, WorkersFinite DEF Heading
<1> QED
  BY <1>3, <1>4 DEF NoSleepOverBacklog, TypeOK

LEMMA SyncInit == Init => SyncInv
<1> SUFFICES ASSUME Init PROVE SyncInv
  OBVIOUS
<1>1. TypeOK
  BY TypeInit
<1>2. RingConsistent
  BY SizesAssumption DEF Init, RingConsistent
<1>3. LoopUnderLock
  BY DEF Init, LoopUnderLock, Workers, Free
<1>4. FirstThreadsLive
  BY DEF Init, FirstThreadsLive, Live
<1> QED
  BY <1>1, <1>2, <1>3, <1>4
  DEF Init, SyncInv, LateAfterShutdown, SleepersWait, NoSleepOverBacklog,
      BlockedClientsSeeFullRing

\* After shutdown only the types and the wait set are left to show.
LEMMA AfterShutdown ==
  ASSUME TypeOK', SleepersWait', shutdown'
  PROVE  SyncInv'
BY DEF SyncInv, RingConsistent, LoopUnderLock, FirstThreadsLive, LateAfterShutdown,
       NoSleepOverBacklog, BlockedClientsSeeFullRing

LEMMA SyncWorker ==
  ASSUME SyncInv, NEW w \in Workers, Worker(w)
  PROVE  SyncInv'
<1> USE DEF SyncInv
<1>1. TypeOK'
  BY TypeWorker
<1>2. SleepersWait'
  BY DEF Worker, WorkerEnters, WorkerMoves, WIdle, WTake, WExit, WWake, WWait, WBusy,
         WDone, WSpurious, SleepersWait, sync, worker, TypeOK, AtLoop
<1>3. shutdown' = shutdown
  BY DEF Worker, WorkerEnters, WorkerMoves, WIdle, WTake, WExit, WWake, WWait, WBusy,
         WDone, WSpurious, flags
<1>4. SUFFICES ASSUME ~shutdown PROVE SyncInv'
  BY <1>1, <1>2, <1>3, AfterShutdown DEF TypeOK
<1>5. LateAfterShutdown' /\ BlockedClientsSeeFullRing'
  BY DEF Worker, WorkerEnters, WorkerMoves, WIdle, WTake, WExit, WWake, WWait, WBusy,
         WDone, WSpurious, LateAfterShutdown, BlockedClientsSeeFullRing, QueueFull,
         BroadcastNotFull, client, sync, ring, flags
<1>6. LoopUnderLock'
  <2> USE <1>4 DEF LoopUnderLock, AtLoop, TypeOK, Workers, Free, ring, sync, worker, flags
  <2>1. CASE WIdle(w)
    BY <2>1 DEF WIdle
  <2>2. CASE WTake(w)
    BY <2>2 DEF WTake
  <2>3. CASE WWake(w)
    BY <2>3 DEF WWake, FirstThreadsLive, MayLeave
  <2>4. CASE WWait(w)
    BY <2>4 DEF WWait
  <2>5. CASE WBusy(w) \/ WDone(w) \/ WSpurious(w)
    BY <2>5 DEF WBusy, WDone, WSpurious
  <2> QED
    BY <2>1, <2>2, <2>3, <2>4, <2>5 DEF Worker, WorkerEnters, WorkerMoves, WExit
<1>7. FirstThreadsLive'
  <2> USE <1>4 DEF FirstThreadsLive, Live, TypeOK, counters, worker
  <2>1. CASE WWake(w)
    BY <2>1 DEF WWake, MayLeave
  <2>2. CASE WExit(w)
    BY <2>2 DEF WExit
  <2>3. CASE WIdle(w) \/ WTake(w) \/ WWait(w)
    BY <2>3 DEF WIdle, WTake, WWait
  <2>4. CASE WBusy(w) \/ WDone(w) \/ WSpurious(w)
    BY <2>4 DEF WBusy, WDone, WSpurious
  <2> QED
    BY <2>1, <2>2, <2>3, <2>4 DEF Worker, WorkerEnters, WorkerMoves
<1>8. RingConsistent'
  <2>1. CASE WTake(w)
    <3>1. size \in 1..QueueMax /\ rear = (front + size) % QueueMax
      BY <2>1, <1>4 DEF WTake, RingConsistent
    <3>2. rear' = (front' + size') % QueueMax
      BY <2>1, <3>1, RingTake DEF WTake
    <3> QED
      BY <2>1, <3>1, <3>2, SizesAssumption DEF WTake, RingConsistent
  <2>2. CASE ~WTake(w)
    BY <2>2, <1>4
    DEF Worker, WorkerEnters, WorkerMoves, WIdle, WExit, WWake, WWait, WBusy, WDone,
        WSpurious, ring, flags, RingConsistent
  <2> QED
    BY <2>1, <2>2
<1>9. NoSleepOverBacklog'
  <2> USE <1>4
  <2> Heading' \in SUBSET Workers /\ Cardinality(Heading') \in Nat
    BY WorkersFinite DEF Heading
  <2>1. CASE WIdle(w) \/ WWait(w)
    <3>1. size' = 0
      BY <2>1 DEF WIdle, WWait, LoopUnderLock, ring
    <3> QED
      BY <3>1 DEF NoSleepOverBacklog
  <2>2. CASE WTake(w)
    <3>1. w \in Heading
      BY <2>2 DEF WTake, AtLoop, Heading
    <3>2. Heading' = Heading \ {w}
      BY <2>2 DEF WTake, Heading, TypeOK
    <3>3. Heading \in SUBSET Workers
      BY DEF Heading
    <3>4. Cardinality(Heading') = Cardinality(Heading) - 1
      BY <3>1, <3>2, <3>3, WorkersFinite, FS_RemoveElement
    <3>5. size' = size - 1 /\ waitNE' = waitNE
      BY <2>2 DEF WTake
    <3> QED
      BY <3>3, <3>4, <3>5, WorkersFinite DEF NoSleepOverBacklog, TypeOK
  <2>3. CASE WWake(w) \/ WBusy(w) \/ WDone(w) \/ WSpurious(w)
    <3>1. size' = size /\ waitNE' \subseteq waitNE
      BY <2>3 DEF WWake, WBusy, WDone, WSpurious, ring, sync
    <3>2. Heading \subseteq Heading'
      <4>1. CASE WWake(w)
        BY <4>1 DEF WWake, Heading, TypeOK, FirstThreadsLive, MayLeave
      <4>2. CASE WBusy(w) \/ WDone(w)
        BY <4>2 DEF WBusy, WDone, Heading, TypeOK, sync
      <4>3. CASE WSpurious(w)
        BY <4>3 DEF WSpurious, Heading, TypeOK, worker
      <4> QED
        BY <2>3, <4>1, <4>2, <4>3
    <3> QED
      BY <3>1, <3>2, <1>1, HeadingGrows
  <2> QED
    BY <2>1, <2>2, <2>3 DEF Worker, WorkerEnters, WorkerMoves, WExit
<1> QED
  BY <1>1, <1>2, <1>5, <1>6, <1>7, <1>8, <1>9

LEMMA SyncClient ==
  ASSUME SyncInv, NEW c \in Clients, Client(c)
  PROVE  SyncInv'
<1> USE DEF SyncInv
<1>1. TypeOK'
  BY TypeClient
<1>2. SleepersWait'
  BY DEF Client, AddEnters, AddMoves, AddCall, AddWait, AddInsert, AddLate, AddLateStore,
         AddLateAdvance, AddLateUnlock, AddSpurious, SleepersWait, SignalNotEmpty, sync,
         worker
<1>3. shutdown' = shutdown
  BY DEF Client, AddEnters, AddMoves, AddCall, AddWait, AddInsert, AddLate, AddLateStore,
         AddLateAdvance, AddLateUnlock, AddSpurious, flags
<1>4. SUFFICES ASSUME ~shutdown PROVE SyncInv'
  BY <1>1, <1>2, <1>3, AfterShutdown DEF TypeOK
<1>5. AddCall(c) \/ AddWait(c) \/ AddInsert(c) \/ AddSpurious(c)
  BY <1>4
  DEF Client, AddEnters, AddMoves, AddLate, AddLateStore, AddLateAdvance, AddLateUnlock,
      LateAfterShutdown
<1>6. CASE AddInsert(c)
  <2> USE <1>6, <1>4
  <2>1. RingConsistent'
    <3>1. size \in 0..QueueMax-1 /\ rear = (front + size) % QueueMax
      BY SizesAssumption DEF AddInsert, RingConsistent, QueueFull
    <3>2. rear' = (front' + size') % QueueMax
      BY <3>1, RingInsert DEF AddInsert
    <3> QED
      BY <3>1, <3>2, SizesAssumption DEF AddInsert, RingConsistent
  <2>2. LateAfterShutdown' /\ BlockedClientsSeeFullRing'
    BY DEF AddInsert, LateAfterShutdown, BlockedClientsSeeFullRing, TypeOK, flags
  <2>3. LoopUnderLock'
    <3>1. lock = Free
      BY DEF AddInsert, AtAdd
    <3>2. pc' = pc /\ lock' = lock
      BY DEF AddInsert, worker
    <3> QED
      BY <3>1, <3>2 DEF LoopUnderLock, Workers, Free
  <2>4. FirstThreadsLive'
    BY DEF AddInsert, FirstThreadsLive, Live, worker, counters
  <2>5. NoSleepOverBacklog'
    <3>1. CASE waitNE = {}
      BY <3>1 DEF AddInsert, SignalNotEmpty, NoSleepOverBacklog
    <3>2. CASE waitNE # {}
      <4>1. PICK w \in waitNE : waitNE' = waitNE \ {w}
        BY <3>2 DEF AddInsert, SignalNotEmpty
      <4>2. pc' = pc /\ pc[w] = "waiting" /\ w \in Workers
        BY DEF AddInsert, worker, SleepersWait, TypeOK
      <4>3. Heading' = Heading \cup {w} /\ w \notin Heading
        BY <4>1, <4>2 DEF Heading
      <4>4. Heading \in SUBSET Workers
        BY DEF Heading
      <4>5. Cardinality(Heading') = Cardinality(Heading) + 1
        BY <4>3, <4>4, WorkersFinite, FS_AddElement
      <4>6. size' = size + 1 /\ size <= Cardinality(Heading)
        BY <3>2 DEF AddInsert, NoSleepOverBacklog
      <4> QED
        BY <4>4, <4>5, <4>6, WorkersFinite DEF NoSleepOverBacklog, TypeOK
    <3> QED
      BY <3>1, <3>2
  <2> QED
    BY <1>1, <1>2, <2>1, <2>2, <2>3, <2>4, <2>5
<1>7. CASE AddCall(c) \/ AddWait(c) \/ AddSpurious(c)
  <2>1. /\ UNCHANGED <<ring, counters, pc, lock, waitNE, shutdown>>
        /\ waitNF' # {} => QueueFull \/ waitNF # {}
    BY <1>7
    DEF AddCall, AddWait, AddSpurious, ring, counters, worker, sync, flags
  <2>2. LateAfterShutdown'
    BY <1>7, <1>4
    DEF AddCall, AddWait, AddSpurious, LateAfterShutdown, TypeOK, client
  <2>3. Heading' = Heading
    BY <2>1 DEF Heading
  <2> QED
    BY <1>1, <1>2, <2>1, <2>2, <2>3
    DEF ring, counters, RingConsistent, LoopUnderLock, FirstThreadsLive, Live,
        NoSleepOverBacklog, BlockedClientsSeeFullRing, QueueFull
<1> QED
  BY <1>5, <1>6, <1>7

LEMMA SyncAdjust ==
  ASSUME SyncInv, Adjust
  PROVE  SyncInv'
<1> USE DEF SyncInv
<1>1. TypeOK'
  BY TypeAdjust
<1>2. /\ UNCHANGED <<ring, alive, client, lock, waitNF, shutdown>>
      /\ waitNE' \subseteq waitNE
  BY DEF Adjust, AdjustEnters, AdjustMoves, ASample, AGrow, AShrink, ACheck, ANoGrow,
         ABusy, ASignal, SignalNotEmpty, counters, sync, flags
\* Only threads that had ended or never started get a new place.
<1>3. \A w \in Workers : pc'[w] = pc[w] \/ (~Live(w) /\ pc'[w] = "acquire")
  <2>1. CASE AGrow
    BY <2>1 DEF AGrow, Filled, Vacancies, Live
  <2>2. CASE ~AGrow
    BY <2>2
    DEF Adjust, AdjustEnters, AdjustMoves, ASample, AShrink, ACheck, ANoGrow, ABusy,
        ASignal, worker
  <2> QED
    BY <2>1, <2>2
<1>4. SleepersWait'
  BY <1>2, <1>3 DEF SleepersWait, Live, TypeOK
<1>5. SUFFICES ASSUME ~shutdown PROVE SyncInv'
  BY <1>1, <1>2, <1>4, AfterShutdown DEF TypeOK
<1>6. LoopUnderLock'
  BY <1>2, <1>3, <1>5 DEF LoopUnderLock, Live, ring
<1>7. FirstThreadsLive'
  BY <1>2, <1>3, <1>5 DEF FirstThreadsLive, Live
<1>8. NoSleepOverBacklog'
  <2>1. Heading \subseteq Heading'
    BY <1>2, <1>3 DEF Heading, Live
  <2> QED
    BY <1>1, <1>2, <1>5, <2>1, HeadingGrows DEF ring
<1> QED
  BY <1>1, <1>2, <1>4, <1>6, <1>7, <1>8
  DEF ring, client, RingConsistent, LateAfterShutdown, BlockedClientsSeeFullRing, QueueFull

LEMMA SyncDestroy ==
  ASSUME SyncInv, DestroyCall \/ DestroyMoves
  PROVE  SyncInv'
<1> USE DEF SyncInv
<1>1. TypeOK'
  BY TypeDestroy
<1>2. SleepersWait'
  BY DEF DestroyCall, DestroyMoves, DestroyJoinAdjust, DestroyBroadcast, DestroyFree,
         SleepersWait, sync, worker
<1>3. shutdown'
  BY ClientsAssumption
  DEF DestroyCall, DestroyMoves, DestroyJoinAdjust, DestroyBroadcast, DestroyFree,
      LateAfterShutdown, flags, TypeOK
<1> QED
  BY <1>1, <1>2, <1>3, AfterShutdown

LEMMA SyncNext == SyncInv /\ [Next]_vars => SyncInv'
<1> SUFFICES ASSUME SyncInv, [Next]_vars PROVE SyncInv'
  OBVIOUS
<1>1. CASE UNCHANGED vars
  <2>1. TypeOK'
    BY <1>1, TypeNext DEF SyncInv
  <2>2. /\ UNCHANGED <<size, front, rear, alive, shutdown, pc, cpc, lock>>
        /\ UNCHANGED <<waitNE, waitNF>>
    BY <1>1 DEF vars, ring, counters, client, worker, sync, flags
  <2>3. Heading' = Heading
    BY <2>2 DEF Heading
  <2> QED
    BY <2>1, <2>2, <2>3
    DEF SyncInv, RingConsistent, LoopUnderLock, FirstThreadsLive, Live, LateAfterShutdown,
        SleepersWait, NoSleepOverBacklog, BlockedClientsSeeFullRing, QueueFull
<1> QED
  BY <1>1, SyncWorker, SyncClient, SyncAdjust, SyncDestroy DEF Next

-----------------------------------------------------------------------------
(* Tasks and their args                                                    *)

\* The slot of the k-th waiting task is one of those that hold one.
LEMMA PlaceIsUsed ==
  ASSUME TypeOK, size \in 0..QueueMax, NEW k \in 1..size
  PROVE  (front + (k - 1)) % QueueMax \in Used
<1>1. QueueMax \in Nat \ {0} /\ front \in 0..QueueMax-1 /\ k - 1 \in 0..QueueMax-1
  BY SizesAssumption DEF TypeOK, Slots
<1>2. /\ (front + (k - 1)) % QueueMax \in 0..QueueMax-1
      /\ Distance((front + (k - 1)) % QueueMax, front, QueueMax) = k - 1
  BY <1>1, DistanceIs
<1> QED
  BY <1>1, <1>2 DEF Distance, Used, Offset, Slots

\* The place behind the last waiting task, and only that, becomes used by an insertion.
LEMMA UsedInsert ==
  ASSUME TypeOK, size \in 0..QueueMax-1, rear = (front + size) % QueueMax,
         front' = front, size' = size + 1
  PROVE  rear \notin Used /\ Used' = Used \cup {rear}
<1>1. QueueMax \in Nat \ {0} /\ front \in 0..QueueMax-1
  BY SizesAssumption DEF TypeOK, Slots
<1>2. \A i \in Slots : Offset(i) = Distance(i, front, QueueMax)
  BY DEF Offset, Distance
<1>3. /\ rear \in Slots /\ Offset(rear) = size
      /\ \A i \in Slots : Offset(i) \in Nat /\ (Offset(i) = size => i = rear)
  BY <1>1, <1>2, DistanceIs, DistanceNext DEF Slots
<1>4. \A i \in Slots : Offset(i)' = Offset(i)
  BY DEF Offset
<1> QED
  BY <1>1, <1>3, <1>4 DEF Used, Slots

\* The place of the first waiting task, and only that, becomes free when it is taken.
LEMMA UsedTake ==
  ASSUME TypeOK, size \in 1..QueueMax, front' = NextSlot(front), size' = size - 1
  PROVE  front \in Used /\ Used' = Used \ {front}
<1>1. QueueMax \in Nat \ {0} /\ front \in 0..QueueMax-1
  BY SizesAssumption DEF TypeOK, Slots
<1>2. \A i \in Slots : /\ Offset(i) = Distance(i, front, QueueMax)
                       /\ Offset(i)' = Distance(i, NextSlot(front), QueueMax)
  BY DEF Offset, Distance
<1>3. \A i \in Slots :
        /\ Offset(i) \in Nat /\ (Offset(i) = 0 <=> i = front)
        /\ Offset(i)' = IF i = front THEN QueueMax - 1 ELSE Offset(i) - 1
  BY <1>1, <1>2, DistanceNext DEF Slots, NextSlot
<1> QED
  BY <1>1, <1>3 DEF Used, Slots

\* The waiting tasks are what lies in the ring from the front on.
LEMMA PendingIsSeq ==
  ASSUME TypeOK, size \in 0..QueueMax
  PROVE  /\ Len(Pending) = size
         /\ \A k \in 1..size : Pending[k] = slot[(front + (k - 1)) % QueueMax]
<1>1. Pending = RingSeq(slot, front, size, QueueMax)
  BY DEF Pending, RingSeq
<1>2. QueueMax \in Nat \ {0} /\ front \in 0..QueueMax-1 /\ size \in Nat
  BY SizesAssumption DEF TypeOK, Slots
<1>3. Len(Pending) = size
  BY <1>1, <1>2, RingSeqLen
<1>4. \A k \in 1..size : Pending[k] = slot[(front + (k - 1)) % QueueMax]
  BY <1>1, <1>2, RingSeqEntry
<1> QED
  BY <1>3, <1>4

LEMMA ArgsInit == Init => ArgsKept
<1> SUFFICES ASSUME Init PROVE ArgsKept
  OBVIOUS
<1>1. Used = {}
  BY SizesAssumption DEF Init, Used, Offset, Slots
<1>2. Adding = {}
  BY DEF Init, Adding
<1> QED
  BY <1>1, <1>2 DEF Init, ArgsKept

\* A step that moves no task keeps them where they are.
LEMMA ArgsStutter ==
  ASSUME ArgsKept, UNCHANGED <<slot, front, size, cur, next, begun, freed, shutdown>>,
         Adding' = Adding
  PROVE  ArgsKept'
<1>1. Used' = Used
  BY DEF Used, Offset
<1> QED
  BY <1>1 DEF ArgsKept

LEMMA ArgsNext == SyncInv /\ ArgsKept /\ [Next]_vars => ArgsKept'
<1> SUFFICES ASSUME SyncInv, ArgsKept, [Next]_vars PROVE ArgsKept'
  OBVIOUS
<1> USE DEF SyncInv
<1>1. CASE UNCHANGED vars
  BY <1>1, ArgsStutter DEF vars, ring, client, flags, history, Adding
<1>2. ASSUME NEW w \in Workers, Worker(w)
      PROVE  ArgsKept'
  <2>1. CASE WTake(w)
    <3> USE <2>1 DEF WTake
    <3>1. size \in 1..QueueMax
      BY DEF RingConsistent
    <3>2. front \in Used /\ Used' = Used \ {front}
      BY <3>1, UsedTake
    <3>3. Adding' = Adding
      BY DEF Adding, client
    <3>4. Used \subseteq Slots
      BY DEF Used
    <3>5. UNCHANGED <<slot, cur, next, freed, shutdown>>
      BY DEF client, flags
    <3> QED
      BY <3>2, <3>3, <3>4, <3>5 DEF ArgsKept
  <2>2. CASE ~WTake(w)
    <3>1. UNCHANGED <<slot, front, size, cur, cpc, next, begun, freed, shutdown>>
      BY <1>2, <2>2
      DEF Worker, WorkerEnters, WorkerMoves, WIdle, WExit, WWake, WWait, WBusy, WDone,
          WSpurious, ring, client, flags, history
    <3> QED
      BY <3>1, ArgsStutter DEF Adding
  <2> QED
    BY <2>1, <2>2
<1>3. ASSUME NEW c \in Clients, Client(c)
      PROVE  ArgsKept'
  <2>1. shutdown' = shutdown
    BY <1>3
    DEF Client, AddEnters, AddMoves, AddCall, AddWait, AddInsert, AddLate, AddLateStore,
        AddLateAdvance, AddLateUnlock, AddSpurious, flags
  <2>2. SUFFICES ASSUME ~shutdown PROVE ArgsKept'
    BY <2>1 DEF ArgsKept
  <2>3. CASE AddCall(c)
    <3> USE <2>3 DEF AddCall
    <3>1. UNCHANGED <<slot, front, size, begun, freed>> /\ Used' = Used
      BY DEF ring, history, Used, Offset
    <3>2. c \notin Adding /\ Adding' = Adding \cup {c}
      BY DEF Adding, TypeOK
    <3>3. cur'[c] = next /\ \A d \in Adding : cur'[d] = cur[d]
      BY <3>2 DEF TypeOK, Adding
    <3>4. next' = next + 1 /\ next \in Nat \ {0}
      BY DEF TypeOK
    <3>5. begun \subseteq 1..next-1
      BY <2>2 DEF ArgsKept
    <3>6. \A i \in Used : slot[i] \in (1..next'-1) \ begun /\ slot[i] # next
      BY <2>2, <3>4 DEF ArgsKept
    <3>7. \A d \in Adding : cur[d] \in (1..next'-1) \ begun /\ cur[d] # next
      BY <2>2, <3>4 DEF ArgsKept
    <3>8. next \in (1..next'-1) \ begun /\ begun \subseteq 1..next'-1
      BY <3>4, <3>5
    <3> QED
      BY <2>2, <3>1, <3>2, <3>3, <3>6, <3>7, <3>8 DEF ArgsKept
  <2>4. CASE AddInsert(c)
    <3> USE <2>4 DEF AddInsert
    <3>1. size \in 0..QueueMax-1 /\ rear = (front + size) % QueueMax
      BY <2>2, SizesAssumption DEF RingConsistent, QueueFull
    <3>2. rear \notin Used /\ Used' = Used \cup {rear}
      BY <3>1, UsedInsert
    <3>3. c \in Adding /\ Adding' = Adding \ {c}
      BY DEF Adding, AtAdd, TypeOK
    <3>4. \A d \in Adding' : cur'[d] = cur[d] /\ d \in Adding
      BY <3>3 DEF TypeOK, Adding
    <3>5. /\ rear \in Slots /\ Used \subseteq Slots
          /\ slot'[rear] = cur[c] /\ \A i \in Slots \ {rear} : slot'[i] = slot[i]
      BY DEF StoreAtRear, TypeOK, Used
    <3>6. freed' \subseteq begun \cup {Garbage}
      BY <2>2, <3>2, <3>5 DEF StoreAtRear, ArgsKept
    <3>7. begun' = begun /\ next' = next
      OBVIOUS
    <3> QED
      BY <2>2, <3>2, <3>3, <3>4, <3>5, <3>6, <3>7 DEF ArgsKept
  <2>5. CASE AddWait(c) \/ AddSpurious(c)
    BY <2>5, ArgsStutter DEF AddWait, AddSpurious, ring, client, flags, history, Adding
  <2>6. CASE AddLate(c) \/ AddMoves(c)
    BY <2>2, <2>6
    DEF AddLate, AddMoves, AddLateStore, AddLateAdvance, AddLateUnlock, LateAfterShutdown
  <2> QED
    BY <1>3, <2>3, <2>4, <2>5, <2>6 DEF Client, AddEnters
<1>4. ASSUME Adjust
      PROVE  ArgsKept'
  <2>1. UNCHANGED <<slot, front, size, cur, cpc, next, begun, freed, shutdown>>
    BY <1>4
    DEF Adjust, AdjustEnters, AdjustMoves, ASample, AGrow, AShrink, ACheck, ANoGrow,
        ABusy, ASignal, ring, client, flags, history
  <2> QED
    BY <2>1, ArgsStutter DEF Adding
<1>5. ASSUME DestroyCall \/ DestroyMoves
      PROVE  ArgsKept'
  <2>1. shutdown'
    BY <1>5, ClientsAssumption
    DEF DestroyCall, DestroyMoves, DestroyJoinAdjust, DestroyBroadcast, DestroyFree,
        LateAfterShutdown, flags, TypeOK
  <2> QED
    BY <2>1 DEF ArgsKept
<1> QED
  BY <1>1, <1>2, <1>3, <1>4, <1>5 DEF Next

LEMMA IInvInit == Init => IInv
BY SyncInit, ArgsInit DEF IInv

LEMMA IInvNext == IInv /\ [Next]_vars => IInv'
BY SyncNext, ArgsNext DEF IInv

\* The inductive invariant holds throughout.
THEOREM InductiveInvariant == Spec => []IInv
BY IInvInit, IInvNext, PTL DEF Spec

-----------------------------------------------------------------------------
(* What follows                                                            *)

\* A worker never sleeps while more tasks wait than workers are on their way:
\* the signal of threadpool_add is enough, whatever the numbers of threads,
\* clients and slots and whoever else wakes up.
THEOREM SignalsSuffice == Spec => []NoSleepOverBacklog
<1>1. IInv => NoSleepOverBacklog
  BY DEF IInv, SyncInv
<1> QED
  BY <1>1, InductiveInvariant, PTL

\* A client of threadpool_add never sleeps over a ring that has room.
THEOREM BroadcastSuffices == Spec => []BlockedClientsSeeFullRing
<1>1. IInv => BlockedClientsSeeFullRing
  BY DEF IInv, SyncInv
<1> QED
  BY <1>1, InductiveInvariant, PTL

\* The pool keeps pthread_min_num threads until it is shut down.
THEOREM KeepsMinThreads == Spec => []AtLeastMinThreads
<1>1. IInv => AtLeastMinThreads
  <2> SUFFICES ASSUME IInv, ~shutdown
               PROVE  Cardinality({w \in Workers : Live(w)}) >= MinThreads
    BY DEF AtLeastMinThreads
  <2> DEFINE alives == {w \in Workers : Live(w)}
  <2>1. 0..MinThreads-1 \subseteq alives
    BY SizesAssumption DEF IInv, SyncInv, FirstThreadsLive, Workers
  <2>2. IsFiniteSet(alives) /\ Cardinality(alives) \in Nat
    BY WorkersFinite
  <2>3. Cardinality(0..MinThreads-1) = MinThreads
    BY FS_Interval, SizesAssumption
  <2>4. Cardinality(0..MinThreads-1) <= Cardinality(alives)
    BY <2>1, <2>2, FS_Subset
  <2> QED
    BY <2>2, <2>3, <2>4, SizesAssumption
<1> QED
  BY <1>1, InductiveInvariant, PTL

\* threadpool_add never frees the args of a task that still waits, whatever it finds
\* in the slot it overwrites.
THEOREM WaitingArgsKept == Spec => []PendingArgsIntact
<1>1. IInv => PendingArgsIntact
  <2> SUFFICES ASSUME IInv, ~shutdown, NEW k \in 1..size
               PROVE  Pending[k] \notin freed
    BY DEF PendingArgsIntact
  <2> DEFINE place == (front + (k - 1)) % QueueMax
  <2>1. TypeOK /\ size \in 0..QueueMax
    BY DEF IInv, SyncInv, RingConsistent
  <2>2. Pending[k] = slot[place] /\ place \in Used
    BY <2>1, PendingIsSeq, PlaceIsUsed
  <2> HIDE DEF place
  <2>3. slot[place] \in (1..next-1) \ begun /\ freed \subseteq begun \cup {Garbage}
    BY <2>2 DEF IInv, ArgsKept
  <2>4. Garbage \notin 1..next-1
    BY <2>1 DEF Garbage, TypeOK
  <2> QED
    BY <2>2, <2>3, <2>4
<1> QED
  BY <1>1, InductiveInvariant, PTL

-----------------------------------------------------------------------------
(* The pool is a bounded queue                                             *)

\* Without a change of the ring nothing happens to the queue.
LEMMA PendingStutter ==
  ASSUME UNCHANGED <<slot, front, size>>
  PROVE  Pending' = Pending
BY DEF Pending

\* The queue that is left when a client has stored its task.
LEMMA PendingInsert ==
  ASSUME IInv, ~shutdown, NEW c \in Clients, AddInsert(c)
  PROVE  Pending' = Append(Pending, cur[c]) /\ size < QueueMax
<1>1. QueueMax \in Nat \ {0} /\ front \in 0..QueueMax-1 /\ size \in 0..QueueMax-1
  BY SizesAssumption DEF IInv, SyncInv, RingConsistent, AddInsert, QueueFull, TypeOK, Slots
<1>2. rear = (front + size) % QueueMax
  BY DEF IInv, SyncInv, RingConsistent
<1>3. size' = size + 1 /\ front' = front
  BY DEF AddInsert, StoreAtRear
<1>4. \A i \in 0..QueueMax-1 : i # rear => slot'[i] = slot[i]
  BY DEF AddInsert, StoreAtRear, IInv, SyncInv, TypeOK, Slots
<1>5. slot'[rear] = cur[c]
  BY DEF AddInsert, StoreAtRear, IInv, SyncInv, TypeOK
<1>6. RingSeq(slot', front, size', QueueMax)
        = Append(RingSeq(slot, front, size, QueueMax), slot'[rear])
  BY <1>1, <1>2, <1>3, <1>4, RingSeqAppend
<1>7. /\ Pending = RingSeq(slot, front, size, QueueMax)
      /\ Pending' = RingSeq(slot', front, size', QueueMax)
  BY <1>3 DEF Pending, RingSeq
<1> QED
  BY <1>1, <1>5, <1>6, <1>7

\* The queue that is left when a worker has taken the first task.
LEMMA PendingTake ==
  ASSUME IInv, NEW w \in Workers, WTake(w)
  PROVE  Pending # <<>> /\ Head(Pending) = slot[front] /\ Pending' = Tail(Pending)
<1>1. /\ QueueMax \in Nat \ {0} /\ front \in 0..QueueMax-1 /\ size \in 1..QueueMax
  BY SizesAssumption DEF IInv, SyncInv, RingConsistent, WTake, TypeOK, Slots
<1>2. front' = (front + 1) % QueueMax /\ size' = size - 1 /\ slot' = slot
  BY DEF WTake, NextSlot
<1>3. /\ Pending = RingSeq(slot, front, size, QueueMax)
      /\ Pending' = RingSeq(slot, front', size', QueueMax)
  BY <1>2 DEF Pending, RingSeq
<1>4. \A i \in 0..QueueMax-1 : i # front => slot[i] = slot[i]
  OBVIOUS
<1>5. RingSeq(slot, front, size, QueueMax) # <<>>
  BY <1>1, <1>2, <1>4, RingSeqTail
<1>6. Head(RingSeq(slot, front, size, QueueMax)) = slot[front]
  BY <1>1, <1>2, <1>4, RingSeqTail
<1>7. RingSeq(slot, front', size', QueueMax) = Tail(RingSeq(slot, front, size, QueueMax))
  BY <1>1, <1>2, <1>4, RingSeqTail
<1> QED
  BY <1>3, <1>5, <1>6, <1>7

\* Until it is shut down the pool is the queue of TaskQueue: every insertion puts a
\* task that was not there before, every task that a worker takes is the oldest one,
\* and no other step touches the queue.
THEOREM PoolIsTaskQueue == Spec => ImplementsTaskQueue
<1>1. Init => Abs!Init
  BY DEF Init, Abs!Init, Pending
<1>2. IInv /\ IInv' /\ [Next]_vars => [Abs!Next]_(Abs!vars)
  <2> SUFFICES ASSUME IInv, IInv', [Next]_vars PROVE [Abs!Next]_(Abs!vars)
    OBVIOUS
  \* A step that leaves the ring, begun and shutdown alone is no step of the queue.
  <2>1. ASSUME UNCHANGED <<slot, front, size, begun, shutdown>>
        PROVE  UNCHANGED Abs!vars
    BY <2>1, PendingStutter DEF Abs!vars
  <2>2. ASSUME shutdown, shutdown', begun' = begun
        PROVE  UNCHANGED Abs!vars
    BY <2>2 DEF Abs!vars
  <2>3. CASE UNCHANGED vars
    BY <2>1, <2>3 DEF vars, ring, flags, history
  <2>4. ASSUME NEW w \in Workers, Worker(w)
        PROVE  [Abs!Next]_(Abs!vars)
    <3>1. CASE WTake(w)
      <4>1. ~shutdown /\ ~shutdown'
        BY <3>1 DEF WTake, flags
      <4>2. Abs!Get
        BY <3>1, <4>1, PendingTake DEF WTake, Abs!Get, flags
      <4> QED
        BY <4>2 DEF Abs!Next
    <3>2. CASE ~WTake(w)
      BY <2>1, <2>4, <3>2
      DEF Worker, WorkerEnters, WorkerMoves, WIdle, WExit, WWake, WWait, WBusy, WDone,
          WSpurious, ring, flags, history
    <3> QED
      BY <3>1, <3>2
  <2>5. ASSUME NEW c \in Clients, Client(c)
        PROVE  [Abs!Next]_(Abs!vars)
    <3>1. shutdown' = shutdown /\ begun' = begun
      BY <2>5
      DEF Client, AddEnters, AddMoves, AddCall, AddWait, AddInsert, AddLate,
          AddLateStore, AddLateAdvance, AddLateUnlock, AddSpurious, flags, history
    <3>2. CASE shutdown
      BY <2>2, <3>1, <3>2
    <3>3. CASE ~shutdown /\ AddInsert(c)
      <4>1. Pending' = Append(Pending, cur[c]) /\ size < QueueMax
        BY <3>3, PendingInsert
      <4>2. TypeOK /\ size \in 0..QueueMax /\ Len(Pending) = size
        BY <3>3, PendingIsSeq DEF IInv, SyncInv, RingConsistent
      <4>3. c \in Adding
        BY <3>3 DEF AddInsert, AtAdd, Adding
      <4>4. cur[c] \in Tasks /\ cur[c] \notin begun
        BY <3>3, <4>2, <4>3 DEF IInv, ArgsKept, TypeOK, Null
      <4>5. \A k \in 1..Len(Pending) : Pending[k] # cur[c]
        BY <3>3, <4>2, <4>3, PlaceIsUsed, PendingIsSeq DEF IInv, ArgsKept
      <4>6. Abs!Put(cur[c])
        BY <3>1, <3>3, <4>1, <4>2, <4>4, <4>5 DEF Abs!Put
      <4> QED
        BY <4>4, <4>6 DEF Abs!Next
    <3>4. CASE ~shutdown /\ ~AddInsert(c)
      <4>1. AddCall(c) \/ AddWait(c) \/ AddSpurious(c)
        BY <2>5, <3>4
        DEF Client, AddEnters, AddMoves, AddLate, AddLateStore, AddLateAdvance,
            AddLateUnlock, IInv, SyncInv, LateAfterShutdown
      <4> QED
        BY <2>1, <4>1 DEF AddCall, AddWait, AddSpurious, ring, flags, history
    <3> QED
      BY <3>2, <3>3, <3>4
  <2>6. ASSUME Adjust
        PROVE  [Abs!Next]_(Abs!vars)
    BY <2>1, <2>6
    DEF Adjust, AdjustEnters, AdjustMoves, ASample, AGrow, AShrink, ACheck, ANoGrow,
        ABusy, ASignal, ring, flags, history
  <2>7. ASSUME DestroyCall
        PROVE  [Abs!Next]_(Abs!vars)
    <3>1. shutdown' /\ begun' = begun
      BY <2>7 DEF DestroyCall, history
    <3>2. CASE shutdown
      BY <2>2, <3>1, <3>2
    <3>3. CASE ~shutdown
      <4>1. Abs!Close
        BY <2>7, <3>1, <3>3 DEF Abs!Close, DestroyCall
      <4> QED
        BY <4>1 DEF Abs!Next
    <3> QED
      BY <3>2, <3>3
  <2>8. ASSUME DestroyMoves
        PROVE  [Abs!Next]_(Abs!vars)
    BY <2>1, <2>8
    DEF DestroyMoves, DestroyJoinAdjust, DestroyBroadcast, DestroyFree, ring, flags, history
  <2> QED
    BY <2>3, <2>4, <2>5, <2>6, <2>7, <2>8 DEF Next
<1> QED
  BY <1>1, <1>2, InductiveInvariant, PTL DEF Spec, ImplementsTaskQueue, Abs!Spec

=============================================================================
