--------------------------- MODULE CounterProofs ---------------------------
(***************************************************************************)
(* Proofs about the programs of CriticalSections, for any number of        *)
(* rounds, and of threads where the program has more than two: SharedCounter *)
(* (with and without its mutex), ReadWriteLock, ProcessMutex and FileLock. *)
(***************************************************************************)
EXTENDS CriticalSections, FiniteSetTheorems, TLAPS

CONSTANTS t1, t2, Readers, Parent, Child
VARIABLES forked, valid, ended

Open    == INSTANCE SharedCounter WITH Locked <- FALSE
Mutex   == INSTANCE SharedCounter WITH Locked <- TRUE
RwLock  == INSTANCE ReadWriteLock
Process == INSTANCE ProcessMutex
File    == INSTANCE FileLock

-----------------------------------------------------------------------------
(* Sums over finite sets                                                   *)

\* Induction over the subsets of a finite set: a set of subsets that contains each one
\* whose strict subsets it contains has all of them.
LEMMA SubsetInduction ==
  ASSUME NEW S, IsFiniteSet(S), NEW G \in SUBSET (SUBSET S),
         \A T \in SUBSET S : (\A U \in SUBSET T : U # T => U \in G) => T \in G
  PROVE  G = SUBSET S
<1> SUFFICES ASSUME G # SUBSET S PROVE FALSE
  OBVIOUS
<1> DEFINE Bad == (SUBSET S) \ G
<1>1. IsWellFoundedOn(StrictSubsetOrdering(S), SUBSET S)
  <2>1. FiniteSubsetsOf(S) = SUBSET S
    BY FS_FiniteSubsetsOfFinite
  <2>2. IsWellFoundedOn(StrictSubsetOrdering(S), FiniteSubsetsOf(S))
    BY FS_StrictSubsetOrderingWellFounded
  <2> QED
    BY <2>1, <2>2
<1>2. PICK T \in Bad : \A U \in Bad : <<U, T>> \notin StrictSubsetOrdering(S)
  <2>1. Bad # {} /\ Bad \subseteq SUBSET S
    OBVIOUS
  <2> HIDE DEF Bad
  <2>2. \A R : IsWellFoundedOn(R, SUBSET S) => \E x \in Bad : \A y \in Bad : <<y, x>> \notin R
    BY <2>1, WFMin
  <2> QED
    BY <1>1, <2>2
<1>3. ASSUME NEW U \in SUBSET T, U # T
      PROVE  U \in G
  BY <1>2, <1>3 DEF StrictSubsetOrdering
<1> QED
  BY <1>2, <1>3


\* What MapThenSumSet computes over the subsets of a set, taking out one element after
\* the other.
Pick(s) == CHOOSE x \in s : TRUE

IsSum(g, f, S) ==
  g = [s \in SUBSET S |-> IF s = {} THEN 0 ELSE f[Pick(s)] + g[s \ {Pick(s)}]]

Without(s) == s \ {Pick(s)}

LEMMA PickOne ==
  ASSUME NEW s, s # {}
  PROVE  Pick(s) \in s /\ Without(s) \in SUBSET s /\ Without(s) # s
BY DEF Pick, Without

LEMMA SumValue ==
  ASSUME NEW S, NEW f, NEW g, IsSum(g, f, S), NEW s \in SUBSET S
  PROVE  g[s] = IF s = {} THEN 0 ELSE f[Pick(s)] + g[Without(s)]
BY DEF IsSum, Without

\* It is the same for a set and for those it is a subset of.
LEMMA SumUnique ==
  ASSUME NEW S, IsFiniteSet(S), NEW f, NEW T, NEW g, NEW h,
         S \subseteq T, IsSum(g, f, T), IsSum(h, f, S)
  PROVE  g[S] = h[S]
<1> DEFINE G == {s \in SUBSET S : g[s] = h[s]}
<1>1. ASSUME NEW s \in SUBSET S, \A u \in SUBSET s : u # s => u \in G
      PROVE  s \in G
  <2>1. s \in SUBSET T
    OBVIOUS
  <2>2. s # {} => g[Without(s)] = h[Without(s)]
    BY <1>1, PickOne
  <2> QED
    BY <2>1, <2>2, SumValue
<1>2. G = SUBSET S
  <2> HIDE DEF G
  <2>1. G \in SUBSET (SUBSET S)
    BY DEF G
  <2> QED
    BY <1>1, <2>1, SubsetInduction
<1> QED
  BY <1>2

LEMMA SumExists ==
  ASSUME NEW S, IsFiniteSet(S), NEW f
  PROVE  \E g : IsSum(g, f, S)
<1> DEFINE G == {s \in SUBSET S : \E g : IsSum(g, f, s)}
<1>1. ASSUME NEW T \in SUBSET S, \A u \in SUBSET T : u # T => u \in G
      PROVE  T \in G
  <2> DEFINE h(u) == CHOOSE g : IsSum(g, f, u)
             g == [s \in SUBSET T |-> IF s = {} THEN 0 ELSE f[Pick(s)] + h(Without(s))[Without(s)]]
  <2>1. ASSUME NEW u \in SUBSET T, u # T
        PROVE  IsSum(h(u), f, u)
    BY <1>1, <2>1
  <2> HIDE DEF h
  <2>2. ASSUME NEW u \in SUBSET T, u # T
        PROVE  g[u] = h(u)[u]
    <3>1. CASE u = {}
      BY <2>1, <2>2, <3>1, SumValue
    <3>2. CASE u # {}
      <4>1. Without(u) \in SUBSET T /\ Without(u) # T /\ Without(u) \subseteq u
        BY <2>2, <3>2, PickOne
      <4>2. IsFiniteSet(Without(u))
        BY <4>1, FS_Subset
      <4>3. IsSum(h(u), f, u) /\ IsSum(h(Without(u)), f, Without(u))
        BY <2>1, <2>2, <4>1
      <4>4. h(u)[Without(u)] = h(Without(u))[Without(u)]
        BY <4>1, <4>2, <4>3, SumUnique
      <4>5. h(u)[u] = f[Pick(u)] + h(u)[Without(u)]
        BY <3>2, <4>3, SumValue
      <4>6. g[u] = f[Pick(u)] + h(Without(u))[Without(u)]
        BY <3>2
      <4> QED
        BY <4>4, <4>5, <4>6
    <3> QED
      BY <3>1, <3>2
  <2>3. g = [s \in SUBSET T |-> IF s = {} THEN 0 ELSE f[Pick(s)] + g[s \ {Pick(s)}]]
    <3>1. ASSUME NEW s \in SUBSET T, s # {}
          PROVE  g[s] = f[Pick(s)] + g[s \ {Pick(s)}]
      <4>1. Without(s) \in SUBSET T /\ Without(s) # T
        BY <3>1, PickOne
      <4>2. g[Without(s)] = h(Without(s))[Without(s)]
        BY <2>2, <4>1
      <4>3. g[s] = f[Pick(s)] + h(Without(s))[Without(s)]
        BY <3>1
      <4> HIDE DEF g
      <4> QED
        BY <4>2, <4>3 DEF Without
    <3>2. {} \in SUBSET T => g[{}] = 0
      OBVIOUS
    <3>3. \A s \in SUBSET T :
            g[s] = IF s = {} THEN 0 ELSE f[Pick(s)] + g[s \ {Pick(s)}]
      <4> HIDE DEF g
      <4> QED
        BY <3>1, <3>2
    <3>4. \E F : g = [s \in SUBSET T |-> F[s]]
      <4> DEFINE F == [s \in SUBSET T |-> IF s = {} THEN 0 ELSE f[Pick(s)] + h(Without(s))[Without(s)]]
      <4>1. g = [s \in SUBSET T |-> F[s]]
        OBVIOUS
      <4> QED
        BY <4>1
    <3> HIDE DEF g
    <3> QED
      BY <3>3, <3>4
  <2> HIDE DEF g
  <2>4. IsSum(g, f, T)
    BY <2>3 DEF IsSum
  <2> QED
    BY <2>4
<1>2. G = SUBSET S
  <2> HIDE DEF G
  <2>1. G \in SUBSET (SUBSET S)
    BY DEF G
  <2> QED
    BY <1>1, <2>1, SubsetInduction
<1> QED
  BY <1>2

\* When one of the summands grows by k, so does the sum.
GrowsAt(f, e, t, k, S) == \A s \in S : f[s] \in Int /\ e[s] = IF s = t THEN f[s] + k ELSE f[s]

LEMMA SumGrows ==
  ASSUME NEW S, IsFiniteSet(S), NEW f, NEW e, NEW t \in S, NEW k \in Int,
         GrowsAt(f, e, t, k, S), NEW g, NEW h, IsSum(g, f, S), IsSum(h, e, S)
  PROVE  h[S] = g[S] + k
<1> DEFINE G == {s \in SUBSET S : g[s] \in Int /\ h[s] = IF t \in s THEN g[s] + k ELSE g[s]}
<1>1. ASSUME NEW s \in SUBSET S, \A u \in SUBSET s : u # s => u \in G
      PROVE  s \in G
  <2>1. CASE s = {}
    <3>1. g[s] = 0 /\ h[s] = 0
      BY <2>1, SumValue
    <3> QED
      BY <2>1, <3>1
  <2>2. CASE s # {}
    <3>1. Pick(s) \in s /\ Without(s) \in G /\ (t \in Without(s) <=> t \in s /\ t # Pick(s))
      BY <1>1, <2>2, PickOne DEF Without
    <3>2. g[s] = f[Pick(s)] + g[Without(s)] /\ h[s] = e[Pick(s)] + h[Without(s)]
      BY <2>2, SumValue
    <3>3. f[Pick(s)] \in Int /\ e[Pick(s)] = IF Pick(s) = t THEN f[Pick(s)] + k ELSE f[Pick(s)]
      BY <3>1 DEF GrowsAt
    <3> QED
      BY <3>1, <3>2, <3>3
  <2> QED
    BY <2>1, <2>2
<1>2. G = SUBSET S
  <2> HIDE DEF G
  <2>1. G \in SUBSET (SUBSET S)
    BY DEF G
  <2> QED
    BY <1>1, <2>1, SubsetInduction
<1> QED
  BY <1>2

Total(f, S) == (CHOOSE g : IsSum(g, f, S))[S]

LEMMA TotalGrows ==
  ASSUME NEW S, IsFiniteSet(S), NEW f, NEW e, NEW t \in S, NEW k \in Int, GrowsAt(f, e, t, k, S)
  PROVE  Total(e, S) = Total(f, S) + k
<1> DEFINE g == CHOOSE x : IsSum(x, f, S)
           h == CHOOSE x : IsSum(x, e, S)
<1>1. IsSum(g, f, S) /\ IsSum(h, e, S)
  BY SumExists
<1> HIDE DEF g, h
<1>2. h[S] = g[S] + k
  BY <1>1, SumGrows
<1> QED
  BY <1>2 DEF Total, g, h

LEMMA TotalZero ==
  ASSUME NEW S, IsFiniteSet(S), NEW f, \A t \in S : f[t] = 0
  PROVE  Total(f, S) = 0
<1> DEFINE g == CHOOSE x : IsSum(x, f, S)
           G == {s \in SUBSET S : g[s] = 0}
<1>1. IsSum(g, f, S)
  BY SumExists
<1> HIDE DEF g
<1>2. ASSUME NEW s \in SUBSET S, \A u \in SUBSET s : u # s => u \in G
      PROVE  s \in G
  BY <1>1, <1>2, PickOne, SumValue
<1>3. G = SUBSET S
  <2> HIDE DEF G
  <2>1. G \in SUBSET (SUBSET S)
    BY DEF G
  <2> QED
    BY <1>2, <2>1, SubsetInduction
<1> QED
  BY <1>3 DEF Total, g

-----------------------------------------------------------------------------
(* Threads that take the lock and give it back                             *)

\* The lock is with the thread that is inside, and with nobody else.
LockHeld ==
  /\ \A t \in Threads : Inside(t) <=> t \in holders
  /\ \A t, u \in holders : t = u

\* Who is inside has a round to finish.
RoundsLeft == \A t \in Threads : Inside(t) => done[t] < Rounds

\* Their common invariant.
CSInv == CSTypeOK /\ RoundsLeft /\ LockHeld /\ LoadIsCurrent

LEMMA CSInitInv == CSInit => CSInv
BY RoundsAssumption DEF CSInit, CSInv, CSTypeOK, RoundsLeft, LockHeld, LoadIsCurrent, Inside

LEMMA LockedEnterStep ==
  ASSUME CSInv, NEW t \in Threads, LockedEnter(t)
  PROVE  CSInv'
<1>1. CSTypeOK'
  BY DEF CSInv, CSTypeOK, LockedEnter, Enter, Acquire
<1>2. LockHeld'
  BY DEF CSInv, CSTypeOK, LockHeld, Inside, LockedEnter, Enter, Acquire
<1>3. LoadIsCurrent'
  BY DEF CSInv, CSTypeOK, LoadIsCurrent, LockedEnter, Enter, Acquire
<1>5. RoundsLeft'
  BY RoundsAssumption DEF CSInv, CSTypeOK, RoundsLeft, LockHeld, Inside, LockedEnter, Enter
<1> QED
  BY <1>1, <1>2, <1>3, <1>5 DEF CSInv

LEMMA LoadStep ==
  ASSUME CSInv, NEW t \in Threads, Load(t)
  PROVE  CSInv'
<1>1. CSTypeOK'
  BY DEF CSInv, CSTypeOK, Load
<1>2. LockHeld'
  BY DEF CSInv, CSTypeOK, LockHeld, Inside, Load
<1>3. LoadIsCurrent'
  BY DEF CSInv, CSTypeOK, LoadIsCurrent, Load
<1>5. RoundsLeft'
  BY RoundsAssumption DEF CSInv, CSTypeOK, RoundsLeft, LockHeld, Inside, Load
<1> QED
  BY <1>1, <1>2, <1>3, <1>5 DEF CSInv

LEMMA StoreStep ==
  ASSUME CSInv, NEW t \in Threads, NEW k \in Nat, Store(t, k)
  PROVE  CSInv' /\ num' = num + k
<1>1. num' = num + k
  BY DEF CSInv, LoadIsCurrent, Store
<1>2. CSTypeOK'
  BY <1>1 DEF CSInv, CSTypeOK, Store
<1>3. LockHeld'
  BY DEF CSInv, CSTypeOK, LockHeld, Inside, Store
<1>4. LoadIsCurrent'
  BY DEF CSInv, CSTypeOK, LockHeld, Inside, LoadIsCurrent, Store
<1>5. RoundsLeft'
  BY RoundsAssumption DEF CSInv, CSTypeOK, RoundsLeft, LockHeld, Inside, Store
<1> QED
  BY <1>1, <1>2, <1>3, <1>4, <1>5 DEF CSInv

LEMMA LeaveStep ==
  ASSUME CSInv, NEW t \in Threads, Leave(t)
  PROVE  CSInv'
<1>1. CSTypeOK'
  BY RoundsAssumption DEF CSInv, CSTypeOK, RoundsLeft, Inside, Leave, Release
<1>2. LockHeld'
  BY DEF CSInv, CSTypeOK, LockHeld, Inside, Leave, Release
<1>3. LoadIsCurrent'
  BY DEF CSInv, CSTypeOK, LoadIsCurrent, Leave
<1>5. RoundsLeft'
  BY RoundsAssumption DEF CSInv, CSTypeOK, RoundsLeft, LockHeld, Inside, Leave
<1> QED
  BY <1>1, <1>2, <1>3, <1>5 DEF CSInv

LEMMA CSExclusive == CSInv => Exclusive
BY DEF CSInv, LockHeld, Exclusive

-----------------------------------------------------------------------------
(* 02thread_sync_lock_mutex.c                                              *)

\* What is not counted yet are the stores that are done.
MutexInv == CSInv /\ num = Mutex!Stored(t1) + Mutex!Stored(t2)

\* Its steps are those of CriticalSections.
LEMMA MutexSteps ==
  /\ Mutex!Init => CSInit
  /\ \A t \in Threads : Mutex!Go(t) => LockedEnter(t) \/ Load(t) \/ Store(t, 1) \/ Leave(t)
<1>1. Mutex!Init => CSInit
  BY DEF Mutex!Init, Mutex!CSInit, CSInit
<1>2. ASSUME NEW t \in Threads, Mutex!Go(t)
      PROVE  LockedEnter(t) \/ Load(t) \/ Store(t, 1) \/ Leave(t)
  BY <1>2
  DEF Mutex!Go, Mutex!LockedEnter, Mutex!Enter, Mutex!Acquire, Mutex!Load, Mutex!Store,
      Mutex!Leave, Mutex!Release, LockedEnter, Enter, Acquire, Load, Store, Leave, Release
<1> QED
  BY <1>1, <1>2

LEMMA MutexInitInv == Mutex!TwoThreads /\ Mutex!Init => MutexInv
<1> SUFFICES ASSUME Mutex!TwoThreads, Mutex!Init PROVE MutexInv
  OBVIOUS
<1>1. CSInv
  BY CSInitInv, MutexSteps
<1>2. num = 0 /\ Mutex!Stored(t1) = 0 /\ Mutex!Stored(t2) = 0
  BY MutexSteps DEF Mutex!TwoThreads, CSInit, Mutex!Stored
<1> QED
  BY <1>1, <1>2 DEF MutexInv

LEMMA MutexNextInv == Mutex!TwoThreads /\ MutexInv /\ [Mutex!Next]_(Mutex!csVars) => MutexInv'
<1> SUFFICES ASSUME Mutex!TwoThreads, MutexInv, [Mutex!Next]_(Mutex!csVars) PROVE MutexInv'
  OBVIOUS
<1>1. CASE UNCHANGED Mutex!csVars
  BY <1>1 DEF Mutex!csVars, MutexInv, CSInv, CSTypeOK, RoundsLeft, LockHeld, LoadIsCurrent, Inside,
              Mutex!Stored
<1>2. ASSUME NEW t \in Threads, Mutex!Go(t)
      PROVE  MutexInv'
  <2>1. t1 \in Threads /\ t2 \in Threads /\ t1 # t2 /\ (t = t1 \/ t = t2)
    BY DEF Mutex!TwoThreads
  <2>2. CASE LockedEnter(t)
    <3>1. CSInv'
      BY <2>2, LockedEnterStep DEF MutexInv
    <3>2. num' = num /\ Mutex!Stored(t1)' = Mutex!Stored(t1) /\ Mutex!Stored(t2)' = Mutex!Stored(t2)
      BY <2>1, <2>2 DEF MutexInv, CSInv, CSTypeOK, LockedEnter, Enter, Mutex!Stored
    <3> QED
      BY <3>1, <3>2 DEF MutexInv
  <2>3. CASE Load(t)
    <3>1. CSInv'
      BY <2>3, LoadStep DEF MutexInv
    <3>2. num' = num /\ Mutex!Stored(t1)' = Mutex!Stored(t1) /\ Mutex!Stored(t2)' = Mutex!Stored(t2)
      BY <2>1, <2>3 DEF MutexInv, CSInv, CSTypeOK, Load, Mutex!Stored
    <3> QED
      BY <3>1, <3>2 DEF MutexInv
  <2>4. CASE Store(t, 1)
    <3>1. CSInv' /\ num' = num + 1
      BY <2>4, StoreStep DEF MutexInv
    <3>2. /\ t = t1 => Mutex!Stored(t1)' = Mutex!Stored(t1) + 1 /\ Mutex!Stored(t2)' = Mutex!Stored(t2)
          /\ t = t2 => Mutex!Stored(t2)' = Mutex!Stored(t2) + 1 /\ Mutex!Stored(t1)' = Mutex!Stored(t1)
      BY <2>1, <2>4 DEF MutexInv, CSInv, CSTypeOK, Store, Mutex!Stored
    <3>3. Mutex!Stored(t1) \in Nat /\ Mutex!Stored(t2) \in Nat
      BY <2>1, RoundsAssumption DEF MutexInv, CSInv, CSTypeOK, Mutex!Stored
    <3> QED
      BY <2>1, <3>1, <3>2, <3>3 DEF MutexInv
  <2>5. CASE Leave(t)
    <3>1. CSInv'
      BY <2>5, LeaveStep DEF MutexInv
    <3>2. num' = num /\ Mutex!Stored(t1)' = Mutex!Stored(t1) /\ Mutex!Stored(t2)' = Mutex!Stored(t2)
      BY <2>1, <2>5, RoundsAssumption DEF MutexInv, CSInv, CSTypeOK, Leave, Mutex!Stored
    <3> QED
      BY <3>1, <3>2 DEF MutexInv
  <2> QED
    BY <1>2, <2>2, <2>3, <2>4, <2>5, MutexSteps
<1> QED
  BY <1>1, <1>2 DEF Mutex!Next

LEMMA MutexInvCounts ==
  ASSUME Mutex!TwoThreads, MutexInv
  PROVE  Exclusive /\ LoadIsCurrent /\ Mutex!CountIsRight
<1>1. Exclusive /\ LoadIsCurrent /\ Mutex!NoUpdateLost
  BY CSExclusive DEF MutexInv, CSInv, Mutex!NoUpdateLost
<1>2. t1 \in Threads /\ t2 \in Threads
  BY DEF Mutex!TwoThreads
<1>3. Mutex!Stored(t1) \in Nat /\ Mutex!Stored(t2) \in Nat
  BY <1>2, RoundsAssumption DEF MutexInv, CSInv, CSTypeOK, Mutex!Stored
<1>4. Mutex!AllDone => Mutex!Stored(t1) = Rounds /\ Mutex!Stored(t2) = Rounds
  BY <1>2, RoundsAssumption
  DEF MutexInv, CSInv, CSTypeOK, Mutex!AllDone, Mutex!Finished, Mutex!Stored
<1>5. Mutex!CountBounds
  BY <1>3, <1>4, RoundsAssumption DEF MutexInv, Mutex!CountBounds
<1> QED
  BY <1>1, <1>5 DEF Mutex!CountIsRight

\* Between pthread_mutex_lock and pthread_mutex_unlock a thread is alone, the number it
\* has loaded is still there when it stores, and so no addition of the two is lost.
THEOREM MutexCounts ==
  ASSUME Mutex!TwoThreads
  PROVE  Mutex!Spec => [](Exclusive /\ LoadIsCurrent /\ Mutex!CountIsRight)
<1>1. Mutex!Init => MutexInv
  BY MutexInitInv
<1>2. MutexInv /\ [Mutex!Next]_(Mutex!csVars) => MutexInv'
  BY MutexNextInv
<1>3. MutexInv => Exclusive /\ LoadIsCurrent /\ Mutex!CountIsRight
  BY MutexInvCounts
<1> QED
  BY <1>1, <1>2, <1>3, PTL DEF Mutex!Spec

-----------------------------------------------------------------------------
(* 01thread_no_sync.c                                                      *)

\* Without the mutex a thread may store what it has loaded long ago, but never more
\* than has been counted; and who stores a second time has loaded what somebody,
\* possibly itself, had stored.
OpenInv ==
  /\ CSTypeOK /\ RoundsLeft
  /\ num <= Open!Stored(t1) + Open!Stored(t2)
  /\ Open!Stored(t1) + Open!Stored(t2) > 0 => num >= 1
  /\ \A t \in Threads : pc[t] = "store" =>
       /\ val[t] <= Open!Stored(t1) + Open!Stored(t2)
       /\ done[t] >= 1 => val[t] >= 1
  /\ num >= 2 \/ Open!Stored(t1) <= 1 \/ Open!Stored(t2) <= 1

LEMMA OpenSteps ==
  /\ Open!Init => CSInit
  /\ \A t \in Threads : Open!Go(t) => OpenEnter(t) \/ Load(t) \/ Store(t, 1) \/ Leave(t)
<1>1. Open!Init => CSInit
  BY DEF Open!Init, Open!CSInit, CSInit
<1>2. ASSUME NEW t \in Threads, Open!Go(t)
      PROVE  OpenEnter(t) \/ Load(t) \/ Store(t, 1) \/ Leave(t)
  BY <1>2
  DEF Open!Go, Open!OpenEnter, Open!Enter, Open!Load, Open!Store, Open!Leave, Open!Release,
      OpenEnter, Enter, Load, Store, Leave, Release
<1> QED
  BY <1>1, <1>2

LEMMA OpenInitInv == Open!TwoThreads /\ Open!Init => OpenInv
<1> SUFFICES ASSUME Open!TwoThreads, Open!Init PROVE OpenInv
  OBVIOUS
<1>1. CSInit
  BY OpenSteps
<1>2. num = 0 /\ Open!Stored(t1) = 0 /\ Open!Stored(t2) = 0 /\ \A t \in Threads : pc[t] = "out"
  BY <1>1 DEF Open!TwoThreads, CSInit, Open!Stored
<1>3. CSTypeOK /\ RoundsLeft
  BY <1>1, RoundsAssumption DEF CSInit, CSTypeOK, RoundsLeft, Inside
<1> QED
  BY <1>2, <1>3 DEF OpenInv

LEMMA OpenNextInv == Open!TwoThreads /\ OpenInv /\ [Open!Next]_(Open!csVars) => OpenInv'
<1> SUFFICES ASSUME Open!TwoThreads, OpenInv, [Open!Next]_(Open!csVars) PROVE OpenInv'
  OBVIOUS
<1>1. CASE UNCHANGED Open!csVars
  BY <1>1 DEF Open!csVars, OpenInv, CSTypeOK, RoundsLeft, Inside, Open!Stored
<1>2. ASSUME NEW t \in Threads, Open!Go(t)
      PROVE  OpenInv'
  <2>1. t1 \in Threads /\ t2 \in Threads /\ t1 # t2 /\ Threads = {t1, t2}
    BY DEF Open!TwoThreads
  <2>2. Open!Stored(t1) \in Nat /\ Open!Stored(t2) \in Nat
    BY <2>1, RoundsAssumption DEF OpenInv, CSTypeOK, Open!Stored
  <2>3. CSTypeOK' /\ RoundsLeft'
    <3>1. CASE OpenEnter(t)
      BY <3>1, RoundsAssumption DEF OpenInv, CSTypeOK, RoundsLeft, Inside, OpenEnter, Enter
    <3>2. CASE Load(t)
      BY <3>2, RoundsAssumption DEF OpenInv, CSTypeOK, RoundsLeft, Inside, Load
    <3>3. CASE Store(t, 1)
      BY <3>3, RoundsAssumption DEF OpenInv, CSTypeOK, RoundsLeft, Inside, Store
    <3>4. CASE Leave(t)
      BY <3>4, RoundsAssumption DEF OpenInv, CSTypeOK, RoundsLeft, Inside, Leave, Release
    <3> QED
      BY <1>2, <3>1, <3>2, <3>3, <3>4, OpenSteps
  <2>4. CASE OpenEnter(t) \/ Leave(t)
    <3>1. /\ num' = num /\ val' = val
          /\ \A u \in Threads : pc'[u] = "store" => pc[u] = "store" /\ done'[u] = done[u]
      BY <2>4 DEF OpenInv, CSTypeOK, OpenEnter, Enter, Leave
    <3>2. Open!Stored(t1)' = Open!Stored(t1) /\ Open!Stored(t2)' = Open!Stored(t2)
      BY <2>1, <2>4, RoundsAssumption DEF OpenInv, CSTypeOK, OpenEnter, Enter, Leave, Open!Stored
    <3> QED
      BY <2>3, <3>1, <3>2 DEF OpenInv
  <2>5. CASE Load(t)
    <3>1. num' = num /\ done' = done /\ val'[t] = num
      BY <2>5 DEF OpenInv, CSTypeOK, Load
    <3>2. \A u \in Threads : u # t /\ pc'[u] = "store" => pc[u] = "store" /\ val'[u] = val[u]
      BY <2>5 DEF OpenInv, CSTypeOK, Load
    <3>3. Open!Stored(t1)' = Open!Stored(t1) /\ Open!Stored(t2)' = Open!Stored(t2)
      BY <2>1, <2>5 DEF OpenInv, CSTypeOK, Load, Open!Stored
    <3>4. done[t] >= 1 => num >= 1
      <4>1. done[t] >= 1 => Open!Stored(t1) + Open!Stored(t2) > 0
        BY <2>1, <2>2, RoundsAssumption DEF OpenInv, CSTypeOK, Open!Stored
      <4> QED
        BY <4>1 DEF OpenInv
    <3> QED
      BY <2>3, <3>1, <3>2, <3>3, <3>4 DEF OpenInv
  <2>6. CASE Store(t, 1)
    <3>1. /\ num' = val[t] + 1 /\ done' = done /\ val' = val /\ val[t] \in Nat
          /\ pc[t] = "store" /\ done[t] \in Nat
          /\ \A u \in Threads : pc'[u] = "store" => pc[u] = "store"
      BY <2>6, RoundsAssumption DEF OpenInv, CSTypeOK, Store
    <3>2. Open!Stored(t)' = done[t] + 1 /\ Open!Stored(t) = done[t]
      BY <2>6 DEF OpenInv, CSTypeOK, Store, Open!Stored
    <3>3. \A u \in Threads : u # t => Open!Stored(u)' = Open!Stored(u)
      BY <2>6 DEF OpenInv, CSTypeOK, Store, Open!Stored
    <3>4. Open!Stored(t1)' + Open!Stored(t2)' = Open!Stored(t1) + Open!Stored(t2) + 1
      BY <2>1, <2>2, <3>1, <3>2, <3>3
    <3>5. val[t] <= Open!Stored(t1) + Open!Stored(t2) /\ (done[t] >= 1 => val[t] >= 1)
      BY <3>1 DEF OpenInv
    <3>6. num' >= 2 \/ Open!Stored(t1)' <= 1 \/ Open!Stored(t2)' <= 1
      BY <2>1, <3>1, <3>2, <3>5
    <3> QED
      BY <2>2, <2>3, <3>1, <3>4, <3>5, <3>6 DEF OpenInv, CSTypeOK
  <2> QED
    BY <1>2, <2>4, <2>5, <2>6, OpenSteps
<1> QED
  BY <1>1, <1>2 DEF Open!Next

LEMMA OpenInvCounts ==
  ASSUME Open!TwoThreads, OpenInv
  PROVE  Open!CountIsRight
<1>1. t1 \in Threads /\ t2 \in Threads
  BY DEF Open!TwoThreads
<1>2. Open!AllDone => Open!Stored(t1) = Rounds /\ Open!Stored(t2) = Rounds
  BY <1>1, RoundsAssumption DEF OpenInv, CSTypeOK, Open!AllDone, Open!Finished, Open!Stored
<1>3. Open!CountBounds
  BY <1>2, RoundsAssumption DEF OpenInv, Open!CountBounds
<1> QED
  BY <1>3 DEF Open!CountIsRight, Open!NoUpdateLost

\* Without the mutex additions are lost ("the ideal result is 10000"), but the threads
\* never count more than their stores, and two of them that count at least twice each
\* end at 2 or above.
THEOREM OpenCounts ==
  ASSUME Open!TwoThreads
  PROVE  Open!Spec => []Open!CountIsRight
<1>1. Open!Init => OpenInv
  BY OpenInitInv
<1>2. OpenInv /\ [Open!Next]_(Open!csVars) => OpenInv'
  BY OpenNextInv
<1>3. OpenInv => Open!CountIsRight
  BY OpenInvCounts
<1> QED
  BY <1>1, <1>2, <1>3, PTL DEF Open!Spec

-----------------------------------------------------------------------------
(* 06thread_process_mutexattr_init.c                                       *)

\* The mutex is destroyed only when the child has no round left: from then on the
\* parent is the only one to use it, whatever a destroyed mutex does.
ProcInv ==
  /\ Process!TypeOK /\ RoundsLeft /\ Exclusive /\ LoadIsCurrent
  /\ \A t \in holders : Inside(t)
  /\ valid => \A t \in Threads : Inside(t) => t \in holders
  /\ ~valid => Child \in ended \/ forked = "failed"
  /\ Child \in ended => forked = "yes" /\ Finished(Child)
  /\ num = 2 * Process!Stored(Parent) + Process!Stored(Child)

LEMMA ProcSteps ==
  /\ Process!Init => CSInit /\ forked = "not yet" /\ valid = TRUE /\ ended = {}
  /\ \A t \in Threads : Process!Loop(t) =>
       /\ forked = "yes" /\ UNCHANGED <<forked, valid, ended>>
       /\ LockedEnter(t) \/ (~valid /\ OpenEnter(t)) \/ Load(t) \/ Store(t, Process!Adds(t))
            \/ Leave(t)
<1>1. Process!Init => CSInit /\ forked = "not yet" /\ valid = TRUE /\ ended = {}
  BY DEF Process!Init, Process!CSInit, CSInit
<1>2. ASSUME NEW t \in Threads, Process!Loop(t)
      PROVE  /\ forked = "yes" /\ UNCHANGED <<forked, valid, ended>>
             /\ LockedEnter(t) \/ (~valid /\ OpenEnter(t)) \/ Load(t)
                  \/ Store(t, Process!Adds(t)) \/ Leave(t)
  BY <1>2
  DEF Process!Loop, Process!Lock, Process!procVars, Process!LockedEnter, Process!OpenEnter,
      Process!Enter, Process!Acquire, Process!Load, Process!Store, Process!Leave,
      Process!Release, LockedEnter, OpenEnter, Enter, Acquire, Load, Store, Leave, Release
<1> QED
  BY <1>1, <1>2

LEMMA ProcInitInv == Process!TwoProcesses /\ Process!Init => ProcInv
<1> SUFFICES ASSUME Process!TwoProcesses, Process!Init PROVE ProcInv
  OBVIOUS
<1>1. CSInit
  BY ProcSteps
<1>2. forked = "not yet" /\ valid /\ valid \in BOOLEAN /\ ended = {}
  BY ProcSteps
<1>3. num = 0 /\ Process!Stored(Parent) = 0 /\ Process!Stored(Child) = 0
  BY <1>1 DEF Process!TwoProcesses, CSInit, Process!Stored
<1>4. Process!TypeOK
  <2>1. Process!CSTypeOK
    BY <1>1, RoundsAssumption DEF CSInit, Process!CSTypeOK
  <2>2. forked \in {"not yet", "yes", "failed"} /\ ended \subseteq Threads
    BY <1>2
  <2> QED
    BY <1>2, <2>1, <2>2 DEF Process!TypeOK
<1>5. /\ RoundsLeft /\ Exclusive /\ LoadIsCurrent
      /\ holders = {} /\ \A t \in Threads : ~Inside(t)
  BY <1>1 DEF CSInit, RoundsLeft, Exclusive, LoadIsCurrent, Inside
<1>6. num = 2 * Process!Stored(Parent) + Process!Stored(Child)
  BY <1>3
<1>7. \A t \in holders : Inside(t)
  BY <1>5
<1>8. Child \notin ended
  BY <1>2
<1> QED
  BY <1>2, <1>4, <1>5, <1>6, <1>7, <1>8 DEF ProcInv

\* One round of a process, step by step.
LEMMA ProcEnter ==
  ASSUME Process!TwoProcesses, ProcInv, NEW t \in Threads, forked = "yes",
         LockedEnter(t) \/ (~valid /\ OpenEnter(t)), UNCHANGED <<forked, valid, ended>>
  PROVE  ProcInv'
<1>1. /\ pc' = [pc EXCEPT ![t] = "load"] /\ pc[t] = "out" /\ done[t] < Rounds
      /\ UNCHANGED <<num, val, done>>
      /\ (holders = {} /\ holders' = {t}) \/ (~valid /\ holders' = holders)
  BY DEF LockedEnter, OpenEnter, Enter, Acquire
<1>2. \A u \in Threads : ~Inside(u)
  <2>1. CASE valid
    BY <1>1, <2>1 DEF ProcInv
  <2>2. CASE ~valid
    <3>1. Finished(Child) /\ Threads = {Parent, Child}
      BY <2>2 DEF ProcInv, Process!TwoProcesses
    <3>2. t = Parent
      BY <1>1, <3>1, RoundsAssumption DEF Finished
    <3> QED
      BY <1>1, <3>1, <3>2 DEF Finished, Inside
  <2> QED
    BY <2>1, <2>2
<1>3. pc'[t] = "load" /\ \A u \in Threads : u # t => pc'[u] = "out"
  BY <1>1, <1>2 DEF Inside, ProcInv, Process!TypeOK, Process!CSTypeOK
<1>4. holders' = {t} \/ holders' = {}
  BY <1>1, <1>2 DEF ProcInv, Process!TypeOK, Process!CSTypeOK
<1>5. Process!TypeOK'
  BY <1>1, <1>4 DEF ProcInv, Process!TypeOK, Process!CSTypeOK
<1>6. /\ RoundsLeft' /\ Exclusive' /\ LoadIsCurrent' /\ \A u \in holders' : Inside(u)'
      /\ valid' => \A u \in Threads : Inside(u)' => u \in holders'
  BY <1>1, <1>3, <1>4 DEF RoundsLeft, Exclusive, LoadIsCurrent, Inside
<1>7. Child \in ended' => forked' = "yes" /\ Finished(Child)'
  BY <1>1, <1>3, RoundsAssumption DEF ProcInv, Finished, Process!TypeOK, Process!CSTypeOK, Process!TwoProcesses
<1>8. \A u \in {Parent, Child} : Process!Stored(u)' = Process!Stored(u)
  BY <1>1 DEF Process!Stored, Process!TwoProcesses, ProcInv, Process!TypeOK, Process!CSTypeOK
<1> QED
  BY <1>1, <1>5, <1>6, <1>7, <1>8 DEF ProcInv

LEMMA ProcInside ==
  ASSUME Process!TwoProcesses, ProcInv, NEW t \in Threads, forked = "yes",
         Load(t) \/ Store(t, Process!Adds(t)), UNCHANGED <<forked, valid, ended>>
  PROVE  ProcInv'
<1>1. /\ holders' = holders /\ done' = done
      /\ \A u \in Threads : u # t => pc'[u] = pc[u] /\ val'[u] = val[u]
      /\ (\A u \in Threads : Inside(u)' <=> Inside(u)) /\ Inside(t)
  BY DEF Load, Store, Inside, ProcInv, Process!TypeOK, Process!CSTypeOK
<1>2. \A u \in Threads : u # t => ~Inside(u)
  BY <1>1 DEF ProcInv, Exclusive
<1>3. Process!TypeOK'
  <2>1. Process!Adds(t) \in Nat
    BY DEF Process!Adds
  <2> QED
    BY <2>1 DEF Load, Store, ProcInv, Process!TypeOK, Process!CSTypeOK
<1>4. RoundsLeft' /\ Exclusive' /\ \A u \in holders' : Inside(u)'
  BY <1>1 DEF ProcInv, RoundsLeft, Exclusive, Process!TypeOK, Process!CSTypeOK
<1>5. LoadIsCurrent'
  BY <1>1, <1>2 DEF Load, Store, LoadIsCurrent, Inside, ProcInv, Process!TypeOK, Process!CSTypeOK
<1>6. valid' => \A u \in Threads : Inside(u)' => u \in holders'
  BY <1>1 DEF ProcInv
<1>7. Child \in ended' => forked' = "yes" /\ Finished(Child)'
  BY <1>1 DEF ProcInv, Finished, Inside, Process!TwoProcesses
<1>8. num' = 2 * Process!Stored(Parent)' + Process!Stored(Child)'
  <2>1. CASE Load(t)
    <3>1. \A u \in {Parent, Child} : Process!Stored(u)' = Process!Stored(u)
      BY <2>1 DEF Load, Process!Stored, Process!TwoProcesses, ProcInv, Process!TypeOK,
                  Process!CSTypeOK
    <3> QED
      BY <2>1, <3>1 DEF Load, ProcInv
  <2>2. CASE Store(t, Process!Adds(t))
    <3>1. num' = num + Process!Adds(t)
      BY <2>2 DEF Store, ProcInv, LoadIsCurrent
    <3>2. /\ Process!Stored(t)' = Process!Stored(t) + 1
          /\ \A u \in Threads : u # t => Process!Stored(u)' = Process!Stored(u)
      BY <2>2 DEF Store, Process!Stored, ProcInv, Process!TypeOK, Process!CSTypeOK
    <3>3. \A u \in Threads : Process!Stored(u) \in Nat
      BY RoundsAssumption DEF Process!Stored, ProcInv, Process!TypeOK, Process!CSTypeOK
    <3>4. num = 2 * Process!Stored(Parent) + Process!Stored(Child)
      BY DEF ProcInv
    <3>5. CASE t = Parent
      BY <3>1, <3>2, <3>3, <3>4, <3>5 DEF Process!Adds, Process!TwoProcesses
    <3>6. CASE t = Child
      BY <3>1, <3>2, <3>3, <3>4, <3>6 DEF Process!Adds, Process!TwoProcesses
    <3> QED
      BY <3>5, <3>6 DEF Process!TwoProcesses
  <2> QED
    BY <2>1, <2>2
<1> QED
  BY <1>1, <1>3, <1>4, <1>5, <1>6, <1>7, <1>8 DEF ProcInv

LEMMA ProcLeave ==
  ASSUME Process!TwoProcesses, ProcInv, NEW t \in Threads, forked = "yes",
         Leave(t), UNCHANGED <<forked, valid, ended>>
  PROVE  ProcInv'
<1>1. Inside(t) /\ \A u \in Threads : u # t => ~Inside(u)
  BY DEF Leave, Inside, ProcInv, Exclusive
<1>2. holders' = {} /\ \A u \in Threads : pc'[u] = "out"
  BY <1>1 DEF Leave, Release, Inside, ProcInv, Process!TypeOK, Process!CSTypeOK
<1>3. done[t] < Rounds
  BY <1>1 DEF ProcInv, RoundsLeft
<1>4. Process!TypeOK'
  BY <1>2, <1>3, RoundsAssumption DEF Leave, ProcInv, Process!TypeOK, Process!CSTypeOK
<1>5. RoundsLeft' /\ Exclusive' /\ LoadIsCurrent' /\ \A u \in Threads : ~Inside(u)'
  BY <1>2 DEF RoundsLeft, Exclusive, LoadIsCurrent, Inside
<1>6. Child \in ended' => forked' = "yes" /\ Finished(Child)'
  <2>1. Child \in ended => t # Child
    BY <1>1 DEF ProcInv, Finished, Inside
  <2> QED
    BY <1>2, <2>1 DEF Leave, ProcInv, Finished, Process!TypeOK, Process!CSTypeOK, Process!TwoProcesses
<1>7. \A u \in {Parent, Child} : Process!Stored(u)' = Process!Stored(u)
  BY RoundsAssumption
  DEF Leave, Process!Stored, Process!TwoProcesses, ProcInv, Process!TypeOK, Process!CSTypeOK
<1> QED
  BY <1>2, <1>4, <1>5, <1>6, <1>7 DEF Leave, ProcInv

LEMMA ProcNextInv ==
  Process!TwoProcesses /\ ProcInv /\ [Process!Next]_(Process!vars) => ProcInv'
<1> SUFFICES ASSUME Process!TwoProcesses, ProcInv, [Process!Next]_(Process!vars) PROVE ProcInv'
  OBVIOUS
\* The steps that leave the numbers and the lock alone: fork, and a process' clean-up.
<1>1. ASSUME UNCHANGED <<pc, holders, num, val, done>>,
             Process!TypeOK', ~valid' => Child \in ended' \/ forked' = "failed",
             valid' => valid, Child \in ended' => forked' = "yes" /\ Finished(Child)
      PROVE  ProcInv'
  <2>1. RoundsLeft' /\ Exclusive' /\ LoadIsCurrent' /\ \A t \in holders' : Inside(t)'
    BY <1>1 DEF ProcInv, RoundsLeft, Exclusive, LoadIsCurrent, Inside
  <2>2. valid' => \A t \in Threads : Inside(t)' => t \in holders'
    BY <1>1 DEF ProcInv, Inside
  <2>3. num' = 2 * Process!Stored(Parent)' + Process!Stored(Child)'
    BY <1>1 DEF ProcInv, Process!Stored
  <2>4. Child \in ended' => forked' = "yes" /\ Finished(Child)'
    BY <1>1 DEF Finished
  <2> QED
    BY <1>1, <2>1, <2>2, <2>3, <2>4 DEF ProcInv
<1>2. CASE UNCHANGED Process!vars
  <2>1. UNCHANGED <<pc, holders, num, val, done, forked, valid, ended>>
    BY <1>2 DEF Process!vars, Process!csVars, Process!procVars
  <2>2. Process!TypeOK'
    BY <2>1 DEF ProcInv, Process!TypeOK, Process!CSTypeOK
  <2> QED
    BY <1>1, <2>1, <2>2 DEF ProcInv
<1>3. CASE Process!Fork
  <2>1. UNCHANGED <<pc, holders, num, val, done, valid, ended>> /\ forked = "not yet"
    BY <1>3 DEF Process!Fork, Process!csVars
  <2>2. Process!TypeOK'
    BY <1>3, <2>1 DEF Process!Fork, ProcInv, Process!TypeOK, Process!CSTypeOK
  <2>3. Child \notin ended /\ valid
    BY <2>1 DEF ProcInv
  <2> QED
    BY <1>1, <2>1, <2>2, <2>3
<1>4. ASSUME NEW t \in Threads, Process!CleanUp(t)
      PROVE  ProcInv'
  <2>1. /\ UNCHANGED <<pc, holders, num, val, done, forked>> /\ ended' = ended \cup {t}
        /\ valid' => valid
        /\ valid' \in BOOLEAN
    BY <1>4 DEF Process!CleanUp, Process!csVars
  <2>2. Process!TypeOK'
    BY <2>1 DEF ProcInv, Process!TypeOK, Process!CSTypeOK
  <2>3. Child \in ended' \/ forked' = "failed"
    BY <1>4, <2>1 DEF Process!CleanUp, Process!TwoProcesses
  <2>4. Child \in ended' => forked' = "yes" /\ Finished(Child)
    <3>1. CASE t = Child
      BY <1>4, <2>1, <3>1
      DEF Process!CleanUp, Process!Ready, Process!Finished, Finished, Process!TwoProcesses
    <3>2. CASE t # Child
      BY <2>1, <3>2 DEF ProcInv
    <3> QED
      BY <3>1, <3>2
  <2> QED
    BY <1>1, <2>1, <2>2, <2>3, <2>4
<1>5. ASSUME NEW t \in Threads, Process!Loop(t)
      PROVE  ProcInv'
  BY <1>5, ProcSteps, ProcEnter, ProcInside, ProcLeave
<1> QED
  BY <1>2, <1>3, <1>4, <1>5 DEF Process!Next

\* The parent and its child are alone between locking and unlocking, and every 2 and
\* every 1 they add is counted, although the child destroys the mutex that the parent
\* goes on using.
THEOREM ProcessesCount ==
  ASSUME Process!TwoProcesses
  PROVE  Process!Spec => [](Exclusive /\ LoadIsCurrent /\ Process!NoUpdateLost)
<1>1. Process!Init => ProcInv
  BY ProcInitInv
<1>2. ProcInv /\ [Process!Next]_(Process!vars) => ProcInv'
  BY ProcNextInv
<1>3. ProcInv => Exclusive /\ LoadIsCurrent /\ Process!NoUpdateLost
  BY DEF ProcInv, Process!NoUpdateLost
<1> QED
  BY <1>1, <1>2, <1>3, PTL DEF Process!Spec

-----------------------------------------------------------------------------
(* 03thread_sync_lock_rwlock.c                                             *)

LEMMA RwLockSteps ==
  /\ RwLock!Init => CSInit
  /\ \A t \in Threads : RwLock!Write(t) => LockedEnter(t) \/ Load(t) \/ Store(t, 1) \/ Leave(t)
  /\ \A t \in Threads : RwLock!Read(t) => LockedEnter(t) \/ RwLock!PrintNum(t) \/ Leave(t)
<1>1. RwLock!Init => CSInit
  BY DEF RwLock!Init, RwLock!CSInit, CSInit
<1>2. ASSUME NEW t \in Threads, RwLock!Write(t)
      PROVE  LockedEnter(t) \/ Load(t) \/ Store(t, 1) \/ Leave(t)
  BY <1>2
  DEF RwLock!Write, RwLock!LockedEnter, RwLock!Enter, RwLock!Acquire, RwLock!Load,
      RwLock!Store, RwLock!Leave, RwLock!Release,
      LockedEnter, Enter, Acquire, Load, Store, Leave, Release
<1>3. ASSUME NEW t \in Threads, RwLock!Read(t)
      PROVE  LockedEnter(t) \/ RwLock!PrintNum(t) \/ Leave(t)
  BY <1>3
  DEF RwLock!Read, RwLock!LockedEnter, RwLock!Enter, RwLock!Acquire, RwLock!Leave,
      RwLock!Release, LockedEnter, Enter, Acquire, Leave, Release
<1> QED
  BY <1>1, <1>2, <1>3

\* What the writers have stored, by the functions of the state that Stored reads.
Counted(d, q) == [t \in Threads \ Readers |-> d[t] + (IF q[t] = "stored" THEN 1 ELSE 0)]

SumAsIs(d, q, S) ==
  (CHOOSE g : g = [s \in SUBSET S |->
                     IF s = {} THEN 0
                     ELSE d[Pick(s)] + (IF q[Pick(s)] = "stored" THEN 1 ELSE 0)
                          + g[s \ {Pick(s)}]])[S]

LEMMA SumIsTotal ==
  ASSUME IsFiniteSet(Threads), NEW d, NEW q
  PROVE  SumAsIs(d, q, Threads \ Readers) = Total(Counted(d, q), Threads \ Readers)
<1> DEFINE S == Threads \ Readers
           f == Counted(d, q)
           IsIt(g) == g = [s \in SUBSET S |->
                             IF s = {} THEN 0
                             ELSE d[Pick(s)] + (IF q[Pick(s)] = "stored" THEN 1 ELSE 0)
                                  + g[s \ {Pick(s)}]]
<1>1. ASSUME NEW g
      PROVE  IsIt(g) <=> IsSum(g, f, S)
  <2>1. \A s \in SUBSET S : s # {} =>
          f[Pick(s)] = d[Pick(s)] + (IF q[Pick(s)] = "stored" THEN 1 ELSE 0)
    BY PickOne DEF Counted
  <2> HIDE DEF f
  <2> QED
    BY <2>1 DEF IsSum
<1>2. IsFiniteSet(S)
  BY FS_Subset
<1>3. PICK x : IsSum(x, f, S)
  BY <1>2, SumExists
<1> HIDE DEF f, S
<1>4. IsSum(CHOOSE g : IsIt(g), f, S) /\ IsSum(CHOOSE g : IsSum(g, f, S), f, S)
  <2> HIDE DEF IsIt
  <2>1. IsIt(x)
    BY <1>1, <1>3
  <2>2. IsIt(CHOOSE g : IsIt(g))
    BY <2>1
  <2> QED
    BY <1>1, <1>3, <2>2
<1>5. (CHOOSE g : IsIt(g))[S] = (CHOOSE g : IsSum(g, f, S))[S]
  BY <1>2, <1>4, SumUnique
<1> QED
  BY <1>5 DEF SumAsIs, Total, f, S

LEMMA NoUpdateLostIsSum ==
  /\ RwLock!NoUpdateLost <=> num = SumAsIs(done, pc, Threads \ Readers)
  /\ RwLock!NoUpdateLost' <=> num' = SumAsIs(done', pc', Threads \ Readers)
BY DEF RwLock!NoUpdateLost, RwLock!MapThenSumSet, RwLock!MapThenFoldSet, RwLock!Stored,
       SumAsIs, Pick

\* The number is the sum of what the writers have stored.
RwLockInv == CSInv /\ num = Total(Counted(done, pc), Threads \ Readers)

\* A step counts 1 for the writer that stores, and leaves the counts alone otherwise.
LEMMA RwLockCounts ==
  ASSUME CSInv, NEW t \in Threads
  PROVE  /\ LockedEnter(t) \/ Load(t) \/ Leave(t) =>
              num' = num /\ Counted(done', pc') = Counted(done, pc)
         /\ t \in Readers /\ RwLock!PrintNum(t) =>
              num' = num /\ Counted(done', pc') = Counted(done, pc)
         /\ t \notin Readers /\ Store(t, 1) =>
              /\ num' = num + 1
              /\ GrowsAt(Counted(done, pc), Counted(done', pc'), t, 1, Threads \ Readers)
<1>1. ASSUME LockedEnter(t) \/ Load(t) \/ Leave(t)
      PROVE  num' = num /\ Counted(done', pc') = Counted(done, pc)
  <2>1. \A u \in Threads : u # t => done'[u] = done[u] /\ pc'[u] = pc[u]
    BY <1>1 DEF LockedEnter, Enter, Load, Leave, CSInv, CSTypeOK
  <2>2. done'[t] + (IF pc'[t] = "stored" THEN 1 ELSE 0)
          = done[t] + (IF pc[t] = "stored" THEN 1 ELSE 0)
    BY <1>1, RoundsAssumption DEF LockedEnter, Enter, Load, Leave, CSInv, CSTypeOK
  <2> QED
    BY <1>1, <2>1, <2>2 DEF LockedEnter, Enter, Load, Leave, Counted
<1>2. ASSUME t \in Readers, RwLock!PrintNum(t)
      PROVE  num' = num /\ Counted(done', pc') = Counted(done, pc)
  <2>1. done' = done /\ \A u \in Threads \ Readers : pc'[u] = pc[u]
    BY <1>2 DEF RwLock!PrintNum, CSInv, CSTypeOK
  <2> QED
    BY <1>2, <2>1 DEF RwLock!PrintNum, Counted
<1>3. ASSUME t \notin Readers, Store(t, 1)
      PROVE  /\ num' = num + 1
             /\ GrowsAt(Counted(done, pc), Counted(done', pc'), t, 1, Threads \ Readers)
  <2>1. /\ done' = done /\ \A u \in Threads : done[u] \in Int /\ (u # t => pc'[u] = pc[u])
        /\ pc[t] = "store" /\ pc'[t] = "stored"
    BY <1>3, RoundsAssumption DEF Store, CSInv, CSTypeOK
  <2>2. GrowsAt(Counted(done, pc), Counted(done', pc'), t, 1, Threads \ Readers)
    BY <2>1 DEF Counted, GrowsAt
  <2>3. num' = num + 1
    BY <1>3, StoreStep
  <2> QED
    BY <2>2, <2>3
<1> QED
  BY <1>1, <1>2, <1>3

LEMMA RwLockInitInv == IsFiniteSet(Threads) /\ RwLock!Init => RwLockInv
<1> SUFFICES ASSUME IsFiniteSet(Threads), RwLock!Init PROVE RwLockInv
  OBVIOUS
<1>1. CSInit /\ CSInv
  BY CSInitInv, RwLockSteps
<1>2. num = 0 /\ \A t \in Threads \ Readers : Counted(done, pc)[t] = 0
  BY <1>1 DEF CSInit, Counted
<1>3. IsFiniteSet(Threads \ Readers)
  BY FS_Subset
<1>4. Total(Counted(done, pc), Threads \ Readers) = 0
  BY <1>2, <1>3, TotalZero
<1> QED
  BY <1>1, <1>2, <1>4 DEF RwLockInv

LEMMA RwLockNextInv ==
  /\ Readers \subseteq Threads /\ IsFiniteSet(Threads)
  /\ RwLockInv /\ [RwLock!Next]_(RwLock!csVars)
  => RwLockInv'
<1> SUFFICES ASSUME Readers \subseteq Threads, IsFiniteSet(Threads),
                    RwLockInv, [RwLock!Next]_(RwLock!csVars)
             PROVE  RwLockInv'
  OBVIOUS
<1>1. ASSUME CSInv', num' = num, Counted(done', pc') = Counted(done, pc)
      PROVE  RwLockInv'
  BY <1>1 DEF RwLockInv
<1>2. CASE UNCHANGED RwLock!csVars
  BY <1>1, <1>2
  DEF RwLock!csVars, RwLockInv, CSInv, CSTypeOK, RoundsLeft, LockHeld, LoadIsCurrent, Inside
<1>3. ASSUME NEW t \in Threads, LockedEnter(t) \/ Load(t) \/ Leave(t)
      PROVE  RwLockInv'
  BY <1>1, <1>3, LockedEnterStep, LoadStep, LeaveStep, RwLockCounts DEF RwLockInv
<1>4. ASSUME NEW t \in Threads \ Readers, Store(t, 1)
      PROVE  RwLockInv'
  <2>1. CSInv' /\ num' = num + 1
    BY <1>4, StoreStep DEF RwLockInv
  <2>2. GrowsAt(Counted(done, pc), Counted(done', pc'), t, 1, Threads \ Readers)
    BY <1>4, RwLockCounts DEF RwLockInv
  <2>3. IsFiniteSet(Threads \ Readers)
    BY FS_Subset
  <2>4. Total(Counted(done', pc'), Threads \ Readers)
          = Total(Counted(done, pc), Threads \ Readers) + 1
    BY <2>2, <2>3, TotalGrows
  <2> QED
    BY <2>1, <2>4 DEF RwLockInv
<1>5. ASSUME NEW t \in Threads, t \in Readers, RwLock!PrintNum(t)
      PROVE  RwLockInv'
  <2>1. CSTypeOK'
    BY <1>5 DEF RwLock!PrintNum, RwLockInv, CSInv, CSTypeOK
  <2>2. RoundsLeft' /\ LockHeld'
    BY <1>5 DEF RwLock!PrintNum, RwLockInv, CSInv, CSTypeOK, RoundsLeft, LockHeld, Inside
  <2>3. LoadIsCurrent'
    BY <1>5 DEF RwLock!PrintNum, RwLockInv, CSInv, CSTypeOK, LoadIsCurrent
  <2> QED
    BY <1>1, <1>5, <2>1, <2>2, <2>3, RwLockCounts DEF RwLockInv, CSInv
<1>6. ASSUME NEW t \in Threads \ Readers, RwLock!Write(t)
      PROVE  RwLockInv'
  BY <1>3, <1>4, <1>6, RwLockSteps
<1>7. ASSUME NEW t \in Threads, t \in Readers, RwLock!Read(t)
      PROVE  RwLockInv'
  BY <1>3, <1>5, <1>7, RwLockSteps
<1> QED
  BY <1>2, <1>6, <1>7 DEF RwLock!Next

LEMMA RwLockInvCounts ==
  ASSUME IsFiniteSet(Threads), RwLockInv
  PROVE  Exclusive /\ LoadIsCurrent /\ RwLock!NoUpdateLost
BY CSExclusive, SumIsTotal, NoUpdateLostIsSum DEF RwLockInv, CSInv

\* With the write lock taken by readers and writers alike one thread is inside at a
\* time, and the number is the sum of the stores of all writers, as many as there are.
THEOREM WritersCount ==
  ASSUME Readers \subseteq Threads, IsFiniteSet(Threads)
  PROVE  RwLock!Spec => [](Exclusive /\ LoadIsCurrent /\ RwLock!NoUpdateLost)
<1>1. RwLock!Init => RwLockInv
  BY RwLockInitInv
<1>2. RwLockInv /\ [RwLock!Next]_(RwLock!csVars) => RwLockInv'
  BY RwLockNextInv
<1>3. RwLockInv => Exclusive /\ LoadIsCurrent /\ RwLock!NoUpdateLost
  BY RwLockInvCounts
<1> QED
  BY <1>1, <1>2, <1>3, PTL DEF RwLock!Spec

-----------------------------------------------------------------------------
(* 07flock.c                                                               *)

LEMMA FileSteps ==
  /\ File!Init => CSInit
  /\ \A t \in Threads : File!Lock(t) => LockedEnter(t)
<1>1. File!Init => CSInit
  BY DEF File!Init, File!CSInit, CSInit
<1>2. ASSUME NEW t \in Threads, File!Lock(t)
      PROVE  LockedEnter(t)
  BY <1>2 DEF File!Lock, File!LockedEnter, File!Enter, File!Acquire, LockedEnter, Enter, Acquire
<1> QED
  BY <1>1, <1>2

LEMMA FileNextInv == CSInv /\ [File!Next]_(File!csVars) => CSInv'
<1> SUFFICES ASSUME CSInv, [File!Next]_(File!csVars) PROVE CSInv'
  OBVIOUS
<1>1. CASE UNCHANGED File!csVars
  BY <1>1 DEF File!csVars, CSInv, CSTypeOK, RoundsLeft, LockHeld, LoadIsCurrent, Inside
<1>2. ASSUME NEW t \in Threads, File!Lock(t)
      PROVE  CSInv'
  BY <1>2, FileSteps, LockedEnterStep
<1>3. ASSUME NEW t \in Threads, File!Unlock(t) \/ File!Killed(t)
      PROVE  CSInv'
  <2>1. /\ pc' = [pc EXCEPT ![t] = "out"] /\ holders' = holders \ {t} /\ num' = num /\ val' = val
        /\ \A u \in Threads : u # t => done'[u] = done[u]
    BY <1>3 DEF File!Unlock, File!Killed, File!Release, CSInv, CSTypeOK
  <2>2. CSTypeOK'
    <3>1. File!Unlock(t) => done[t] < Rounds
      BY DEF File!Unlock, CSInv, RoundsLeft, Inside
    <3>2. done' \in [Threads -> 0..Rounds]
      BY <1>3, <3>1, RoundsAssumption DEF File!Unlock, File!Killed, CSInv, CSTypeOK
    <3> QED
      BY <2>1, <3>2 DEF CSInv, CSTypeOK
  <2>3. RoundsLeft' /\ LockHeld' /\ LoadIsCurrent'
    BY <2>1 DEF CSInv, CSTypeOK, RoundsLeft, LockHeld, LoadIsCurrent, Inside
  <2> QED
    BY <2>2, <2>3 DEF CSInv
<1> QED
  BY <1>1, <1>2, <1>3 DEF File!Next

\* One process has the file lock at a time, whichever of them are killed and when.
THEOREM FileLockedOnce == File!Spec => []Exclusive
<1>1. File!Init => CSInv
  BY CSInitInv, FileSteps
<1>2. CSInv /\ [File!Next]_(File!csVars) => CSInv'
  BY FileNextInv
<1> QED
  BY <1>1, <1>2, CSExclusive, PTL DEF File!Spec
=============================================================================
