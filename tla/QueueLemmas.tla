---------------------------- MODULE QueueLemmas ----------------------------
(***************************************************************************)
(* Facts that the proofs about several programs need: about a ring of n    *)
(* slots whose indices are moved on modulo n and the sequence that lies in *)
(* it (threadpool.c, 05thread_sync_sem_t.c), about a queue that has each   *)
(* member once, and about the lowest of some numbers (accept's descriptors *)
(* and the servers' table entries).                                        *)
(***************************************************************************)
EXTENDS Integers, Sequences, SequenceTheorems, WellFoundedInduction, TLAPS

-----------------------------------------------------------------------------
(* Rings                                                                   *)

\* The remainder of anything below twice the size of the ring, as a function that
\* the arithmetic needs no division for.
Wrap(a, n) == IF a < n THEN a ELSE a - n

LEMMA ModWrap ==
  ASSUME NEW n \in Nat \ {0}, NEW a \in 0..2*n-1
  PROVE  a % n = Wrap(a, n) /\ a % n \in 0..n-1
BY DEF Wrap

\* The slot behind the last one moves on with it.
LEMMA WrapInsert ==
  ASSUME NEW n \in Nat, NEW f \in 0..n-1, NEW s \in 0..n-1
  PROVE  Wrap(Wrap(f + s, n) + 1, n) = Wrap(f + (s + 1), n)
BY DEF Wrap

\* It stays where it is when the first one moves on.
LEMMA WrapTake ==
  ASSUME NEW n \in Nat, NEW f \in 0..n-1, NEW s \in 1..n
  PROVE  Wrap(Wrap(f + 1, n) + (s - 1), n) = Wrap(f + s, n)
BY DEF Wrap

LEMMA ModInsert ==
  ASSUME NEW n \in Nat \ {0}, NEW f \in 0..n-1, NEW s \in 0..n-1
  PROVE  (((f + s) % n) + 1) % n = (f + (s + 1)) % n
<1>1. f + s \in 0..2*n-1 /\ f + (s + 1) \in 0..2*n-1
  OBVIOUS
<1>2. (f + s) % n = Wrap(f + s, n) /\ (f + s) % n \in 0..n-1
  BY <1>1, ModWrap
<1>3. ((f + s) % n) + 1 \in 0..2*n-1
  BY <1>2
<1>4. (((f + s) % n) + 1) % n = Wrap(((f + s) % n) + 1, n)
  BY <1>3, ModWrap
<1>5. (f + (s + 1)) % n = Wrap(f + (s + 1), n)
  BY <1>1, ModWrap
<1> QED
  BY <1>2, <1>4, <1>5, WrapInsert

LEMMA ModTake ==
  ASSUME NEW n \in Nat \ {0}, NEW f \in 0..n-1, NEW s \in 1..n
  PROVE  (((f + 1) % n) + (s - 1)) % n = (f + s) % n
<1>1. f + s \in 0..2*n-1 /\ f + 1 \in 0..2*n-1
  OBVIOUS
<1>2. (f + 1) % n = Wrap(f + 1, n) /\ (f + 1) % n \in 0..n-1
  BY <1>1, ModWrap
<1>3. ((f + 1) % n) + (s - 1) \in 0..2*n-1
  BY <1>2
<1>4. (((f + 1) % n) + (s - 1)) % n = Wrap(((f + 1) % n) + (s - 1), n)
  BY <1>3, ModWrap
<1>5. (f + s) % n = Wrap(f + s, n)
  BY <1>1, ModWrap
<1> QED
  BY <1>2, <1>4, <1>5, WrapTake

\* How far slot i is behind slot f.
Distance(i, f, n) == IF i >= f THEN i - f ELSE i + n - f

LEMMA DistanceIs ==
  ASSUME NEW n \in Nat \ {0}, NEW f \in 0..n-1, NEW k \in 0..n-1
  PROVE  /\ (f + k) % n \in 0..n-1
         /\ Distance((f + k) % n, f, n) = k
         /\ \A i \in 0..n-1 : Distance(i, f, n) = k => i = (f + k) % n
<1>1. f + k \in 0..2*n-1
  OBVIOUS
<1>2. (f + k) % n = Wrap(f + k, n) /\ (f + k) % n \in 0..n-1
  BY <1>1, ModWrap
<1> QED
  BY <1>2 DEF Wrap, Distance

\* Two slots are not the same distance behind a third.
LEMMA DistanceTells ==
  ASSUME NEW n \in Nat \ {0}, NEW f \in 0..n-1, NEW i \in 0..n-1, NEW j \in 0..n-1,
         Distance(i, f, n) = Distance(j, f, n)
  PROVE  i = j
BY DEF Distance

\* Every slot is that far behind the next one, but one less.
LEMMA DistanceNext ==
  ASSUME NEW n \in Nat \ {0}, NEW f \in 0..n-1, NEW i \in 0..n-1
  PROVE  /\ Distance(i, f, n) \in 0..n-1
         /\ Distance(i, f, n) = 0 <=> i = f
         /\ Distance(i, (f + 1) % n, n) = IF i = f THEN n - 1 ELSE Distance(i, f, n) - 1
<1>1. f + 1 \in 0..2*n-1
  OBVIOUS
<1>2. (f + 1) % n = Wrap(f + 1, n)
  BY <1>1, ModWrap
<1> QED
  BY <1>2 DEF Wrap, Distance

\* Slots at different distances are different.
LEMMA PlacesDiffer ==
  ASSUME NEW n \in Nat \ {0}, NEW f \in 0..n-1, NEW j \in 0..n-1, NEW k \in 0..n-1, j # k
  PROVE  (f + j) % n # (f + k) % n
<1>1. Distance((f + j) % n, f, n) = j
  BY DistanceIs
<1>2. Distance((f + k) % n, f, n) = k
  BY DistanceIs
<1> QED
  BY <1>1, <1>2

\* The slot at no distance is the first one.
LEMMA PlaceZero ==
  ASSUME NEW n \in Nat \ {0}, NEW f \in 0..n-1
  PROVE  (f + 0) % n = f
BY ModWrap DEF Wrap

-----------------------------------------------------------------------------
\* The m entries of s from slot f on, as a sequence.
RingSeq(s, f, m, n) == [k \in 1..m |-> s[(f + k - 1) % n]]

LEMMA RingSeqLen ==
  ASSUME NEW s, NEW f, NEW n, NEW m \in Nat
  PROVE  Len(RingSeq(s, f, m, n)) = m
BY DEF RingSeq

LEMMA RingSeqEntry ==
  ASSUME NEW s, NEW n, NEW f \in Int, NEW m \in Nat, NEW k \in 1..m
  PROVE  RingSeq(s, f, m, n)[k] = s[(f + (k - 1)) % n]
<1>1. f + k - 1 = f + (k - 1)
  OBVIOUS
<1> QED
  BY <1>1 DEF RingSeq

LEMMA RingSeqType ==
  ASSUME NEW n \in Nat \ {0}, NEW S, NEW s, \A i \in 0..n-1 : s[i] \in S,
         NEW f \in 0..n-1, NEW m \in 0..n
  PROVE  RingSeq(s, f, m, n) \in Seq(S)
<1>1. \A k \in 1..m : f + k - 1 = f + (k - 1) /\ k - 1 \in 0..n-1
  OBVIOUS
<1>2. \A k \in 1..m : (f + (k - 1)) % n \in 0..n-1
  BY <1>1, DistanceIs
<1>3. \A k \in 1..m : (f + k - 1) % n \in 0..n-1
  BY <1>1, <1>2
<1>4. \A k \in 1..m : s[(f + k - 1) % n] \in S
  BY <1>3
<1> QED
  BY <1>4 DEF RingSeq

\* An entry stored behind the last one is appended.
LEMMA RingSeqAppend ==
  ASSUME NEW n \in Nat \ {0}, NEW f \in 0..n-1, NEW m \in 0..n-1, NEW s, NEW t,
         NEW l, l = m + 1,
         \A i \in 0..n-1 : i # (f + m) % n => t[i] = s[i]
  PROVE  RingSeq(t, f, l, n) = Append(RingSeq(s, f, m, n), t[(f + m) % n])
<1> DEFINE e == t[(f + m) % n]
           S == {s[i] : i \in 0..n-1} \cup {e}
           old == RingSeq(s, f, m, n)
           new == RingSeq(t, f, l, n)
           app == Append(old, e)
<1>1. (f + m) % n \in 0..n-1
  BY DistanceIs
<1>2. e \in S /\ (\A i \in 0..n-1 : s[i] \in S) /\ (\A i \in 0..n-1 : t[i] \in S)
  BY <1>1
<1>3. m \in 0..n /\ m \in Nat /\ l \in 0..n /\ l \in Nat
  OBVIOUS
<1> HIDE DEF S, e, old, new, app
<1>4. old \in Seq(S) /\ Len(old) = m
  BY <1>2, <1>3, RingSeqType, RingSeqLen DEF old
<1>5. new \in Seq(S) /\ Len(new) = l
  <2>1. new \in Seq(S)
    BY <1>2, <1>3, RingSeqType DEF new
  <2>2. Len(new) = l
    BY <1>3, RingSeqLen DEF new
  <2> QED
    BY <2>1, <2>2
<1>6. /\ app \in Seq(S) /\ Len(app) = m + 1
      /\ \A k \in 1..m : app[k] = old[k]
      /\ app[m + 1] = e
  BY <1>2, <1>4, AppendProperties DEF app
<1>7. ASSUME NEW k \in 1..m
      PROVE  new[k] = app[k]
  <2>1. k - 1 \in 0..n-1 /\ k - 1 # m /\ k \in 1..l
    OBVIOUS
  <2>2. (f + (k - 1)) % n \in 0..n-1 /\ (f + (k - 1)) % n # (f + m) % n
    BY <2>1, DistanceIs, PlacesDiffer
  <2>3. new[k] = t[(f + (k - 1)) % n]
    BY <1>3, <2>1, RingSeqEntry DEF new
  <2>4. old[k] = s[(f + (k - 1)) % n]
    BY <1>3, RingSeqEntry DEF old
  <2> QED
    BY <1>6, <2>2, <2>3, <2>4
<1>8. new[m + 1] = app[m + 1]
  <2>1. l \in 1..l /\ l - 1 = m
    OBVIOUS
  <2>2. new[l] = t[(f + (l - 1)) % n]
    BY <1>3, <2>1, RingSeqEntry DEF new
  <2> QED
    BY <1>6, <2>1, <2>2 DEF e
<1>9. \A k \in 1..l : new[k] = app[k]
  BY <1>7, <1>8
<1>10. new = app
  BY <1>4, <1>5, <1>6, <1>9, SeqEqual
<1> QED
  BY <1>10 DEF old, new, app, e

\* What is left when the first one is taken, whatever becomes of its slot.
LEMMA RingSeqTail ==
  ASSUME NEW n \in Nat \ {0}, NEW f \in 0..n-1, NEW m \in 1..n, NEW s, NEW t,
         \A i \in 0..n-1 : i # f => t[i] = s[i]
  PROVE  /\ RingSeq(s, f, m, n) # <<>>
         /\ Head(RingSeq(s, f, m, n)) = s[f]
         /\ RingSeq(t, (f + 1) % n, m - 1, n) = Tail(RingSeq(s, f, m, n))
<1> DEFINE g == (f + 1) % n
           l == m - 1
           S == {s[i] : i \in 0..n-1} \cup {t[f]}
           old == RingSeq(s, f, m, n)
           new == RingSeq(t, g, l, n)
           tail == Tail(old)
<1>1. (\A i \in 0..n-1 : s[i] \in S) /\ (\A i \in 0..n-1 : t[i] \in S)
  OBVIOUS
<1>2. m \in 0..n /\ m \in Nat /\ l \in 0..n /\ l \in Nat /\ l = m - 1
  OBVIOUS
<1>3. g = (f + 1) % n /\ g \in 0..n-1 /\ f \in Int /\ g \in Int
  BY ModWrap
<1> HIDE DEF g, l, S, old, new, tail
<1>4. old \in Seq(S) /\ Len(old) = m
  <2>1. old \in Seq(S)
    BY <1>1, <1>2, RingSeqType DEF old
  <2>2. Len(old) = m
    BY <1>2, RingSeqLen DEF old
  <2> QED
    BY <2>1, <2>2
<1>5. new \in Seq(S) /\ Len(new) = l
  <2>1. new \in Seq(S)
    BY <1>1, <1>2, <1>3, RingSeqType DEF new
  <2>2. Len(new) = l
    BY <1>2, RingSeqLen DEF new
  <2> QED
    BY <2>1, <2>2
<1>6. old # <<>>
  BY <1>4
<1>7. old[1] = s[f]
  <2>1. 1 \in 1..m /\ 1 - 1 = 0
    OBVIOUS
  <2>2. old[1] = s[(f + (1 - 1)) % n]
    BY <1>2, <1>3, <2>1, RingSeqEntry DEF old
  <2> QED
    BY <2>1, <2>2, PlaceZero
<1>8. Head(old) = s[f]
  BY <1>4, <1>6, <1>7
<1>9. /\ tail \in Seq(S) /\ Len(tail) = m - 1
      /\ \A k \in 1..m-1 : tail[k] = old[k + 1]
  BY <1>4, <1>6, HeadTailProperties DEF tail
<1>10. ASSUME NEW k \in 1..l
       PROVE  new[k] = tail[k]
  <2>1. /\ k \in 1..m-1 /\ k \in 1..n /\ k \in 0..n-1 /\ 0 \in 0..n-1 /\ k # 0
        /\ k + 1 \in 1..m /\ (k + 1) - 1 = k
    BY <1>2
  <2>2. new[k] = t[(g + (k - 1)) % n]
    BY <1>2, <1>3, RingSeqEntry DEF new
  <2>3. old[k + 1] = s[(f + k) % n]
    BY <2>1 DEF old, RingSeq
  <2>4. (g + (k - 1)) % n = (f + k) % n
    BY <1>3, <2>1, ModTake
  <2>5. (f + k) % n \in 0..n-1 /\ (f + k) % n # f
    <3>1. (f + k) % n # (f + 0) % n
      BY <2>1, PlacesDiffer
    <3>2. (f + k) % n \in 0..n-1
      BY <2>1, DistanceIs
    <3> QED
      BY <3>1, <3>2, PlaceZero
  <2>6. tail[k] = old[k + 1]
    BY <1>9, <2>1
  <2> QED
    BY <2>1, <2>2, <2>3, <2>4, <2>5, <2>6
<1>11. \A k \in 1..l : new[k] = tail[k]
  BY <1>10
<1>12. new = tail
  BY <1>2, <1>5, <1>9, <1>11, SeqEqual
<1> QED
  BY <1>6, <1>8, <1>12 DEF old, new, tail, g, l

-----------------------------------------------------------------------------
(* Queues                                                                  *)

\* What is in a queue, and that it is there once.
InSeq(c, q) == \E i \in 1..Len(q) : q[i] = c
Distinct(q) == \A i, j \in 1..Len(q) : q[i] = q[j] => i = j

LEMMA AppendHas ==
  ASSUME NEW S, NEW q \in Seq(S), NEW e \in S, Distinct(q), ~InSeq(e, q)
  PROVE  /\ Append(q, e) \in Seq(S) /\ Distinct(Append(q, e))
         /\ \A c : InSeq(c, Append(q, e)) <=> InSeq(c, q) \/ c = e
<1> DEFINE a == Append(q, e)
<1>1. /\ Len(q) \in Nat /\ a \in Seq(S) /\ Len(a) = Len(q) + 1
      /\ \A i \in 1..Len(q) : a[i] = q[i]
      /\ a[Len(q) + 1] = e
  BY AppendProperties
<1> HIDE DEF a
<1>2. \A i \in 1..Len(a) : i \in 1..Len(q) \/ i = Len(q) + 1
  BY <1>1
<1>3. 1..Len(q) \subseteq 1..Len(a) /\ Len(q) + 1 \in 1..Len(a)
  BY <1>1
<1>4. Distinct(a)
  BY <1>1, <1>2 DEF Distinct, InSeq
<1>5. \A c : InSeq(c, a) <=> InSeq(c, q) \/ c = e
  BY <1>1, <1>2, <1>3 DEF InSeq
<1> QED
  BY <1>1, <1>4, <1>5 DEF a

LEMMA TailHas ==
  ASSUME NEW S, NEW q \in Seq(S), q # <<>>, Distinct(q)
  PROVE  /\ Head(q) \in S /\ InSeq(Head(q), q)
         /\ Tail(q) \in Seq(S) /\ Distinct(Tail(q))
         /\ \A c : InSeq(c, Tail(q)) <=> InSeq(c, q) /\ c # Head(q)
<1> DEFINE t == Tail(q)
<1>1. /\ Len(q) \in Nat \ {0} /\ t \in Seq(S) /\ Len(t) = Len(q) - 1
      /\ Head(q) \in S /\ Head(q) = q[1]
      /\ \A i \in 1..Len(t) : t[i] = q[i + 1]
  BY HeadTailProperties
<1> HIDE DEF t
<1>2. /\ 1 \in 1..Len(q)
      /\ \A i \in 1..Len(t) : i + 1 \in 1..Len(q) /\ i + 1 # 1
      /\ \A i \in 1..Len(q) : i # 1 => i - 1 \in 1..Len(t) /\ (i - 1) + 1 = i
  BY <1>1
<1>3. InSeq(Head(q), q)
  BY <1>1, <1>2 DEF InSeq
<1>4. ASSUME NEW i \in 1..Len(t), NEW j \in 1..Len(t), t[i] = t[j]
      PROVE  i = j
  <2>1. i + 1 = j + 1
    BY <1>1, <1>2, <1>4 DEF Distinct
  <2> QED
    BY <1>1, <2>1
<1>5. ASSUME NEW c
      PROVE  InSeq(c, t) <=> InSeq(c, q) /\ c # Head(q)
  <2>1. ASSUME InSeq(c, t) PROVE InSeq(c, q) /\ c # Head(q)
    <3>1. PICK i \in 1..Len(t) : t[i] = c
      BY <2>1 DEF InSeq
    <3>2. q[i + 1] = c /\ i + 1 \in 1..Len(q) /\ i + 1 # 1
      BY <1>1, <1>2, <3>1
    <3> QED
      BY <1>1, <1>2, <3>2 DEF InSeq, Distinct
  <2>2. ASSUME InSeq(c, q), c # Head(q) PROVE InSeq(c, t)
    <3>1. PICK i \in 1..Len(q) : q[i] = c
      BY <2>2 DEF InSeq
    <3>2. i # 1 /\ i - 1 \in 1..Len(t) /\ (i - 1) + 1 = i
      BY <1>1, <1>2, <2>2, <3>1
    <3>3. t[i - 1] = q[(i - 1) + 1]
      BY <1>1, <3>2
    <3> QED
      BY <3>1, <3>2, <3>3 DEF InSeq
  <2> QED
    BY <2>1, <2>2
<1> QED
  BY <1>1, <1>3, <1>4, <1>5 DEF t, Distinct

-----------------------------------------------------------------------------
(* The lowest of some numbers                                              *)

LEMMA LeastExists ==
  ASSUME NEW S \in SUBSET Nat, S # {}
  PROVE  \E k \in S : \A l \in S : k <= l
<1>1. PICK k \in S : \A l \in S : <<l, k>> \notin OpToRel(<, Nat)
  BY NatLessThanWellFounded, WFMin
<1>2. \A l \in S : ~(l < k)
  BY <1>1 DEF OpToRel
<1>3. \A l \in S : k <= l
  BY <1>2
<1> QED
  BY <1>3
=============================================================================
