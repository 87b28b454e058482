--------------------------- MODULE RankMapsShrink ---------------------------
(***************************************************************************)
(* Lemmas about the shrink computation of RankMaps: what the compacted     *)
(* tables and the compacted world hold, for any number of ranks, replicas  *)
(* and failures.                                                           *)
(***************************************************************************)
EXTENDS RankMaps, TLAPS, FiniteSetTheorems

\* The tables before a shrink, and a set of failed positions it can cover.
Tables ==
  /\ nR \in 0..NR
  /\ ctr \in [Cmps -> NoRank..(NR - 1)]
  /\ rtc \in [0..(NR - 1) -> NoRank..(NC - 1)]
  /\ MutuallyInverse(ctr, rtc)

Coverable(lost) ==
  /\ lost \subseteq 0..(NC + nR - 1)
  /\ \A i \in lost : i < NC => ctr[i] # NoRank /\ NC + ctr[i] \notin lost

Vacated(lost, i) == \E j \in lost : Slot(j) = i

\* Distinct failed positions vacate distinct replica positions: the loop over
\* failed_ranks never clears a slot twice.
LEMMA SlotInjective ==
  ASSUME Tables, NEW lost, Coverable(lost)
  PROVE  /\ \A i \in lost : Slot(i) \in NC..(NC + nR - 1)
         /\ \A i, j \in lost : Slot(i) = Slot(j) => i = j
<1>1. ASSUME NEW i \in lost PROVE Slot(i) \in NC..(NC + nR - 1)
  BY SizeAssumption, SMTT(30) DEF Tables, Coverable, MutuallyInverse, Slot, Cmps, NoRank
<1>2. ASSUME NEW i \in lost, NEW j \in lost, Slot(i) = Slot(j) PROVE i = j
  <2>1. /\ i \in Int /\ j \in Int /\ NC \in Int
        /\ i >= 0 /\ j >= 0
        /\ i < NC => ctr[i] \in Int /\ NC + ctr[i] \notin lost /\ rtc[ctr[i]] = i
        /\ j < NC => ctr[j] \in Int /\ NC + ctr[j] \notin lost /\ rtc[ctr[j]] = j
    BY SizeAssumption DEF Tables, Coverable, MutuallyInverse, Cmps, NoRank
  <2>2. CASE i < NC /\ j < NC
    <3>1. ctr[i] = ctr[j]
      BY <1>2, <2>1, <2>2 DEF Slot
    <3> QED BY <2>1, <2>2, <3>1
  <2>3. CASE i < NC /\ ~(j < NC)
    BY <1>2, <2>1, <2>3 DEF Slot
  <2>4. CASE ~(i < NC)
    BY <1>2, <2>1, <2>4 DEF Slot
  <2> QED BY <2>2, <2>3, <2>4
<1> QED BY <1>1, <1>2

\* The shift counts are finite cardinalities.
LEMMA LostFinite ==
  ASSUME Tables, NEW lost, Coverable(lost)
  PROVE  /\ IsFiniteSet(lost) /\ Cardinality(lost) \in Nat
         /\ \A i \in Int : /\ IsFiniteSet({j \in lost : Slot(j) < i})
                           /\ RankAdjRep(lost, i) \in Nat
<1>1. IsFiniteSet(0..(NC + nR - 1))
  BY SizeAssumption, FS_Interval DEF Tables
<1>2. IsFiniteSet(lost)
  BY Zenon, <1>1, FS_Subset DEF Coverable
<1>3. ASSUME NEW i \in Int PROVE IsFiniteSet({j \in lost : Slot(j) < i})
  BY <1>2, FS_Subset
<1> QED BY <1>2, <1>3, FS_CardinalityType DEF RankAdjRep

\* Between two positions the shift grows by at most the number of positions.
LEMMA ShiftGap ==
  ASSUME Tables, NEW lost, Coverable(lost),
         NEW lo \in Int, NEW hi \in Int, lo < hi
  PROVE  /\ RankAdjRep(lost, hi) - RankAdjRep(lost, lo) \in 0..(hi - lo)
         /\ ~Vacated(lost, lo) =>
              RankAdjRep(lost, hi) - RankAdjRep(lost, lo) <= hi - lo - 1
<1> DEFINE A(i) == {j \in lost : Slot(j) < i}
           D == {j \in lost : lo <= Slot(j) /\ Slot(j) < hi}
           f == [j \in D |-> Slot(j)]
<1>1. \A j \in lost : Slot(j) \in Int
  BY SlotInjective, SizeAssumption DEF Tables
<1>2. A(hi) = A(lo) \cup D /\ A(lo) \cap D = {}
  BY <1>1
<1>3. IsFiniteSet(A(lo)) /\ IsFiniteSet(A(hi)) /\ IsFiniteSet(D)
  BY LostFinite, FS_Subset
<1>4. Cardinality(A(hi)) = Cardinality(A(lo)) + Cardinality(D)
  <2>1. Cardinality(A(lo) \cap D) = 0
    BY <1>2, FS_EmptySet
  <2>2. Cardinality(A(lo) \cup D) = Cardinality(A(lo)) + Cardinality(D) - 0
    BY <1>3, <2>1, FS_Union
  <2>3. Cardinality(A(lo)) \in Nat /\ Cardinality(D) \in Nat
    BY <1>3, FS_CardinalityType
  <2> HIDE DEF A, D
  <2> QED BY <1>2, <2>2, <2>3
<1>5. \A i, j \in D : f[i] = f[j] => i = j
  BY SlotInjective
<1>6. Cardinality(D) \in 0..(hi - lo)
  <2>1. f \in Injection(D, lo..(hi - 1))
    BY <1>1, <1>5 DEF Injection, IsInjective
  <2>2. IsFiniteSet(lo..(hi - 1)) /\ Cardinality(lo..(hi - 1)) = hi - lo
    BY FS_Interval
  <2>3. Cardinality(D) <= Cardinality(lo..(hi - 1))
    BY <2>1, <2>2, FS_Injection
  <2>4. Cardinality(D) \in Nat
    BY <1>3, FS_CardinalityType
  <2> HIDE DEF D
  <2> QED BY <2>2, <2>3, <2>4
<1>7. ASSUME ~Vacated(lost, lo) PROVE Cardinality(D) <= hi - lo - 1
  <2>1. f \in Injection(D, (lo + 1)..(hi - 1))
    BY <1>1, <1>5, <1>7 DEF Injection, IsInjective, Vacated
  <2>2. IsFiniteSet((lo + 1)..(hi - 1)) /\ Cardinality((lo + 1)..(hi - 1)) = hi - lo - 1
    BY FS_Interval
  <2>3. Cardinality(D) <= Cardinality((lo + 1)..(hi - 1))
    BY <2>1, <2>2, FS_Injection
  <2> HIDE DEF D
  <2> QED BY <2>2, <2>3
<1>8. Cardinality(A(lo)) \in Nat
  BY <1>3, FS_CardinalityType
<1>9. RankAdjRep(lost, hi) = Cardinality(A(hi)) /\ RankAdjRep(lost, lo) = Cardinality(A(lo))
  BY DEF RankAdjRep
<1> HIDE DEF A, D, f
<1> QED BY <1>4, <1>6, <1>7, <1>8, <1>9
\* The index replica k has after the shrink, and the replicas that remain.
NewIndex(lost, k) == k - RankAdjRep(lost, NC + k)
Kept(lost) == {k \in 0..(nR - 1) : ~Vacated(lost, NC + k)}

\* No computational position is shifted: rankadjrep is 0 below nC.
LEMMA NoShiftBelow ==
  ASSUME Tables, NEW lost, Coverable(lost), NEW i \in Int, i <= NC
  PROVE  RankAdjRep(lost, i) = 0
<1>1. {j \in lost : Slot(j) < i} = {}
  BY SlotInjective, SizeAssumption DEF Tables
<1> QED BY <1>1, FS_EmptySet DEF RankAdjRep

\* The remaining replicas keep their order and fall in 0..nR-nRdiff-1.
LEMMA NewIndexOrder ==
  ASSUME Tables, NEW lost, Coverable(lost)
  PROVE  /\ Cardinality(lost) \in 0..nR
         /\ \A k \in Kept(lost) : NewIndex(lost, k) \in 0..(nR - Cardinality(lost) - 1)
         /\ \A k, l \in Kept(lost) : k < l => NewIndex(lost, k) < NewIndex(lost, l)
         /\ \A k, l \in Kept(lost) : NewIndex(lost, k) = NewIndex(lost, l) => k = l
<1> USE SizeAssumption DEF Tables
<1>1. \A i \in Int : RankAdjRep(lost, i) \in Nat
  BY Zenon, LostFinite
<1>2. RankAdjRep(lost, NC) = 0
  BY NoShiftBelow
<1>3. RankAdjRep(lost, NC + nR) = Cardinality(lost)
  <2>1. {j \in lost : Slot(j) < NC + nR} = lost
    BY SlotInjective
  <2> QED BY Zenon, <2>1 DEF RankAdjRep
<1>4. Cardinality(lost) \in 0..nR
  <2>1. CASE nR = 0
    BY <2>1, <1>2, <1>3
  <2>2. CASE nR > 0
    <3>1. NC < NC + nR /\ NC \in Int /\ NC + nR \in Int
      BY <2>2
    <3>2. RankAdjRep(lost, NC + nR) - RankAdjRep(lost, NC) \in 0..(NC + nR - NC)
      BY <3>1, ShiftGap
    <3> QED BY <3>2, <1>2, <1>3, LostFinite
  <2> QED BY <2>1, <2>2
<1>5. ASSUME NEW k \in Kept(lost)
      PROVE  NewIndex(lost, k) \in 0..(nR - Cardinality(lost) - 1)
  <2>1. k \in 0..(nR - 1) /\ ~Vacated(lost, NC + k)
    BY DEF Kept
  <2>2. NC + k < NC + nR /\ NC + k \in Int /\ NC + nR \in Int
    BY <2>1
  <2>3. RankAdjRep(lost, NC + nR) - RankAdjRep(lost, NC + k) <= (NC + nR) - (NC + k) - 1
    BY <2>1, <2>2, ShiftGap
  <2>4. RankAdjRep(lost, NC + k) <= k
    <3>1. CASE k = 0
      BY <3>1, <1>2
    <3>2. CASE k > 0
      <4>1. NC < NC + k /\ NC \in Int
        BY <3>2, <2>1
      <4>2. RankAdjRep(lost, NC + k) - RankAdjRep(lost, NC) \in 0..((NC + k) - NC)
        BY <4>1, <2>2, ShiftGap
      <4>3. RankAdjRep(lost, NC + k) \in Nat
        BY <1>1, <2>2
      <4> QED BY <4>2, <4>3, <1>2, <2>1
    <3> QED BY <3>1, <3>2, <2>1
  <2>5. RankAdjRep(lost, NC + k) \in Nat
    BY <1>1, <2>2
  <2>6. NewIndex(lost, k) = k - RankAdjRep(lost, NC + k)
    BY DEF NewIndex
  <2>7. /\ k \in Int /\ nR \in Int /\ NC \in Int /\ Cardinality(lost) \in Int
        /\ Cardinality(lost) - RankAdjRep(lost, NC + k) <= nR - k - 1
    <3>1. k \in Int /\ nR \in Int /\ NC \in Int /\ Cardinality(lost) \in Int
      BY <2>1, <1>4
    <3> QED BY <3>1, <2>3, <2>5, <1>3
  <2> HIDE DEF Tables
  <2> QED BY <2>4, <2>5, <2>6, <2>7
<1>6. ASSUME NEW k \in Kept(lost), NEW l \in Kept(lost), k < l
      PROVE  NewIndex(lost, k) < NewIndex(lost, l)
  <2>1. k \in 0..(nR - 1) /\ l \in 0..(nR - 1) /\ ~Vacated(lost, NC + k)
    BY DEF Kept
  <2>2. NC + k < NC + l /\ NC + k \in Int /\ NC + l \in Int
    BY <2>1, <1>6
  <2>3. RankAdjRep(lost, NC + l) - RankAdjRep(lost, NC + k) <= (NC + l) - (NC + k) - 1
    BY <2>1, <2>2, ShiftGap
  <2>4. RankAdjRep(lost, NC + k) \in Nat /\ RankAdjRep(lost, NC + l) \in Nat
    BY <1>1, <2>2
  <2> QED BY <2>1, <2>3, <2>4 DEF NewIndex
<1>7. ASSUME NEW k \in Kept(lost), NEW l \in Kept(lost), NewIndex(lost, k) = NewIndex(lost, l)
      PROVE  k = l
  <2>1. k \in Int /\ l \in Int
    BY DEF Kept
  <2>2. NewIndex(lost, k) \in Int /\ NewIndex(lost, l) \in Int
    BY <1>4, <1>5
  <2>3. ~(k < l) /\ ~(l < k)
    BY <1>7, <1>6, <2>2
  <2> QED BY <2>1, <2>3
<1> QED BY <1>4, <1>5, <1>6, <1>7

\* Every index below the new nR is the new index of a remaining replica: the
\* compaction leaves no hole.
LEMMA NewIndexOnto ==
  ASSUME Tables, NEW lost, Coverable(lost),
         NEW t \in 0..(nR - Cardinality(lost) - 1)
  PROVE  \E k \in Kept(lost) : NewIndex(lost, k) = t
<1> USE SizeAssumption DEF Tables
<1> DEFINE All == 0..(nR - 1)
           Gone == All \ Kept(lost)
           g == [j \in lost |-> Slot(j) - NC]
           T == 0..(nR - Cardinality(lost) - 1)
           h == [k \in Kept(lost) |-> NewIndex(lost, k)]
<1>1. IsFiniteSet(All) /\ Cardinality(All) = nR
  <2>1. 0 \in Int /\ nR - 1 \in Int
    OBVIOUS
  <2>2. IsFiniteSet(All) /\ Cardinality(All) = IF 0 > nR - 1 THEN 0 ELSE nR - 1 - 0 + 1
    BY Zenon, <2>1, FS_Interval
  <2> HIDE DEF All
  <2> QED BY <2>2
<1>2. IsFiniteSet(Kept(lost)) /\ IsFiniteSet(Gone)
  BY <1>1, FS_Subset DEF Kept
<1>3. Cardinality(Gone) = Cardinality(lost)
  <2>1. \A j \in lost : Slot(j) \in NC..(NC + nR - 1)
    BY SlotInjective
  <2>2. \A i, j \in lost : Slot(i) = Slot(j) => i = j
    BY SlotInjective
  <2>3. \A j \in lost : g[j] \in Gone
    BY <2>1 DEF Kept, Vacated
  <2>4. g \in Injection(lost, Gone)
    BY <2>1, <2>2, <2>3 DEF Injection, IsInjective
  <2>5. \A k \in Gone : \E j \in lost : g[j] = k
    BY <2>1 DEF Kept, Vacated
  <2>6. g \in Surjection(lost, Gone)
    BY <2>3, <2>5 DEF Surjection
  <2> QED BY <2>4, <2>6, <1>2, FS_Injection
<1>4. Cardinality(Kept(lost)) = nR - Cardinality(lost)
  <2>1. All = Kept(lost) \cup Gone /\ Kept(lost) \cap Gone = {}
    BY DEF Kept
  <2>2. Cardinality(Kept(lost) \cap Gone) = 0
    BY Zenon, <2>1, FS_EmptySet
  <2>3. Cardinality(All) = Cardinality(Kept(lost)) + Cardinality(Gone) - Cardinality(Kept(lost) \cap Gone)
    BY Zenon, <2>1, <1>2, FS_Union
  <2>4. Cardinality(Kept(lost)) \in Nat /\ Cardinality(lost) \in Nat
    BY <1>2, LostFinite, FS_CardinalityType
  <2> HIDE DEF All, Gone
  <2> QED BY <2>2, <2>3, <2>4, <1>1, <1>3
<1>5. IsFiniteSet(T) /\ Cardinality(T) = nR - Cardinality(lost)
  <2>1. Cardinality(lost) \in 0..nR
    BY NewIndexOrder
  <2>2. 0 \in Int /\ nR - Cardinality(lost) - 1 \in Int
    BY <2>1
  <2>3. /\ IsFiniteSet(T)
        /\ Cardinality(T) = IF 0 > nR - Cardinality(lost) - 1 THEN 0
                            ELSE nR - Cardinality(lost) - 1 - 0 + 1
    BY Zenon, <2>2, FS_Interval
  <2> HIDE DEF T
  <2> QED BY <2>1, <2>3
<1>6. h \in Injection(Kept(lost), T)
  BY NewIndexOrder DEF Injection, IsInjective
<1>7. h \in Surjection(Kept(lost), T)
  BY <1>4, <1>5, <1>6, FS_Injection
<1> QED BY Zenon, <1>7 DEF Surjection
\* repToCmpMap after the shrink: a remaining replica keeps its rank.
LEMMA ShrunkRtcAt ==
  ASSUME Tables, NEW lost, Coverable(lost), NEW k \in Kept(lost)
  PROVE  ShrunkRtc(lost)[NewIndex(lost, k)] = rtc[k]
<1> USE SizeAssumption DEF Tables
<1> DEFINE t == NewIndex(lost, k)
           kept == {i \in 0..(nR - 1) :
                      /\ \A j \in lost : Slot(j) # NC + i
                      /\ rtc[i] # NoRank
                      /\ i - RankAdjRep(lost, NC + i) = t}
<1>1. k \in 0..(nR - 1) /\ rtc[k] \in Cmps
  BY DEF Kept, MutuallyInverse
<1>2. t \in 0..(NR - 1)
  BY NewIndexOrder
<1>3. kept = {k}
  <2>1. k \in kept
    BY <1>1 DEF Kept, Vacated, NewIndex, Cmps, NoRank
  <2>2. \A i \in kept : i \in Kept(lost) /\ NewIndex(lost, i) = t
    BY DEF Kept, Vacated, NewIndex
  <2>3. \A i \in kept : i = k
    BY Zenon, <2>2, NewIndexOrder
  <2> QED BY <2>1, <2>3
<1>4. (CHOOSE i \in kept : \A j \in kept : j <= i) = k
  <2> HIDE DEF kept
  <2>1. k \in kept /\ \A j \in kept : j <= k
    BY <1>1, <1>3
  <2>2. (CHOOSE i \in kept : \A j \in kept : j <= i) \in kept
    BY <2>1, Zenon
  <2> QED BY <2>2, <1>3
<1>5. ShrunkRtc(lost)[t] =
        IF kept # {} THEN rtc[CHOOSE i \in kept : \A j \in kept : j <= i]
        ELSE IF \E j \in lost : Slot(j) = NC + t THEN NoRank ELSE rtc[t]
  BY <1>2 DEF ShrunkRtc
<1> HIDE DEF kept, t
<1>6. ShrunkRtc(lost)[t] = rtc[k]
  BY Zenon, <1>3, <1>4, <1>5
<1> QED BY <1>6 DEF t

\* A rank keeps a replica exactly when neither it nor its replica failed.
LEMMA ShrunkCtrAt ==
  ASSUME Tables, NEW lost, Coverable(lost), NEW c \in Cmps
  PROVE  ShrunkCtr(lost)[c] =
           IF ctr[c] \in Kept(lost) THEN NewIndex(lost, ctr[c]) ELSE NoRank
<1> USE SizeAssumption DEF Tables
<1>1. ctr[c] = NoRank => ctr[c] \notin Kept(lost)
  BY DEF Kept, NoRank
<1>2. ASSUME ctr[c] # NoRank
      PROVE  ctr[c] \in Kept(lost)
               <=> ~(c \in lost \/ \E j \in lost : j >= NC /\ rtc[j - NC] = c)
  <2>1. ctr[c] \in 0..(nR - 1) /\ rtc[ctr[c]] = c
    BY <1>2 DEF MutuallyInverse
  <2>2. c \in lost => Vacated(lost, NC + ctr[c])
    BY DEF Vacated, Slot, Cmps
  <2>3. ASSUME NEW j \in lost, j >= NC, rtc[j - NC] = c
        PROVE  Vacated(lost, NC + ctr[c])
    <3>1. j - NC \in 0..(nR - 1)
      BY <2>3 DEF Coverable
    <3>2. ctr[c] = j - NC
      BY <2>3, <3>1 DEF MutuallyInverse
    <3>3. Slot(j) = j /\ NC + ctr[c] = j
      BY <2>3, <3>1, <3>2 DEF Slot, Coverable
    <3> QED BY <3>3 DEF Vacated
  <2>4. ASSUME NEW j \in lost, Slot(j) = NC + ctr[c]
        PROVE  c \in lost \/ (j >= NC /\ rtc[j - NC] = c)
    <3>1. CASE j < NC
      <4>1. j \in Cmps /\ ctr[j] # NoRank
        BY <3>1 DEF Coverable, Cmps
      <4>2. ctr[j] = ctr[c]
        BY <3>1, <2>1, <2>4, <4>1 DEF Slot, Cmps, NoRank
      <4>3. j = c
        BY <4>1, <4>2, <2>1 DEF MutuallyInverse
      <4> QED BY <4>3
    <3>2. CASE ~(j < NC)
      BY <3>2, <2>1, <2>4 DEF Slot, Coverable
    <3> QED BY <3>1, <3>2
  <2> QED BY <2>1, <2>2, <2>3, <2>4 DEF Kept, Vacated
<1>3. ShrunkCtr(lost)[c] =
        IF ctr[c] = NoRank \/ c \in lost
           \/ \E j \in lost : j >= NC /\ rtc[j - NC] = c
        THEN NoRank ELSE ctr[c] - RankAdjRep(lost, NC + ctr[c])
  BY DEF ShrunkCtr
<1> QED BY <1>1, <1>2, <1>3 DEF NewIndex
\* A shrink that covers its failures leaves inverse tables of the new size.
LEMMA ShrunkTables ==
  ASSUME Tables, NEW lost, Coverable(lost)
  PROVE  LET n == nR - Cardinality(lost)
             c2r == ShrunkCtr(lost)
             r2c == ShrunkRtc(lost)
         IN  /\ n \in 0..NR
             /\ c2r \in [Cmps -> NoRank..(NR - 1)]
             /\ r2c \in [0..(NR - 1) -> NoRank..(NC - 1)]
             /\ \A c \in Cmps : c2r[c] # NoRank => c2r[c] \in 0..(n - 1) /\ r2c[c2r[c]] = c
             /\ \A k \in 0..(n - 1) : r2c[k] \in Cmps /\ c2r[r2c[k]] = k
<1> USE SizeAssumption DEF Tables
<1> DEFINE n == nR - Cardinality(lost)
           c2r == ShrunkCtr(lost)
           r2c == ShrunkRtc(lost)
<1>1. n \in 0..NR
  BY NewIndexOrder
<1>2. ASSUME NEW c \in Cmps
      PROVE  /\ c2r[c] \in NoRank..(NR - 1)
             /\ c2r[c] # NoRank => c2r[c] \in 0..(n - 1) /\ r2c[c2r[c]] = c
  <2>1. CASE ctr[c] \in Kept(lost)
    <3>1. c2r[c] = NewIndex(lost, ctr[c])
      BY <2>1, ShrunkCtrAt
    <3>2. c2r[c] \in 0..(n - 1)
      BY <2>1, <3>1, NewIndexOrder
    <3>3. r2c[c2r[c]] = rtc[ctr[c]]
      BY <2>1, <3>1, ShrunkRtcAt
    <3>4. rtc[ctr[c]] = c
      BY <2>1 DEF MutuallyInverse, Kept, NoRank
    <3> HIDE DEF c2r, r2c
    <3> QED BY <1>1, <3>2, <3>3, <3>4 DEF NoRank
  <2>2. CASE ctr[c] \notin Kept(lost)
    <3>1. c2r[c] = NoRank
      BY <2>2, ShrunkCtrAt
    <3> QED BY <3>1 DEF NoRank
  <2> QED BY <2>1, <2>2
<1>3. ASSUME NEW t \in 0..(n - 1)
      PROVE  r2c[t] \in Cmps /\ c2r[r2c[t]] = t
  <2>1. PICK k \in Kept(lost) : NewIndex(lost, k) = t
    BY NewIndexOnto
  <2>2. r2c[t] = rtc[k]
    BY <2>1, ShrunkRtcAt
  <2>3. rtc[k] \in Cmps /\ ctr[rtc[k]] = k
    BY DEF Kept, MutuallyInverse
  <2>4. c2r[rtc[k]] = t
    BY <2>1, <2>3, ShrunkCtrAt
  <2> QED BY <2>2, <2>3, <2>4
<1>4. c2r \in [Cmps -> NoRank..(NR - 1)]
  BY <1>2 DEF ShrunkCtr
<1>5. r2c \in [0..(NR - 1) -> NoRank..(NC - 1)]
  <2>1. ASSUME NEW t \in 0..(NR - 1) PROVE r2c[t] \in NoRank..(NC - 1)
    <3>1. CASE \E k \in Kept(lost) : NewIndex(lost, k) = t
      <4>1. PICK k \in Kept(lost) : NewIndex(lost, k) = t
        BY <3>1
      <4> QED BY <4>1, ShrunkRtcAt DEF Kept
    <3>2. CASE ~\E k \in Kept(lost) : NewIndex(lost, k) = t
      <4> DEFINE kept == {i \in 0..(nR - 1) :
                            /\ \A j \in lost : Slot(j) # NC + i
                            /\ rtc[i] # NoRank
                            /\ i - RankAdjRep(lost, NC + i) = t}
      <4>1. kept = {}
        BY <3>2 DEF Kept, Vacated, NewIndex
      <4>2. r2c[t] = IF kept # {} THEN rtc[CHOOSE i \in kept : \A j \in kept : j <= i]
                     ELSE IF \E j \in lost : Slot(j) = NC + t THEN NoRank ELSE rtc[t]
        BY DEF ShrunkRtc
      <4> HIDE DEF kept, r2c
      <4> QED BY <4>1, <4>2 DEF NoRank
    <3> QED BY <3>1, <3>2
  <2> QED BY Zenon, <2>1 DEF ShrunkRtc
<1> HIDE DEF n, c2r, r2c
<1> QED BY <1>1, <1>2, <1>3, <1>4, <1>5 DEF n, c2r, r2c

\* The shrunk world: a failed rank's position goes to its replica, every other
\* rank keeps its position, and a remaining replica moves to its new index.
LEMMA ShrunkWorldAt ==
  ASSUME Tables, NEW lost, Coverable(lost)
  PROVE  /\ DOMAIN ShrunkWorld(lost) = 0..(NC + nR - Cardinality(lost) - 1)
         /\ \A c \in Cmps : ShrunkWorld(lost)[c] = eworld[IF c \in lost THEN Slot(c) ELSE c]
         /\ \A k \in Kept(lost) :
              ShrunkWorld(lost)[NC + NewIndex(lost, k)] = eworld[NC + k]
<1> USE SizeAssumption DEF Tables
<1> DEFINE n == nR - Cardinality(lost)
           src(t) == {i \in 0..(NC + nR - 1) :
                        /\ WorldCommRanks(lost, i) # NoRank
                        /\ i - RankAdjRep(lost, i) = t}
<1>1. n \in 0..nR /\ n = nR - Cardinality(lost) /\ Cardinality(lost) \in Int
  BY NewIndexOrder
<1>2. \A i \in lost : Slot(i) \in NC..(NC + nR - 1)
  BY SlotInjective
<1>3. \A c \in Cmps : /\ RankAdjRep(lost, c) = 0
                      /\ ~Vacated(lost, c)
                       /\ WorldCommRanks(lost, c) = (IF c \in lost THEN Slot(c) ELSE c)
                       /\ WorldCommRanks(lost, c) # NoRank
  <2> TAKE c \in Cmps
  <2>1. RankAdjRep(lost, c) = 0
    BY NoShiftBelow DEF Cmps
  <2>2. ~Vacated(lost, c)
    BY <1>2 DEF Vacated, Cmps
  <2> QED BY <1>2, <2>1, <2>2 DEF Vacated, WorldCommRanks, Cmps, NoRank
<1>4. \A k \in 0..(nR - 1) : WorldCommRanks(lost, NC + k) # NoRank => k \in Kept(lost)
  BY DEF WorldCommRanks, Vacated, Kept
<1>5. \A k \in Kept(lost) : WorldCommRanks(lost, NC + k) = NC + k
  <2> TAKE k \in Kept(lost)
  <2>1. k \in 0..(nR - 1) /\ ~Vacated(lost, NC + k)
    BY DEF Kept
  <2>2. NC + k \notin lost
    BY <2>1 DEF Vacated, Slot
  <2> QED BY <2>1, <2>2 DEF WorldCommRanks, Vacated
<1>6. \A k \in Kept(lost) : (NC + k) - RankAdjRep(lost, NC + k) = NC + NewIndex(lost, k)
  <2> TAKE k \in Kept(lost)
  <2>1. k \in Int /\ NC + k \in Int
    BY DEF Kept
  <2>2. \A i \in Int : RankAdjRep(lost, i) \in Nat
    BY Zenon, LostFinite
  <2> QED BY <2>1, <2>2 DEF NewIndex
<1>7. ASSUME NEW c \in Cmps PROVE src(c) = {c}
  <2>1. c \in src(c)
    BY <1>3 DEF Cmps
  <2>2. ASSUME NEW i \in src(c) PROVE i = c
    <3>1. CASE i < NC
      BY <3>1, <1>3, <2>2 DEF Cmps
    <3>2. CASE ~(i < NC)
      <4>1. i - NC \in 0..(nR - 1) /\ i = NC + (i - NC)
        BY <3>2, <2>2
      <4>2. i - NC \in Kept(lost)
        BY <4>1, <2>2, <1>4
      <4>3. i - RankAdjRep(lost, i) = NC + NewIndex(lost, i - NC)
        BY <4>1, <4>2, <1>6
      <4>4. NewIndex(lost, i - NC) >= 0 /\ NewIndex(lost, i - NC) \in Int
        BY <4>2, NewIndexOrder, <1>1
      <4> QED BY <4>3, <4>4, <2>2 DEF Cmps
    <3> QED BY <3>1, <3>2
  <2> QED BY <2>1, <2>2
<1>8. ASSUME NEW k \in Kept(lost) PROVE src(NC + NewIndex(lost, k)) = {NC + k}
  <2> DEFINE t == NC + NewIndex(lost, k)
  <2>1. k \in 0..(nR - 1) /\ NewIndex(lost, k) \in 0..(n - 1)
    BY NewIndexOrder DEF Kept
  <2>2. NC + k \in src(t)
    BY <2>1, <1>5, <1>6 DEF NoRank
  <2>3. ASSUME NEW i \in src(t) PROVE i = NC + k
    <3>1. CASE i < NC
      BY <3>1, <1>1, <1>3, <2>1, <2>3 DEF Cmps
    <3>2. CASE ~(i < NC)
      <4>1. i - NC \in 0..(nR - 1) /\ i = NC + (i - NC)
        BY <3>2, <2>3
      <4>2. i - NC \in Kept(lost)
        BY <4>1, <2>3, <1>4
      <4>3. i - RankAdjRep(lost, i) = NC + NewIndex(lost, i - NC)
        BY <4>1, <4>2, <1>6
      <4>4. NewIndex(lost, i - NC) \in Int
        BY <4>2, NewIndexOrder, <1>1
      <4>5. NewIndex(lost, i - NC) = NewIndex(lost, k)
        BY <4>3, <4>4, <2>1, <2>3
      <4>6. i - NC = k
        BY <4>2, <4>5, NewIndexOrder
      <4> QED BY <4>1, <4>6
    <3> QED BY <3>1, <3>2
  <2> QED BY <2>2, <2>3
<1>9. ASSUME NEW t, NEW i \in Int, src(t) = {i} PROVE Compact(lost, t) = i
  <2>1. Compact(lost, t) = IF src(t) = {} THEN t
                           ELSE CHOOSE x \in src(t) : \A j \in src(t) : j <= x
    BY DEF Compact
  <2> HIDE DEF src
  <2>2. i \in src(t) /\ \A j \in src(t) : j <= i
    BY <1>9
  <2>3. (CHOOSE x \in src(t) : \A j \in src(t) : j <= x) \in src(t)
    BY <2>2, Zenon
  <2> QED BY <2>1, <2>3, <1>9
<1>10. DOMAIN ShrunkWorld(lost) = 0..(NC + nR - Cardinality(lost) - 1)
  BY DEF ShrunkWorld
<1>11. \A t \in 0..(NC + nR - Cardinality(lost) - 1) :
         ShrunkWorld(lost)[t] = eworld[WorldCommRanks(lost, Compact(lost, t))]
  BY DEF ShrunkWorld
<1> HIDE DEF src
<1>12. ASSUME NEW c \in Cmps
       PROVE  ShrunkWorld(lost)[c] = eworld[IF c \in lost THEN Slot(c) ELSE c]
  <2>1. c \in 0..(NC + nR - Cardinality(lost) - 1) /\ c \in Int
    BY <1>1 DEF Cmps
  <2>2. Compact(lost, c) = c
    BY <2>1, <1>7, <1>9
  <2> QED BY <2>1, <2>2, <1>3, <1>11
<1>13. ASSUME NEW k \in Kept(lost)
       PROVE  ShrunkWorld(lost)[NC + NewIndex(lost, k)] = eworld[NC + k]
  <2>1. NewIndex(lost, k) \in 0..(nR - Cardinality(lost) - 1)
    BY NewIndexOrder
  <2>2. NC + NewIndex(lost, k) \in 0..(NC + nR - Cardinality(lost) - 1)
    <3>1. Cardinality(lost) \in Int /\ nR \in Int /\ NC \in Nat
      BY <1>1
    <3> HIDE DEF Tables
    <3> QED BY <2>1, <3>1
  <2>3. NC + k \in Int
    BY DEF Kept
  <2>4. src(NC + NewIndex(lost, k)) = {NC + k}
    BY <1>8
  <2>5. Compact(lost, NC + NewIndex(lost, k)) = NC + k
    BY <2>3, <2>4, <1>9
  <2> QED BY <2>2, <2>5, <1>5, <1>11
<1> QED BY <1>10, <1>12, <1>13
\* The logical rank of position i.
Role(r2c, i) == IF i < NC THEN i ELSE r2c[i - NC]

\* The position that position t of the shrunk world had before.
Source(lost, t) ==
  IF t < NC THEN IF t \in lost THEN Slot(t) ELSE t
  ELSE NC + CHOOSE k \in Kept(lost) : NewIndex(lost, k) = t - NC

\* The shrunk world is an injective selection of the surviving positions, and a
\* process has the same logical rank before and after.
LEMMA ShrunkSource ==
  ASSUME Tables, NEW lost, Coverable(lost)
  PROVE  LET dom == 0..(NC + nR - Cardinality(lost) - 1) IN
         /\ \A t \in dom : /\ Source(lost, t) \in (0..(NC + nR - 1)) \ lost
                           /\ ShrunkWorld(lost)[t] = eworld[Source(lost, t)]
                           /\ Role(ShrunkRtc(lost), t) = Role(rtc, Source(lost, t))
         /\ \A t, u \in dom : Source(lost, t) = Source(lost, u) => t = u
         /\ \A i \in (0..(NC + nR - 1)) \ lost : \E t \in dom : Source(lost, t) = i
<1> USE SizeAssumption DEF Tables
<1> DEFINE dom == 0..(NC + nR - Cardinality(lost) - 1)
<1>1. Cardinality(lost) \in 0..nR
  BY NewIndexOrder
<1>2. \A i \in lost : Slot(i) \in NC..(NC + nR - 1)
  BY SlotInjective
<1>3. ASSUME NEW t \in dom, ~(t < NC)
      PROVE  \E k \in Kept(lost) : /\ NewIndex(lost, k) = t - NC
                                   /\ Source(lost, t) = NC + k
  <2>1. t - NC \in 0..(nR - Cardinality(lost) - 1)
    BY <1>1, <1>3
  <2>2. \E k \in Kept(lost) : NewIndex(lost, k) = t - NC
    BY <2>1, NewIndexOnto
  <2>3. (CHOOSE k \in Kept(lost) : NewIndex(lost, k) = t - NC) \in Kept(lost)
        /\ NewIndex(lost, CHOOSE k \in Kept(lost) : NewIndex(lost, k) = t - NC) = t - NC
    BY <2>2, Zenon
  <2>4. Source(lost, t) = NC + CHOOSE k \in Kept(lost) : NewIndex(lost, k) = t - NC
    BY <1>3 DEF Source
  <2> QED BY Zenon, <2>3, <2>4
<1>4. \A k \in Kept(lost) : k \in 0..(nR - 1) /\ NC + k \notin lost
                            /\ \A i \in lost : Slot(i) # NC + k
  BY DEF Kept, Vacated, Slot
<1>5. ASSUME NEW t \in dom
      PROVE  /\ Source(lost, t) \in (0..(NC + nR - 1)) \ lost
             /\ ShrunkWorld(lost)[t] = eworld[Source(lost, t)]
             /\ Role(ShrunkRtc(lost), t) = Role(rtc, Source(lost, t))
  <2>1. CASE t < NC
    <3>1. t \in Cmps /\ Source(lost, t) = (IF t \in lost THEN Slot(t) ELSE t)
      BY <2>1, <1>1 DEF Cmps, Source
    <3>2. ShrunkWorld(lost)[t] = eworld[Source(lost, t)]
      BY <3>1, ShrunkWorldAt
    <3>3. CASE t \in lost
      <4>1. ctr[t] # NoRank /\ NC + ctr[t] \notin lost /\ Slot(t) = NC + ctr[t]
        BY <2>1, <3>3 DEF Coverable, Slot
      <4>2. ctr[t] \in 0..(nR - 1) /\ rtc[ctr[t]] = t
        BY <4>1, <3>1 DEF MutuallyInverse
      <4> QED BY <2>1, <3>1, <3>2, <3>3, <4>1, <4>2 DEF Role
    <3>4. CASE t \notin lost
      BY <2>1, <3>1, <3>2, <3>4, <1>1 DEF Role
    <3> QED BY <3>3, <3>4
  <2>2. CASE ~(t < NC)
    <3>1. PICK k \in Kept(lost) : NewIndex(lost, k) = t - NC /\ Source(lost, t) = NC + k
      BY <2>2, <1>3
    <3>2. k \in 0..(nR - 1) /\ NC + k \notin lost
      BY <1>4
    <3>3. t = NC + NewIndex(lost, k)
      BY <3>1, <1>1
    <3>4. ShrunkWorld(lost)[t] = eworld[NC + k]
      BY <3>3, ShrunkWorldAt
    <3>5. ShrunkRtc(lost)[t - NC] = rtc[k]
      BY <3>1, ShrunkRtcAt
    <3> QED BY <2>2, <3>1, <3>2, <3>4, <3>5 DEF Role
  <2> QED BY <2>1, <2>2
<1>6. ASSUME NEW t \in dom, NEW u \in dom, t < NC, ~(u < NC)
      PROVE  Source(lost, t) # Source(lost, u)
  <2>1. PICK k \in Kept(lost) : Source(lost, u) = NC + k
    BY <1>6, <1>3
  <2>2. k \in 0..(nR - 1) /\ NC + k \notin lost /\ \A i \in lost : Slot(i) # NC + k
    BY <1>4
  <2>3. Source(lost, t) = (IF t \in lost THEN Slot(t) ELSE t)
    BY <1>6, <1>1 DEF Source
  <2>4. CASE t \in lost
    BY <2>1, <2>2, <2>3, <2>4
  <2>5. CASE t \notin lost
    <3>1. t \in Int /\ NC \in Int /\ k \in Int /\ k >= 0 /\ t < NC
      BY <1>6, <1>1, <2>2
    <3>2. t # NC + k
      BY <3>1
    <3> QED BY <2>1, <2>3, <2>5, <3>2
  <2> QED BY <2>4, <2>5
<1>7. ASSUME NEW t \in dom, NEW u \in dom, Source(lost, t) = Source(lost, u)
      PROVE  t = u
  <2>1. CASE t < NC /\ u < NC
    BY <2>1, <1>2, <1>7, SlotInjective DEF Source
  <2>2. CASE t < NC /\ ~(u < NC)
    BY <2>2, <1>7, <1>6
  <2>3. CASE ~(t < NC) /\ u < NC
    BY <2>3, <1>7, <1>6
  <2>4. CASE ~(t < NC) /\ ~(u < NC)
    <3>1. PICK k \in Kept(lost) : NewIndex(lost, k) = t - NC /\ Source(lost, t) = NC + k
      BY <2>4, <1>3
    <3>2. PICK l \in Kept(lost) : NewIndex(lost, l) = u - NC /\ Source(lost, u) = NC + l
      BY <2>4, <1>3
    <3>3. k = l
      BY <3>1, <3>2, <1>4, <1>7
    <3> QED BY <3>1, <3>2, <3>3, <1>1
  <2> QED BY <2>1, <2>2, <2>3, <2>4
<1>8. ASSUME NEW i \in (0..(NC + nR - 1)) \ lost
      PROVE  \E t \in dom : Source(lost, t) = i
  <2>1. CASE i < NC
    BY <2>1, <1>1 DEF Source
  <2>2. CASE ~(i < NC) /\ Vacated(lost, i)
    <3>1. PICK j \in lost : Slot(j) = i
      BY <2>2 DEF Vacated
    <3>2. j < NC
      BY <3>1, <1>8 DEF Slot, Coverable
    <3>3. j \in 0..(NC - 1)
      BY <3>2 DEF Coverable
    <3>4. j \in dom /\ Source(lost, j) = i
      BY <3>1, <3>2, <3>3, <1>1 DEF Source
    <3> QED BY <3>4
  <2>3. CASE ~(i < NC) /\ ~Vacated(lost, i)
    <3>1. i - NC \in Kept(lost) /\ NC + (i - NC) = i
      BY <2>3 DEF Kept
    <3>2. NewIndex(lost, i - NC) \in 0..(nR - Cardinality(lost) - 1)
      BY <3>1, NewIndexOrder
    <3> DEFINE n == NewIndex(lost, i - NC)
               t == NC + n
    <3>3. t \in dom /\ ~(t < NC) /\ t - NC = n
      <4>1. NC \in Nat /\ nR \in Nat /\ Cardinality(lost) \in Nat
        BY <1>1
      <4>2. n \in 0..(nR - Cardinality(lost) - 1)
        BY <3>2
      <4> HIDE DEF n
      <4> QED BY <4>1, <4>2
    <3>4. PICK l \in Kept(lost) : NewIndex(lost, l) = t - NC /\ Source(lost, t) = NC + l
      BY <3>3, <1>3
    <3>5. l = i - NC
      BY <3>1, <3>3, <3>4, NewIndexOrder
    <3> QED BY <3>1, <3>3, <3>4, <3>5
  <2> QED BY <2>1, <2>2, <2>3
<1> QED BY <1>5, <1>7, <1>8
=============================================================================
