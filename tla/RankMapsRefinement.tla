------------------------- MODULE RankMapsRefinement -------------------------
(***************************************************************************)
(* RankMaps implements ReplicaSets, and survivors keep their rank: the     *)
(* step from one state of the tables to the next, on top of the inductive  *)
(* invariant and under the same fault model.                               *)
(***************************************************************************)
EXTENDS RankMapsProofs

\* The processes that carry rank c when the world is w and the table c2r.
Held(w, c2r, c) == {w[c]} \cup (IF c2r[c] = NoRank THEN {} ELSE {w[NC + c2r[c]]})

\* Inverse tables over an injective world share out its members among the ranks:
\* one or two for each, each member to one rank.
LEMMA HeldShares ==
  ASSUME nR \in Nat, NEW w \in [0..(NC + nR - 1) -> Procs], IsInjective(w),
         NEW c2r, NEW r2c, MutuallyInverse(c2r, r2c)
  PROVE  /\ \A c \in Cmps : Held(w, c2r, c) \in SUBSET Procs
         /\ \A c \in Cmps : \E p, q \in Held(w, c2r, c) : Held(w, c2r, c) = {p, q}
         /\ \A c, d \in Cmps : c # d => Held(w, c2r, c) \cap Held(w, c2r, d) = {}
         /\ UNION {Held(w, c2r, c) : c \in Cmps} = Range(w)
<1> USE SizeAssumption
<1> DEFINE pos == 0..(NC + nR - 1)
<1>1. ASSUME NEW c \in Cmps
      PROVE  /\ c \in pos /\ c < NC
             /\ c2r[c] # NoRank => /\ c2r[c] \in 0..(nR - 1) /\ r2c[c2r[c]] = c
                                   /\ NC + c2r[c] \in pos /\ NC + c2r[c] >= NC
  BY DEF Cmps, MutuallyInverse
<1>2. \A i, j \in pos : w[i] = w[j] => i = j
  BY DEF IsInjective
<1>3. \A c \in Cmps : Held(w, c2r, c) \in SUBSET Procs
  BY <1>1 DEF Held
<1>4. ASSUME NEW c \in Cmps
      PROVE  \E p, q \in Held(w, c2r, c) : Held(w, c2r, c) = {p, q}
  <2>1. CASE c2r[c] = NoRank
    BY <2>1 DEF Held
  <2>2. CASE c2r[c] # NoRank
    <3>1. Held(w, c2r, c) = {w[c], w[NC + c2r[c]]}
      BY <2>2 DEF Held
    <3> QED BY <3>1
  <2> QED BY <2>1, <2>2
<1>5. ASSUME NEW c \in Cmps, NEW d \in Cmps, c # d
      PROVE  Held(w, c2r, c) \cap Held(w, c2r, d) = {}
  <2>1. w[c] # w[d]
    BY <1>1, <1>2, <1>5
  <2>2. c2r[d] # NoRank => w[c] # w[NC + c2r[d]]
    BY <1>1, <1>2
  <2>3. c2r[c] # NoRank => w[d] # w[NC + c2r[c]]
    BY <1>1, <1>2
  <2>4. c2r[c] # NoRank /\ c2r[d] # NoRank => w[NC + c2r[c]] # w[NC + c2r[d]]
    <3> SUFFICES ASSUME c2r[c] # NoRank, c2r[d] # NoRank, w[NC + c2r[c]] = w[NC + c2r[d]]
                 PROVE  FALSE
      OBVIOUS
    <3>1. NC + c2r[c] = NC + c2r[d]
      BY <1>1, <1>2
    <3>2. c2r[c] = c2r[d]
      BY <3>1, <1>1
    <3> QED BY <3>2, <1>1, <1>5
  <2> QED BY <2>1, <2>2, <2>3, <2>4 DEF Held
<1>6. UNION {Held(w, c2r, c) : c \in Cmps} = Range(w)
  <2>1. ASSUME NEW c \in Cmps, NEW p \in Held(w, c2r, c) PROVE p \in Range(w)
    BY <1>1, <2>1 DEF Held, Range
  <2>2. ASSUME NEW i \in pos PROVE \E c \in Cmps : w[i] \in Held(w, c2r, c)
    <3>1. CASE i < NC
      <4>1. i \in Cmps
        BY <3>1 DEF Cmps
      <4> QED BY <4>1 DEF Held
    <3>2. CASE ~(i < NC)
      <4>1. i - NC \in 0..(nR - 1) /\ NC + (i - NC) = i
        BY <3>2
      <4>2. r2c[i - NC] \in Cmps /\ c2r[r2c[i - NC]] = i - NC /\ i - NC # NoRank
        BY <4>1 DEF MutuallyInverse, NoRank
      <4>3. w[i] \in Held(w, c2r, r2c[i - NC])
        BY <4>1, <4>2 DEF Held
      <4> QED BY <4>2, <4>3
    <3> QED BY <3>1, <3>2
  <2> QED BY <2>1, <2>2 DEF Range
<1> QED BY <1>3, <1>4, <1>5, <1>6

\* What a shrink leaves each rank: the carriers it had, without the failed ones,
\* and at least one of them.
LEMMA ShrunkHeld ==
  ASSUME Tables, NEW lost, Coverable(lost),
         NEW gone, \A i \in 0..(NC + nR - 1) : i \in lost <=> eworld[i] \in gone,
         NEW c \in Cmps
  PROVE  /\ Held(ShrunkWorld(lost), ShrunkCtr(lost), c) = Held(eworld, ctr, c) \ gone
         /\ Held(eworld, ctr, c) \ gone # {}
<1>2. /\ \A d \in Cmps : ShrunkWorld(lost)[d] = eworld[IF d \in lost THEN Slot(d) ELSE d]
      /\ \A k \in Kept(lost) : ShrunkWorld(lost)[NC + NewIndex(lost, k)] = eworld[NC + k]
  BY Zenon, ShrunkWorldAt
<1> USE SizeAssumption DEF Tables
<1> DEFINE nw == ShrunkWorld(lost)
           nc == ShrunkCtr(lost)
<1>1. /\ c \in 0..(NC + nR - 1) /\ c < NC
      /\ ctr[c] # NoRank => /\ ctr[c] \in 0..(nR - 1) /\ rtc[ctr[c]] = c
                            /\ NC + ctr[c] \in 0..(NC + nR - 1) /\ ~(NC + ctr[c] < NC)
  BY DEF Cmps, MutuallyInverse
<1>3. nc[c] = IF ctr[c] \in Kept(lost) THEN NewIndex(lost, ctr[c]) ELSE NoRank
  BY ShrunkCtrAt
<1>4. \A k \in Kept(lost) : NewIndex(lost, k) # NoRank /\ k # NoRank
  <2>1. \A k \in Kept(lost) : k \in Nat
    BY DEF Kept
  <2>2. \A k \in Kept(lost) : NewIndex(lost, k) \in 0..(nR - Cardinality(lost) - 1)
    BY NewIndexOrder
  <2> QED BY <2>1, <2>2 DEF NoRank
<1> HIDE DEF nw, nc
<1>5. CASE c \in lost
  <2>1. ctr[c] # NoRank /\ NC + ctr[c] \notin lost /\ Slot(c) = NC + ctr[c]
    BY <1>1, <1>5 DEF Coverable, Slot
  <2>2. ctr[c] \notin Kept(lost)
    BY <1>5, <2>1 DEF Kept, Vacated
  <2>3. Held(nw, nc, c) = {eworld[NC + ctr[c]]}
    BY <1>2, <1>3, <1>5, <2>1, <2>2 DEF Held, nw
  <2>4. eworld[c] \in gone /\ eworld[NC + ctr[c]] \notin gone
    BY <1>1, <1>5, <2>1
  <2> QED BY <2>1, <2>3, <2>4, ZenonT(40) DEF Held, nw, nc
<1>6. CASE c \notin lost
  <2>1. eworld[c] \notin gone /\ nw[c] = eworld[c]
    BY <1>1, <1>2, <1>6 DEF nw
  <2>2. CASE ctr[c] \in Kept(lost)
    <3>1. ctr[c] # NoRank /\ NC + ctr[c] \notin lost
      BY <1>1, <1>4, <2>2 DEF Kept, Vacated, Slot
    <3>2. eworld[NC + ctr[c]] \notin gone
      BY <1>1, <3>1
    <3>3. Held(nw, nc, c) = {eworld[c], eworld[NC + ctr[c]]}
      BY <1>2, <1>3, <1>4, <2>1, <2>2 DEF Held, nw
    <3> QED BY <2>1, <3>1, <3>2, <3>3, ZenonT(40) DEF Held, nw, nc
  <2>3. CASE ctr[c] \notin Kept(lost) /\ ctr[c] # NoRank
    <3>1. PICK j \in lost : Slot(j) = NC + ctr[c]
      BY <1>1, <2>3 DEF Kept, Vacated
    <3>2. j \in 0..(NC + nR - 1) /\ j # c
      BY <1>6, <3>1 DEF Coverable
    <3>3. ~(j < NC)
      <4> SUFFICES ASSUME j < NC PROVE FALSE
        OBVIOUS
      <4>1. j \in Cmps /\ ctr[j] # NoRank
        BY <3>1, <3>2 DEF Cmps, Coverable
      <4>2. ctr[j] \in 0..(nR - 1) /\ rtc[ctr[j]] = j
        BY <4>1 DEF MutuallyInverse
      <4>3. NC + ctr[j] = NC + ctr[c]
        BY <3>1 DEF Slot
      <4>4. ctr[j] = ctr[c]
        BY <1>1, <2>3, <4>2, <4>3
      <4> QED BY <1>1, <2>3, <3>2, <4>2, <4>4
    <3>4. eworld[NC + ctr[c]] \in gone
      BY <3>1, <3>2, <3>3 DEF Slot
    <3>5. Held(nw, nc, c) = {eworld[c]}
      BY <1>3, <2>1, <2>3 DEF Held
    <3> QED BY <2>1, <2>3, <3>4, <3>5, ZenonT(40) DEF Held, nw, nc
  <2>4. CASE ctr[c] = NoRank
    <3>1. nc[c] = NoRank
      BY <1>3, <1>4, <2>4
    <3> QED BY <2>1, <2>4, <3>1 DEF Held, nw, nc
  <2> QED BY <2>2, <2>3, <2>4
<1> QED BY <1>5, <1>6

-----------------------------------------------------------------------------
(* The refinement. *)

LEMMA CarriersHeld ==
  ~aborting => \A c \in Cmps : Carriers(c) = Held(World, ctr, c)
  BY DEF Carriers, Held

\* A step that changes neither the tables nor the world in use, or one taken after
\* the job was given up, is invisible.
LEMMA Invisible ==
  ASSUME UNCHANGED <<ctr, aborting>>, aborting \/ World' = World
  PROVE  UNCHANGED Abstract!avars
<1>1. \A c \in Cmps : Carriers(c)' = Carriers(c)
  BY DEF Carriers
<1> QED BY <1>1 DEF Abstract!avars

\* MPI_Init pairs replica i with rank i.
LEMMA InitRefines == Init => Abstract!Init
<1> SUFFICES ASSUME Init PROVE Abstract!Init
  OBVIOUS
<1>1. IInv
  BY InitIInv
<1>2. WorldOK(World) /\ MutuallyInverse(ctr, rtc) /\ nR \in Nat /\ ~aborting
  BY <1>1, SizeAssumption DEF IInv, TablesOK, Types, Init
<1>3. World \in [0..(NC + nR - 1) -> Procs] /\ IsInjective(World)
  BY <1>2 DEF WorldOK
<1>4. /\ \A c \in Cmps : Carriers(c) \in SUBSET Procs
      /\ \A c \in Cmps : \E p, q \in Carriers(c) : Carriers(c) = {p, q}
      /\ \A c, d \in Cmps : c # d => Carriers(c) \cap Carriers(d) = {}
  BY <1>2, <1>3, HeldShares, CarriersHeld
<1> QED BY <1>2, <1>4 DEF Abstract!Init, Abstract!OneOrTwo, Abstract!Disjoint, Init

\* CMD_INFORM_PROC_FAILED: the failed processes leave their ranks; the job is given
\* up when that leaves a rank without carrier.
LEMMA InformProcFailedRefines ==
  ASSUME FaultModel = {}, IInv, NEW F \in SUBSET Procs, InformProcFailed(F)
  PROVE  Abstract!Lose(dead)
<1> DEFINE lost == {i \in DOMAIN eworld : eworld[i] \in dead}
<1> USE SizeAssumption
<1>1. shrinker = "none" /\ ~aborting /\ failed' = dead
  BY DEF InformProcFailed, IInv, ShrinkOK, Types
<1>8. draft.stage # "sending"
  BY DEF InformProcFailed, IInv, DraftOK
<1>2. {i \in DOMAIN eworld : eworld[i] \in failed'} = lost
  BY <1>1
<1>3. World = eworld /\ WorldOK(eworld) /\ MutuallyInverse(ctr, rtc)
  BY <1>1 DEF IInv, TablesOK, World
<1>4. /\ eworld \in [0..(NC + nR - 1) -> Procs] /\ IsInjective(eworld)
      /\ lost = {i \in 0..(NC + nR - 1) : eworld[i] \in dead}
  BY <1>3 DEF WorldOK
<1>5. \A c \in Cmps : Carriers(c) = Held(eworld, ctr, c)
  BY <1>1, <1>3, CarriersHeld
<1>6. CASE NoReplica(lost)
  <2>1. aborting' = TRUE
    BY <1>1, <1>2, <1>6, <1>8 DEF InformProcFailed
  <2>2. PICK c \in lost : c < NC /\ ctr[c] = NoRank
    BY <1>6 DEF NoReplica
  <2>3. c \in Cmps /\ Carriers(c) \ dead = {}
    BY <1>4, <1>5, <2>2 DEF Cmps, Held
  <2>4. \A d \in Cmps : Carriers(d)' = {}
    BY <2>1 DEF Carriers
  <2> QED BY <1>1, <2>1, <2>3, <2>4 DEF Abstract!Lose, Abstract!Nobody
<1>7. CASE ~NoReplica(lost)
  <2>1. /\ UNCHANGED aborting /\ ctr' = ShrunkCtr(lost)
        /\ shrinker' = "creating" /\ alive' = ShrunkWorld(lost)
    BY <1>1, <1>2, <1>7, <1>8 DEF InformProcFailed
  <2>2. Tables /\ Coverable(lost)
    BY <1>1, <1>7, LossCoverable
  <2>3. World' = ShrunkWorld(lost) /\ ~aborting'
    BY <1>1, <2>1 DEF World
  <2>4. \A c \in Cmps : Carriers(c)' = Held(ShrunkWorld(lost), ShrunkCtr(lost), c)
    BY <2>1, <2>3 DEF Carriers, Held
  <2>5. ASSUME NEW c \in Cmps
        PROVE  /\ Held(ShrunkWorld(lost), ShrunkCtr(lost), c) = Held(eworld, ctr, c) \ dead
               /\ Held(eworld, ctr, c) \ dead # {}
    <3>1. \A i \in 0..(NC + nR - 1) : i \in lost <=> eworld[i] \in dead
      BY <1>4
    <3> HIDE DEF lost
    <3> QED BY Zenon, <2>2, <3>1, ShrunkHeld
  <2>6. \A c \in Cmps : Carriers(c)' = Carriers(c) \ dead /\ Carriers(c) \ dead # {}
    BY Zenon, <1>5, <2>4, <2>5
  <2> QED BY <1>1, <2>3, <2>6 DEF Abstract!Lose
<1> QED BY <1>6, <1>7

\* MPI_Replica_rearrange: the replicas are shared out anew; every rank keeps the
\* process that computes it.
LEMMA InstallTablesRefines ==
  ASSUME IInv, InstallTables
  PROVE  Abstract!Move
<1> USE SizeAssumption
<1>1. /\ ~aborting /\ shrinker = "none" /\ nR \in Nat
      /\ MutuallyInverse(draft.ctr, draft.rtc) /\ MutuallyInverse(ctr, rtc)
      /\ WorldOK(World)
  BY DEF InstallTables, IInv, DraftOK, TablesOK, Types
<1>2. World \in [0..(NC + nR - 1) -> Procs] /\ IsInjective(World)
  BY <1>1 DEF WorldOK
<1>3. ctr' = draft.ctr /\ World' = World /\ UNCHANGED aborting
  BY DEF InstallTables, shrinkVars, World
<1>4. \A c \in Cmps : Carriers(c) = Held(World, ctr, c)
  BY <1>1, CarriersHeld
<1>5. \A c \in Cmps : Carriers(c)' = Held(World, draft.ctr, c)
  BY <1>1, <1>3 DEF Carriers, Held
<1>6. UNION {Held(World, ctr, c) : c \in Cmps} = Range(World)
  BY <1>1, <1>2, HeldShares
<1>7. /\ \A c \in Cmps : Held(World, draft.ctr, c) \in SUBSET Procs
      /\ \A c \in Cmps : \E p, q \in Held(World, draft.ctr, c) : Held(World, draft.ctr, c) = {p, q}
      /\ \A c, d \in Cmps : c # d => Held(World, draft.ctr, c) \cap Held(World, draft.ctr, d) = {}
      /\ UNION {Held(World, draft.ctr, c) : c \in Cmps} = Range(World)
  BY <1>1, <1>2, HeldShares
<1>8. \A c \in Cmps : Held(World, draft.ctr, c) \cap Held(World, ctr, c) # {}
  BY DEF Held
<1> DEFINE old == [c \in Cmps |-> Carriers(c)]
           new == [c \in Cmps |-> Carriers(c)']
<1>9. UNION {new[c] : c \in Cmps} = UNION {old[c] : c \in Cmps}
  BY <1>4, <1>5, <1>6, <1>7
<1>10. /\ new \in [Cmps -> SUBSET Procs]
       /\ \A c \in Cmps : \E p, q \in new[c] : new[c] = {p, q}
       /\ \A c, d \in Cmps : c # d => new[c] \cap new[d] = {}
       /\ \A c \in Cmps : new[c] \cap old[c] # {}
  BY <1>4, <1>5, <1>7, <1>8
<1> QED BY <1>1, <1>3, <1>9, <1>10 DEF Abstract!Move, Abstract!All, Abstract!OneOrTwo, Abstract!Disjoint

LEMMA NextRefines ==
  ASSUME FaultModel = {}, IInv, [Next]_vars
  PROVE  [Abstract!Next]_(Abstract!avars)
<1>1. ASSUME NEW F \in SUBSET Procs, Crash(F) PROVE UNCHANGED Abstract!avars
  BY <1>1, Invisible DEF Crash, World, shrinkVars
<1>2. ASSUME NEW F \in SUBSET Procs, InformProcFailed(F) PROVE Abstract!Next
  BY <1>2, InformProcFailedRefines DEF Abstract!Next, IInv, Types
<1>3. CASE CreateGroup \/ SendShrinkPerformed
  BY <1>3, Invisible DEF CreateGroup, SendShrinkPerformed, World
<1>4. CASE ShrinkPerformed
  <2>1. newcomm = alive /\ UNCHANGED <<ctr, aborting>>
    BY <1>4 DEF ShrinkPerformed, IInv, ShrinkOK
  <2>2. aborting \/ World' = World
    BY <1>4, <2>1 DEF ShrinkPerformed, World
  <2> QED BY <2>1, <2>2, Invisible
<1>5. ASSUME NEW S \in SUBSET Procs, NEW X \in SUBSET pred, InformPredict(S, X)
      PROVE  UNCHANGED Abstract!avars
  BY <1>5, Invisible DEF InformPredict, World, shrinkVars
<1>6. CASE RemapRank \/ EndPredict
  BY <1>6, Invisible DEF RemapRank, EndPredict, World, shrinkVars
<1>7. CASE InstallTables
  BY <1>7, InstallTablesRefines DEF Abstract!Next
<1>9. CASE BeginTransfer \/ EndTransfer
  BY <1>9, Invisible DEF BeginTransfer, EndTransfer, World, shrinkVars
<1>8. CASE UNCHANGED vars
  BY <1>8, Invisible DEF vars, World, shrinkVars
<1> QED BY <1>1, <1>2, <1>3, <1>4, <1>5, <1>6, <1>7, <1>8, <1>9 DEF Next

\* The tables, the shrink and the rearrangement implement the abstract replica
\* sets, for any number of ranks, replicas, failures and predictions, under the same
\* assumptions on the notices as TablesStayInverse.
THEOREM TablesImplementReplicaSets == FaultModel = {} /\ Spec => ImplementsReplicaSets
<1> SUFFICES ASSUME FaultModel = {} PROVE Spec => ImplementsReplicaSets
  OBVIOUS
<1>1. Init => Abstract!Init
  BY InitRefines
<1>2. IInv /\ [Next]_vars => [Abstract!Next]_(Abstract!avars)
  BY NextRefines
<1>3. Spec => []IInv
  BY Invariance
<1> QED BY <1>1, <1>2, <1>3, PTL DEF Spec, ImplementsReplicaSets, Abstract!Spec

-----------------------------------------------------------------------------
(* Ranks. *)

\* The world a shrink builds has every surviving computational process where it was.
RanksKept ==
  ~aborting /\ shrinker # "none" => \A i \in Cmps : eworld[i] \notin failed => alive[i] = eworld[i]

LEMMA RanksKeptStep ==
  ASSUME FaultModel = {}, IInv, RanksKept, [Next]_vars
  PROVE  RanksKept'
<1>1. ASSUME NEW F \in SUBSET Procs, Crash(F) PROVE RanksKept'
  BY <1>1 DEF Crash, RanksKept, shrinkVars
<1>2. ASSUME NEW F \in SUBSET Procs, InformProcFailed(F) PROVE RanksKept'
  <2> DEFINE lost == {i \in DOMAIN eworld : eworld[i] \in dead}
  <2>1. shrinker = "none" /\ ~aborting /\ failed' = dead /\ UNCHANGED eworld
    BY <1>2 DEF InformProcFailed, IInv, ShrinkOK, Types
  <2>5. draft.stage # "sending"
    BY <1>2 DEF InformProcFailed, IInv, DraftOK
  <2>2. {i \in DOMAIN eworld : eworld[i] \in failed'} = lost
    BY <2>1
  <2>3. CASE NoReplica(lost)
    BY <1>2, <2>1, <2>2, <2>3 DEF InformProcFailed, RanksKept
  <2>4. CASE ~NoReplica(lost)
    <3>1. Tables /\ Coverable(lost)
      BY <2>1, <2>4, LossCoverable
    <3>2. alive' = ShrunkWorld(lost)
      BY <1>2, <2>1, <2>2, <2>4, <2>5 DEF InformProcFailed
    <3>3. \A i \in Cmps : ShrunkWorld(lost)[i] = eworld[IF i \in lost THEN Slot(i) ELSE i]
      BY Zenon, <3>1, ShrunkWorldAt
    <3> HIDE DEF lost
    <3>4. \A i \in Cmps : i \notin lost => alive'[i] = eworld[i]
      BY <3>2, <3>3
    <3> QED BY <2>1, <3>4 DEF RanksKept, lost
  <2> QED BY <2>3, <2>4
<1>3. CASE CreateGroup \/ SendShrinkPerformed
  BY <1>3 DEF CreateGroup, SendShrinkPerformed, RanksKept
<1>4. CASE ShrinkPerformed
  BY <1>4 DEF ShrinkPerformed, RanksKept
<1>5. ASSUME NEW S \in SUBSET Procs, NEW X \in SUBSET pred, InformPredict(S, X)
      PROVE  RanksKept'
  BY <1>5 DEF InformPredict, RanksKept, shrinkVars
<1>6. CASE RemapRank \/ EndPredict
  BY <1>6 DEF RemapRank, EndPredict, RanksKept, shrinkVars
<1>8. CASE InstallTables \/ BeginTransfer \/ EndTransfer
  BY <1>8 DEF InstallTables, BeginTransfer, EndTransfer, RanksKept, shrinkVars
<1>7. CASE UNCHANGED vars
  BY <1>7 DEF vars, RanksKept, shrinkVars
<1> QED BY <1>1, <1>2, <1>3, <1>4, <1>5, <1>6, <1>7, <1>8 DEF Next

\* SHRINK_PERFORMED is the only step that changes the communicator.
LEMMA OnlyShrinkMoves ==
  ASSUME IInv, RanksKept, [Next]_vars, ~aborting',
         NEW i \in Cmps, eworld[i] \notin failed'
  PROVE  eworld'[i] = eworld[i]
<1>1. CASE ShrinkPerformed
  <2>1. eworld' = alive /\ ~aborting /\ shrinker # "none" /\ UNCHANGED failed
    BY <1>1 DEF ShrinkPerformed, IInv, ShrinkOK
  <2> QED BY <2>1 DEF RanksKept
<1>2. CASE \E F \in SUBSET Procs : Crash(F) \/ InformProcFailed(F)
  BY <1>2 DEF Crash, InformProcFailed
<1>3. CASE CreateGroup \/ SendShrinkPerformed
  BY <1>3 DEF CreateGroup, SendShrinkPerformed
<1>4. CASE \E S \in SUBSET Procs : \E X \in SUBSET pred : InformPredict(S, X)
  BY <1>4 DEF InformPredict
<1>5. CASE RemapRank \/ EndPredict \/ InstallTables \/ BeginTransfer \/ EndTransfer
  BY <1>5 DEF RemapRank, EndPredict, InstallTables, BeginTransfer, EndTransfer
<1>6. CASE UNCHANGED vars
  BY <1>6 DEF vars
<1> QED BY <1>1, <1>2, <1>3, <1>4, <1>5, <1>6 DEF Next

\* A surviving computational process keeps its MPI rank through every shrink and
\* rearrangement, for any number of ranks, replicas, failures and predictions, under
\* the same assumptions on the notices as TablesStayInverse.
THEOREM RanksNeverChange == FaultModel = {} /\ Spec => SurvivorsKeepRank
<1> SUFFICES ASSUME FaultModel = {} PROVE Spec => SurvivorsKeepRank
  OBVIOUS
<1>1. Init => RanksKept
  BY DEF Init, RanksKept
<1>2. IInv /\ RanksKept /\ [Next]_vars => RanksKept'
  BY RanksKeptStep
<1>3. IInv /\ RanksKept /\ [Next]_vars
        => [~aborting' => \A i \in Cmps : eworld[i] \notin failed' => eworld'[i] = eworld[i]]_vars
  BY OnlyShrinkMoves
<1>4. Spec => []IInv
  BY Invariance
<1> QED BY <1>1, <1>2, <1>3, <1>4, PTL DEF Spec, SurvivorsKeepRank
=============================================================================
