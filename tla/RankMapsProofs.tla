--------------------------- MODULE RankMapsProofs ---------------------------
(***************************************************************************)
(* The inductive invariant of the rank tables and the theorems that follow *)
(* from it, for any number of ranks and replicas.                          *)
(***************************************************************************)
EXTENDS RankMapsShrink

(***************************************************************************)
(* The inductive invariant, for the fault model in which failures do not   *)
(* coincide with a recovery, a pending rearrangement or a replica's loss.  *)
(***************************************************************************)
WorldOK(w) ==
  /\ w \in [0..(NC + nR - 1) -> Procs]
  /\ IsInjective(w)
  /\ Range(w) = Procs \ failed
  /\ \A i \in 0..(NC + nR - 1) : i < NC \/ ~Moving => image[w[i]] = Role(rtc, i)

Partial(f) == DOMAIN f \subseteq Procs /\ Range(f) \subseteq Procs

Types ==
  /\ nR \in 0..NR
  /\ ctr \in [Cmps -> NoRank..(NR - 1)]
  /\ rtc \in [0..(NR - 1) -> NoRank..(NC - 1)]
  /\ Partial(eworld) /\ Partial(alive) /\ Partial(newcomm)
  /\ failed \subseteq dead /\ dead \subseteq Procs /\ pred \subseteq Procs
  /\ aborting \in BOOLEAN /\ halted \in BOOLEAN
  /\ shrinker \in {"none", "creating", "created", "sent"}
  /\ image \in [Procs -> NoRank..(NC - 1)]

\* One shrink at a time; no notice meets it, so the polling thread never blocks.
ShrinkOK ==
  /\ blocked = FALSE
  /\ shrinker \in {"created", "sent"} => newcomm = alive
  /\ shrinker # "none" => dead = failed /\ Range(alive) \cap failed = {}
  /\ aborting => halted \/ shrinker # "none"

TablesOK == ~aborting => MutuallyInverse(ctr, rtc) /\ WorldOK(World)

NoPairDying ==
  ~aborting /\ shrinker = "none" => \A p, q \in dead \ failed : ~Paired(p, q)

Target(i) == IF i < NC THEN i ELSE rtc[i - NC]

Stages == {"looping", "swap", "installed", "sending"}

\* The drafted tables: those of ranks still to be looked at, and of replicas that
\* may still be taken, are the current ones.
DraftOK ==
  draft.stage # "none" =>
    /\ ~aborting /\ ~halted /\ dead = failed /\ shrinker = "none"
    /\ draft \in [stage : Stages,
                  ctr : [Cmps -> NoRank..(NR - 1)],
                  rtc : [0..(NR - 1) -> NoRank..(NC - 1)],
                  used : SUBSET (0..(nR - 1)),
                  todo : SUBSET (0..(NC + nR - 1))]
    /\ MutuallyInverse(draft.ctr, draft.rtc)
    /\ draft.stage = "looping" =>
         /\ \A k \in (0..(nR - 1)) \ draft.used :
              Healthy(NC + k) /\ Healthy(rtc[k]) => draft.rtc[k] = rtc[k]
         /\ \A i \in draft.todo :
              /\ ~Healthy(i)
              /\ AtRisk(i) => draft.ctr[Target(i)] = ctr[Target(i)]
         /\ \A i, j \in draft.todo : Target(i) = Target(j) => i = j

IInv == /\ Types /\ ShrinkOK /\ TablesOK /\ NoPairDying /\ DraftOK
        /\ AbortOnlyWithoutReplica

\* A handler that leaves the tables and the worlds alone keeps TablesOK.
LEMMA TablesFrame ==
  ASSUME UNCHANGED <<eworld, nR, ctr, rtc, failed, aborting, image>>,
         UNCHANGED <<alive, shrinker>>, Moving => Moving', TablesOK
  PROVE  TablesOK'
<1>1. World' = World
  BY DEF World
<1>2. MutuallyInverse(ctr, rtc) => MutuallyInverse(ctr, rtc)'
  BY DEF MutuallyInverse
<1>3. WorldOK(World) => WorldOK(World)'
  <2> SUFFICES ASSUME WorldOK(World) PROVE WorldOK(World)'
    OBVIOUS
  <2>1. /\ World' \in [0..(NC + nR' - 1) -> Procs]
        /\ Range(World)' = Procs \ failed'
    BY <1>1 DEF WorldOK, Range
  <2>2. IsInjective(World)'
    BY <1>1 DEF WorldOK, IsInjective
  <2>3. \A i \in 0..(NC + nR' - 1) : i < NC \/ ~Moving' => image'[World'[i]] = Role(rtc, i)'
    BY <1>1 DEF WorldOK, Role
  <2> QED BY <2>1, <2>2, <2>3 DEF WorldOK
<1> QED BY <1>2, <1>3 DEF TablesOK

\* empi_comm_creation establishes the invariant.
LEMMA InitIInv == Init => IInv
<1> SUFFICES ASSUME Init PROVE IInv
  OBVIOUS
<1> USE SizeAssumption DEF Init, NoRank, Procs, Cmps
<1>1. Types
  <2>1. Partial(eworld) /\ Partial(alive) /\ Partial(newcomm)
    BY DEF Partial, Range
  <2>2. /\ ctr \in [Cmps -> NoRank..(NR - 1)]
        /\ rtc \in [0..(NR - 1) -> NoRank..(NC - 1)]
        /\ image \in [Procs -> NoRank..(NC - 1)]
    OBVIOUS
  <2>3. nR \in 0..NR /\ failed \subseteq dead /\ dead \subseteq Procs /\ pred \subseteq Procs
    OBVIOUS
  <2>4. /\ aborting \in BOOLEAN /\ halted \in BOOLEAN
        /\ shrinker \in {"none", "creating", "created", "sent"}
    BY ZenonT(40)
  <2> HIDE DEF Init, Procs, Cmps, NoRank
  <2> QED BY <2>1, <2>2, <2>3, <2>4 DEF Types
<1>2. MutuallyInverse(ctr, rtc)
  BY DEF MutuallyInverse
<1>3. WorldOK(World)
  BY DEF WorldOK, World, IsInjective, Range, Role
<1> QED BY <1>1, <1>2, <1>3 DEF IInv, ShrinkOK, TablesOK, NoPairDying, DraftOK, NoDraft,
                               AbortOnlyWithoutReplica

\* A death touches no table of the survivors.
LEMMA CrashIInv ==
  ASSUME FaultModel = {}, IInv, NEW F \in SUBSET Procs, Crash(F)
  PROVE  IInv'
<1> USE DEF IInv, Crash, shrinkVars, predictVars
<1>1. shrinker = "none" /\ dead = failed /\ draft = NoDraft
  BY DEF Recovering, Types, ShrinkOK
<1>2. Types'
  BY DEF Types, Partial, Range
<1>3. ShrinkOK' /\ DraftOK'
  BY <1>1 DEF ShrinkOK, DraftOK, NoDraft
<1>4. TablesOK'
  BY DEF TablesOK, MutuallyInverse, WorldOK, World, IsInjective, Range, Role, Moving
<1>5. NoPairDying'
  BY <1>1 DEF NoPairDying, Paired, World
<1>6. AbortOnlyWithoutReplica'
  BY DEF AbortOnlyWithoutReplica
<1> QED BY <1>2, <1>3, <1>4, <1>5, <1>6

\* comm_shrink and SHRINK_PERFORMED install the world that was built.
LEMMA ShrinkerIInv ==
  ASSUME FaultModel = {}, IInv,
         CreateGroup \/ SendShrinkPerformed \/ ShrinkPerformed
  PROVE  IInv'
<1> USE DEF IInv, CreateGroup, SendShrinkPerformed, ShrinkPerformed, predictVars
<1>1. UNCHANGED <<nR, ctr, rtc, failed, aborting, dead, image, alive, blocked, draft, pred>>
  BY DEF ShrinkOK
<1>2. shrinker # "none" /\ (~aborting => World' = World)
  BY <1>1 DEF ShrinkOK, World, Types
<1>3. Types'
  BY <1>1 DEF Types, Partial, Range, ShrinkOK
<1>4. ShrinkOK' /\ DraftOK'
  BY <1>1, <1>2 DEF ShrinkOK, DraftOK, Types
<1>5. TablesOK'
  BY <1>1, <1>2 DEF TablesOK, MutuallyInverse, WorldOK, IsInjective, Range, Role, Moving
<1>6. NoPairDying'
  BY <1>1, <1>2 DEF NoPairDying, ShrinkOK
<1>7. AbortOnlyWithoutReplica'
  BY <1>1 DEF AbortOnlyWithoutReplica
<1> QED BY <1>3, <1>4, <1>5, <1>6, <1>7

\* What the shrink handler needs: when no failed rank lacks a replica, every
\* failed rank has one that survives.
LEMMA LossCoverable ==
  ASSUME FaultModel = {}, IInv, ~aborting, shrinker = "none",
         ~NoReplica({i \in DOMAIN eworld : eworld[i] \in dead})
  PROVE  /\ Tables
         /\ Coverable({i \in DOMAIN eworld : eworld[i] \in dead})
<1> DEFINE lost == {i \in DOMAIN eworld : eworld[i] \in dead}
<1> USE SizeAssumption DEF IInv
<1>1. Tables
  BY DEF Tables, Types, TablesOK
<1>2. WorldOK(eworld)
  BY DEF TablesOK, World
<1>3. DOMAIN eworld = 0..(NC + nR - 1) /\ Range(eworld) \cap failed = {}
  BY <1>2 DEF WorldOK
<1>4. ASSUME NEW i \in lost, i < NC
      PROVE  ctr[i] # NoRank /\ NC + ctr[i] \notin lost
  <2>1. i \in Cmps /\ ctr[i] # NoRank
    BY <1>3, <1>4 DEF NoReplica, Cmps, Types
  <2>2. ASSUME NC + ctr[i] \in lost PROVE FALSE
    <3>1. eworld[i] \in dead \ failed /\ eworld[NC + ctr[i]] \in dead \ failed
      BY <1>3, <2>2 DEF Range
    <3>2. Paired(eworld[i], eworld[NC + ctr[i]])
      BY <2>1 DEF Paired, World
    <3> QED BY <3>1, <3>2 DEF NoPairDying
  <2> QED BY <2>1, <2>2
<1>5. Coverable(lost)
  BY <1>3, <1>4 DEF Coverable
<1> QED BY <1>1, <1>5

\* The shrink of INFORM_PROC_FAILED, on both sides of NO REPLICA ABORT.
LEMMA InformProcFailedIInv ==
  ASSUME FaultModel = {}, IInv, NEW F \in SUBSET Procs, InformProcFailed(F)
  PROVE  IInv'
<1> DEFINE lost == {i \in DOMAIN eworld : eworld[i] \in dead}
<1> USE SizeAssumption DEF IInv
<1>1. /\ shrinker = "none" /\ ~aborting /\ ~halted
      /\ F = dead \ failed /\ failed' = dead
  BY DEF InformProcFailed, ShrinkOK, Types
<1>2. draft.stage = "none"
  BY <1>1 DEF InformProcFailed, DraftOK
<1>3. /\ shrinker' = "creating" /\ blocked' = FALSE
      /\ UNCHANGED <<eworld, newcomm, halted, dead, image, pred, draft>>
  BY Zenon, <1>1, <1>2 DEF InformProcFailed, predictVars, ShrinkOK
<1>4. {i \in DOMAIN eworld : eworld[i] \in failed'} = lost
  BY <1>1
<1>5. \/ /\ NoReplica(lost) /\ aborting' = TRUE /\ UNCHANGED nR
         /\ ctr' = BrokenCtr(lost) /\ rtc' = BrokenRtc(lost)
         /\ alive' = [p \in Survivors(lost) |-> p]
      \/ /\ ~NoReplica(lost) /\ UNCHANGED aborting
         /\ ctr' = ShrunkCtr(lost) /\ rtc' = ShrunkRtc(lost)
         /\ nR' = nR - Cardinality(lost) /\ alive' = ShrunkWorld(lost)
  BY <1>1, <1>2, <1>4 DEF InformProcFailed
<1>6. /\ NoPairDying' /\ DraftOK'
      /\ Range(alive') \cap failed' = {} => ShrinkOK'
  BY <1>1, <1>2, <1>3 DEF ShrinkOK, NoPairDying, DraftOK, Range
<1>7. WorldOK(eworld) /\ DOMAIN eworld = 0..(NC + nR - 1)
  BY <1>1 DEF TablesOK, World, WorldOK
<1>10. \A i \in 0..(NC + nR - 1) : image[eworld[i]] = Role(rtc, i)
  BY <1>2, <1>7 DEF WorldOK, Moving
<1>8. CASE NoReplica(lost)
  <2>1. /\ aborting' = TRUE /\ UNCHANGED nR /\ alive' = [p \in Survivors(lost) |-> p]
        /\ ctr' = BrokenCtr(lost) /\ rtc' = BrokenRtc(lost)
    BY <1>5, <1>8
  <2>9. /\ ctr' \in [Cmps -> NoRank..(NR - 1)]
        /\ rtc' \in [0..(NR - 1) -> NoRank..(NC - 1)]
    BY <2>1 DEF BrokenCtr, BrokenRtc, Types, NoRank
  <2>2. Partial(alive')
    BY <2>1, <1>7 DEF Partial, Range, Survivors, WorldOK
  <2>3. Types'
    BY Zenon, <2>1, <2>9, <2>2, <1>1, <1>3 DEF Types, Partial, Range
  <2>4. PICK c \in lost : c < NC /\ ctr[c] = NoRank
    BY <1>8 DEF NoReplica
  <2>5. c \in Cmps /\ nR \in 0..NR
    BY <2>4, <1>7 DEF Cmps, Types
  <2>6. ASSUME NEW p \in Procs \ dead PROVE image[p] # c
    <3>1. PICK j \in 0..(NC + nR - 1) : p = eworld[j]
      BY <1>7 DEF WorldOK, Range, Types
    <3>2. image[p] = Role(rtc, j) /\ j # c
      BY <3>1, <1>7, <1>10, <2>6
    <3>3. CASE j < NC
      BY <3>2, <3>3 DEF Role
    <3>4. CASE ~(j < NC)
      <4>1. j - NC \in 0..(nR - 1) /\ image[p] = rtc[j - NC] /\ j - NC # NoRank
        BY <3>2, <3>4, <2>5 DEF Role, NoRank
      <4>2. ctr[rtc[j - NC]] = j - NC
        BY <4>1, <1>1 DEF TablesOK, MutuallyInverse
      <4> QED BY <4>1, <4>2, <2>4
    <3> QED BY <3>3, <3>4
  <2>7. AbortOnlyWithoutReplica'
    BY <2>5, <2>6, <1>1, <1>3 DEF AbortOnlyWithoutReplica
  <2>8. Range(alive') \cap failed' = {}
    BY <2>1, <1>1 DEF Range, Survivors
  <2> QED BY <2>1, <2>3, <2>7, <2>8, <1>6 DEF TablesOK
<1>9. CASE ~NoReplica(lost)
  <2>1. Tables /\ Coverable(lost)
    BY <1>1, <1>9, LossCoverable
  <2>2. /\ UNCHANGED aborting /\ ctr' = ShrunkCtr(lost) /\ rtc' = ShrunkRtc(lost)
        /\ nR' = nR - Cardinality(lost) /\ alive' = ShrunkWorld(lost)
    BY <1>5, <1>9
  <2> DEFINE dom == 0..(NC + nR - Cardinality(lost) - 1)
             src(t) == Source(lost, t)
  <2>3. /\ \A t \in dom : /\ src(t) \in (0..(NC + nR - 1)) \ lost
                          /\ ShrunkWorld(lost)[t] = eworld[src(t)]
                          /\ Role(ShrunkRtc(lost), t) = Role(rtc, src(t))
        /\ \A t, u \in dom : src(t) = src(u) => t = u
        /\ \A i \in (0..(NC + nR - 1)) \ lost : \E t \in dom : src(t) = i
    BY Zenon, <2>1, ShrunkSource
  <2>4. /\ nR' \in 0..NR
        /\ ctr' \in [Cmps -> NoRank..(NR - 1)]
        /\ rtc' \in [0..(NR - 1) -> NoRank..(NC - 1)]
        /\ MutuallyInverse(ctr, rtc)'
    BY Zenon, <2>1, <2>2, ShrunkTables DEF MutuallyInverse
  <2>5. dom = 0..(NC + nR' - 1)
    <3>1. NC \in Int /\ nR \in Int /\ Cardinality(lost) \in Int
      BY <2>1, LostFinite DEF Tables
    <3> HIDE DEF lost
    <3> QED BY <3>1, <2>2
  <2>6. DOMAIN alive' = dom
    BY <2>1, <2>2, ShrunkWorldAt
  <2> HIDE DEF src
  <2>7. \A t \in dom : /\ src(t) \in 0..(NC + nR - 1) /\ src(t) \notin lost
                       /\ alive'[t] = eworld[src(t)]
    BY <2>2, <2>3
  <2>8. \A t \in dom : alive'[t] \in Procs /\ alive'[t] \notin dead
    BY <2>7, <1>7 DEF WorldOK
  <2>9. \A t, u \in dom : alive'[t] = alive'[u] => t = u
    <3>1. \A i, j \in 0..(NC + nR - 1) : eworld[i] = eworld[j] => i = j
      BY <1>7 DEF WorldOK, IsInjective
    <3>2. ASSUME NEW t \in dom, NEW u \in dom, alive'[t] = alive'[u] PROVE t = u
      <4>1. /\ src(t) \in 0..(NC + nR - 1) /\ src(u) \in 0..(NC + nR - 1)
            /\ eworld[src(t)] = eworld[src(u)]
        BY <2>7, <3>2
      <4>2. src(t) = src(u)
        BY <3>1, <4>1
      <4> QED BY <2>3, <4>2
    <3> QED BY <3>2
  <2>10. \A t \in dom : image[alive'[t]] = Role(rtc', t)
    <3>1. \A i \in 0..(NC + nR - 1) : image[eworld[i]] = Role(rtc, i)
      BY <1>10
    <3>2. ASSUME NEW t \in dom PROVE image[alive'[t]] = Role(rtc', t)
      <4>1. src(t) \in 0..(NC + nR - 1) /\ alive'[t] = eworld[src(t)]
        BY <2>7
      <4>2. Role(rtc', t) = Role(rtc, src(t))
        BY Zenon, <2>2, <2>3
      <4> QED BY <3>1, <4>1, <4>2
    <3> QED BY <3>2
  <2>11. alive' \in [0..(NC + nR' - 1) -> Procs]
    <3>1. alive' = [t \in DOMAIN alive' |-> alive'[t]]
      BY <2>2 DEF ShrunkWorld
    <3> HIDE DEF dom
    <3> QED BY <3>1, <2>5, <2>6, <2>8
  <2>12. WorldOK(World)'
    <3>1. World' = alive'
      BY <1>1, <1>3, <2>2 DEF World
    <3>2. /\ IsInjective(alive') /\ Range(alive') \cap failed' = {}
          /\ Range(alive') \subseteq Procs
      <4> HIDE DEF dom
      <4> QED BY <2>6, <2>8, <2>9, <1>1 DEF IsInjective, Range
    <3>3. \A i \in 0..(NC + nR' - 1) : image'[alive'[i]] = Role(rtc', i)
      BY Zenon, <2>5, <2>10, <1>3
    <3>4. ASSUME NEW p \in Procs \ dead PROVE p \in Range(alive')
      <4>1. PICK i \in 0..(NC + nR - 1) : p = eworld[i]
        BY <1>7 DEF WorldOK, Range, Types
      <4>2. i \in (0..(NC + nR - 1)) \ lost
        BY <4>1, <3>4
      <4>3. PICK t \in dom : src(t) = i
        BY <4>2, <2>3
      <4> QED BY Zenon, <4>1, <4>3, <2>6, <2>7 DEF Range
    <3>5. Range(alive') = Procs' \ failed'
      BY <3>2, <3>4, <1>1 DEF Procs
    <3> QED BY <2>11, <3>1, <3>2, <3>3, <3>5 DEF WorldOK, Role
  <2>13. Types'
    <3>1. Partial(alive')
      <4>1. ASSUME NEW n \in 0..NR, NEW t \in 0..(NC + n - 1) PROVE t \in Procs
        BY DEF Procs
      <4> QED BY <2>4, <2>11, <4>1 DEF Partial, Range
    <3> QED BY Zenon, <3>1, <2>2, <2>4, <1>1, <1>3 DEF Types, Partial, Range
  <2>14. TablesOK'
    BY <2>4, <2>12 DEF TablesOK
  <2>15. AbortOnlyWithoutReplica'
    BY <2>2, <1>1 DEF AbortOnlyWithoutReplica
  <2>16. Range(alive') \cap failed' = {}
    BY <2>6, <2>8, <1>1 DEF Range
  <2> QED BY <2>13, <2>14, <2>15, <2>16, <1>6
<1> QED BY <1>8, <1>9

\* INFORM_PREDICT_NODE starts its loop from copies of the tables.
LEMMA InformPredictIInv ==
  ASSUME FaultModel = {}, IInv, NEW S \in SUBSET Procs, NEW X \in SUBSET pred,
         InformPredict(S, X)
  PROVE  IInv'
<1> USE SizeAssumption DEF IInv
<1>1. /\ UNCHANGED <<eworld, nR, ctr, rtc, failed, aborting, dead, image>>
      /\ UNCHANGED <<alive, newcomm, shrinker, blocked, halted>>
      /\ pred' = (pred \ X) \cup S
  BY DEF InformPredict, shrinkVars
<1>2. shrinker = "none" /\ dead = failed /\ ~aborting /\ ~halted
  BY DEF InformPredict, Recovering, ShrinkOK, Types
<1>3. Types' /\ ShrinkOK' /\ NoPairDying'
  <2>1. Types'
    BY <1>1 DEF Types, Partial, Range
  <2> QED BY <2>1, <1>1, <1>2 DEF ShrinkOK, NoPairDying
<1>4. TablesOK'
  <2>1. draft = NoDraft
    BY DEF InformPredict
  <2>2. ~Moving
    BY <2>1 DEF Moving, NoDraft
  <2> QED BY <1>1, <2>2, TablesFrame
<1>5. WorldOK(eworld) /\ MutuallyInverse(ctr, rtc)
  BY <1>2 DEF TablesOK, World
<1> DEFINE todo == {i \in DOMAIN eworld : eworld[i] \in S}
<1>6. draft' = [stage |-> "looping", ctr |-> ctr, rtc |-> rtc, used |-> {}, todo |-> todo]
  BY Zenon DEF InformPredict
<1>7. DOMAIN eworld = 0..(NC + nR - 1)
  BY <1>5 DEF WorldOK
<1>8. ASSUME NEW i \in todo, NEW j \in todo, Target(i) = Target(j), i < j PROVE FALSE
  <2>1. i \in 0..(NC + nR - 1) /\ j \in 0..(NC + nR - 1) /\ nR \in 0..NR
    BY <1>7 DEF Types
  <2>2. \A k \in 0..(nR - 1) : rtc[k] \in Cmps /\ ctr[rtc[k]] = k
    BY <1>5 DEF MutuallyInverse
  <2>3. j >= NC
    BY <1>8, <2>1 DEF Target
  <2>4. j - NC \in 0..(nR - 1) /\ Target(j) = rtc[j - NC] /\ rtc[j - NC] \in Cmps
        /\ ctr[rtc[j - NC]] = j - NC
    BY <2>1, <2>2, <2>3 DEF Target
  <2>5. i < NC
    <3>1. CASE i >= NC
      <4>1. i - NC \in 0..(nR - 1) /\ Target(i) = rtc[i - NC] /\ ctr[rtc[i - NC]] = i - NC
        BY <2>1, <2>2, <3>1 DEF Target
      <4> QED BY <4>1, <2>4, <1>8, <2>1, SMTT(30)
    <3> QED BY <3>1, <2>1
  <2>6. i \in Cmps /\ ctr[i] = j - NC /\ ctr[i] # NoRank /\ j = NC + ctr[i]
    BY <1>8, <2>1, <2>4, <2>5 DEF Target, Cmps, NoRank
  <2>7. Paired(eworld[i], eworld[j])
    BY <2>6, <1>2 DEF Paired, World
  <2> QED BY <2>7 DEF InformPredict
<1>9. DraftOK'
  <2>1. draft' \in [stage : Stages,
                   ctr : [Cmps -> NoRank..(NR - 1)],
                   rtc : [0..(NR - 1) -> NoRank..(NC - 1)],
                   used : SUBSET (0..(nR' - 1)),
                   todo : SUBSET (0..(NC + nR' - 1))]
    BY Zenon, <1>1, <1>6, <1>7 DEF Types, Stages
  <2>2. draft'.ctr = ctr /\ draft'.rtc = rtc /\ draft'.used = {} /\ draft'.todo = todo
    BY <1>6
  <2>3. MutuallyInverse(draft.ctr, draft.rtc)'
    BY <1>1, <1>5, <2>2 DEF MutuallyInverse
  <2>4. \A i \in todo : ~Healthy(i)'
    BY <1>1 DEF Healthy
  <2>5. \A i, j \in todo : Target(i)' = Target(j)' => i = j
    <3>1. \A i \in todo : Target(i)' = Target(i) /\ i \in Int
      BY <1>1, <1>7 DEF Target, Types
    <3> QED BY <3>1, <1>8
  <2> QED BY Zenon, <1>1, <1>2, <2>1, <2>2, <2>3, <2>4, <2>5 DEF DraftOK
<1>10. AbortOnlyWithoutReplica'
  BY <1>1 DEF AbortOnlyWithoutReplica
<1> QED BY <1>3, <1>4, <1>9, <1>10

\* The drafted tables after replica k of a healthy rank moved to rank c.
DraftCtr(f, c, k) == [f EXCEPT ![c] = k, ![rtc[k]] = ctr[c]]
DraftRtc(g, c, k) == [j \in DOMAIN rtc |-> IF j = ctr[c] THEN rtc[k]
                                        ELSE IF j = k THEN c ELSE g[j]]

\* An exchange between two ranks whose drafted entries are still the current ones
\* keeps the drafted tables inverse.
LEMMA ExchangeInverse ==
  ASSUME Tables, NEW f, NEW g,
         f \in [Cmps -> NoRank..(NR - 1)],
         g \in [0..(NR - 1) -> NoRank..(NC - 1)],
         MutuallyInverse(f, g),
         NEW c \in Cmps, NEW k \in 0..(nR - 1), rtc[k] # c,
         f[c] = ctr[c], g[k] = rtc[k]
  PROVE  /\ DraftCtr(f, c, k) \in [Cmps -> NoRank..(NR - 1)]
         /\ DraftRtc(g, c, k) \in [0..(NR - 1) -> NoRank..(NC - 1)]
         /\ MutuallyInverse(DraftCtr(f, c, k), DraftRtc(g, c, k))
<1> USE DEF Tables
<1>0. nR \in 0..NR /\ NR \in Nat /\ NC \in Nat /\ k \in 0..(NR - 1) /\ k # NoRank
      /\ Cmps \subseteq NoRank..(NC - 1)
      /\ \A j \in 0..(nR - 1) : j \in 0..(NR - 1) /\ j # NoRank
  BY SizeAssumption, SMTT(30) DEF Cmps, NoRank
<1>1. rtc[k] \in Cmps /\ ctr[rtc[k]] = k /\ f[rtc[k]] = k
  BY DEF MutuallyInverse
<1>2. ctr[c] # k /\ (ctr[c] # NoRank => ctr[c] \in 0..(nR - 1) /\ g[ctr[c]] = c)
  BY <1>0, <1>1 DEF MutuallyInverse
<1>3. \A d \in Cmps : DraftCtr(f, c, k)[d] = IF d = rtc[k] THEN ctr[c]
                                         ELSE IF d = c THEN k ELSE f[d]
  BY <1>1 DEF DraftCtr
<1>4. \A j \in 0..(NR - 1) : DraftRtc(g, c, k)[j] = IF j = ctr[c] THEN rtc[k]
                                                ELSE IF j = k THEN c ELSE g[j]
  BY DEF DraftRtc
<1>5. DraftCtr(f, c, k) \in [Cmps -> NoRank..(NR - 1)]
  BY <1>0, <1>1, ZenonT(40) DEF DraftCtr
<1>6. DraftRtc(g, c, k) \in [0..(NR - 1) -> NoRank..(NC - 1)]
  BY <1>0, <1>1 DEF DraftRtc
<1>7. ASSUME NEW d \in Cmps, DraftCtr(f, c, k)[d] # NoRank
      PROVE  /\ DraftCtr(f, c, k)[d] \in 0..(nR - 1)
             /\ DraftRtc(g, c, k)[DraftCtr(f, c, k)[d]] = d
  <2>1. CASE d = rtc[k]
    BY <1>0, <2>1, <1>1, <1>2, <1>3, <1>4, <1>7
  <2>2. CASE d = c
    BY <1>0, <2>2, <1>1, <1>2, <1>3, <1>4, <1>7
  <2>3. CASE d # rtc[k] /\ d # c
    <3>1. DraftCtr(f, c, k)[d] = f[d]
      BY <2>3, <1>3
    <3>2. f[d] \in 0..(nR - 1) /\ g[f[d]] = d
      BY <3>1, <1>7 DEF MutuallyInverse
    <3>3. f[d] # k /\ f[d] # ctr[c]
      BY <1>0, <3>2, <2>3, <1>2
    <3> QED BY <1>0, <3>1, <3>2, <3>3, <1>4
  <2> QED BY <2>1, <2>2, <2>3
<1>8. ASSUME NEW j \in 0..(nR - 1)
      PROVE  /\ DraftRtc(g, c, k)[j] \in Cmps
             /\ DraftCtr(f, c, k)[DraftRtc(g, c, k)[j]] = j
  <2>1. CASE j = ctr[c]
    BY <1>0, <2>1, <1>1, <1>3, <1>4
  <2>2. CASE j = k
    BY <1>0, <2>2, <1>1, <1>2, <1>3, <1>4
  <2>3. CASE j # ctr[c] /\ j # k
    <3>1. DraftRtc(g, c, k)[j] = g[j]
      BY <1>0, <2>3, <1>4
    <3>2. g[j] \in Cmps /\ f[g[j]] = j
      BY DEF MutuallyInverse
    <3>3. g[j] # c /\ g[j] # rtc[k]
      BY <3>2, <2>3, <1>1
    <3> QED BY <3>1, <3>2, <3>3, <1>3
  <2> QED BY <2>1, <2>2, <2>3
<1> QED BY <1>5, <1>6, <1>7, <1>8, ZenonT(40) DEF MutuallyInverse

\* A set of numbers from an interval has a least member.
LEMMA LeastExists ==
  ASSUME NEW n \in Int, NEW S \in SUBSET (0..n), S # {}
  PROVE  \E i \in S : \A j \in S : i <= j
<1> DEFINE R == {ss \in Nat \X Nat : ss[1] < ss[2]}
<1>1. IsWellFoundedOn(R, Nat)
  BY NatLessThanWellFounded DEF OpToRel
<1>2. S \subseteq Nat
  OBVIOUS
<1> HIDE DEF R
<1>3. \E i \in S : \A j \in S : ~(<<j, i>> \in R)
  BY Zenon, <1>1, <1>2, WFMin
<1>4. PICK i \in S : \A j \in S : ~(<<j, i>> \in R)
  BY <1>3
<1>5. \A j \in S : i <= j
  <2>1. \A j \in Nat : j < i => <<j, i>> \in R
    BY <1>2 DEF R
  <2>2. \A j \in S : ~(j < i)
    BY Zenon, <1>2, <1>4, <2>1
  <2>3. \A j \in S : j \in Int /\ i \in Int
    OBVIOUS
  <2> QED BY <2>2, <2>3
<1> QED BY <1>5, Zenon

\* The search for a replica takes one of the candidates.
LEMMA LeastMember ==
  ASSUME NEW n \in Int, NEW S \in SUBSET (0..n), S # {}
  PROVE  Least(S) \in S
<1>1. \E i \in S : \A j \in S : i <= j
  BY Zenon, LeastExists
<1> QED BY Zenon, <1>1 DEF Least

\* The next rank of the loop is one still to be looked at.
LEMMA NextRankMember ==
  ASSUME draft.todo # {}, draft.todo \in SUBSET (0..(NC + nR - 1)),
         eworld \in [0..(NC + nR - 1) -> Procs]
  PROVE  NextRank \in draft.todo
<1> DEFINE T == {eworld[i] : i \in draft.todo}
<1>1. NC + NR - 1 \in Int /\ T \in SUBSET (0..(NC + NR - 1)) /\ T # {}
  BY SizeAssumption DEF Procs
<1>2. \E m \in T : \A j \in T : m <= j
  BY Zenon, <1>1, LeastExists
<1>3. \E i \in draft.todo : \A j \in draft.todo : eworld[i] <= eworld[j]
  BY Zenon, <1>2
<1> QED BY Zenon, <1>3 DEF NextRank

\* One exchange of replicas keeps the copies inverse.
LEMMA RemapRankIInv ==
  ASSUME FaultModel = {}, IInv, RemapRank
  PROVE  IInv'
<1> USE SizeAssumption
<1>1. /\ UNCHANGED <<eworld, nR, ctr, rtc, failed, aborting, dead, image, pred>>
      /\ UNCHANGED <<alive, newcomm, shrinker, blocked, halted>>
      /\ draft.stage = "looping" /\ draft.todo # {}
  BY DEF RemapRank, shrinkVars
<1>2. Types' /\ ShrinkOK' /\ TablesOK' /\ NoPairDying' /\ AbortOnlyWithoutReplica'
  <2>1. Types'
    BY <1>1 DEF IInv, Types, Partial, Range
  <2>2. TablesOK'
    <3>1. ~Moving
      BY <1>1 DEF Moving
    <3> QED BY <1>1, <3>1, TablesFrame DEF IInv
  <2>3. ShrinkOK' /\ NoPairDying'
    <3>1. ShrinkOK'
      BY <1>1 DEF IInv, ShrinkOK
    <3>2. NoPairDying'
      <4>1. dead = failed
        BY <1>1 DEF IInv, DraftOK
      <4> QED BY <1>1, <4>1 DEF NoPairDying
    <3> QED BY <3>1, <3>2
  <2>4. AbortOnlyWithoutReplica'
    BY <1>1 DEF IInv, AbortOnlyWithoutReplica
  <2> QED BY <2>1, <2>2, <2>3, <2>4
<1>3. /\ ~aborting /\ ~halted /\ dead = failed /\ shrinker = "none"
      /\ MutuallyInverse(draft.ctr, draft.rtc)
  BY <1>1 DEF IInv, DraftOK
<1>4. draft \in [stage : Stages,
                ctr : [Cmps -> NoRank..(NR - 1)],
                rtc : [0..(NR - 1) -> NoRank..(NC - 1)],
                used : SUBSET (0..(nR - 1)),
                todo : SUBSET (0..(NC + nR - 1))]
  BY <1>1 DEF IInv, DraftOK
<1>5. /\ \A k \in (0..(nR - 1)) \ draft.used :
           Healthy(NC + k) /\ Healthy(rtc[k]) => draft.rtc[k] = rtc[k]
      /\ \A i \in draft.todo : /\ ~Healthy(i)
                               /\ AtRisk(i) => draft.ctr[Target(i)] = ctr[Target(i)]
      /\ \A i, j \in draft.todo : Target(i) = Target(j) => i = j
  BY <1>1 DEF IInv, DraftOK
<1>6. Tables
  BY <1>3 DEF IInv, Tables, Types, TablesOK
<1> DEFINE r == NextRank
           c == Target(r)
           k == Least(Candidates(r))
<1>7. r \in draft.todo /\ r \in 0..(NC + nR - 1)
  <2>1. draft.todo \in SUBSET (0..(NC + nR - 1))
    BY <1>4
  <2>2. eworld \in [0..(NC + nR - 1) -> Procs]
    BY <1>3 DEF IInv, TablesOK, WorldOK, World
  <2> QED BY Zenon, <2>1, <2>2, <1>1, NextRankMember
<1>8. \A j \in draft.todo : Healthy(j)' = Healthy(j) /\ AtRisk(j)' = AtRisk(j)
                           /\ Target(j)' = Target(j)
  BY <1>1 DEF Healthy, AtRisk, Target
<1>9. \A j \in 0..(nR - 1) : Healthy(NC + j)' = Healthy(NC + j) /\ Healthy(rtc[j])' = Healthy(rtc[j])
  BY <1>1 DEF Healthy
<1>10. CASE ~(AtRisk(r) /\ Candidates(r) # {})
  <2>1. draft' = [draft EXCEPT !.todo = @ \ {r}]
    BY <1>10 DEF RemapRank
  <2>2. /\ draft'.ctr = draft.ctr /\ draft'.rtc = draft.rtc /\ draft'.used = draft.used
        /\ draft'.todo = draft.todo \ {r} /\ draft'.stage = draft.stage
        /\ draft' \in [stage : Stages,
                      ctr : [Cmps -> NoRank..(NR - 1)],
                      rtc : [0..(NR - 1) -> NoRank..(NC - 1)],
                      used : SUBSET (0..(nR - 1)),
                      todo : SUBSET (0..(NC + nR - 1))]
    BY Zenon, <2>1, <1>4
  <2>3. MutuallyInverse(draft.ctr, draft.rtc)'
    BY <2>2, <1>1, <1>3 DEF MutuallyInverse
  <2>4. DraftOK'
    <3> HIDE DEF r
    <3>1. \A j \in (0..(nR - 1)) \ draft'.used :
            Healthy(NC + j)' /\ Healthy(rtc[j])' => draft'.rtc[j] = rtc[j]
      BY Zenon, <2>2, <1>5, <1>9
    <3>2. \A j \in draft'.todo : /\ ~Healthy(j)'
                                 /\ AtRisk(j)' => draft'.ctr[Target(j)'] = ctr[Target(j)']
      BY <2>2, <1>5, <1>8
    <3>3. \A j, l \in draft'.todo : Target(j)' = Target(l)' => j = l
      BY <2>2, <1>5, <1>8
    <3> QED BY Zenon, <2>2, <2>3, <3>1, <3>2, <3>3, <1>1, <1>3 DEF DraftOK, Healthy, AtRisk, Target
  <2> QED BY <2>4, <1>2 DEF IInv
<1>11. CASE AtRisk(r) /\ Candidates(r) # {}
  <2>1. draft' = [Exchange(c, k) EXCEPT !.todo = @ \ {r}]
    BY <1>11 DEF RemapRank, Target
  <2>2. /\ draft'.ctr = DraftCtr(draft.ctr, c, k) /\ draft'.rtc = DraftRtc(draft.rtc, c, k)
        /\ draft'.used = draft.used \cup {k}
        /\ draft'.todo = draft.todo \ {r} /\ draft'.stage = draft.stage
    <3> HIDE DEF r, c, k
    <3> QED BY <2>1, <1>4 DEF Exchange, DraftCtr, DraftRtc
  <2>3. k \in Candidates(r) /\ k \in 0..(nR - 1)
    <3>1. nR - 1 \in Int /\ Candidates(r) \in SUBSET (0..(nR - 1))
      BY <1>6 DEF Tables, Candidates
    <3> QED BY Zenon, <3>1, <1>11, LeastMember
  <2>4. /\ k \notin draft.used /\ Healthy(NC + k) /\ Healthy(rtc[k])
    BY Zenon, <2>3 DEF Candidates
  <2>5. c \in Cmps /\ ~Healthy(c)
    <3>1. CASE r < NC
      <4>1. ~Healthy(r)
        BY <1>5, <1>7, Zenon
      <4>2. c = r
        BY <3>1 DEF Target
      <4>3. r \in Cmps
        <5> HIDE DEF r
        <5> QED BY <3>1, <1>7, <1>6 DEF Cmps, Tables
      <4> QED BY <4>1, <4>2, <4>3
    <3>2. CASE ~(r < NC)
      <4>1. r - NC \in 0..(nR - 1) /\ c = rtc[r - NC]
        BY <3>2, <1>7, <1>6 DEF Target, Tables
      <4>2. ~Healthy(rtc[r - NC])
        BY <3>2, <1>11 DEF AtRisk
      <4> QED BY <4>1, <4>2, <1>6 DEF Tables, MutuallyInverse
    <3> QED BY <3>1, <3>2
  <2>6. rtc[k] # c /\ draft.ctr[c] = ctr[c] /\ draft.rtc[k] = rtc[k]
    <3>1. rtc[k] # c
      BY <2>4, <2>5
    <3>2. draft.ctr[c] = ctr[c]
      BY <1>5, <1>7, <1>11, Zenon
    <3>3. k \in (0..(nR - 1)) \ draft.used
      BY <2>3, <2>4
    <3>4. draft.rtc[k] = rtc[k]
      <4> HIDE DEF k
      <4> QED BY <2>4, <3>3, <1>5, Zenon
    <3> QED BY <3>1, <3>2, <3>4
  <2>7. /\ DraftCtr(draft.ctr, c, k) \in [Cmps -> NoRank..(NR - 1)]
        /\ DraftRtc(draft.rtc, c, k) \in [0..(NR - 1) -> NoRank..(NC - 1)]
        /\ MutuallyInverse(DraftCtr(draft.ctr, c, k), DraftRtc(draft.rtc, c, k))
    <3>1. /\ draft.ctr \in [Cmps -> NoRank..(NR - 1)]
          /\ draft.rtc \in [0..(NR - 1) -> NoRank..(NC - 1)]
      BY <1>4
    <3> HIDE DEF r, c, k
    <3> QED BY Zenon, <3>1, <2>3, <2>5, <2>6, <1>3, <1>6, ExchangeInverse
  <2> HIDE DEF r, c, k
  <2>8. MutuallyInverse(draft.ctr, draft.rtc)'
    BY Zenon, <2>2, <2>7, <1>1 DEF MutuallyInverse
  <2>9. draft' \in [stage : Stages,
                   ctr : [Cmps -> NoRank..(NR - 1)],
                   rtc : [0..(NR - 1) -> NoRank..(NC - 1)],
                   used : SUBSET (0..(nR - 1)),
                   todo : SUBSET (0..(NC + nR - 1))]
    <3>1. draft' = [stage |-> draft.stage, ctr |-> DraftCtr(draft.ctr, c, k),
                    rtc |-> DraftRtc(draft.rtc, c, k), used |-> draft.used \cup {k},
                    todo |-> draft.todo \ {r}]
      BY Zenon, <2>1, <1>4 DEF Exchange, DraftCtr, DraftRtc
    <3> QED BY <3>1, <2>3, <2>7, <1>4
  <2>10. \A j \in (0..(nR - 1)) \ draft'.used :
           Healthy(NC + j)' /\ Healthy(rtc[j])' => draft'.rtc[j] = rtc[j]
    <3> SUFFICES ASSUME NEW j \in 0..(nR - 1), j \notin draft.used, j # k,
                        Healthy(NC + j), Healthy(rtc[j])
                 PROVE  draft'.rtc[j] = rtc[j]
      BY <2>2, <1>9
    <3>1. draft.rtc[j] = rtc[j]
      BY <1>5
    <3>2. j # ctr[c]
      BY <2>5, <1>6 DEF Tables, MutuallyInverse, NoRank
    <3>3. j \in DOMAIN rtc
      BY <1>6 DEF Tables
    <3> QED BY <2>2, <3>1, <3>2, <3>3 DEF DraftRtc
  <2>11. \A j \in draft'.todo : /\ ~Healthy(j)'
                                /\ AtRisk(j)' => draft'.ctr[Target(j)'] = ctr[Target(j)']
    <3> SUFFICES ASSUME NEW j \in draft.todo, j # r
                 PROVE  /\ ~Healthy(j)
                        /\ AtRisk(j) => draft'.ctr[Target(j)] = ctr[Target(j)]
      BY Zenon, <2>2, <1>8
    <3>1. ~Healthy(j)
      BY <1>5, Zenon
    <3>2. ASSUME AtRisk(j) PROVE draft'.ctr[Target(j)] = ctr[Target(j)]
      <4>1. draft.ctr[Target(j)] = ctr[Target(j)]
        BY <3>2, <1>5, Zenon
      <4>2. Target(j) # c
        BY <1>5, <1>7 DEF c
      <4>3. ~Healthy(Target(j))
        BY <3>1, <3>2 DEF AtRisk, Target
      <4>4. Target(j) # rtc[k]
        BY <4>3, <2>4
      <4>5. draft.ctr = [d \in Cmps |-> draft.ctr[d]] /\ rtc[k] \in Cmps
        BY <1>4, <1>6, <2>3 DEF Tables, MutuallyInverse
      <4>6. Target(j) \in Cmps
        <5>1. j \in 0..(NC + nR - 1)
          BY <1>4
        <5> QED BY <5>1, <1>6, SMTT(30) DEF Tables, Target, MutuallyInverse, Cmps
      <4>7. DraftCtr(draft.ctr, c, k)[Target(j)] = draft.ctr[Target(j)]
        BY <4>2, <4>4, <4>5, <4>6 DEF DraftCtr
      <4> QED BY <4>1, <4>7, <2>2
    <3> QED BY <3>1, <3>2
  <2>12. \A j, l \in draft'.todo : Target(j)' = Target(l)' => j = l
    BY Zenon, <2>2, <1>5, <1>8
  <2>13. DraftOK'
    BY Zenon, <2>2, <2>8, <2>9, <2>10, <2>11, <2>12, <1>1, <1>3 DEF DraftOK, Healthy, AtRisk, Target
  <2> QED BY <2>13, <1>2 DEF IInv
<1> QED BY <1>10, <1>11

\* The end of the loop keeps or frees the copies.
LEMMA EndPredictIInv ==
  ASSUME FaultModel = {}, IInv, EndPredict
  PROVE  IInv'
<1>1. /\ UNCHANGED <<eworld, nR, ctr, rtc, failed, aborting, dead, image, pred>>
      /\ UNCHANGED <<alive, newcomm, shrinker, blocked, halted>>
      /\ draft.stage = "looping"
      /\ draft' = NoDraft \/ draft' = [draft EXCEPT !.stage = "swap"]
  BY DEF EndPredict, shrinkVars
<1>2. Types' /\ ShrinkOK' /\ TablesOK' /\ NoPairDying' /\ AbortOnlyWithoutReplica'
  <2>1. Types'
    BY <1>1 DEF IInv, Types, Partial, Range
  <2>2. TablesOK'
    <3>1. ~Moving
      BY <1>1 DEF Moving
    <3> QED BY <1>1, <3>1, TablesFrame DEF IInv
  <2>3. ShrinkOK' /\ NoPairDying'
    BY <1>1 DEF IInv, ShrinkOK, NoPairDying, Paired, World
  <2>4. AbortOnlyWithoutReplica'
    BY <1>1 DEF IInv, AbortOnlyWithoutReplica
  <2> QED BY <2>1, <2>2, <2>3, <2>4
<1>3. DraftOK'
  <2>1. CASE draft' = NoDraft
    BY <2>1 DEF DraftOK, NoDraft
  <2>2. CASE draft' = [draft EXCEPT !.stage = "swap"]
    <3>1. MutuallyInverse(draft.ctr, draft.rtc) /\ draft \in
            [stage : Stages,
             ctr : [Cmps -> NoRank..(NR - 1)],
             rtc : [0..(NR - 1) -> NoRank..(NC - 1)],
             used : SUBSET (0..(nR - 1)),
             todo : SUBSET (0..(NC + nR - 1))]
      BY <1>1 DEF IInv, DraftOK
    <3>2. /\ draft'.ctr = draft.ctr /\ draft'.rtc = draft.rtc /\ draft'.stage = "swap"
          /\ draft' \in [stage : Stages,
                        ctr : [Cmps -> NoRank..(NR - 1)],
                        rtc : [0..(NR - 1) -> NoRank..(NC - 1)],
                        used : SUBSET (0..(nR - 1)),
                        todo : SUBSET (0..(NC + nR - 1))]
      BY Zenon, <2>2, <3>1 DEF Stages
    <3>3. MutuallyInverse(draft.ctr, draft.rtc)'
      BY <3>1, <3>2, <1>1 DEF MutuallyInverse
    <3> QED BY <3>2, <3>3, <1>1 DEF IInv, DraftOK
  <2> QED BY <2>1, <2>2, <1>1
<1> QED BY <1>2, <1>3 DEF IInv

\* The stages a rearrangement passes through after the loop.
LEMMA DraftStage ==
  ASSUME DraftOK, draft.stage # "none", NEW x \in Stages \ {"looping"},
         draft' = [draft EXCEPT !.stage = x],
         UNCHANGED <<nR, aborting, halted, dead, failed, shrinker>>
  PROVE  DraftOK'
<1>1. /\ ~aborting /\ ~halted /\ dead = failed /\ shrinker = "none"
      /\ draft \in [stage : Stages,
                    ctr : [Cmps -> NoRank..(NR - 1)],
                    rtc : [0..(NR - 1) -> NoRank..(NC - 1)],
                    used : SUBSET (0..(nR - 1)),
                    todo : SUBSET (0..(NC + nR - 1))]
      /\ MutuallyInverse(draft.ctr, draft.rtc)
  BY DEF DraftOK
<1>2. /\ draft'.ctr = draft.ctr /\ draft'.rtc = draft.rtc /\ draft'.stage = x
      /\ draft' \in [stage : Stages,
                     ctr : [Cmps -> NoRank..(NR - 1)],
                     rtc : [0..(NR - 1) -> NoRank..(NC - 1)],
                     used : SUBSET (0..(nR - 1)),
                     todo : SUBSET (0..(NC + nR - 1))]
  BY Zenon, <1>1
<1>3. MutuallyInverse(draft.ctr, draft.rtc)'
  BY <1>1, <1>2 DEF MutuallyInverse
<1>4. draft'.stage # "looping"
  BY <1>2
<1> QED BY Zenon, <1>1, <1>2, <1>3, <1>4 DEF DraftOK

\* MPI_Replica_rearrange puts the copies in the place of the tables.
LEMMA InstallTablesIInv ==
  ASSUME FaultModel = {}, IInv, InstallTables
  PROVE  IInv'
<1> USE SizeAssumption
<1>1. /\ UNCHANGED <<eworld, nR, failed, aborting, dead, pred, image>>
      /\ UNCHANGED <<alive, newcomm, shrinker, blocked, halted>>
      /\ draft.stage = "swap" /\ draft' = [draft EXCEPT !.stage = "installed"]
      /\ ctr' = draft.ctr
      /\ rtc' = [k \in DOMAIN rtc |-> IF k < nR THEN draft.rtc[k] ELSE rtc[k]]
  BY DEF InstallTables, shrinkVars
<1>2. /\ ~aborting /\ ~halted /\ dead = failed /\ shrinker = "none"
      /\ MutuallyInverse(draft.ctr, draft.rtc)
      /\ draft.ctr \in [Cmps -> NoRank..(NR - 1)]
      /\ draft.rtc \in [0..(NR - 1) -> NoRank..(NC - 1)]
  BY <1>1 DEF IInv, DraftOK
<1>3. nR \in 0..NR /\ rtc \in [0..(NR - 1) -> NoRank..(NC - 1)] /\ WorldOK(eworld)
  BY <1>2 DEF IInv, Types, TablesOK, World
<1>4. rtc' \in [0..(NR - 1) -> NoRank..(NC - 1)]
  BY <1>1, <1>2, <1>3
<1>5. \A k \in 0..(nR - 1) : rtc'[k] = draft.rtc[k] /\ rtc'[k] \in Cmps
  <2>1. \A k \in 0..(nR - 1) : draft.rtc[k] \in Cmps
    BY <1>2 DEF MutuallyInverse
  <2>2. ASSUME NEW k \in 0..(nR - 1) PROVE rtc'[k] = draft.rtc[k]
    <3>1. k \in DOMAIN rtc /\ k < nR
      BY <1>3
    <3> QED BY <1>1, <3>1
  <2> QED BY <2>1, <2>2
<1>6. MutuallyInverse(ctr, rtc)'
  BY Zenon, <1>1, <1>2, <1>5 DEF MutuallyInverse
<1>7. Moving'
  <2>1. draft'.stage = "installed"
    <3>1. draft \in [stage : Stages,
                     ctr : [Cmps -> NoRank..(NR - 1)],
                     rtc : [0..(NR - 1) -> NoRank..(NC - 1)],
                     used : SUBSET (0..(nR - 1)),
                     todo : SUBSET (0..(NC + nR - 1))]
      BY <1>1 DEF IInv, DraftOK
    <3> QED BY Zenon, <1>1, <3>1
  <2> QED BY <2>1 DEF Moving
<1>8. TablesOK'
  <2>1. WorldOK(World)'
    <3>1. World' = eworld
      BY <1>1, <1>2 DEF World
    <3>2. /\ eworld \in [0..(NC + nR' - 1) -> Procs] /\ IsInjective(eworld)
          /\ Range(eworld) = Procs \ failed'
      BY <1>1, <1>3 DEF WorldOK
    <3>3. \A i \in 0..(NC + nR' - 1) : i < NC => image'[eworld[i]] = i
      BY <1>1, <1>3 DEF WorldOK, Role
    <3> QED BY <3>1, <3>2, <3>3, <1>7 DEF WorldOK, Role
  <2> QED BY <2>1, <1>6 DEF TablesOK
<1>9. Types'
  BY Zenon, <1>1, <1>2, <1>4 DEF IInv, Types, Partial, Range
<1>10. DraftOK'
  <2>1. "installed" \in Stages \ {"looping"} /\ draft.stage # "none"
    BY <1>1 DEF Stages
  <2> QED BY Zenon, <2>1, <1>1, DraftStage DEF IInv
<1>11. ShrinkOK' /\ NoPairDying' /\ AbortOnlyWithoutReplica'
  BY Zenon, <1>1, <1>2 DEF IInv, ShrinkOK, NoPairDying, AbortOnlyWithoutReplica
<1> QED BY <1>8, <1>9, <1>10, <1>11 DEF IInv

\* transfer_to_replicas takes reqListLock.
LEMMA BeginTransferIInv ==
  ASSUME FaultModel = {}, IInv, BeginTransfer
  PROVE  IInv'
<1>1. /\ UNCHANGED <<eworld, nR, ctr, rtc, failed, aborting, dead, image, pred>>
      /\ UNCHANGED <<alive, newcomm, shrinker, blocked, halted>>
      /\ draft.stage = "installed" /\ draft' = [draft EXCEPT !.stage = "sending"]
  BY DEF BeginTransfer, shrinkVars
<1>2. "sending" \in Stages \ {"looping"} /\ draft.stage # "none"
  BY <1>1 DEF Stages
<1>3. DraftOK' /\ dead = failed
  <2>1. DraftOK'
    BY Zenon, <1>1, <1>2, DraftStage DEF IInv
  <2> QED BY <2>1, <1>2 DEF IInv, DraftOK
<1>4. TablesOK'
  <2>1. draft'.stage = "sending"
    <3>1. draft \in [stage : Stages,
                     ctr : [Cmps -> NoRank..(NR - 1)],
                     rtc : [0..(NR - 1) -> NoRank..(NC - 1)],
                     used : SUBSET (0..(nR - 1)),
                     todo : SUBSET (0..(NC + nR - 1))]
      BY <1>2 DEF IInv, DraftOK
    <3> QED BY Zenon, <1>1, <3>1
  <2>2. Moving'
    BY <2>1 DEF Moving
  <2> QED BY <1>1, <2>2, TablesFrame DEF IInv
<1>5. Types'
  BY Zenon, <1>1 DEF IInv, Types, Partial, Range
<1>6. ShrinkOK' /\ NoPairDying' /\ AbortOnlyWithoutReplica'
  BY Zenon, <1>1, <1>3 DEF IInv, ShrinkOK, NoPairDying, AbortOnlyWithoutReplica
<1> QED BY <1>3, <1>4, <1>5, <1>6 DEF IInv

\* transfer_to_replicas leaves every replica with the image its position asks for.
LEMMA EndTransferIInv ==
  ASSUME FaultModel = {}, IInv, EndTransfer
  PROVE  IInv'
<1> USE SizeAssumption
<1>1. /\ UNCHANGED <<eworld, nR, ctr, rtc, failed, aborting, dead, pred>>
      /\ UNCHANGED <<alive, newcomm, shrinker, blocked, halted>>
      /\ draft.stage = "sending" /\ draft' = NoDraft
  BY DEF EndTransfer, shrinkVars
<1>2. ~aborting /\ ~halted /\ dead = failed /\ shrinker = "none"
  BY <1>1 DEF IInv, DraftOK
<1>3. /\ nR \in 0..NR /\ rtc \in [0..(NR - 1) -> NoRank..(NC - 1)]
      /\ image \in [Procs -> NoRank..(NC - 1)] /\ WorldOK(eworld)
      /\ MutuallyInverse(ctr, rtc)
  BY <1>2 DEF IInv, Types, TablesOK, World
<1> DEFINE At(p) == CHOOSE k \in 0..(nR - 1) : eworld[NC + k] = p
<1>7. image' = [p \in Procs |-> IF \E k \in 0..(nR - 1) : eworld[NC + k] = p
                               THEN rtc[At(p)] ELSE image[p]]
  BY Zenon DEF EndTransfer
<1>8. \A p \in Procs : (\E k \in 0..(nR - 1) : eworld[NC + k] = p)
                        => At(p) \in 0..(nR - 1) /\ eworld[NC + At(p)] = p
  BY Zenon
<1> HIDE DEF At
<1>9. image' \in [Procs -> NoRank..(NC - 1)]
  <2>1. ASSUME NEW p \in Procs, \E k \in 0..(nR - 1) : eworld[NC + k] = p
        PROVE  rtc[At(p)] \in NoRank..(NC - 1)
    <3>1. At(p) \in 0..(nR - 1)
      BY Zenon, <2>1, <1>8
    <3>2. \A k \in 0..(nR - 1) : k \in 0..(NR - 1)
      BY <1>3
    <3> HIDE DEF At
    <3> QED BY Zenon, <3>1, <3>2, <1>3
  <2> QED BY Zenon, <2>1, <1>3, <1>7
<1>10. ASSUME NEW i \in 0..(NC + nR - 1) PROVE image'[eworld[i]] = Role(rtc, i)
  <2>1. eworld[i] \in Procs /\ DOMAIN eworld = 0..(NC + nR - 1)
    BY <1>3 DEF WorldOK
  <2>2. \A j \in 0..(NC + nR - 1) : eworld[i] = eworld[j] => i = j
    BY <1>3, <2>1 DEF WorldOK, IsInjective
  <2>3. \A k \in 0..(nR - 1) : NC + k \in 0..(NC + nR - 1) /\ ~(NC + k < NC)
    BY <1>3
  <2>4. CASE i < NC
    <3>1. ~ \E k \in 0..(nR - 1) : eworld[NC + k] = eworld[i]
      BY <2>2, <2>3, <2>4
    <3>2. image'[eworld[i]] = image[eworld[i]]
      BY <2>1, <3>1, <1>7
    <3> QED BY <3>2, <2>4, <1>3 DEF WorldOK, Role
  <2>5. CASE ~(i < NC)
    <3>1. i - NC \in 0..(nR - 1) /\ NC + (i - NC) = i
      BY <2>5, <1>3
    <3>2. At(eworld[i]) \in 0..(nR - 1) /\ eworld[NC + At(eworld[i])] = eworld[i]
      BY <2>1, <3>1, <1>8
    <3>3. \A k \in 0..(nR - 1) : eworld[NC + k] = eworld[i] => NC + k = i
      BY <2>2, <2>3, ZenonT(40)
    <3>6. \A k \in 0..(nR - 1) : NC + k = i => k = i - NC
      BY <1>3
    <3>4. At(eworld[i]) = i - NC
      BY <3>2, <3>3, <3>6, ZenonT(40)
    <3>5. image'[eworld[i]] = rtc[i - NC]
      BY <2>1, <3>1, <3>4, <1>7
    <3> QED BY <3>5, <2>5 DEF Role
  <2> QED BY <2>4, <2>5
<1>11. TablesOK'
  <2>1. WorldOK(World)'
    <3>1. World' = eworld
      BY <1>1, <1>2 DEF World
    <3>2. /\ eworld \in [0..(NC + nR' - 1) -> Procs] /\ IsInjective(eworld)
          /\ Range(eworld) = Procs \ failed'
      BY <1>1, <1>3 DEF WorldOK
    <3>3. \A i \in 0..(NC + nR' - 1) : image'[eworld[i]] = Role(rtc', i)
      BY <1>1, <1>10
    <3> QED BY <3>1, <3>2, <3>3 DEF WorldOK, Role
  <2>2. MutuallyInverse(ctr, rtc)'
    BY <1>1, <1>3 DEF MutuallyInverse
  <2> QED BY <2>1, <2>2 DEF TablesOK
<1>12. Types'
  BY Zenon, <1>1, <1>9 DEF IInv, Types, Partial, Range
<1>13. ShrinkOK' /\ NoPairDying' /\ DraftOK' /\ AbortOnlyWithoutReplica'
  BY Zenon, <1>1, <1>2 DEF IInv, ShrinkOK, NoPairDying, DraftOK, NoDraft, AbortOnlyWithoutReplica
<1> QED BY <1>11, <1>12, <1>13 DEF IInv

\* Every step of the specification keeps the inductive invariant.
LEMMA NextIInv ==
  ASSUME FaultModel = {}, IInv, [Next]_vars
  PROVE  IInv'
<1>1. CASE UNCHANGED vars
  <2> USE <1>1 DEF vars, shrinkVars, predictVars
  <2>1. Types' /\ ShrinkOK' /\ NoPairDying'
    <3>1. Types'
      BY Zenon DEF IInv, Types, Partial, Range
    <3>2. ShrinkOK'
      BY DEF IInv, ShrinkOK
    <3>3. NoPairDying'
      <4>1. World' = World
        BY DEF World
      <4>2. ASSUME NEW a, NEW b PROVE Paired(a, b)' => Paired(a, b)
        BY <4>1 DEF Paired
      <4> QED BY <4>2 DEF IInv, NoPairDying
    <3> QED BY <3>1, <3>2, <3>3
  <2>2. TablesOK' /\ AbortOnlyWithoutReplica'
    <3>1. TablesOK'
      BY TablesFrame DEF IInv, Moving
    <3>2. AbortOnlyWithoutReplica'
      BY DEF IInv, AbortOnlyWithoutReplica
    <3> QED BY <3>1, <3>2
  <2>3. DraftOK'
    BY Zenon DEF IInv, DraftOK, MutuallyInverse, Healthy, AtRisk, Target
  <2> QED BY <2>1, <2>2, <2>3 DEF IInv
<1>2. CASE \E F \in SUBSET Procs : Crash(F) \/ InformProcFailed(F)
  BY <1>2, CrashIInv, InformProcFailedIInv
<1>3. CASE CreateGroup \/ SendShrinkPerformed \/ ShrinkPerformed
  BY <1>3, ShrinkerIInv
<1>4. CASE \E S \in SUBSET Procs : \E X \in SUBSET pred : InformPredict(S, X)
  BY <1>4, InformPredictIInv
<1>5. CASE RemapRank \/ EndPredict
  BY <1>5, RemapRankIInv, EndPredictIInv
<1>6. CASE InstallTables \/ BeginTransfer \/ EndTransfer
  BY <1>6, InstallTablesIInv, BeginTransferIInv, EndTransferIInv
<1> QED BY <1>1, <1>2, <1>3, <1>4, <1>5, <1>6 DEF Next

\* The invariant holds throughout every behaviour in which no failure coincides
\* with a recovery, a pending rearrangement or the loss of the rank's replica.
THEOREM Invariance == FaultModel = {} /\ Spec => []IInv
<1> SUFFICES ASSUME FaultModel = {} PROVE Spec => []IInv
  OBVIOUS
<1>1. Init => IInv
  BY InitIInv
<1>2. IInv /\ [Next]_vars => IInv'
  BY NextIInv
<1> QED BY <1>1, <1>2, PTL DEF Spec

\* Type correctness of the tables, the world and the handlers' state.
THEOREM TypeCorrect == FaultModel = {} /\ Spec => []TypeOK
<1>1. IInv => TypeOK
  <2> SUFFICES ASSUME IInv PROVE TypeOK
    OBVIOUS
  <2>1. draft.stage \in {"none", "looping", "swap", "installed", "sending"}
    BY DEF IInv, DraftOK, Stages
  <2>2. blocked \in BOOLEAN
    BY Zenon DEF IInv, ShrinkOK
  <2> QED BY <2>1, <2>2 DEF IInv, Types, Partial, TypeOK
<1> QED BY <1>1, Invariance, PTL

\* cmpToRepMap and repToCmpMap, and the copies a prediction prepares, stay inverse to
\* each other, for any number of ranks, replicas, failures and predictions, as long as
\* no notice (of failures or of a prediction) names a rank together with its replica,
\* a prediction names members of the world only and comes neither during a recovery nor
\* before the rearrangement of the one before it, and no process dies during a recovery
\* or between a prediction and the end of its rearrangement.
THEOREM TablesStayInverse == FaultModel = {} /\ Spec => [](MapsInverse /\ DraftInverse)
<1>1. IInv => MapsInverse /\ DraftInverse
  BY DEF IInv, TablesOK, DraftOK, MapsInverse, DraftInverse
<1> QED BY <1>1, Invariance, PTL

\* Outside a recovery and a transfer of images every position is held by one process
\* that carries the image of the position's logical rank.
THEOREM RolesStayMatched == FaultModel = {} /\ Spec => []RolesMatchImages
<1>1. IInv => RolesMatchImages
  <2> SUFFICES ASSUME IInv, ~aborting, ~Recovering, ~Moving
               PROVE  /\ DOMAIN eworld = 0..(NC + nR - 1) /\ IsInjective(eworld)
                      /\ \A i \in DOMAIN eworld :
                           image[eworld[i]] = IF i < NC THEN i ELSE rtc[i - NC]
    BY DEF RolesMatchImages
  <2>1. WorldOK(eworld)
    BY DEF IInv, Recovering, TablesOK, World
  <2> QED BY <2>1 DEF WorldOK, Role
<1> QED BY <1>1, Invariance, PTL

\* A shrink never asks a failed process to join the new communicator.
THEOREM ShrinkExcludesFailed == FaultModel = {} /\ Spec => []NoDeadMember
<1>1. IInv => NoDeadMember
  <2> SUFFICES ASSUME IInv, shrinker # "none" PROVE Range(alive) \cap failed = {}
    BY DEF NoDeadMember
  <2> QED BY DEF IInv, ShrinkOK
<1> QED BY <1>1, Invariance, PTL

\* The job is given up only when some logical rank has no surviving carrier.
THEOREM AbortIsJustified ==
  FaultModel = {} /\ Spec => []AbortOnlyWithoutReplica
<1>1. IInv => AbortOnlyWithoutReplica
  BY DEF IInv
<1> QED BY <1>1, Invariance, PTL

\* When the last carrier of a logical rank is reported failed the job is given up.
THEOREM AbortIsNotMissed ==
  FaultModel = {} /\ Spec => []AbortWithoutReplica
<1>1. IInv => AbortWithoutReplica
  <2> SUFFICES ASSUME IInv, ~aborting, NEW c \in Cmps
               PROVE  \E p \in Procs \ failed : image[p] = c
    BY DEF IInv, AbortWithoutReplica
  <2>1. WorldOK(World) /\ nR \in 0..NR
    BY DEF IInv, TablesOK, Types
  <2>2. c \in 0..(NC + nR - 1) /\ c < NC
    BY <2>1, SizeAssumption DEF Cmps
  <2>3. World[c] \in Procs \ failed /\ image[World[c]] = c
    BY <2>1, <2>2 DEF WorldOK, Role, Range
  <2> QED BY <2>3
<1> QED BY <1>1, Invariance, PTL
=============================================================================
