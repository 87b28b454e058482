------------------------------ MODULE RankMaps ------------------------------
(***************************************************************************)
(* The rank tables every client keeps: eworldComm, the communicator of the *)
(* computational ranks 0..nC-1 followed by the replicas nC..nC+nR-1, and   *)
(* the two tables cmpToRepMap / repToCmpMap that pair them.                *)
(*                                                                         *)
(* Three handlers rewrite them: INFORM_PROC_FAILED shrinks the world and   *)
(* promotes the replicas of failed computational ranks, SHRINK_PERFORMED   *)
(* adopts the new communicator, and INFORM_PREDICT(_NODE) computes a       *)
(* rearrangement that MPI_Replica_rearrange carries out later.  All clients*)
(* receive the same notices and compute the same tables, so the module     *)
(* keeps one copy.  Processes are named by their rank at MPI_Init          *)
(* (parep_mpi_original_group).                                             *)
(***************************************************************************)
EXTENDS Integers, FiniteSets, Functions

CONSTANTS NC,         \* nC: computational ranks (never changes: nCdiff = 0)
          NR,         \* the number of replicas at MPI_Init
          FaultModel, \* which coincidences the environment may produce
          MaxCrashes, \* bound: processes that may die
          MaxPredict  \* bound: processes named by one prediction notice

ASSUME SizeAssumption == NC \in Nat \ {0} /\ NR \in 0..NC
ASSUME FaultAssumption ==
  /\ FaultModel \subseteq {"pair", "overlap", "swap"}
  /\ MaxCrashes \in Nat /\ MaxPredict \in Nat

NoRank == -1
Procs  == 0..(NC + NR - 1)
Cmps   == 0..(NC - 1)

VARIABLES
  eworld,   \* position in eworldComm -> process
  alive,    \* current_alive_group, the argument of comm_shrink
  newcomm,  \* parep_mpi_new_comm
  nR,       \* current number of replicas
  ctr,      \* cmpToRepMap
  rtc,      \* repToCmpMap (allocated once with NR entries)
  failed,   \* parep_mpi_failed_group
  aborting, \* the "No Replica exists" flag
  shrinker, \* comm_shrink: "none", "creating", "created", or "sent" while the
            \* coordinator's SHRINK_PERFORMED is on its way
  blocked,  \* the polling thread waits for reqListLock, which it holds
  halted,   \* the client spins after an abort
  dead,     \* processes that have died
  pred,     \* processes whose parep_mpi_pred_list entry is not -1
  draft,    \* ctrmap / rtcmap and the loop state of the predict handler
  image     \* process -> logical rank whose memory image it carries

shrinkVars  == <<alive, newcomm, shrinker, blocked, halted>>
predictVars == <<pred, draft>>
vars == <<eworld, nR, ctr, rtc, failed, aborting, dead, image, shrinkVars,
          predictVars>>

NoDraft == [stage |-> "none"]

(***************************************************************************)
(* empi_comm_creation: replica i shadows computational rank i.             *)
(***************************************************************************)
Init ==
  /\ eworld = [i \in Procs |-> i]
  /\ alive = eworld /\ newcomm = eworld
  /\ nR = NR
  /\ ctr = [c \in Cmps |-> IF c < NR THEN c ELSE NoRank]
  /\ rtc = [k \in 0..(NR - 1) |-> k]
  /\ failed = {} /\ dead = {} /\ pred = {}
  /\ aborting = FALSE /\ halted = FALSE
  /\ shrinker = "none" /\ blocked = FALSE
  /\ draft = NoDraft
  /\ image = [p \in Procs |-> IF p < NC THEN p ELSE p - NC]

\* The world in use, or the one a shrink is building.
World == IF shrinker = "none" \/ aborting THEN eworld ELSE alive

\* A process has died and its failure is not dealt with.
Recovering == shrinker # "none" \/ dead # failed

\* The new tables are in use, the images they ask for have not all been sent.
Moving == draft.stage \in {"installed", "sending"}

(***************************************************************************)
(* The environment.  A batch of processes dies together (a node).  Without *)
(* "overlap" no process dies while an earlier failure is being recovered   *)
(* and one notice reports the batch; without "swap" none dies between a    *)
(* prediction and the end of the rearrangement it asks for; without "pair" *)
(* one notice, of failures or of a prediction, never names a rank and its  *)
(* replica.                                                                *)
(***************************************************************************)
Paired(p, q) == \E c \in Cmps : /\ ctr[c] # NoRank
                                /\ p = World[c] /\ q = World[NC + ctr[c]]

Crash(F) ==
  /\ ~halted
  /\ F # {} /\ F \cap dead = {}
  /\ Cardinality(dead \cup F) <= MaxCrashes
  /\ "overlap" \in FaultModel \/ ~Recovering
  /\ "swap" \in FaultModel \/ draft = NoDraft
  /\ "pair" \in FaultModel \/ \A p, q \in F \cup (dead \ failed) : ~Paired(p, q)
  /\ dead' = dead \cup F
  /\ UNCHANGED <<eworld, nR, ctr, rtc, failed, aborting, image, shrinkVars,
                 predictVars>>

(***************************************************************************)
(* The shrink computation.  failed_ranks is in ascending order, so every   *)
(* computational rank is handled before any replica; the loop then has the *)
(* closed form below.  lost: positions of failed processes.                *)
(***************************************************************************)
\* Mutants: replica 0 is taken for no replica; no rank is without one.
NoReplica_Zero(lost) == \E i \in lost : i < NC /\ ctr[i] <= 0
NoReplica_Never(lost) == lost = {}

NoReplica(lost) == \E i \in lost : i < NC /\ ctr[i] = NoRank

\* The replica position the loop vacates for the failed position i.
Slot(i) == IF i < NC THEN NC + ctr[i] ELSE i

\* rankadjrep: one increment per vacated slot below i.
RankAdjRep(lost, i) == Cardinality({j \in lost : Slot(j) < i})

\* Mutant: the replica of a failed rank is not promoted.
WorldCommRanks_NoPromotion(lost, i) ==
  IF \E j \in lost : Slot(j) = i THEN NoRank ELSE i

\* worldComm_ranks after the loop over failed_ranks, before compaction.
WorldCommRanks(lost, i) ==
  IF \E j \in lost : Slot(j) = i THEN NoRank
  ELSE IF i \in lost THEN Slot(i) ELSE i

\* In-place compaction: the last source written to position t, t itself if none.
Compact(lost, t) ==
  LET src == {i \in 0..(NC + nR - 1) :
                /\ WorldCommRanks(lost, i) # NoRank
                /\ i - RankAdjRep(lost, i) = t}
  IN  IF src = {} THEN t
      ELSE CHOOSE i \in src : \A j \in src : j <= i

\* Mutant: the survivors close ranks, as after a plain shrink.
ShrunkWorld_InOrder(lost) ==
  LET kept == DOMAIN eworld \ lost
  IN  [t \in 0..(NC + nR - Cardinality(lost) - 1) |->
         eworld[CHOOSE i \in kept : Cardinality({j \in kept : j < i}) = t]]

ShrunkWorld(lost) ==
  [t \in 0..(NC + nR - Cardinality(lost) - 1) |->
     eworld[WorldCommRanks(lost, Compact(lost, t))]]

\* Mutants: indices are not moved down; positions are stored instead of
\* replica indices; ranks whose replica failed keep their entry.
ShrunkCtr_NoShift(lost) ==
  [c \in Cmps |->
     IF ctr[c] = NoRank \/ c \in lost
        \/ \E j \in lost : j >= NC /\ rtc[j - NC] = c
     THEN NoRank ELSE ctr[c]]

ShrunkCtr_Position(lost) ==
  [c \in Cmps |->
     IF ctr[c] = NoRank \/ c \in lost
        \/ \E j \in lost : j >= NC /\ rtc[j - NC] = c
     THEN NoRank
     ELSE NC + ctr[c] - RankAdjRep(lost, NC + ctr[c])]

ShrunkCtr_KeepsOrphans(lost) ==
  [c \in Cmps |->
     IF ctr[c] = NoRank \/ c \in lost THEN NoRank
     ELSE ctr[c] - RankAdjRep(lost, NC + ctr[c])]

ShrunkCtr(lost) ==
  [c \in Cmps |->
     IF ctr[c] = NoRank \/ c \in lost
        \/ \E j \in lost : j >= NC /\ rtc[j - NC] = c
     THEN NoRank
     ELSE ctr[c] - RankAdjRep(lost, NC + ctr[c])]

ShrunkRtc(lost) ==
  [k \in 0..(NR - 1) |->
     LET kept == {i \in 0..(nR - 1) :
                    /\ \A j \in lost : Slot(j) # NC + i
                    /\ rtc[i] # NoRank
                    /\ i - RankAdjRep(lost, NC + i) = k}
     IN  IF kept # {} THEN rtc[CHOOSE i \in kept : \A j \in kept : j <= i]
         ELSE IF \E j \in lost : Slot(j) = NC + k THEN NoRank
         ELSE rtc[k]]

(***************************************************************************)
(* CMD_INFORM_PROC_FAILED.                                                 *)
(***************************************************************************)
Survivors(lost) == {eworld[i] : i \in DOMAIN eworld \ lost}

\* The tables when the loop breaks at the first failed rank without a replica:
\* the failed ranks before it have been promoted, nothing is compacted.
Promoted(lost) ==
  {j \in lost : \A i \in lost : i < NC /\ ctr[i] = NoRank => j < i}

BrokenCtr(lost) ==
  [c \in Cmps |-> IF c \in Promoted(lost) THEN NoRank ELSE ctr[c]]

BrokenRtc(lost) ==
  [k \in 0..(NR - 1) |->
     IF \E j \in Promoted(lost) : ctr[j] = k THEN NoRank ELSE rtc[k]]

\* The handler takes reqListLock, not a recursive mutex, and keeps it until
\* SHRINK_PERFORMED.  A notice handled before that adds to the failed group and
\* then blocks the polling thread for good, so the branches of the handler for
\* a comm_shrink still running are never reached.  transfer_to_replicas holds
\* reqListLock too, and waits for all members of the world.
InformProcFailed(F) ==
  /\ ~halted /\ ~blocked
  /\ draft.stage # "looping"
  /\ F # {} /\ F \subseteq dead \ failed
  /\ "overlap" \in FaultModel \/ F = dead \ failed
  /\ failed' = failed \cup F
  /\ LET lost == {i \in DOMAIN eworld : eworld[i] \in failed'} IN
     \/ /\ shrinker # "none" \/ draft.stage = "sending"
        /\ blocked' = TRUE
        /\ UNCHANGED <<aborting, nR, ctr, rtc, alive, shrinker>>
     \/ /\ shrinker = "none" /\ draft.stage # "sending" /\ NoReplica(lost)
        /\ aborting' = TRUE
        /\ ctr' = BrokenCtr(lost) /\ rtc' = BrokenRtc(lost)
        /\ shrinker' = "creating" /\ alive' = [p \in Survivors(lost) |-> p]
        /\ UNCHANGED <<nR, blocked>>
     \/ /\ shrinker = "none" /\ draft.stage # "sending" /\ ~NoReplica(lost)
        /\ ctr' = ShrunkCtr(lost) /\ rtc' = ShrunkRtc(lost)
        /\ nR' = nR - Cardinality(lost)
        /\ shrinker' = "creating" /\ alive' = ShrunkWorld(lost)
        /\ UNCHANGED <<aborting, blocked>>
  /\ UNCHANGED <<eworld, newcomm, halted, dead, image, predictVars>>

(***************************************************************************)
(* comm_shrink: create the communicator, tell the coordinator, end.        *)
(***************************************************************************)
CreateGroup ==
  /\ shrinker = "creating"
  /\ Range(alive) \cap dead = {}
  /\ shrinker' = "created" /\ newcomm' = alive
  /\ UNCHANGED <<eworld, nR, ctr, rtc, failed, aborting, dead, image, alive,
                 blocked, halted, predictVars>>

\* Mutant: the coordinator's answer is lost.
SendShrinkPerformed_Lost ==
  /\ shrinker = "created"
  /\ shrinker' = "ended"
  /\ UNCHANGED <<eworld, nR, ctr, rtc, failed, aborting, dead, image, alive,
                 newcomm, blocked, halted, predictVars>>

SendShrinkPerformed ==
  /\ shrinker = "created"
  /\ shrinker' = "sent"
  /\ UNCHANGED <<eworld, nR, ctr, rtc, failed, aborting, dead, image, alive,
                 newcomm, blocked, halted, predictVars>>

(***************************************************************************)
(* CMD_SHRINK_PERFORMED: adopt the communicator, or stop for good when the *)
(* failure could not be covered.  pthread_join waits for comm_shrink.      *)
(***************************************************************************)
ShrinkPerformed ==
  /\ ~halted /\ ~blocked /\ shrinker = "sent"
  /\ eworld' = newcomm
  /\ shrinker' = "none"
  /\ halted' = aborting
  /\ UNCHANGED <<nR, ctr, rtc, failed, aborting, dead, image, alive, newcomm,
                 blocked, predictVars>>

(***************************************************************************)
(* CMD_INFORM_PREDICT (a single process) and CMD_INFORM_PREDICT_NODE (the  *)
(* processes of a node).  Entries older than 1800 s are forgotten.  The    *)
(* tables are copied and the loop over the predicted ranks works on the    *)
(* copies, reading the old tables, with procmaplock held throughout.       *)
(* Environment: a prediction comes neither during a recovery nor while a   *)
(* rearrangement is pending, and names members of the world only (the rank *)
(* of any other translates to MPI_UNDEFINED, an index outside the tables). *)
(***************************************************************************)
Least(S) == CHOOSE i \in S : \A j \in S : i <= j

InformPredict(S, expired) ==
  /\ ~halted /\ ~Recovering
  /\ draft = NoDraft
  /\ S # {} /\ Cardinality(S) <= MaxPredict
  /\ S \subseteq Range(eworld)
  /\ "pair" \in FaultModel \/ \A p, q \in S : ~Paired(p, q)
  /\ expired \subseteq pred
  /\ pred' = (pred \ expired) \cup S
  /\ draft' = [stage |-> "looping", ctr |-> ctr, rtc |-> rtc, used |-> {},
               todo |-> {i \in DOMAIN eworld : eworld[i] \in S}]
  /\ UNCHANGED <<eworld, nR, ctr, rtc, failed, aborting, dead, image,
                 shrinkVars>>

Healthy(i) == eworld[i] \notin pred

\* A predicted rank needs a new replica, or its replica another partner.
AtRisk(i) == IF i < NC THEN ctr[i] = NoRank \/ ~Healthy(NC + ctr[i])
             ELSE ~Healthy(rtc[i - NC])

\* Mutant: usedreps is not consulted.
Candidates_Reused(i) ==
  {k \in 0..(nR - 1) : /\ Healthy(NC + k) /\ Healthy(rtc[k])
                       /\ IF i < NC THEN rtc[k] # i ELSE NC + k # i}

\* Replicas that may be taken over: healthy, of a healthy rank, not taken yet.
Candidates(i) ==
  {k \in 0..(nR - 1) : /\ k \notin draft.used
                       /\ Healthy(NC + k) /\ Healthy(rtc[k])
                       /\ IF i < NC THEN rtc[k] # i ELSE NC + k # i}

\* Replica k moves to rank c; its rank inherits c's replica, if c had one.
Exchange(c, k) ==
  [draft EXCEPT !.ctr = [@ EXCEPT ![c] = k, ![rtc[k]] = ctr[c]],
                !.rtc = [j \in DOMAIN rtc |->
                           IF j = ctr[c] THEN rtc[k]
                           ELSE IF j = k THEN c ELSE @[j]],
                !.used = @ \cup {k}]

\* The notice lists the processes of a node in ascending order of their rank at
\* MPI_Init, which shrinks have made different from the order of positions.
NextRank == CHOOSE i \in draft.todo : \A j \in draft.todo : eworld[i] <= eworld[j]

\* One iteration of the loop over the predicted ranks.
RemapRank ==
  /\ draft.stage = "looping" /\ draft.todo # {}
  /\ LET i == NextRank
         next == IF AtRisk(i) /\ Candidates(i) # {}
                 THEN Exchange(IF i < NC THEN i ELSE rtc[i - NC],
                               Least(Candidates(i)))
                 ELSE draft
     IN  draft' = [next EXCEPT !.todo = @ \ {i}]
  /\ UNCHANGED <<eworld, nR, ctr, rtc, failed, aborting, dead, image, pred,
                 shrinkVars>>

\* The loop ends: raise parep_mpi_swap_replicas, or free the copies.
EndPredict ==
  /\ draft.stage = "looping" /\ draft.todo = {}
  /\ draft' = IF draft.used = {} THEN NoDraft
              ELSE [draft EXCEPT !.stage = "swap"]
  /\ UNCHANGED <<eworld, nR, ctr, rtc, failed, aborting, dead, image, pred,
                 shrinkVars>>

(***************************************************************************)
(* MPI_Replica_rearrange, run by the main thread on SIGUSR1: the tables    *)
(* are installed under procmaplock alone, even while a shrink is under     *)
(* way; transfer_to_replicas then takes reqListLock and sends each replica *)
(* the memory image of its rank.                                           *)
(***************************************************************************)
InstallTables ==
  /\ ~halted /\ draft.stage = "swap"
  /\ ctr' = draft.ctr
  /\ rtc' = [k \in DOMAIN rtc |-> IF k < nR THEN draft.rtc[k] ELSE rtc[k]]
  /\ draft' = [draft EXCEPT !.stage = "installed"]
  /\ UNCHANGED <<eworld, nR, failed, aborting, dead, pred, image, shrinkVars>>

BeginTransfer ==
  /\ ~halted /\ draft.stage = "installed" /\ shrinker = "none"
  /\ draft' = [draft EXCEPT !.stage = "sending"]
  /\ UNCHANGED <<eworld, nR, ctr, rtc, failed, aborting, dead, pred, image, shrinkVars>>

\* Mutant: no image is sent.
EndTransfer_NoImage ==
  /\ draft.stage = "sending" /\ Range(eworld) \cap dead = {}
  /\ draft' = NoDraft
  /\ UNCHANGED <<eworld, nR, ctr, rtc, failed, aborting, dead, pred, image, shrinkVars>>

\* Sends, receives and barriers over eworldComm: all its members take part.
EndTransfer ==
  /\ draft.stage = "sending" /\ Range(eworld) \cap dead = {}
  /\ image' = [p \in Procs |->
                 IF \E k \in 0..(nR - 1) : eworld[NC + k] = p
                 THEN rtc[CHOOSE k \in 0..(nR - 1) : eworld[NC + k] = p]
                 ELSE image[p]]
  /\ draft' = NoDraft
  /\ UNCHANGED <<eworld, nR, ctr, rtc, failed, aborting, dead, pred, shrinkVars>>

Next ==
  \/ \E F \in SUBSET Procs : Crash(F) \/ InformProcFailed(F)
  \/ CreateGroup \/ SendShrinkPerformed \/ ShrinkPerformed
  \/ \E S \in SUBSET Procs : \E X \in SUBSET pred : InformPredict(S, X)
  \/ RemapRank \/ EndPredict \/ InstallTables \/ BeginTransfer \/ EndTransfer

Spec == Init /\ [][Next]_vars

\* The coordinator reports every death, a communicator whose members are alive
\* gets created, and the poller and shrinker threads run.
FairSpec ==
  /\ Spec
  /\ WF_vars(\E F \in SUBSET Procs : InformProcFailed(F))
  /\ WF_vars(CreateGroup) /\ WF_vars(SendShrinkPerformed)
  /\ WF_vars(ShrinkPerformed)
-----------------------------------------------------------------------------
\* Type invariant of the tables, the worlds and the handlers' state.
TypeOK ==
  /\ nR \in 0..NR
  /\ ctr \in [Cmps -> NoRank..(NR - 1)]
  /\ rtc \in [0..(NR - 1) -> NoRank..(NC - 1)]
  /\ DOMAIN eworld \subseteq Procs /\ Range(eworld) \subseteq Procs
  /\ failed \subseteq dead /\ dead \subseteq Procs /\ pred \subseteq Procs
  /\ aborting \in BOOLEAN /\ halted \in BOOLEAN /\ blocked \in BOOLEAN
  /\ shrinker \in {"none", "creating", "created", "sent"}
  /\ draft.stage \in {"none", "looping", "swap", "installed", "sending"}
  /\ image \in [Procs -> NoRank..(NC - 1)]

MutuallyInverse(c2r, r2c) ==
  /\ \A c \in Cmps : c2r[c] # NoRank => c2r[c] \in 0..(nR - 1) /\ r2c[c2r[c]] = c
  /\ \A k \in 0..(nR - 1) : r2c[k] \in Cmps /\ c2r[r2c[k]] = k

\* Shrinks and rearrangements, within the coincidences FaultModel allows, keep
\* cmpToRepMap and repToCmpMap inverse to each other on the surviving replicas:
\* Isend, Irecv and the collectives route a message by one table on the sender and
\* by the other on the receiver.
MapsInverse == ~aborting => MutuallyInverse(ctr, rtc)

\* The copies a prediction prepares are inverse to each other after every exchange,
\* whatever the number of ranks the loop moves, when no rank is predicted together
\* with its replica.  (The two then ask for two exchanges at one rank, of which the
\* second reads tables the first has not changed.)
DraftInverse == draft.stage # "none" => MutuallyInverse(draft.ctr, draft.rtc)

\* Every position of the world is held by one process, which carries the memory
\* image of that position's logical rank, except while a rearrangement sends the
\* images: after any shrink, the replica that takes over computational rank i is
\* one that executed rank i.
RolesMatchImages ==
  ~aborting /\ ~Recovering /\ ~Moving =>
    /\ DOMAIN eworld = 0..(NC + nR - 1)
    /\ IsInjective(eworld)
    /\ \A i \in DOMAIN eworld :
         image[eworld[i]] = IF i < NC THEN i ELSE rtc[i - NC]

\* No process that was reported failed is a member of the communicator a shrink
\* creates (its creation would never complete).
NoDeadMember == shrinker # "none" => Range(alive) \cap failed = {}

\* "No Replica exists aborting": the job is given up only when every process that
\* carried the image of some logical rank has failed.
AbortOnlyWithoutReplica ==
  aborting => \E c \in Cmps : \A p \in Procs \ failed : image[p] # c

\* "NO REPLICA ABORT", the converse: when all carriers of a rank are reported
\* failed the job is given up.
AbortWithoutReplica ==
  (\E c \in Cmps : \A p \in Procs \ failed : image[p] # c) => aborting

\* A surviving computational process keeps its MPI rank through every shrink, also
\* when failures overlap: the application never sees its rank change.
SurvivorsKeepRank ==
  [][~aborting' => \A i \in Cmps :
       eworld[i] \notin failed' => eworld'[i] = eworld[i]]_vars

\* Every failure is eventually dealt with: the client returns to a world without
\* the failed processes or stops after an abort.
EventuallyRecovered == []<>(~Recovering \/ halted)

(***************************************************************************)
(* Refinement: the carriers of rank c are the process at position c and    *)
(* the one at its replica's position, in the world being built or in use.  *)
(***************************************************************************)
Carriers(c) ==
  IF aborting THEN {}
  ELSE {World[c]} \cup (IF ctr[c] = NoRank THEN {} ELSE {World[NC + ctr[c]]})

Abstract == INSTANCE ReplicaSets WITH
              Ranks <- Cmps, carriers <- [c \in Cmps |-> Carriers(c)],
              ended <- aborting

\* The tables implement replica sets: a failure notice removes exactly the failed
\* processes, gives the job up exactly when a rank loses its last carrier, and a
\* rearrangement keeps at each rank a process that already carried it.
ImplementsReplicaSets == Abstract!Spec
=============================================================================
