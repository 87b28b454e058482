----------------------------- MODULE ReplicaSets -----------------------------
(***************************************************************************)
(* What replication promises: every logical rank is carried by one or two  *)
(* live processes, a failure removes exactly the failed processes from     *)
(* their ranks, the job ends when a rank has no carrier left, and moving   *)
(* replicas never removes the process that computes a rank.                *)
(***************************************************************************)
CONSTANTS Ranks, Procs

VARIABLES carriers, \* rank -> the processes that carry its image
          ended     \* the job was given up

avars == <<carriers, ended>>

Nobody == [c \in Ranks |-> {}]
All(f) == UNION {f[c] : c \in Ranks}
OneOrTwo(S) == \E p, q \in S : S = {p, q}
Disjoint(f) == \A c, d \in Ranks : c # d => f[c] \cap f[d] = {}

TypeOK ==
  /\ carriers \in [Ranks -> SUBSET Procs]
  /\ ended \in BOOLEAN

Init ==
  /\ ended = FALSE
  /\ carriers \in [Ranks -> SUBSET Procs]
  /\ \A c \in Ranks : OneOrTwo(carriers[c])
  /\ Disjoint(carriers)

\* The processes F fail.
Lose(F) ==
  /\ ~ended
  /\ LET left == [c \in Ranks |-> carriers[c] \ F] IN
     IF \E c \in Ranks : left[c] = {}
     THEN ended' = TRUE /\ carriers' = Nobody
     ELSE ended' = FALSE /\ carriers' = left

\* Replicas move between ranks; each rank keeps a carrier it had.
Move ==
  /\ ~ended
  /\ carriers' \in [Ranks -> SUBSET Procs]
  /\ All(carriers') = All(carriers)
  /\ \A c \in Ranks : carriers'[c] \cap carriers[c] # {} /\ OneOrTwo(carriers'[c])
  /\ Disjoint(carriers')
  /\ UNCHANGED ended

Next == Move \/ \E F \in SUBSET Procs : Lose(F)

Spec == Init /\ [][Next]_avars
=============================================================================
