--------------------------- MODULE MutationSafety ---------------------------
(***************************************************************************)
(* What the evidence cycle promises about the source tree: the             *)
(* mutation_safety region of docs/ouroboros/ooptdd_mutation/fsm.mmd, with  *)
(* the faults the diagram leaves to the reducer.  A cycle may mutate the   *)
(* tree once, must challenge the mutation before it can restore and go on, *)
(* and closes, sealed or not, only with the locked tree back in place.     *)
(***************************************************************************)
VARIABLES
  stage,   \* where the cycle stands
  tree     \* which source is in the tree

vars == <<stage, tree>>

Stage == {"clean", "active", "challenged", "recovery_required", "restored",
          "sealed", "closed"}

Init ==
  /\ stage = "clean"
  /\ tree = "locked"

Mutate ==
  /\ stage = "clean"
  /\ stage' = "active"
  /\ tree' = "mutated"

Challenge ==
  /\ stage = "active"
  /\ stage' = "challenged"
  /\ UNCHANGED tree

Restore ==
  /\ stage = "challenged"
  /\ stage' = "restored"
  /\ tree' = "locked"

HandOver ==
  /\ stage \in {"active", "challenged"}
  /\ stage' = "recovery_required"
  /\ UNCHANGED tree

\* Give up: from recovery, from an unfinished challenge, or with a clean tree.
Close ==
  /\ stage \notin {"sealed", "closed"}
  /\ stage' = "closed"
  /\ tree' = "locked"

Seal ==
  /\ stage = "restored"
  /\ stage' = "sealed"
  /\ UNCHANGED tree

Next == Mutate \/ Challenge \/ Restore \/ HandOver \/ Close \/ Seal

Spec == Init /\ [][Next]_vars
=============================================================================
