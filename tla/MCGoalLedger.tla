---------------------------- MODULE MCGoalLedger ----------------------------
(***************************************************************************)
(* The ledger on a small instance.                                         *)
(***************************************************************************)
EXTENDS GoalLedger, TLC

CONSTANTS g1, g2

MCGoalIds == {g1, g2}

Symmetry == Permutations(MCGoalIds)
=============================================================================
