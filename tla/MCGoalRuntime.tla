---------------------------- MODULE MCGoalRuntime ----------------------------
(***************************************************************************)
(* Small instances of GoalRuntime for TLC.                                 *)
(***************************************************************************)
EXTENDS GoalRuntime, TLC

CONSTANTS g1, g2

Symmetry == Permutations(GoalIds)
=============================================================================
