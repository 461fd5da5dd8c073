----------------------------- MODULE MCStaleWork -----------------------------
(***************************************************************************)
(* The guard against stale queued work on a small instance.                *)
(***************************************************************************)
EXTENDS StaleWorkRuntime, TLC

CONSTANTS g1, g2

MCGoalIds == {g1, g2}

Symmetry == Permutations(MCGoalIds)
=============================================================================
