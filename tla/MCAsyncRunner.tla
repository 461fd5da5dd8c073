--------------------------- MODULE MCAsyncRunner ---------------------------
EXTENDS AsyncRunner

\* A task of a sequential step may fall back to a second model.
Seq1 == [kind |-> "seq", n |-> 1, limit |-> 1, models |-> 2,
         failFast |-> FALSE, worktree |-> FALSE]
Par(limit, failFast, models) ==
  [kind |-> "par", n |-> 2, limit |-> limit, models |-> models,
   failFast |-> failFast, worktree |-> failFast]
Dyn(failFast) ==
  [kind |-> "dyn", n |-> 2, limit |-> 1, models |-> 1,
   failFast |-> failFast, worktree |-> FALSE]

\* Two tasks at once; one task at a time, fail-fast, in worktrees; groups of
\* items computed from the step before, with and without a step after them.
MCPlans ==
  {[steps |-> <<Par(2, FALSE, 1)>>, readOnly |-> FALSE, share |-> FALSE],
   [steps |-> <<Par(1, TRUE, 2)>>, readOnly |-> TRUE, share |-> TRUE],
   [steps |-> <<Seq1, Dyn(TRUE)>>, readOnly |-> FALSE, share |-> FALSE],
   [steps |-> <<Seq1, Dyn(FALSE), Seq1>>, readOnly |-> TRUE, share |-> TRUE]}
=============================================================================
