-------------------------- MODULE MCForegroundRun --------------------------
EXTENDS ForegroundRun

Seq1 == [kind |-> "seq", n |-> 1]
Par2 == [kind |-> "par", n |-> 2]
Dyn2 == [kind |-> "dyn", n |-> 2]

\* One task with a second model and a supervisor to talk to; two tasks, one at a
\* time with a second model and both at once; a chain that starts with a group
\* of one or two items, stopped by the first that fails.
MCPlans ==
  {[mode |-> "single", steps |-> <<Seq1>>, limit |-> 1, models |-> 2,
    failFast |-> FALSE, bridge |-> TRUE],
   [mode |-> "parallel", steps |-> <<Par2>>, limit |-> 1, models |-> 2,
    failFast |-> FALSE, bridge |-> FALSE],
   [mode |-> "parallel", steps |-> <<Par2>>, limit |-> 2, models |-> 1,
    failFast |-> FALSE, bridge |-> FALSE],
   [mode |-> "chain", steps |-> <<Dyn2, Seq1>>, limit |-> 1, models |-> 1,
    failFast |-> TRUE, bridge |-> FALSE]}
=============================================================================
