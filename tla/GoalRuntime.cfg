CONSTANTS
    g1 = g1
    g2 = g2
    Null = Null
    GoalIds = {g1, g2}
    MaxQueue = 1
    MaxAttempts = 2
    TreeMoves = FALSE
SPECIFICATION Spec
INVARIANTS
    TypeOK
    QueuedMarkHasMessage
    RepeatedOverflowPauses
    AttentionFitsGoal
    ActiveGoalIsAwaited
SYMMETRY Symmetry
