CONSTANTS
    g1 = g1
    g2 = g2
    Null = Null
    GoalIds = {g1}
    MaxQueue = 1
    MaxAttempts = 1
    TreeMoves = FALSE
SPECIFICATION FairSpec
PROPERTIES
    HealthyGoalGetsTurn
