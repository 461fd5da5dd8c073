CONSTANTS
    g1 = g1
    g2 = g2
    Null = Null
    GoalIds = {g1, g2}
    TicksPerSecond = 1
    TokenBudgets = {2}
    TurnTokens = {0, 1}
    PersistInterval = 1
    MaxNow = 0
    MaxLog = 5
    MaxSpent = 2
    MaxNavs = 1
SPECIFICATION Spec
PROPERTY OldTurnNeverChargesNewGoal
