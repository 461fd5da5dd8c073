CONSTANTS
    g1 = g1
    g2 = g2
    Null = Null
    GoalIds = {g1, g2}
    TicksPerSecond = 1
    TokenBudgets = {1, 2}
    TurnTokens = {0, 1}
    PersistInterval = 1
    MaxNow = 1
    MaxLog = 3
    MaxSpent = 2
    MaxNavs = 1
SPECIFICATION Spec
INVARIANTS
    DurableMirrorsPersisted
    StatusMatchesBudget
    AccountingFollowsGoal
    NoDoubleCharge
    OnlyTimeIsDeferred
    DeferredTimeIsBounded
    DurableUsageNeverRewinds
PROPERTIES
    ImplementsLifecycle
    CompleteGoalWritesNothing
SYMMETRY Symmetry
