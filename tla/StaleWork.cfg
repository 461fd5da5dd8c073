CONSTANTS
    g1 = g1
    g2 = g2
    Null = Null
    GoalIds = {g1, g2}
    MaxTurns = 3
SPECIFICATION Spec
INVARIANTS
    TypeOK
    TurnEndsToldApart
    AgentEndsToldApart
    AbortStopsAccounting
    AbortedTurnsRemembered
SYMMETRY Symmetry
