SPECIFICATION Spec
CONSTANTS
  Plans <- MCPlans
  MaxWidth = 2
  MaxAttempts = 2
PROPERTIES
  StopSpawnsNothing
CHECK_DEADLOCK FALSE
