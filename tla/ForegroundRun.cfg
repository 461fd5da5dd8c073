SPECIFICATION FairSpec
CONSTANTS
  Plans <- MCPlans
  MaxSteps = 2
  MaxWidth = 2
  MaxAttempts = 2
INVARIANTS
  DetachLeavesNoDoubleWork
  DetachedTellsOneStory
PROPERTIES
  CallReturns
CHECK_DEADLOCK FALSE
