SPECIFICATION FairSpec
CONSTANTS
  Plans <- MCPlans
  MaxWidth = 2
  MaxAttempts = 2
INVARIANTS
  CompleteMeansDone
  ResultAfterChildren
  EveryOutcomeCounts
PROPERTIES
  ImplementsAsyncRun
  RunReachesItsEnd
CHECK_DEADLOCK FALSE
