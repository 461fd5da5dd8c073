SPECIFICATION FairSpec
CONSTANTS
  r1 = r1
  r2 = r2
  s1 = s1
  s2 = s2
  NoSession = NoSession
  Runs = {r1}
  Sessions = {s1, s2}
  Owner <- MCOwner
  MaxLoads = 2
  MaxCrashes = 1
  MaxFlights = 2
INVARIANTS
  ToldMatchesStatus
PROPERTIES
  TakenMeansTold
  EndIsReported
CHECK_DEADLOCK FALSE
