SPECIFICATION Spec
CONSTANTS
  s1 = s1
  s2 = s2
  q1 = q1
  Servers = {s1, s2}
  KeepAlive = {s1}
  Eager = {}
  Calls = {q1}
  MaxSessions = 2
  MaxConns = 2
INVARIANTS
  OneConnectionPerServer
  SessionsAreShutDown
  RequestsAreCounted
CHECK_DEADLOCK FALSE
