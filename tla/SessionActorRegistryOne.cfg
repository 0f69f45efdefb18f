SPECIFICATION RegistrySpec
CONSTANTS
  Requesters = {q1, q2}
  HeldSessions = {s1}
  NoActor = noActor
  MaxActors = 1
  MaxMade = 2
  MaxHistory = 2
  MaxRequests = 3
INVARIANT OneActorPerSession
CHECK_DEADLOCK FALSE
