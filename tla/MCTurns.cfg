SPECIFICATION MCSpec
CONSTANTS
  Presenters = {p1, u1}
  NoPresenter = NoPresenter
  Submits = {s1, s2}
  Interrupts = {i1, i2}
  Nobody = Nobody
  Speaker = u1
  MaxWaiters = 1
  Participants = {q1, q2}
  NoParticipant = nobody
  Profiles <- MCProfiles
  Durations = {0, 1, 3}
  MaxTurnGenerations = 3
  Callers = {1, 2, 3}
  MaxVersion = 3
  FloorEvents = {2}
  EndVersion = 3
  Foreign = {foreign}
  Commands = {m1, m2}
  MailboxCapacity = 2
  MaxDedupe = 2
  MaxCalls = 3
  Requesters = {r1, r2}
  HeldSessions = {h1, h2}
  NoActor = noActor
  MaxActors = 1
  MaxMade = 2
  MaxHistory = 2
  MaxRequests = 2
INVARIANTS BoundsHold OutcomeFollowsItsTurn OutcomeIsTold SignalsNeverThrow OneVoiceHasTheFloor
           DeliveriesAreRemembered SilencedStaysSilent
PROPERTIES InterruptionWins HydratesFromHistory EveryCallReturns
CONSTRAINT InOrderCallers
CHECK_DEADLOCK FALSE
