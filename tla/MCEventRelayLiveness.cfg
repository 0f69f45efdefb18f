SPECIFICATION FairSpec
CONSTANTS
  Presenters = {p1}
  NoPresenter = none
  Sessions = {1, 2}
  EventIds = {1, 2, 3, 4, 5, 6}
  Tokens = {1, 2, 3, 4, 5, 6, 7}
  NoToken = 0
  NoId = 0
  Budgets = {1, 2}
  Lease = 1
  RetryDelay = 1
  MaxRecords = 6
  MaxBatch = 1
  MaxTimelineSessions = 2
  MaxTimelineEvents = 6
  Relays = {1, 2}
  Dispatchers = {1, 2}
  MaxAttempts <- MCMaxAttempts
  Inputs <- MCConsentInputs
CONSTRAINTS InOrderNames RaceOrLongLife
PROPERTIES EveryEventSettles InconsistentSessionDeadLetters
CHECK_DEADLOCK FALSE
