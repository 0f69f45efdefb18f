SPECIFICATION MCSpec
CONSTANTS
  Presenters = {p1, p2}
  NoPresenter = none
  MaxTurn = 4
  MaxVersion = 12
  Sessions = {1, 2}
  EventIds = {e1, e2, e3}
  Tokens = {t1, t2, t3, t4}
  NoToken = noToken
  NoId = noId
  Budgets = {1, 2}
  Lease = 1
  RetryDelay = 1
  MaxRecords = 3
  MaxBatch = 2
  MaxTimelineSessions = 1
  MaxTimelineEvents = 3
  Relays = {r1, r2}
  Dispatchers = {r1}
  MaxAttempts <- MCBudgets
  Inputs <- MCInputs
SYMMETRY MCSymmetry
INVARIANTS MCTypeOK FloorDiscipline RecordsMatchAggregate InOrderDelivery ClaimsAreFenced RepositoriesAgree
PROPERTIES TerminalKernelIsFinal ConversationMovesOnStage ImplementsOrderedDelivery
CHECK_DEADLOCK FALSE
