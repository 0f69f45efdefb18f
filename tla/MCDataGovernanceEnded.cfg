SPECIFICATION GovernanceSpec
CONSTANTS
  Items = {1, 2}
  DatabaseItems = {1}
  LegalHolds = {h1}
  Covered <- MCCovered
  Authorizations = {a1}
  Cancellations = {x1}
  GovernanceWorkers = {w1}
  MaxItemAttempts = 3
PROPERTY EndedStaysEnded
CHECK_DEADLOCK FALSE
