SPECIFICATION MCSpec
CONSTANTS
  Runs = {run1}
  Workers = {w1, w2}
  Tokens = {1, 2, 3, 4, 5, 6, 7, 8}
  NoToken = 0
  NoRun = noRun
  Budgets = {1, 2}
  DefaultBudget = 3
  Lease = 1
  RetryDelay = 1
  MaxRuns = 1
  Items = {1, 2}
  DatabaseItems = {1}
  LegalHolds = {h1}
  Covered <- MCCovered
  Authorizations = {a1}
  Cancellations = {x1}
  GovernanceWorkers = {w1, w2}
  MaxItemAttempts = 3
CONSTRAINT InOrderTokens
INVARIANTS ClaimsAreSound ReceiptsTellTheRun
           EffectsReachTargetsOnce CompletedMeansErased HoldsProtect
PROPERTIES WorkFinishes ImplementsOrderedActivities
CHECK_DEADLOCK FALSE
