SPECIFICATION PaidSpec
CONSTANTS
  Intentions = {i1}
  Callers = {k1, k2}
  Cap = 1
  MaxAttempts = 1
  MaxCalls = 2
INVARIANTS  ExposureIsBounded BillingFollowsDelivery
PROPERTIES NoBarrierIsForgotten
CHECK_DEADLOCK FALSE
