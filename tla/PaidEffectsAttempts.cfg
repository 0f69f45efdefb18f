SPECIFICATION PaidSpec
CONSTANTS
  Intentions = {i1}
  Callers = {k1}
  Cap = 1
  MaxAttempts = 2
  MaxCalls = 1
INVARIANTS AttemptsAreLimited
CHECK_DEADLOCK FALSE
