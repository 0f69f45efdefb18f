SPECIFICATION Spec
CONSTANTS
  Presenters = {p1}
  NoPresenter = none
  MaxTurn = 2
  MaxVersion = 8
INVARIANT ReducedStateIsConsistent
CHECK_DEADLOCK FALSE
