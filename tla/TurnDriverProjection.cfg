CONSTANTS
  Presenters = {p1, u1}
  NoPresenter = NoPresenter
  Submits = {s1, s2}
  Interrupts = {i1}
  Nobody = Nobody
  Speaker = u1
  MaxWaiters = 2
SPECIFICATION Spec
INVARIANT CommitsAreProjected

CHECK_DEADLOCK FALSE
