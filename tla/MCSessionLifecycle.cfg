CONSTANTS
  Presenters = {p1}
  NoPresenter = NoPresenter
  Calls = {c1, c2, c3}
  k1 = k1
  k2 = k2
  s1 = s1
  s2 = s2
  Keys = {k1, k2}
  Sessions = {s1, s2}
  Sorted <- MCSorted
  NoSession = NoSession
  NoCall = NoCall
  ConsentPolicies = {"granted", "denied"}
  LedgerCapacity = 2
  MaxLocks = 3
  MaxWaiters = 1
  MaxVersion = 6
SPECIFICATION Spec
INVARIANTS AnswersAgree SessionsAreWhole NoCallIsStuck
PROPERTIES StagedOnEvidence
SYMMETRY MCSymmetry
CHECK_DEADLOCK FALSE
