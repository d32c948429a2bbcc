SPECIFICATION Spec
CONSTANTS
  t1 = t1
  t2 = t2
  t3 = t3
  a1 = a1
  a2 = a2
  Tids = {t1, t2, t3}
  Addresses = {a1, a2}
  NULL = NULL
  NONE = NONE
  Traces <- AllTraces
  EpochSize = 0
  EpochTarget = 4
  FreeRuns = {TRUE, FALSE}
INVARIANTS TypeOK BarrierHoldsTogether MatchedExactly
PROPERTY FinishesTogether
CHECK_DEADLOCK FALSE
