SPECIFICATION Spec
CONSTANTS
  t1 = t1
  t2 = t2
  t3 = t3
  a1 = a1
  a2 = a2
  Tids = {t1, t2, t3}
  Addresses = {a1, a2}
  NULL = NULL
  NONE = NONE
  AllowUnknown = TRUE
  MaxGeneration = 4
  Quantum = 0
  Traces <- AllTraces
  Timed = TRUE
  Horizon = 2
INVARIANTS TypeOK OwnGeneration ReuseNeverWaits ResultIsWhole
PROPERTY ReplayEnds
CHECK_DEADLOCK FALSE
