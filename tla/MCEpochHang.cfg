SPECIFICATION Spec
CONSTANTS
  t1 = t1
  t2 = t2
  t3 = t3
  a1 = a1
  a2 = a2
  Tids = {t1, t2, t3}
  Addresses = {a1, a2}
  NULL = NULL
  NONE = NONE
  Traces <- LateTraces
  EpochSize = 0
  EpochTarget = 4
  FreeRuns = {FALSE}
CHECK_DEADLOCK FALSE
PROPERTY EveryOperationRuns
