SPECIFICATION Spec
CONSTANTS
  t1 = t1
  t2 = t2
  a1 = a1
  a2 = a2
  Tids = {t1, t2}
  Addresses = {a1, a2}
  NULL = NULL
  NONE = NONE
  Timestamps = {1, 2}
  MaxRecords = 5
SYMMETRY Symmetry
INVARIANTS TypeOK EachGenerationOnce WaitsAreBackward StampsInSpan
CHECK_DEADLOCK FALSE
