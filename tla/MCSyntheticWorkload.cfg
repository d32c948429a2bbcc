SPECIFICATION Spec
CONSTANTS
  t1 = t1
  t2 = t2
  t3 = t3
  Threads = {t1, t2, t3}
  Profiles <- AllProfiles
  Outcomes = {"block", "failure", "nothing"}
  NULL = NULL
INVARIANTS TypeOK OnePlace WaveIsComplete
PROPERTY RunEnds
CHECK_DEADLOCK FALSE
