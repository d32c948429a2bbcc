SPECIFICATION Spec
CONSTANTS
  t1 = t1
  t2 = t2
  Threads <- TwoThreads
  NoThread = NoThread
  Shards = 2
  Interval = 1
  MaxTime = 2
  MaxEvents = 2
  MaxFailures = 1
  MaxAsked = 1
SYMMETRY Symmetry
INVARIANTS TypeOK RowsTelescope FailuresSpoilOneRow RowsAreWitnessed OneRowPerPeriod FinalRowIsWritten
CHECK_DEADLOCK FALSE
