SPECIFICATION Spec
CONSTANTS
  MaxProcesses = 2
  ThreadsPer = 2
  MaxCalls = 2
  MaxFailures = 1
  None = None
INVARIANTS TypeOK RowsAreTheirOwn InitialisesAlone
PROPERTY CallsReturn
CHECK_DEADLOCK FALSE
