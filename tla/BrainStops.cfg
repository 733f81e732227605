CONSTANTS
  MaxTime = 3
  BrainQueue = 2
  StaleAfter = 1
  MaxPending = 2
SPECIFICATION Spec
INVARIANTS RememberedIsAccepted LedgerOutlivesWriters
PROPERTIES AcceptedIsRun StopEndsProcess
CHECK_DEADLOCK FALSE
