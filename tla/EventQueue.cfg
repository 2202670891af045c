\* The file never reaches maxBytes; MaxEnqueue + EvictChunk <= MaxRows + 1.
CONSTANTS
  Events = {e1, e2, e3, e4}
  MaxRows = 2
  EvictChunk = 1
  BatchSize = 2
  MaxEnqueue = 2
  MayOutgrow = FALSE
  AutoVacuum = FALSE
  MaxFaults = 1
SPECIFICATION LiveSpec
INVARIANTS AckedWasAccepted NoStuckLeases
PROPERTIES QueuedIsKept AckedIsFinal DeliversOrEvicts EventuallySettled
CHECK_DEADLOCK FALSE
