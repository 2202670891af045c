\* One row for two sessions: the second one's upsert evicts the first.
CONSTANTS
  Sessions = {s1, s2}
  MaxSessionRows = 1
  BatchSize = 2
  MaxUpdates = 2
  MaxClock = 2
  MaxFaults = 2
SPECIFICATION LiveSpec
INVARIANTS TypeOK AckedIsStored
PROPERTIES SnapshotsGrow EventuallyUpToDate
CHECK_DEADLOCK FALSE
