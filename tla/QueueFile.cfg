CONSTANTS
  Events = {m1, m2, m3}
  Legacy = {m1}
  MaxRows = 2
  EvictChunk = 1
  BatchSize = 2
  MaxEnqueue = 2
  MayOutgrow = TRUE
  AutoVacuum = FALSE
  MaxFaults = 1
  MaxPages = 3
  MaxSessions = 1
  MaxLost = 1
  MaxCalls = 3
SPECIFICATION FileSpec
INVARIANTS FileBounded CountedOnce
CHECK_DEADLOCK FALSE
