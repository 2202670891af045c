CONSTANTS
  MaxKeys = 3
  MaxCommands = 1
  MaxFaults = 1
SPECIFICATION LiveSpec
INVARIANTS TypeOK SavedIsLoaded
PROPERTIES SecretsLeaveFile
CHECK_DEADLOCK FALSE
