CONSTANTS
  MaxKeys = 2
  MaxCommands = 1
  MaxFaults = 1
SPECIFICATION Spec
PROPERTIES LoginRestoresKey
CHECK_DEADLOCK FALSE
