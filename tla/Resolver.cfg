CONSTANTS
  Dirs = {d1, d2}
  Other = Other
  Huge = Huge
  None = None
  MaxRecords = 2
  MaxTroubles = 2
SPECIFICATION ResolverSpec
PROPERTIES AnswerIsCurrent Settles
CHECK_DEADLOCK FALSE
