CONSTANTS
  MaxKeys = 3
  MaxLogins = 1
  MaxRevokes = 1
  MaxFaults = 1
SPECIFICATION LiveSpec
INVARIANTS TypeOK NewestIsKnown AuthReasonIsRight
PROPERTIES KeyFollowsPending PendingSurvives DegradedRecovers PendingIsResolved
