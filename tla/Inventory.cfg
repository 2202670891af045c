CONSTANTS
  MaxFlips = 4
  MaxFaults = 2
SPECIFICATION Spec
INVARIANTS TypeOK RunningIsWorkedOn
PROPERTIES SentOnlyWithConsent DisabledIsNotOverwritten SnapshotsGoOn StatusSettles
