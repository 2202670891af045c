CONSTANTS
  Requests = {h1, h2}
  Noise = {n1, n2}
  Kept = {k1}
  Sessionless = {n2}
  MaxFaults = 1
SPECIFICATION LiveSpec
INVARIANTS Conserved Reconciles
PROPERTIES RollupsAreTaken
