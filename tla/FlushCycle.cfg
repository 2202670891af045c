CONSTANTS
  Intervals = {1, 4}
  MaxBackoff = 3
  Probe = 3
  MaxBacklog = 1
  MaxArrivals = 2
SPECIFICATION CycleLiveSpec
INVARIANTS NoStorm
PROPERTIES OthersDrain
