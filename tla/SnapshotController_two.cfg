SPECIFICATION Spec
CONSTANTS
  Plugins = {"hostPath"}
  MaxObjects = 2
  MaxTries = 2
  MaxFaults = 0
  MaxCrashes = 0
  MaxTroubles = 0
INVARIANTS BoundBothWays
CHECK_DEADLOCK FALSE
