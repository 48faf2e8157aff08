SPECIFICATION FairSpec
CONSTANTS
  v1 = v1
  v2 = v2
  a = a
  b = b
  Volumes <- MCOneVolume
  Kinds <- AllKinds
  Claims <- MCOneClaim
  Luns <- MCLuns
  MaxFaults = 2
  MaxCrashes = 1
  MaxEdits = 1
  MaxTroubles = 3
PROPERTIES BoundAtLast RemovedAtLast
CHECK_DEADLOCK FALSE
