SPECIFICATION Spec
CONSTANTS
  v1 = v1
  v2 = v2
  a = a
  b = b
  Volumes <- MCVolumes
  Kinds <- AllKinds
  Claims <- MCClaims
  Luns <- MCLuns
  MaxFaults = 1
  MaxCrashes = 1
  MaxEdits = 1
  MaxTroubles = 2
INVARIANTS TypeOK Backed LeftByFailures GoneMeansGone InUseKept
CHECK_DEADLOCK FALSE
