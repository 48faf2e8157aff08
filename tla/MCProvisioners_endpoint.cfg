SPECIFICATION Spec
CONSTANTS
  v1 = v1
  v2 = v2
  a = a
  b = b
  Volumes <- MCVolumes
  Kinds = {"glusterfile"}
  Claims <- MCClaims
  Luns <- MCLuns
  MaxFaults = 0
  MaxCrashes = 0
  MaxEdits = 0
  MaxTroubles = 0
INVARIANTS EndpointKept
CHECK_DEADLOCK FALSE
