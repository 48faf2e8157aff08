SPECIFICATION Spec
CONSTANTS
  k1 = k1
  u1 = u1
  u2 = u2
  c1 = c1
  c2 = c2
  v1 = v1
  Keys = {k1}
  UIDs = {u1, u2}
  ClaimWorkers = {c1, c2}
  VolumeWorkers = {}
  RetryCount = 1
  ProvisionThreshold = 2
  DeleteThreshold = 1
  FaultKinds = {"provision"}
  FirstClass = "Delete"
  MaxLag = 2
  EditKinds = {"pv", "class"}
  MaxFaults = 1
  MaxEdits = 1
  MaxCrashes = 0
SYMMETRY Symmetry
INVARIANTS
  NothingLost
  RetryTracked
CHECK_DEADLOCK FALSE
