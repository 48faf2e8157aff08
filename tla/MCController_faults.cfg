SPECIFICATION Spec
CONSTANTS
  k1 = k1
  u1 = u1
  u2 = u2
  c1 = c1
  c2 = c2
  v1 = v1
  Keys = {k1}
  UIDs = {u1}
  ClaimWorkers = {c1}
  VolumeWorkers = {v1}
  RetryCount = 1
  ProvisionThreshold = 1
  DeleteThreshold = 2
  FaultKinds = {"options", "provision", "partial", "ignored", "save", "delete", "lostDelete", "remove", "lostRemove"}
  FirstClass = "Delete"
  MaxLag = 2
  EditKinds = {"policy"}
  MaxFaults = 2
  MaxEdits = 1
  MaxCrashes = 1
INVARIANTS
  TypeOK
  CleanupIsAlone
PROPERTIES
  ImplementsLifecycle
CHECK_DEADLOCK FALSE
