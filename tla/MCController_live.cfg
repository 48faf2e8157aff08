SPECIFICATION FairSpec
CONSTANTS
  k1 = k1
  u1 = u1
  u2 = u2
  c1 = c1
  c2 = c2
  v1 = v1
  Keys = {k1}
  UIDs = {u1}
  ClaimWorkers = {c1}
  VolumeWorkers = {v1}
  RetryCount = 1
  ProvisionThreshold = 1
  DeleteThreshold = 1
  FaultKinds = {"volumeGet", "options", "provision", "ignored", "save", "delete", "lostDelete", "remove", "lostRemove"}
  FirstClass = "Delete"
  MaxLag = 3
  EditKinds = {}
  MaxFaults = 1
  MaxEdits = 0
  MaxCrashes = 0
PROPERTIES
  EventuallyProvisioned
  EventuallyReclaimed
  EventuallyNoOrphan
CHECK_DEADLOCK FALSE
