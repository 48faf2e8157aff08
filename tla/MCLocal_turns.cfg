SPECIFICATION FairSpec
CONSTANTS
  dir = dir
  dev = dev
  Paths = {dir, dev}
  Block = {dev}
  CleanWithJob = {TRUE, FALSE}
  Prompt = TRUE
  FaultKinds = {"clean", "createJob", "deleteJob", "deletePV", "lostDelete", "createPV"}
  MaxFaults = 1
  Deletable = {"released"}
  MaxDeletes = 1
  MaxCrashes = 1
INVARIANTS
  NoneCleanedInUse
  AvailableIsClean
PROPERTIES
  DeletedIsClean
  EventuallyOffered
CHECK_DEADLOCK FALSE
