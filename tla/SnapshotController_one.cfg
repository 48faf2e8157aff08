SPECIFICATION FairSpec
CONSTANTS
  Plugins = {"hostPath", "glusterfs", "openebs", "aws_ebs", "gce-pd", "cinder"}
  MaxObjects = 1
  MaxTries = 2
  MaxFaults = 1
  MaxCrashes = 1
  MaxTroubles = 1
INVARIANTS TypeOK LeftByTrouble ReadyIsBacked OneEach
PROPERTIES KeptWhileBound Completed Removed
CHECK_DEADLOCK FALSE
