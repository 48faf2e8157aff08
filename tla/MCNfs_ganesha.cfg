SPECIFICATION Spec
CONSTANTS
  w1 = w1
  w2 = w2
  a = a
  b = b
  c = c
  Workers = {w1, w2}
  Volumes = {a, b, c}
  MaxId = 4
  UseGanesha = TRUE
  MaxExports = 3
  FaultKinds = {"options", "directory", "addBlock", "export", "quota", "save", "removeDirectory"}
  MaxFaults = 2
  CrashAnywhere = FALSE
  MaxCrashes = 1
SYMMETRY Symmetry
INVARIANTS
  TypeOK
  Served
  UniqueIds
  LeaksAreFailures
CHECK_DEADLOCK FALSE
