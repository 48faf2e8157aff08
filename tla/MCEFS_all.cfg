SPECIFICATION Spec
CONSTANTS
  w1 = w1
  w2 = w2
  a = a
  b = b
  c = c
  Workers = {w1, w2}
  Volumes = {a, b, c}
  Ranges <- TwoRanges
  AbsoluteMax = 3
  FaultKinds = {"list", "directory", "save", "classGet"}
  MaxFaults = 1
  MaxEdits = 1
  CrashAnywhere = FALSE
  MaxCrashes = 1
SYMMETRY Symmetry
INVARIANTS
  UniqueGids
  Reserved
  GroupMatches
  LeaksAreFailures
CHECK_DEADLOCK FALSE
