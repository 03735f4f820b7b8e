\* One or two instructions of every shape and length, and sections of boundary sizes.
CONSTANTS
  InitialCapacity = 1
  Targets = {0, 2}
  LocalCounts = {1, 128}
  OtherSizes = {1, 127, 128, 16384}
  MaxCode = 1
  MaxRuns = 1
  MaxBodies = 2
  MaxOther = 2
SPECIFICATION Spec
INVARIANTS
  
  SizedExactly
  BodiesDelimited
CHECK_DEADLOCK FALSE
