SPECIFICATION Spec
CONSTANTS
  Recorders = {a, b}
  Sizes = {1, 2}
  MaxSegment = 2
  MaxRecords = 4
  MaxFaults = 0
  MaxCrashes = 0
CHECK_DEADLOCK FALSE
INVARIANTS ChainedAcrossRotation
