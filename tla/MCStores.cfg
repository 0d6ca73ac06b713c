SPECIFICATION MCSpec
CONSTANTS
  Recorders = {a, b}
  Sizes = {1, 2}
  MaxSegment = 2
  MaxRecords = 4
  MaxFaults = 2
  MaxCrashes = 2
SYMMETRY AuditSymmetry
CHECK_DEADLOCK FALSE
INVARIANTS TrailKept ReopensUnlessTorn ExportsHold PersonHolds CredentialStoresHold OneDaemonPerStore
