SPECIFICATION MCSpec
CONSTANTS
  Leases = {l1, l2}
  Sessions = {s1, s2}
  Admins = {"a1"}
  Scopes = {"profile", "session"}
  MaxFaults = 1
  MaxRequests = 3
SYMMETRY LeaseSymmetry
CHECK_DEADLOCK FALSE
INVARIANTS BrowsersAreOwned TokensDieWithLease LaunchHardened SigningPathHolds
