SPECIFICATION MCSpec
CONSTANTS
  o1 = o1
  o2 = o2
  GrantIds = {g1, g2}
  RequestIds = {q1, q2}
  ClaimIds = {c1}
  Sessions = {s1, s2}
  Ops <- MCOps
  Requestable <- MCRequestable
  MaxConcurrent = 1
  MaxTtl = 1
  Ttls = {0, 1, 2}
  MaxTime = 2
  MaxGen = 1
  SlotRequests = {q1, q2}
  SlotSessions = {s1, s2}
SYMMETRY RegistrySymmetry
CHECK_DEADLOCK FALSE
INVARIANTS OneGrantPerRequest WithinConcurrentLimit EndedHoldNothing ControlSound CeremoniesHold
PROPERTIES ClaimsOnlyOnLiveGrants
