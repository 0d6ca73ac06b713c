SPECIFICATION MCSpec
CONSTANTS
  IntentIds = {i1, i2}
  CeremonyIds = {c1, c2}
  Sessions = {s1}
  Ops = {o1, o2}
  Reloaders = {r1, r2}
  Kinds = {"isolated"}
  Actors = {"reload"}
  Ttls = {1}
  GrantTtls = {}
  MaxIntents = 2
  MaxConcurrent = 1
  MaxTtl = 1
  MaxTime = 3
  MaxGen = 2
SYMMETRY RuntimeSymmetry
CHECK_DEADLOCK FALSE
INVARIANTS UsesApproved ReloadStopsInFlight HandlesSingle
PROPERTIES RevocationsHold
