SPECIFICATION MCSpec
CONSTANTS
  Requests = {r1}
  Sessions = {s1}
  Ops = {o1}
  Actors = {"command", "reap", "revoke", "reload", "disable"}
  MaxGen = 1
  MaxEvents = 1
CHECK_DEADLOCK FALSE
INVARIANTS OneUsePerRequest
PROPERTIES WaitingReleased WaitsSettle
