SPECIFICATION Spec
CONSTANTS
  Requests = {r1}
  Sessions = {s1}
  Ops = {o1}
  Actors = {"cancel", "command"}
  MaxGen = 0
  MaxEvents = 1
CHECK_DEADLOCK FALSE
INVARIANTS NoCircularWait
