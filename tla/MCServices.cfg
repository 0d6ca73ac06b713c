SPECIFICATION MCSpec
CONSTANTS
  Tokens = {t1}
  Bodies = {b1, b2, b3}
  Conns = {c1, c2}
  Enrolments = {g1}
  Kinds = {"admin", "ensure"}
  MaxOps = 2
  CacheSize = 1
  MaxCount = 2
SYMMETRY SignSymmetry
CHECK_DEADLOCK FALSE
INVARIANTS UsesBounded KeysAccounted AssertionsHold PoliciesDecide
