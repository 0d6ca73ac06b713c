SPECIFICATION FairSpec
CONSTANTS
  IntentIds = {i1}
  CeremonyIds = {c1}
  Sessions = {s1}
  Ops = {o1}
  Reloaders = {r1}
  Kinds = {"isolated"}
  Actors = {"reload"}
  Ttls = {1}
  GrantTtls = {}
  MaxIntents = 1
  MaxConcurrent = 1
  MaxTtl = 1
  MaxTime = 2
  MaxGen = 1
PROPERTIES UseUnderCurrentGeneration
