SPECIFICATION Spec
CONSTANTS
  Clients = {c1, c2}
  Strangers = {c2}
  Profiles = {p}
  MaxWorkers = 2
  MaxStarts = 2
CHECK_DEADLOCK FALSE
PROPERTIES CommandsReturn SessionEndsWithRun
