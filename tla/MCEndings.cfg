SPECIFICATION MCSpec
CONSTANTS
  Conns = {"x", "y"}
  MaxConnections = 1
CHECK_DEADLOCK FALSE
INVARIANTS PlacesReturn EndpointEarned NothingLeft
PROPERTIES WaitsEnd
