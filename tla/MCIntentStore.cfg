SPECIFICATION MCSpec
CONSTANTS
  IntentIds = {i1, i2, i3}
  Sessions = {s1, s2}
  Scopes = {c1}
  MaxIntents = 2
  Ttls = {0, 2}
  MaxTime = 3
SYMMETRY IntentSymmetry
CHECK_DEADLOCK FALSE
INVARIANTS TokenSingleUse ConsumedOnceAfterApproval ActiveBounded RecordsHold
PROPERTIES TerminalIsFinal NoClaimPastDeadline IsOneShotAuthority
