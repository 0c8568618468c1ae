SPECIFICATION FairSpec
CONSTANTS
  MaxLines = 3
  MaxClears = 0
  MaxCrashes = 2
  Operators = {}
  Outages = FALSE
INVARIANTS KillTakesEffect
PROPERTIES CommandsConsumed
