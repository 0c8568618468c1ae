SPECIFICATION Spec
CONSTANTS
  MaxLines = 2
  MaxClears = 0
  MaxCrashes = 1
  Operators = {}
  Outages = TRUE
INVARIANTS KillTakesEffect
