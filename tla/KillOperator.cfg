SPECIFICATION Spec
CONSTANTS
  MaxLines = 1
  MaxClears = 1
  MaxCrashes = 0
  Operators = {"set", "remove", "clear"}
  Outages = TRUE
INVARIANTS RecordedUntilCleared
