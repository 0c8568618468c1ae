SPECIFICATION TimelineSpec
CONSTANTS
  Recording <- MCRecording
  RuleSets = {"s1", "s2"}
  Passes <- MCPasses
  ExitCfg <- MCExitCfg
  Latencies = {1, 3}
  MaxNow = 7
  MaxPromotions = 1
  MaxDeaths = 1
INVARIANTS PlacedOnce
CHECK_DEADLOCK FALSE
