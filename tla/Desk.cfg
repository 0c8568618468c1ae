SPECIFICATION MCSpec
CONSTANTS
  p1 = p1
  p2 = p2
  NoSet = NoSet
  Runners = {"r1", "r2"}
  ParamSets = {p1, p2}
  Spaces <- MCSpaces
  InBounds = {p1, p2}
  Diverging = {}
  Mean <- MCMean
  HoldoutNet <- MCHoldoutNet
  MaxEligible = 2
  MaxAllowed = 3
  Interval = 2
  MaxEdits = 2
  MaxCrashes = 1
  Recording <- MCRecording
  RuleSets = {"s1", "s2"}
  Passes <- MCPasses
  ExitCfg <- MCExitCfg
  Latencies = {1, 3}
  MaxNow = 6
  MaxPromotions = 1
  MaxDeaths = 1
  Hosts = {"gateway", "cli"}
  Requests <- MCRequests
  Granted <- MCGranted
  Sinks <- MCSinks
  MaxCalls = 3
  MaxRestarts = 1
  Creators = {"c1", "c2", "c3"}
  LastTicket = 2
  MaxAttempts = 2
  MaxTickets = 4
  Replays = {"seed1", "seed2"}
  Versions = {1, 2, 3}
  Gappy = {3}
  MaxReplayRuns = 3
  MaxDataEdits = 1
  MaxReplayDeaths = 1
  Testers = {"t1", "t2"}
  MaxReports = 2
  MaxTesterDeaths = 1
  PaperFeed <- MCPaperFeed
  Cutoff = 2
  HoldoutEnd = 5
  HoldoutNetGain = 4
  Gap = 2
  NFolds = 3
  Launched = {"m1", "m2", "m3"}
  Carries <- MCCarries
  MaxPending = 2
  MaxRemembered = 2
  MinAge = 1
  Ttl = 3
  MaxCurve = 4
  MinBuyers = 2
  MaxNews = 4
  LastBeat = 6
  Deployers = {"d1", "d2"}
  MaxCreators = 1
  Desks = {"k1", "k2"}
  Writers = {"k1"}
  Fills <- MCFills
  MaxNotes = 2
  Askers = {"time1", "time2"}
  Timers = {"time1", "time2"}
  MaxPerDay = 2
  MaxConcurrency = 1
  MaxRetries = 2
  CacheSpan = 2
  HoursPerDay = 2
  LastHour = 2
  MaxRisk = 700
  MaxSigned = 1
  MaxExecuted = 2
  MinDays = 1
  MinClosed = 2
  MaxLog = 4
  LastDay = 1
  Signers = {"h1", "h2"}
  Guarded = {"order", "read1", "read2"}
  Awaited = "order"
  Stride = 2
  Leaps = {3}
  MaxStrides = 3
  Limits <- MCLimits
  WorkTimes = {1, 4}
  Attempts = 2
  Backoff = 1
  Burst = 1
  Refill = 3
  LastInstant = 9
  Endpoints = 2
  RpcAttempts = 2
  Opening = 12
  BuySizes = {5, 9}
  Grosses = {4, 11}
  MarkedAt = {2, 8}
  FeeBps = 30
  LandingCost = 1
  CutAt = 1
  MaxWindowRows = 4
  LastStamp = 2
  Checkers = {"desk", "gateway"}
  Watchers = {"desk"}
  Clearers = {"h1"}
  GenesisEquity = 40
  EquityPath <- MCEquityPath
  LossPct = 5
  DrawPct = 15
  MaxChecks = 2
  LastHaltDay = 2
INVARIANTS EdgesSound AgentsSound ScanSound ReplaySound DeskTypeOK ActivationJustified DecisionsStand AnswersStand TicketsSound
PROPERTIES RulesFollowActive
CHECK_DEADLOCK FALSE
