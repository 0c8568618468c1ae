CONSTANTS
  c1 = c1
  c2 = c2
  c3 = c3
  b1 = b1
  b2 = b2
  NoOne = NoOne
  Calls = {c1, c2, c3}
  Orders = {b1,b2}
  Watched = {{"exec_errors"}, {"loss_velocity"}, {"data_stale"}}
  StaleAfter = 2
  FreshWindow = 1
  RejectWindow = 1
  LossWindow = 2
  CalmWindow = 1
  Levels = {980, 1000}
  MaxTime = 4
  MaxRejects = 4
  MaxBoots = 1
  OrderOf <- CallsOrderOf
  Cooldown <- Cooldowns
SPECIFICATION BreakersSpec
INVARIANTS BreakersSound
PROPERTIES ClosesEarned
CHECK_DEADLOCK FALSE
