SPECIFICATION FairSpec
CONSTANTS
  c4 = c4  c1 = c1  c2 = c2  c3 = c3
  b1 = b1  b2 = b2  b3 = b3  s1 = s1  x1 = x1
  m1 = m1  m2 = m2  a1 = a1  dev = dev
  Calls = {c1, c2, c3}
  Orders = {b1, b2}
  Mints = {m1, m2}
  Approvals = {a1}
  Creators = {dev}
  Seats = {"bot-04-sniper"}
  OrderOf <- RepeatsOrderOf
  KindOf <- RepeatsKindOf
  MintOf <- RepeatsMintOf
  ApprovalOf <- RepeatsApprovalOf
  UnitsOf <- RepeatsUnitsOf
  CreatorOf <- SameCreators
  Fills = {1}
  OutsideSteps = {"daily_loss_halt"}
  MaxOpen = 2
  MaxTrades = 2
  NoCall = NoCall
  NoApproval = NoApproval
  NoCreator = NoCreator
INVARIANTS SingleSend OneOutcome ReplayTruthful OneOpenPerCreator
PROPERTIES BarrierDrains
