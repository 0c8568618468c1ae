SPECIFICATION Spec
CONSTRAINT ThreeMade
CONSTANTS
  c4 = c4  c1 = c1  c2 = c2  c3 = c3
  b1 = b1  b2 = b2  b3 = b3  s1 = s1  x1 = x1
  m1 = m1  m2 = m2  a1 = a1  dev = dev
  Calls = {c1, c2, c3, c4}
  Orders = {b1, b2, b3, s1}
  Mints = {m1, m2}
  Approvals = {a1}
  Creators = {dev}
  Seats = {}
  OrderOf <- BookOrderOf
  KindOf <- BookKindOf
  MintOf <- BookMintOf
  ApprovalOf <- BookApprovalOf
  UnitsOf <- BookUnitsOf
  CreatorOf <- UnknownCreators
  Fills = {1, 2}
  OutsideSteps = {}
  MaxOpen = 1
  MaxTrades = 2
  NoCall = NoCall
  NoApproval = NoApproval
  NoCreator = NoCreator
INVARIANTS TypeOK OpenPositionsBounded ApprovalSingleUse NoOversell BarrierExact
PROPERTIES BuyGateHolds
