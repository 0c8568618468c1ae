SPECIFICATION FlatFairSpec
CONSTANTS
  c1 = c1  c2 = c2  b1 = b1  x1 = x1
  m1 = m1  dev = dev  f1 = f1  f2 = f2
  Calls = {c1, c2}
  Orders = {b1, x1}
  Mints = {m1}
  Approvals = {}
  Creators = {dev}
  Seats = {}
  OrderOf <- ExitOrderOf
  KindOf <- ExitKindOf
  MintOf <- ExitMintOf
  ApprovalOf <- ExitApprovalOf
  UnitsOf <- ExitUnitsOf
  CreatorOf <- OneCreator
  Fills = {1}
  OutsideSteps = {"breaker_open"}
  MaxOpen = 2
  MaxTrades = 3
  NoCall = NoCall
  NoApproval = NoApproval
  NoCreator = NoCreator
  Flattens = {f1, f2}
INVARIANTS FlattenTruthful NoBuyBehindBarrier
PROPERTIES FlattenReturns
