CONSTANTS
  First = First
  Second = Second
  NoFail = NoFail
  Pos <- MCPos
  FirstDenom <- First
  SecondDenom <- Second
  LiqThreshold = 80
  BridgeLT <- MCBridgeLT
  BridgeLTV <- MCBridgeLTV
  LiqPenalty = 10
  LiqBonus = 5
  InitBorrows <- MCInitBorrows
  PricesIn = {1}
  PricesOut = {1}
  MaxInterest = 2
  MaxAuctions = 1
  MaxFailures = 0
  MaxSkips = 0

SPECIFICATION Spec
CHECK_DEADLOCK FALSE

INVARIANT AuctionWithinCollateral
