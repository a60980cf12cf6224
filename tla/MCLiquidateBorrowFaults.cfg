CONSTANTS
  First = First
  Second = Second
  NoFail = NoFail
  Pos <- MCOnePos
  FirstDenom <- First
  SecondDenom <- Second
  LiqThreshold = 80
  BridgeLT <- MCBridgeLT
  BridgeLTV <- MCBridgeLTV
  LiqPenalty = 10
  LiqBonus = 5
  InitBorrows <- MCInitBorrows
  PricesIn = {1, 3}
  PricesOut = {1}
  MaxInterest = 2
  MaxAuctions = 1
  MaxFailures = 1
  MaxSkips = 1

SPECIFICATION Spec
CHECK_DEADLOCK FALSE

PROPERTY SweepLocksExactlyUnhealthy
