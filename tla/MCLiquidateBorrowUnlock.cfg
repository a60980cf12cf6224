CONSTANTS
  First = First
  Second = Second
  NoFail = NoFail
  Pos <- MCOnePos
  FirstDenom <- First
  SecondDenom <- Second
  LiqThreshold = 80
  BridgeLT <- MCBridgeLT
  BridgeLTV <- MCBridgeLTV
  LiqPenalty = 10
  LiqBonus = 5
  InitBorrows <- MCInitBorrows
  PricesIn = {1, 2}
  PricesOut = {1}
  MaxInterest = 1
  MaxAuctions = 1
  MaxFailures = 0
  MaxSkips = 0

SPECIFICATION Spec

PROPERTY NoUnlockWithoutRatio
