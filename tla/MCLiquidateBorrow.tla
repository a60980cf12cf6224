------------------------- MODULE MCLiquidateBorrow -------------------------
(***************************************************************************)
(* Model-checking instance of LiquidateBorrow: two positions of the same  *)
(* lend pair, collateral 5, debt 3 or 4, every bridge routing, and risk    *)
(* parameters for which the sell-off denominator stays positive.           *)
(***************************************************************************)
EXTENDS LiquidateBorrow

CONSTANTS First, Second

MCPos == {1, 2}

\* one position: the run that lets bank calls fail and panics halt the chain
MCOnePos == {1}

\* LiquidationThreshold and Ltv of the pool's two bridged assets, percent
MCBridgeLT == [b \in {"first", "second"} |-> IF b = "first" THEN 90 ELSE 80]
MCBridgeLTV == [b \in {"first", "second"} |-> IF b = "first" THEN 80 ELSE 70]

\* open borrows: no bridge, bridged through the first or the second asset
MCInitBorrows ==
  {[amountIn |-> 5, amountOut |-> out, interest |-> 0,
    bridgedAmount |-> br[1], bridgedDenom |-> br[2]] :
     out \in {3, 4}, br \in {<<0, First>>, <<1, First>>, <<1, Second>>}}
====
