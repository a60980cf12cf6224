--------------------------- MODULE LiquidateBorrow ---------------------------
(***************************************************************************)
(* The borrow-liquidation engine of x/liquidation/keeper/liquidate_borrow.go *)
(*                                                                         *)
(* LiquidateBorrows runs once per block (BeginBlocker): it locks every     *)
(* open borrow whose collateralisation ratio exceeds its threshold         *)
(* (CreateLockedBorrow) and then re-sizes every locked vault               *)
(* (UpdateLockedBorrows).  UnLiquidateLockedBorrows runs when the auction  *)
(* module closes an auction for a vault.  The lend module (interest), the  *)
(* oracle (prices) and the auction module (start/close of auctions) are    *)
(* the environment.                                                        *)
(*                                                                         *)
(* A position is identified by its lending id (one borrow per lend         *)
(* position).  Fixed-point decimals (sdk.Dec) are modelled as exact        *)
(* rationals [n, d] with d > 0; percentages are integers over 100.         *)
(***************************************************************************)
EXTENDS Integers, FiniteSets, Sequences, FiniteSetsExt, TLC

CONSTANTS
  Pos,            \* lending ids of the positions (naturals)
  FirstDenom,     \* denom of the pool's first bridged asset
  SecondDenom,    \* denom of the pool's second bridged asset
  LiqThreshold,   \* LiquidationThreshold of the pair's asset in, percent
  BridgeLT,       \* [{"first","second"} -> percent]: bridged assets' thresholds
  BridgeLTV,      \* [{"first","second"} -> percent]: bridged assets' Ltv
  LiqPenalty,     \* LiquidationPenalty of asset in, percent
  LiqBonus,       \* LiquidationBonus of asset in, percent
  InitBorrows,    \* set of records an open borrow may start as
  PricesIn,       \* oracle prices the collateral asset may take
  PricesOut,      \* oracle prices the debt asset may take
  MaxInterest,    \* bound: interest accrued on one open borrow
  MaxAuctions,    \* bound: number of auctions closed in a behaviour
  MaxFailures,    \* bound: number of failed bank calls in a behaviour
  MaxSkips,       \* bound: auction starts the auction module skips
  NoFail          \* model value: no bank call fails in this step

ASSUME Pos \subseteq Nat \ {0}
ASSUME LiqPenalty \in Nat /\ LiqBonus \in Nat
ASSUME PricesIn \subseteq Nat /\ PricesOut \subseteq Nat

VARIABLES
  borrows,        \* lending id -> open BorrowAsset (lend module store)
  borrowIds,      \* the BorrowIDs index LiquidateBorrows iterates over
  borrowStats,    \* aggregate borrowed principal of the pair (UpdateBorrowStats)
  vaults,         \* locked vault id -> LockedVault
  lockedVaultId,  \* last assigned locked vault id (GetLockedVaultID)
  lend,           \* lending id -> [amountIn, availableToBorrow]
  prices,         \* oracle: [in |-> price of asset in, out |-> price of asset out]
  bonusPaid,      \* asset in sent from the pool to the auction module (bonus)
  reserve,        \* asset in credited to the pool's reserve (penalty)
  burned,         \* cAsset burned from the pool (penalty)
  ownerPaid,      \* lending id -> cAsset returned to the owner on close
  returned,       \* lending ids whose collateral was returned on close
  archived,       \* vault ids written to LockedVaultHistory
  auctions,       \* auctions closed so far (bounded by MaxAuctions)
  failures,       \* bank calls failed so far (bounded by MaxFailures)
  skips,          \* auction starts skipped so far (bounded by MaxSkips)
  deductions,     \* history: vault id -> times the penalty was deducted
  halted          \* a panic in BeginBlocker halted the chain

vars == <<borrows, borrowIds, borrowStats, vaults, lockedVaultId, lend, prices,
          bonusPaid, reserve, burned, ownerPaid, returned, archived, auctions, failures,
          skips, deductions, halted>>

(***************************************************************************)
(* Fixed-point arithmetic                                                  *)
(***************************************************************************)
RECURSIVE Gcd(_, _)
Gcd(a, b) == IF b = 0 THEN a ELSE Gcd(b, a % b)
Abs(x) == IF x < 0 THEN -x ELSE x

\* the decimal n/d (d # 0) in lowest terms with a positive denominator
MkRat(n, d) ==
  LET g == Gcd(Abs(n), Abs(d)) * (IF d < 0 THEN -1 ELSE 1)
  IN  [n |-> n \div g, d |-> d \div g]
RatGT(a, b) == a.n * b.d > b.n * a.d
RatGEQ(a, b) == a.n * b.d >= b.n * a.d

\* TruncateInt64 of the decimal n/d (d # 0): truncation toward zero.
Trunc(n, d) ==
  LET q == Abs(n) \div Abs(d)
  IN  IF (n < 0) = (d < 0) THEN q ELSE -q

(***************************************************************************)
(* CalculateLendCollaterlizationRatio (lend module): debt value over       *)
(* collateral value; it fails when the collateral value is zero.           *)
(***************************************************************************)
RatioDefined(amtIn) == amtIn * prices.in # 0
Ratio(amtIn, amtOut) == MkRat(amtOut * prices.out, amtIn * prices.in)
\* the callers that ignore the error read the zero ratio it returns
RatioOrZero(amtIn, amtOut) ==
  IF RatioDefined(amtIn) THEN Ratio(amtIn, amtOut) ELSE MkRat(0, 1)

(***************************************************************************)
(* Bridged-asset dispatch: a zero bridged amount means no bridge, else the *)
(* denom is compared with the pool's first bridged asset only.             *)
(***************************************************************************)
BridgeOf(r) ==
  IF r.bridgedAmount = 0 THEN "none"
  ELSE IF r.bridgedDenom = FirstDenom THEN "first" ELSE "second"

\* liquidation / un-liquidate threshold
Threshold(br) ==
  IF br = "none" THEN MkRat(LiqThreshold, 100)
  ELSE MkRat(LiqThreshold * BridgeLT[br], 10000)

\* c: the collateral factor of the sell-off formula
CollateralFactor(br) ==
  IF br = "none" THEN MkRat(LiqThreshold, 100)
  ELSE MkRat(LiqThreshold * BridgeLTV[br], 10000)

(***************************************************************************)
(* Liquidation sweep (LiquidateBorrows) and CreateLockedBorrow             *)
(***************************************************************************)
\* mutant: a ratio equal to the threshold already liquidates
UnhealthyAtThreshold(p) ==
  LET b == borrows[p]
  IN  RatGEQ(RatioOrZero(b.amountIn, b.amountOut + b.interest),
             Threshold(BridgeOf(b)))

Unhealthy(p) ==
  LET b == borrows[p]
  IN  RatGT(RatioOrZero(b.amountIn, b.amountOut + b.interest),
            Threshold(BridgeOf(b)))

\* the positions one sweep locks
ToLock == {p \in borrowIds \cap DOMAIN borrows : Unhealthy(p)}

\* mutant: GetLockedVaultID read once, before the loop
LockedIdOfStale(p) == lockedVaultId + 1

\* vault id CreateLockedBorrow gives p: ids follow the sweep's order
LockedIdOf(p) == lockedVaultId + Cardinality({q \in ToLock : q =< p})

\* mutant: SetLockedVaultID not called
NextLockedVaultIdUnsaved(n) == lockedVaultId

\* SetLockedVaultID after n calls of CreateLockedBorrow
NextLockedVaultId(n) == lockedVaultId + n

NewLockedVault(p) ==
  LET b == borrows[p]
      cr == RatioOrZero(b.amountIn, b.amountOut + b.interest)
  IN  [pos |-> p, bridgedAmount |-> b.bridgedAmount,
       bridgedDenom |-> b.bridgedDenom, amountIn |-> b.amountIn,
       amountOut |-> b.amountOut, updatedOut |-> b.amountOut + b.interest,
       crAtLiq |-> cr, cr |-> cr, toAuction |-> MkRat(0, 1),
       history |-> <<>>, inProgress |-> FALSE, complete |-> FALSE]

(***************************************************************************)
(* Sell-off sizing of one vault (body of the UpdateLockedBorrows loop).    *)
(* st is the keeper state the loop threads: vaults, lend, bonusPaid,       *)
(* reserve, burned, deductions, and the outcome: err (an error returned),  *)
(* panic (NewCoin of a negative amount or a division by zero).             *)
(***************************************************************************)
\* sellOffAmount = (totalOut - c*totalIn) / (1 - (1+penalty+bonus)*c), as n/d
SellOff(lv, br) ==
  LET c == CollateralFactor(br)
      totalIn == lv.amountIn * prices.in
      totalOut == lv.updatedOut * prices.out
  IN  [n |-> 100 * (c.d * totalOut - c.n * totalIn),
       d |-> 100 * c.d - (100 + LiqPenalty + LiqBonus) * c.n]

\* mutant: the bidder's bonus computed with the liquidation penalty
SellOffSplitBonusAsPenalty(sr, aip) ==
  [ded |-> Trunc(sr.n * (LiqPenalty + LiqBonus), sr.d * 100 * aip),
   bonus |-> Trunc(sr.n * LiqPenalty, sr.d * 100 * aip),
   pen |-> Trunc(sr.n * LiqPenalty, sr.d * 100 * aip)]

\* the sell-off value sr split into collateral units at price aip: the
\* total deducted (penalty + bonus), the bonus to the bidder and the
\* penalty to the reserve, each truncated on its own
SellOffSplit(sr, aip) ==
  [ded |-> Trunc(sr.n * (LiqPenalty + LiqBonus), sr.d * 100 * aip),
   bonus |-> Trunc(sr.n * LiqBonus, sr.d * 100 * aip),
   pen |-> Trunc(sr.n * LiqPenalty, sr.d * 100 * aip)]

SizeVault(v, st, failAt) ==
  LET lv == st.vaults[v]
      br == BridgeOf(lv)
      s == SellOff(lv, br)
      sr == MkRat(s.n, s.d)
      aip == prices.in
      totalIn == lv.amountIn * prices.in
      ded == SellOffSplit(sr, aip).ded
      bonus == SellOffSplit(sr, aip).bonus
      pen == SellOffSplit(sr, aip).pen
      first == lv.history = <<>>
      sizeable == \/ ~lv.inProgress /\ ~lv.complete
                  \/ lv.complete /\ RatGEQ(lv.cr, Threshold(br))
      sold == [st EXCEPT !.bonusPaid = @ + bonus]
      credited == [sold EXCEPT !.reserve = @ + pen]
      deducted ==
        [credited EXCEPT !.burned = @ + pen,
                         !.vaults[v].amountIn = @ - ded,
                         !.lend[lv.pos].amountIn = @ - ded,
                         !.deductions[v] = Append(@, ded)]
      base == IF first THEN deducted ELSE st
      auctioned == IF sr.n >= totalIn * sr.d THEN MkRat(totalIn, 1) ELSE sr
  IN  CASE ~sizeable \/ ~RatioDefined(lv.amountIn) -> st
        [] s.d = 0 -> [st EXCEPT !.panic = TRUE]
        [] first /\ bonus < 0 -> [st EXCEPT !.panic = TRUE]
        [] first /\ failAt = <<v, "send">> -> [st EXCEPT !.err = TRUE]
        [] first /\ pen < 0 -> [sold EXCEPT !.panic = TRUE]
        [] first /\ failAt = <<v, "reserve">> -> [sold EXCEPT !.err = TRUE]
        [] first /\ failAt = <<v, "burn">> -> [credited EXCEPT !.err = TRUE]
        [] OTHER ->
             [base EXCEPT !.vaults[v].cr = Ratio(lv.amountIn, lv.updatedOut),
                          !.vaults[v].toAuction = auctioned]

\* the loop over GetLockedVaults in id order; an error returns at once
RECURSIVE SizeVaults(_, _, _)
SizeVaults(ids, st, failAt) ==
  IF ids = {} \/ st.err \/ st.panic THEN st
  ELSE LET v == Min(ids)
       IN  SizeVaults(ids \ {v}, SizeVault(v, st, failAt), failAt)

\* the loop state UpdateLockedBorrows starts from
SizingState(vs, ls, deds) ==
  [vaults |-> vs, lend |-> ls, bonusPaid |-> bonusPaid, reserve |-> reserve,
   burned |-> burned, deductions |-> deds, err |-> FALSE, panic |-> FALSE]

UpdateLockedBorrows(vs, ls, deds, failAt) ==
  SizeVaults(DOMAIN vs, SizingState(vs, ls, deds), failAt)

\* the bank calls one step may fail, within the failure bound
FailChoices(ids) ==
  IF failures < MaxFailures
  THEN {NoFail} \cup (ids \X {"send", "reserve", "burn", "return",
                                 "history", "rehistory"})
  ELSE {NoFail}

\* a panic in BeginBlocker: the block is not committed and the chain halts
Halt ==
  /\ halted' = TRUE
  /\ UNCHANGED <<borrows, borrowIds, borrowStats, vaults, lockedVaultId, lend,
                 prices, bonusPaid, reserve, burned, ownerPaid, returned, archived,
                 auctions, failures, skips, deductions>>

\* commit the balances and vaults a sizing pass produced; n other calls failed
CommitSizing(st, n) ==
  /\ lend' = st.lend
  /\ bonusPaid' = st.bonusPaid
  /\ reserve' = st.reserve
  /\ burned' = st.burned
  /\ deductions' = st.deductions
  /\ failures' = failures + n + (IF st.err THEN 1 ELSE 0)

(***************************************************************************)
(* The auction module's BeginBlocker, which runs after the liquidation     *)
(* module's in the same block, starts a dutch auction for every locked     *)
(* vault not already in one; it may skip some (MaxSkips bounds how many).  *)
(***************************************************************************)
AuctionBeginBlocker(vs) ==
  \E skip \in SUBSET {v \in DOMAIN vs : ~vs[v].inProgress} :
    /\ skips + Cardinality(skip) =< MaxSkips
    /\ skips' = skips + Cardinality(skip)
    /\ vaults' = [v \in DOMAIN vs |->
                   IF vs[v].inProgress \/ v \in skip THEN vs[v]
                   ELSE [vs[v] EXCEPT !.inProgress = TRUE, !.complete = FALSE]]

(***************************************************************************)
(* LiquidateBorrows: lock every unhealthy borrow, delete it from the       *)
(* borrow store and its indexes, then UpdateLockedBorrows over all locked  *)
(* vaults.  Its error is swallowed (return nil) and what was written       *)
(* before the error stays.                                                 *)
(***************************************************************************)
\* index updates after DeleteBorrow (UpdateUserBorrowIDMapping, the owner
\* and pool index, UpdateBorrowIdsMapping) that fail for the borrows in a
\* set: the loop continues and their ids stay in BorrowIDs
IndexFailures(U) == {S \in SUBSET U : failures + Cardinality(S) =< MaxFailures}

\* mutant: DeleteBorrow after the index updates, so skipped when one fails
DeletedAfterIndex(U, stale) == U \ stale

\* the borrows DeleteBorrow removes: every locked one, whatever fails after
Deleted(U, stale) == U

LiquidateBorrows ==
  /\ ~halted
  /\ LET U == ToLock
         newIds == {LockedIdOf(p) : p \in U}
         posOf(v) == CHOOSE p \in U : LockedIdOf(p) = v
         vs == vaults @@ [v \in newIds |-> NewLockedVault(posOf(v))]
         deds == deductions @@ [v \in newIds |-> << >>]
     IN  \E failAt \in FailChoices(DOMAIN vs) :
         \E stale \in IF failAt = NoFail THEN IndexFailures(U) ELSE {{}} :
           LET st == UpdateLockedBorrows(vs, lend, deds, failAt)
               gone == Deleted(U, stale)
           IN  \/ st.panic /\ Halt
               \/ /\ ~st.panic
                  /\ borrows' = [p \in DOMAIN borrows \ gone |-> borrows[p]]
                  /\ borrowIds' = borrowIds \ (U \ stale)
                  /\ borrowStats' = borrowStats
                        - MapThenSumSet(LAMBDA p : borrows[p].amountOut, U)
                  /\ lockedVaultId' = NextLockedVaultId(Cardinality(U))
                  /\ CommitSizing(st, Cardinality(stale))
                  /\ AuctionBeginBlocker(st.vaults)
                  /\ UNCHANGED <<prices, ownerPaid, returned, archived, auctions,
                                 halted>>

(***************************************************************************)
(* Auction close: the auction module records the result on the vault      *)
(* (collateral sold, debt repaid, IsAuctionComplete) and calls             *)
(* UnLiquidateLockedBorrows for it.                                        *)
(***************************************************************************)
\* the vault as the auction module leaves it
ClosedByAuction(lv, sold, repaid) ==
  [lv EXCEPT !.amountIn = @ - sold,
             !.amountOut = IF @ > repaid THEN @ - repaid ELSE 0,
             !.updatedOut = @ - repaid,
             !.inProgress = FALSE, !.complete = TRUE]

\* CreteNewBorrow: a fresh open borrow from the vault's current amounts
NewBorrow(lv) ==
  [amountIn |-> lv.amountIn, amountOut |-> lv.updatedOut, interest |-> 0,
   bridgedAmount |-> lv.bridgedAmount, bridgedDenom |-> lv.bridgedDenom]

\* mutant: every bridged vault compared with the first bridged asset's point
UnliquidatePointFirstOnly(lv) ==
  Threshold(IF BridgeOf(lv) = "none" THEN "none" ELSE "first")

\* unliquidatePointPercentage of the vault's bridge branch
UnliquidatePoint(lv) == Threshold(BridgeOf(lv))

\* mutant: the re-created borrow is stored but not put back in the index
ReindexBorrowDropped(p) == borrowIds

\* CreteNewBorrow appends the re-created borrow's id to the BorrowIDs index
ReindexBorrow(p) == borrowIds \cup {p}

UnLiquidateLockedBorrows(v, lv, failAt) ==
  LET p == lv.pos
      cr == RatioOrZero(lv.amountIn, lv.updatedOut)
      recovered == RatGT(cr, UnliquidatePoint(lv))
      \* amountOut zero: archive, delete the vault, return the collateral
      zero == lv.amountOut = 0
      archivedOk == zero /\ failAt # <<v, "history">>
      negative == archivedOk /\ lv.amountIn < 0     \* NewCoin panics
      paid == archivedOk /\ failAt # <<v, "return">>
      goesOn == ~zero \/ paid
      \* the second CreateLockedVaultHistory, before CreteNewBorrow
      rearchiveFails == failAt = <<v, "rehistory">>
      vs0 == IF archivedOk THEN [w \in DOMAIN vaults \ {v} |-> vaults[w]]
             ELSE (v :> lv) @@ vaults
      ls0 == IF paid
             THEN [lend EXCEPT ![p].availableToBorrow = @ + lv.amountIn]
             ELSE lend
      arch0 == IF archivedOk THEN archived \cup {v} ELSE archived
      \* ratio above the un-liquidate point: record the auction, re-size all
      vs1 == (v :> [lv EXCEPT !.cr = cr, !.history = Append(@, auctions + 1)])
               @@ vs0
      st == UpdateLockedBorrows(vs1, ls0, deductions, failAt)
      Common ==
        /\ auctions' = auctions + 1
        /\ ownerPaid' = IF paid THEN [ownerPaid EXCEPT ![p] = @ + lv.amountIn]
                        ELSE ownerPaid
        /\ returned' = IF paid THEN returned \cup {p} ELSE returned
        /\ UNCHANGED <<prices, lockedVaultId, skips, halted>>
      panicked == negative \/ (goesOn /\ recovered /\ st.panic)
  IN  \/ panicked /\ Halt
      \/ \* CreateLockedVaultHistory or SendCoinFromModuleToAccount failed:
         \* the error is returned
         /\ ~negative /\ zero /\ ~paid
         /\ Common
         /\ vaults' = vs0 /\ archived' = arch0
         /\ failures' = failures + 1
         /\ UNCHANGED <<borrows, borrowIds, borrowStats, lend, bonusPaid,
                        reserve, burned, deductions>>
      \/ \* still liquidating: history appended, UpdateLockedBorrows
         /\ ~panicked /\ goesOn /\ recovered
         /\ Common
         /\ archived' = arch0
         /\ vaults' = st.vaults
         /\ CommitSizing(st, 0)
         /\ UNCHANGED <<borrows, borrowIds, borrowStats>>
      \/ \* healthy again, CreateLockedVaultHistory failed: the error is
         \* returned before the borrow is re-created
         /\ ~negative /\ goesOn /\ ~recovered /\ rearchiveFails
         /\ Common
         /\ archived' = arch0 /\ vaults' = vs0 /\ lend' = ls0
         /\ failures' = failures + 1
         /\ UNCHANGED <<borrows, borrowIds, borrowStats, bonusPaid, reserve,
                        burned, deductions>>
      \/ \* healthy again: archive, CreteNewBorrow, delete the vault
         /\ ~negative /\ goesOn /\ ~recovered /\ ~rearchiveFails
         /\ Common
         /\ archived' = arch0 \cup {v}
         /\ borrows' = (p :> NewBorrow(lv)) @@ borrows
         /\ borrowIds' = ReindexBorrow(p)
         /\ vaults' = [w \in DOMAIN vs0 \ {v} |-> vs0[w]]
         /\ lend' = ls0
         /\ UNCHANGED <<borrowStats, bonusPaid, reserve, burned, deductions,
                        failures>>

\* the auction module closes the auction of vault v
AuctionClosed(v, sold, repaid) ==
  /\ ~halted
  /\ auctions < MaxAuctions
  /\ v \in DOMAIN vaults
  /\ vaults[v].inProgress
  /\ \E failAt \in FailChoices(DOMAIN vaults) :
       UnLiquidateLockedBorrows(v, ClosedByAuction(vaults[v], sold, repaid),
                                failAt)

(***************************************************************************)
(* Environment                                                             *)
(***************************************************************************)
\* the lend module accrues interest on an open borrow
AccrueInterest(p) ==
  /\ ~halted
  /\ p \in DOMAIN borrows
  /\ borrows[p].interest < MaxInterest
  /\ borrows' = [borrows EXCEPT ![p].interest = @ + 1]
  /\ UNCHANGED <<borrowIds, borrowStats, vaults, lockedVaultId, lend, prices,
                 bonusPaid, reserve, burned, ownerPaid, returned, archived, auctions,
                 failures, skips, deductions, halted>>

\* the oracle publishes new prices
PriceUpdate(pin, pout) ==
  /\ ~halted
  /\ prices # [in |-> pin, out |-> pout]
  /\ prices' = [in |-> pin, out |-> pout]
  /\ UNCHANGED <<borrows, borrowIds, borrowStats, vaults, lockedVaultId, lend,
                 bonusPaid, reserve, burned, ownerPaid, returned, archived, auctions,
                 failures, skips, deductions, halted>>

Init ==
  /\ borrows \in [Pos -> InitBorrows]
  /\ borrowIds = Pos
  /\ borrowStats = MapThenSumSet(LAMBDA p : borrows[p].amountOut, Pos)
  /\ vaults = << >>
  /\ lockedVaultId = 0
  /\ lend = [p \in Pos |-> [amountIn |-> borrows[p].amountIn,
                            availableToBorrow |-> 0]]
  /\ prices \in [in : PricesIn, out : PricesOut]
  /\ bonusPaid = 0 /\ reserve = 0 /\ burned = 0
  /\ ownerPaid = [p \in Pos |-> 0]
  /\ returned = {}
  /\ archived = {}
  /\ auctions = 0
  /\ failures = 0
  /\ skips = 0
  /\ deductions = << >>
  /\ halted = FALSE

Next ==
  \/ LiquidateBorrows
  \/ \E v \in DOMAIN vaults :
       \E sold \in 0..Max({0, vaults[v].amountIn}), repaid \in 0..vaults[v].updatedOut :
         AuctionClosed(v, sold, repaid)
  \/ \E p \in DOMAIN borrows : AccrueInterest(p)
  \/ \E pin \in PricesIn, pout \in PricesOut : PriceUpdate(pin, pout)

\* BeginBlocker runs LiquidateBorrows in every block
Spec == Init /\ [][Next]_vars /\ WF_vars(LiquidateBorrows)

(***************************************************************************)
(* The fairness of Spec in the form the liveness run checks it.  While    *)
(* the chain runs, LiquidateBorrows is enabled in every state (no bank    *)
(* call fails, no auction start is skipped), and from a state where some  *)
(* borrow is to be locked each of its steps changes the state (it deletes *)
(* the borrows or halts).  So WF_vars(LiquidateBorrows) implies that,     *)
(* infinitely often, the chain has halted, nothing is to be locked, or a  *)
(* sweep takes a step.  TLC would evaluate ENABLED LiquidateBorrows by    *)
(* unfolding the whole sizing recursion in every state; this formula      *)
(* needs no ENABLED.                                                      *)
(***************************************************************************)
SweepFairness == []<>(halted \/ ToLock = {}) \/ []<><<LiquidateBorrows>>_vars

LiveSpec == Init /\ [][Next]_vars /\ SweepFairness

(***************************************************************************)
(* Properties                                                              *)
(***************************************************************************)
Rat == [n : Int, d : Nat \ {0}]
BorrowRec == [amountIn : Int, amountOut : Int, interest : Nat,
              bridgedAmount : Nat, bridgedDenom : {FirstDenom, SecondDenom}]
VaultRec == [pos : Pos, bridgedAmount : Nat,
             bridgedDenom : {FirstDenom, SecondDenom},
             amountIn : Int, amountOut : Int, updatedOut : Int,
             crAtLiq : Rat, cr : Rat, toAuction : Rat, history : Seq(Nat),
             inProgress : BOOLEAN, complete : BOOLEAN]

\* Type invariant; every vault id is at most the stored LockedVaultID.
TypeOK ==
  /\ DOMAIN borrows \subseteq Pos /\ \A p \in DOMAIN borrows : borrows[p] \in BorrowRec
  /\ borrowIds \subseteq Pos
  /\ borrowStats \in Int
  /\ lockedVaultId \in Nat
  /\ DOMAIN vaults \subseteq 1..lockedVaultId
  /\ \A v \in DOMAIN vaults : vaults[v] \in VaultRec
  /\ lend \in [Pos -> [amountIn : Int, availableToBorrow : Int]]
  /\ prices \in [in : PricesIn, out : PricesOut]
  /\ {bonusPaid, reserve, burned} \subseteq Int
  /\ ownerPaid \in [Pos -> Int]
  /\ returned \subseteq Pos
  /\ archived \subseteq 1..lockedVaultId
  /\ auctions \in 0..MaxAuctions /\ failures \in 0..MaxFailures
  /\ skips \in 0..MaxSkips
  /\ DOMAIN deductions \subseteq 1..lockedVaultId
  /\ \A v \in DOMAIN deductions : deductions[v] \in Seq(Int)
  /\ halted \in BOOLEAN

\* Reference for the sweep, from the spec: ratio = debt value / collateral
\* value; threshold = pair threshold, times the threshold of the bridged
\* asset whose denom the position's bridged amount carries.
RefRatio(r) == MkRat((r.amountOut + r.interest) * prices.out, r.amountIn * prices.in)
RefThreshold(r) ==
  LET bt == IF r.bridgedDenom = FirstDenom THEN BridgeLT["first"]
            ELSE BridgeLT["second"]
  IN  IF r.bridgedAmount = 0 THEN MkRat(LiqThreshold, 100)
      ELSE MkRat(LiqThreshold * bt, 10000)
RefUnhealthy(r) == r.amountIn * prices.in # 0 /\ RatGT(RefRatio(r), RefThreshold(r))

(***************************************************************************)
(* SweepLocksExactlyUnhealthy (LiquidateBorrows, CreateLockedBorrow): a    *)
(* committed sweep removes from the borrow store exactly the indexed       *)
(* positions whose ratio exceeds their bridge-aware threshold, and each    *)
(* of them reappears as one new vault snapshotting its collateral, its     *)
(* debt with interest, and its ratio.                                      *)
(***************************************************************************)
SweepLocksExactlyUnhealthy ==
  [][LiquidateBorrows /\ ~halted' =>
      \A p \in borrowIds \cap DOMAIN borrows :
        LET r == borrows[p]
            locked == {v \in DOMAIN vaults' \ DOMAIN vaults : vaults'[v].pos = p}
        IN  IF RefUnhealthy(r)
            THEN /\ p \notin DOMAIN borrows'
                 /\ Cardinality(locked) = 1
                 /\ \A v \in locked :
                      /\ vaults'[v].updatedOut = r.amountOut + r.interest
                      /\ vaults'[v].crAtLiq = RefRatio(r)
            ELSE p \in DOMAIN borrows' /\ locked = {}]_vars

(***************************************************************************)
(* PositionNeverLost (CreateLockedBorrow ids, UnLiquidateLockedBorrows):   *)
(* every lending position is always open, locked in a vault, or has had   *)
(* its collateral returned to its owner.                                   *)
(***************************************************************************)
PositionNeverLost ==
  \A p \in Pos :
    \/ p \in DOMAIN borrows
    \/ \E v \in DOMAIN vaults : vaults[v].pos = p
    \/ p \in returned

\* collateral the lend positions record
Lent(ls) == MapThenSumSet(LAMBDA p : ls[p].amountIn, DOMAIN ls)
\* total collateral deducted, and number of deductions, over a history
SumOf(sq) == MapThenSumSet(LAMBDA i : sq[i], DOMAIN sq)
Deducted(ds) == MapThenSumSet(LAMBDA v : SumOf(ds[v]), DOMAIN ds)
Deductions(ds) == MapThenSumSet(LAMBDA v : Len(ds[v]), DOMAIN ds)

(***************************************************************************)
(* PenaltySplitConserved (UpdateLockedBorrows, in the sweep and in every  *)
(* re-size after an auction close): in every committed step, the          *)
(* collateral the sell-offs deduct from the vaults is what leaves the     *)
(* lend positions, and equals the bonus sent to the auction module plus   *)
(* the penalty credited to the reserve, up to one unit of truncation per  *)
(* deduction; the cAsset burned equals the penalty credited.  A bank call *)
(* failing between the transfers breaks the balance.                      *)
(***************************************************************************)
PenaltySplitConserved ==
  [][~halted' =>
      LET taken == Deducted(deductions') - Deducted(deductions)
          paid == (bonusPaid' - bonusPaid) + (reserve' - reserve)
          n == Deductions(deductions') - Deductions(deductions)
      IN  /\ Lent(lend) - Lent(lend') = taken
          /\ burned' - burned = reserve' - reserve
          /\ paid =< taken /\ taken =< paid + n]_vars

(***************************************************************************)
(* SizerDeductsOnce (UpdateLockedBorrows, spec 8 "idempotence"): the      *)
(* liquidation penalty and bonus are taken from a vault's collateral at   *)
(* most once: the vault's history holds at most one non-zero deduction.   *)
(* The code guards the deduction by SellOffHistory == nil, which only     *)
(* UnLiquidateLockedBorrows ever appends to.                              *)
(***************************************************************************)
SizerDeductsOnce ==
  \A v \in DOMAIN deductions :
    Len(SelectSeq(deductions[v], LAMBDA d : d # 0)) =< 1

(***************************************************************************)
(* AuctionWithinCollateral (UpdateLockedBorrows, spec 3 and 8): a locked  *)
(* vault never holds negative collateral, and the collateral it earmarks  *)
(* for auction is worth no more than the collateral it holds.             *)
(***************************************************************************)
AuctionWithinCollateral ==
  \A v \in DOMAIN vaults :
    /\ vaults[v].amountIn >= 0
    /\ ~RatGT(vaults[v].toAuction, MkRat(vaults[v].amountIn * prices.in, 1))

(***************************************************************************)
(* CollateralReturnedOnce (UnLiquidateLockedBorrows, spec 4.5 step 2 and  *)
(* scenario C): once a vault whose debt reached zero has been closed and  *)
(* its collateral returned to the owner, the position has neither a       *)
(* locked vault nor an open borrow pledging that collateral.              *)
(***************************************************************************)
CollateralReturnedOnce ==
  \A p \in returned :
    /\ p \notin DOMAIN borrows
    /\ \A v \in DOMAIN vaults : vaults[v].pos # p

(***************************************************************************)
(* NeverHalts (UpdateLockedBorrows, spec 1 and 7): with risk parameters   *)
(* that keep the sell-off denominator positive, the engine never panics   *)
(* in BeginBlocker.                                                       *)
(***************************************************************************)
NeverHalts == ~halted

(***************************************************************************)
(* Refinement of PositionLifecycle.  A position is open while the lend    *)
(* module stores its borrow, locked while a vault refers to it, and       *)
(* "gone" (no phase of the abstract specification) otherwise; it is at    *)
(* risk when its ratio, at the current prices and with its interest,      *)
(* exceeds the threshold the spec gives its bridge routing.               *)
(***************************************************************************)
PhaseOf(p) ==
  IF p \in DOMAIN borrows THEN "open"
  ELSE IF \E v \in DOMAIN vaults : vaults[v].pos = p THEN "locked"
  ELSE "gone"

AtRisk == {p \in DOMAIN borrows : RefUnhealthy(borrows[p])}

Lifecycle == INSTANCE PositionLifecycle
               WITH phase <- [p \in Pos |-> PhaseOf(p)], risky <- AtRisk

(***************************************************************************)
(* LifecycleRefined (LiquidateBorrows, UnLiquidateLockedBorrows): every   *)
(* block and every auction close is a step of PositionLifecycle: a sweep  *)
(* locks only positions at risk, only a closed auction unlocks one, and   *)
(* the borrow CreteNewBorrow materialises is not at risk at the prices    *)
(* the un-liquidate point was checked at.                                 *)
(***************************************************************************)
LifecycleRefined == Lifecycle!SafeSpec

(***************************************************************************)
(* UnhealthyEventuallyLocked (LiquidateBorrows in BeginBlocker): a        *)
(* position whose ratio with its accrued interest exceeds its threshold   *)
(* is locked by some later block, unless prices bring it back first.      *)
(***************************************************************************)
UnhealthyEventuallyLocked == Lifecycle!UnhealthyEventuallyLocked

(***************************************************************************)
(* NoUnlockWithoutRatio (UnLiquidateLockedBorrows, spec §4.1): a vault is *)
(* never turned back into an open borrow when its collateralisation ratio *)
(* cannot be computed (its collateral is worth nothing): the spec says a  *)
(* failed ratio means "do not unlock".                                    *)
(***************************************************************************)
NoUnlockWithoutRatio ==
  [][\A p \in DOMAIN borrows' \ DOMAIN borrows :
       RatioDefined(borrows'[p].amountIn)]_vars

(***************************************************************************)
(* ResizeOnlyWhileAtRisk (UpdateLockedBorrows line 204, spec §4.4): the   *)
(* sizer re-sizes a vault whose auction is complete only while "the       *)
(* vault's current ratio is still at/above its un-liquidate threshold":   *)
(* whenever such a vault's stored ratio is rewritten, its ratio at the    *)
(* prices of that step is at or above the point.                          *)
(***************************************************************************)
ResizeOnlyWhileAtRisk ==
  [][\A v \in DOMAIN vaults \cap DOMAIN vaults' :
       LET lv == vaults[v]
           r == [amountIn |-> lv.amountIn, amountOut |-> lv.updatedOut,
                 interest |-> 0, bridgedAmount |-> lv.bridgedAmount,
                 bridgedDenom |-> lv.bridgedDenom]
       IN  lv.complete /\ vaults'[v].cr # lv.cr
             => ~RatGT(RefThreshold(r), RefRatio(r))]_vars
====
