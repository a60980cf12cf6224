# TLA+ models of the borrow-liquidation engine

This directory holds the TLA+ models of the liquidation keeper in
`src/x/liquidation/keeper/liquidate_borrow.go`, the TLC configurations that
check them, and the findings those checks produced. `PROJECT.json` lists:

- every component;
- every run with its properties;
- the mutants that show each passing property can fail;
- the source lines each definition translates (`map`);
- the findings;
- the hazards of the code.

## 1. The system

The repository's core is the liquidation engine of a lending protocol built
on the Cosmos SDK. It runs inside a deterministic replicated state machine
and executes once per block in `BeginBlocker`. It has these parts:

| Part | Code | What it does |
|---|---|---|
| Collateralization Calculator | `CalculateLendCollaterlizationRatio` (not under `src/`) | Computes the ratio debt value / collateral value as an `sdk.Dec`. |
| Liquidation Sweep | `LiquidateBorrows`, lines 10-112 | For every id in `BorrowIDs`, computes the ratio and compares it with the threshold. Unhealthy positions are locked and their borrow and index entries deleted. The sweep then calls the sizer. |
| Lock Transition | `CreateLockedBorrow`, lines 114-148 | Builds a `LockedVault` with id `GetLockedVaultID()+1` and saves the counter. |
| Sell-off Sizer | `UpdateLockedBorrows`, lines 150-287 | For every locked vault that is not under auction, computes the sell-off. The first time it does, it deducts the penalty and bonus: a send to the auction module, a reserve credit, a burn and `SetLend`. It then stores `CollateralToBeAuctioned`. |
| Restoration Engine | `UnLiquidateLockedBorrows`, lines 289-426 | Runs when an auction completes. It has three steps: (a) a zero-debt close; (b) an above-threshold branch that appends history and re-sizes every vault; (c) an at-or-below-threshold branch that recreates the borrow (`CreteNewBorrow`). |

They interact like this:

1. Each block runs the sweep, then the lock, then the sizer.
2. Later in the same block, the auction module's `BeginBlocker` starts auctions for the vaults that were sized.
3. When an auction closes, the auction module calls the restoration engine. That engine may call the sizer again.
4. Between blocks, the lend module accrues interest and the oracle moves prices.

Every operation runs sequentially within a block. The concurrency that matters is the interleaving of blocks, interest, price moves and auction closes. Several failure modes also matter:

- the bank or reserve calls (`SendCoinsFromModuleToModule`, `UpdateReserveBalances`, `BurnCoin`, `SendCoinFromModuleToAccount`) can fail;
- the caller swallows some of those errors, at lines 106-108 and 328-331;
- `sdk.NewCoin` and `Dec.Quo` can panic, which halts the chain, because a panic in `BeginBlocker` is not recovered.

The other files under `src/` are listed in `PROJECT.json` as not modelled:

- the wasm query structs;
- the vault message-server tests;
- the generated cdp gRPC types.

None of them has behaviour to model: the structs and the gRPC service are
declarations (the cdp `Query` service has no methods), and the tests exercise a
keeper that is not in the repository. The collector CLI
(`x/collector/client/cli/tx.go`) is modelled in `CollectorCli.tla`: its two
commands turn comma-separated arguments into a governance proposal. The generated protobuf codec of the asset
module's `GenesisState` (`x/asset/types/genesis.pb.go`) is modelled in
`GenesisCodec.tla`: the binary (protobuf wire) form of the state, which every
caller of the generated `Marshal` and `Unmarshal` gets. Genesis files themselves
are JSON and are read by the JSON codec, not by this `Unmarshal`.

## 2. Modules

### `LiquidateBorrow.tla`

This is the whole engine and its environment.

**State.** It has these variables:

- `borrows`, `borrowIds`, `borrowStats`: the lend store the sweep reads and deletes from;
- `vaults`, `lockedVaultId`: the locked-vault store and the id counter;
- `lend`: the lending positions' `AmountIn` and `AvailableToBorrow`;
- `prices`: the oracle;
- `bonusPaid`, `reserve`, `burned`, `ownerPaid`: balances moved by the bank calls;
- `returned`, `archived`: collateral returned on close, and `CreateLockedVaultHistory`.

Four variables are history variables for the properties. `deductions` records, per vault, the collateral each sizing deducted, and `auctions`, `failures` and `skips` are counters for the bounds. `halted` records a panic.

**Arithmetic.** `sdk.Dec` is modelled as exact rationals `[n, d]`, normalised by gcd (`MkRat`). The percentages of the risk parameters are integers over 100. `TruncateInt64` is `Trunc`, which truncates toward zero, so a negative sell-off gives a negative coin amount, as in the code.

**Translation of the code.** Each definition follows a function of `liquidate_borrow.go`:

- `BridgeOf`, `Threshold` and `CollateralFactor` are the three-way bridge dispatch that the code writes out three times.
- `Unhealthy` and `ToLock` are the sweep's test, a strict `GT`.
- `LockedIdOf`, `NewLockedVault` and `NextLockedVaultId` are `CreateLockedBorrow`. Vault ids follow the sweep's order.
- `SellOff`, `SellOffSplit` and `SizeVault` are the body of the sizer loop.
- `SizeVault` keeps the order of the calls. When the bonus send, the reserve update or the burn fails, it returns the error with the writes made so far. When a coin amount is negative, it panics. The bonus-send panic happens before the send; the penalty panic happens after it.
- `SizeVaults` is the loop over vaults in id order. It stops at the first error or panic.
- `CommitSizing` writes what the loop wrote.

**Actions.**

- **`LiquidateBorrows`** is one `BeginBlocker`: the sweep, the lock, then `UpdateLockedBorrows`, with its error swallowed. If nothing panicked, `AuctionBeginBlocker` then starts auctions for the vaults that were sized and not yet under auction. A panic anywhere in the step gives `Halt`: the block is not committed and the chain stops.
- **`AuctionClosed(v, sold, repaid)`** is the auction module closing vault `v`'s auction. It calls `UnLiquidateLockedBorrows`, which keeps the code's non-exclusive branches: the zero-debt close runs first, and then exactly one of the GT and LTE branches runs. Either `CreateLockedVaultHistory` call (lines 310 and 334, and their copies) can fail and return its error with the writes made before it. The GT branch's `UpdateLockedBorrows` re-sizes every vault, and its bank calls can fail for any of them.
- **`AccrueInterest` and `PriceUpdate`** are the environment.

**Failures.** The failure of a bank call is an input, `failAt`. It is either `NoFail` or a pair `<<vault, call>>`, where the call is a bank, reserve or burn call of the sizer, or the return send or one of the two history writes of the restoration. The index updates after `DeleteBorrow` (lines 40-51) can also fail, for a set `stale` of the locked borrows (`IndexFailures`). The loop then continues and their ids stay in `borrowIds`, although the borrow is deleted (`Deleted`). At most `MaxFailures` failures happen in a behaviour.

**Refinement.** The end of the module maps the engine onto `PositionLifecycle` (`Lifecycle == INSTANCE PositionLifecycle WITH ...`):

- `phase[p]` is `"open"` while the lend store holds `p`'s borrow, and `"locked"` while a vault refers to `p`. Otherwise it is `"gone"`, which the abstract specification has no step to.
- `risky` is `AtRisk`: the open positions whose ratio, with interest and at the current prices, exceeds the threshold the spec gives their routing (`RefUnhealthy`).
- `halted` is `halted`.

### `PositionLifecycle.tla`

This is the abstract specification: what the engine promises a position, with the arithmetic, the bank calls and the auctions left out.

- **`Sweep`** locks some of the positions at risk, and no other.
- **`Drift`** is interest or prices moving open positions into or out of risk.
- **`Reopen(p)`** is a closed auction turning a locked position back into an open one that is not at risk.
- **`Halt`** is a panic.

`Spec` has weak fairness on `Sweep`. `UnhealthyEventuallyLocked` says that a position at risk leaves risk, is locked, or the chain halts.

**Abstracted away.**

- Lookups that never fail in a consistent store (pair, pool, asset, stats).
- App ids, owners and timestamps.
- The textual `SellOffHistory` entries. History is a sequence of auction numbers.

### `MCLiquidateBorrow.tla`

This module instantiates the engine for TLC. Its positions borrow 3 or 4 against 5 collateral, with each of the three bridge routings. Its risk parameters keep the sell-off denominator positive:

| Parameter | Value |
|---|---|
| Pair threshold | 80 % |
| Bridge thresholds | 90 / 80 % |
| Bridge Ltv | 80 / 70 % |
| Penalty | 10 % |
| Bonus | 5 % |

### `GenesisCodec.tla`

This module models the codec in `genesis.pb.go`.

**Marshal.** The Marshal side is pure operators that keep the code's names and its control:

- `sovGenesis` uses `Len64(x|1)` with `Bitwise`'s `|`.
- `encodeVarintGenesis` and its loop `PutVarint` write the varint.
- `Size` adds up the field sizes.
- `MarshalToSizedBuffer` writes backwards from the end of a buffer of `Size` bytes. `WriteOrder` gives its order: Params first, then each repeated field from its last element. An index below 0 is the code's panic.
- `Marshal` cuts the result to `dAtA[:n]`.

**Unmarshal.** Unmarshal is a state machine with one action per branch of its field loop:

| Action | Code branch |
|---|---|
| `ResetGenesis` | `proto.Unmarshal` calls `Reset` (`*m = GenesisState{}`, line 34) before `XXX_Unmarshal`. A caller of `XXX_Unmarshal` (line 40-42, `m.Unmarshal(b)`) skips it, and the loop fills in the state it was handed. |
| `BadTag` | The tag cannot be read, or it is an end-group tag or field 0. |
| `ReadField(f)` | Cases 1-5: the wire-type check, the length varint, the bounds checks, then `StoreField`. A repeated field appends an element (`AppendField`, lines 303-306 and their copies). `Params` is unmarshalled into the `Params` already read, which protobuf defines as the parse of the two encodings concatenated. |
| `SkipField` | The default case: `skipGenesis` from `preIndex`, with its bounds checks. |
| `Finish` | The loop exits. |

The varint reads (`ReadVarintFrom`) and `skipGenesis` (`SkipStep`, `SkipFrom`) are recursive operators. They follow the code's shift, EOF and overflow checks and each wire type's case.

**Abstractions.** The nested messages (Asset, Pair, AppData, ExtendedPairVault, Params) have codecs in files that are not in the repository. A nested message is therefore represented by its own encoding. Its `MarshalToSizedBuffer` copies those bytes, and its `Unmarshal` keeps them.

**Inputs.** `Init` picks a state from `Msgs` and gives `Unmarshal` one of these inputs:

- its encoding;
- its encoding with an unknown field prepended or appended;
- its encoding cut after 1 to 5 bytes (`CutAt`), so that some cuts fall on a field boundary;
- one of the `Corrupt` byte strings;
- its encoding followed by the encoding of a state in `Appended` (kind `"merged"`), where `orig` is the merge of the two (`MergeOf`).

`Init` also picks the state the caller passes in, from `Priors`, and the entry point: `proto.Unmarshal`, which resets it, or `XXX_Unmarshal`, which does not. `Start` is what the loop fills in on top of, and `Expected = MergeOf(Start, orig)` is the state a successful parse must leave.

`MCGenesisCodec` provides:

- 96 states;
- nested messages of 0, 2 and 128 bytes (128 is the first length with a two-byte varint);
- unknown fields of every wire type, a group and a two-byte tag;
- twelve corrupt inputs, one for each error path of the loop, plus a valid ten-byte varint that must not be reported as an overflow;
- two appended states, each repeating `Params`, one also adding an asset;
- two caller states: a fresh one, and one already holding an asset and `Params`.

### `CollectorCli.tla`

The `RunE` handlers of `collector-lookup-params` (8 arguments) and
`auction-control` (4 arguments). One behaviour is one run of one command on
one command line, and `pc` follows the handler:

| Action | Code |
|---|---|
| `CobraValidate` | Before `RunE`, cobra checks `cobra.ExactArgs(8)` (or `4`) and that the flags marked required (`--title`, `--description`, lines 150-151 and 243-244) were given. An empty value passes this check. |
| `ParseArgs` | Lines 50-82 (and 157-180 for auction-control): the parse of every argument (`ParseUint64SliceFromString`, `ParseStringFromString`, `strconv.ParseUint`), each returning on error. |
| `GetClientTxContext` | Lines 84-87 and 182-185; it may fail. |
| `LoopStep` | One iteration of `for i := range appId` (or `asset_id`). `Checks` lists, in the order the code evaluates them, the lists it indexes and the elements it converts. An index past a list's end is a panic and a failed `NewDecFromStr` or `ParseBool` an error return. Otherwise `Record(i)` is appended. |
| `LoopExit` | The loop header (`for i := range appId`, line 90) once `i` passes the driver list. |
| `Submit` | The title, description and deposit flags, each `""` or a value (an absent optional flag reads as `""`), and the `--from` address, empty when none is configured. Then `ParseCoinsNormalized` (a malformed deposit is an error, `""` is no coins), `ValidateBasic` (gov's check of a non-empty proposer, title and description, modelled from its contract), and `GenerateOrBroadcastTxCLI`, which may fail. Reading a flag cannot fail, because the command defines every flag it reads, and `NewMsgSubmitProposal` fails only on content that is not a proto message. |

The data is abstracted to positions. Element `n` of argument `a` is the pair
`<<a, n>>`, and a record maps each field to the pair it holds. An argument is
`Bad` (its parse fails) or a list of `len` entries, of which the entries in
`bad` fail their conversion in the loop. The parse helpers are not in the
repository. They are modelled by what their signatures and the split they do
allow: an error or a list of at least one entry. A string list never fails to
parse, and a uint list fails as a whole.

## 3. Properties

| Property | Kind | What it says |
|---|---|---|
| `TypeOK` | invariant | The shape of the state. Vault ids stay within `1..lockedVaultId`. |
| `SweepLocksExactlyUnhealthy` | action property | After every committed block, an open position was locked if and only if its ratio was above its bridge-aware threshold. The new vault carries the borrow's amounts and interest. The property is stated against a threshold and ratio written from the spec (§4.2), not from the model's dispatch. |
| `PositionNeverLost` | invariant | Every position is always open, locked, or returned to its owner. |
| `PenaltySplitConserved` | action property | In every committed step (a block's sweep, or the re-size after an auction close), three things hold. The collateral taken from the lend positions equals what the sizings deducted from the vaults. What is burned equals what is credited to the reserve. The bonus and penalty paid out is within the truncation slack (one unit per deduction) of what was deducted. |
| `SizerDeductsOnce` | invariant | No vault has collateral taken for penalty and bonus twice: its history holds at most one non-zero deduction (spec §8, idempotence). |
| `AuctionWithinCollateral` | invariant | `0 <= CollateralToBeAuctioned <= AmountIn` (spec §3, §8). |
| `CollateralReturnedOnce` | invariant | A returned position is never also open again. |
| `NeverHalts` | invariant | No panic in `BeginBlocker`. No run checks it. The negative-coin panic needs a second sizing after a price rise, and with bounds that reach it TLC meets the double deduction of `sizer_idempotence` first. |
| `LifecycleRefined` | refinement (`Lifecycle!SafeSpec`) | Every step of the engine is a step of `PositionLifecycle`. A sweep locks only positions at risk. Only a closed auction unlocks one. The borrow that `CreteNewBorrow` recreates is not at risk. No position is ever `"gone"`. |
| `UnhealthyEventuallyLocked` | liveness | A position whose ratio with interest exceeds its threshold is locked by a later block, unless prices bring it back first. |
| `NoUnlockWithoutRatio` | action property | A vault whose ratio cannot be computed (no collateral value) is never turned back into an open borrow (spec §4.1: "do not unlock"). |
| `ResizeOnlyWhileAtRisk` | action property | A vault whose auction is complete is re-sized only while its ratio at the current prices is at or above its un-liquidate point (spec §4.4). |
| `SentProposalIsZip` (CLI) | invariant | A proposal the command sends has one record per entry of the driver list (`appId`, `asset_id`). Record `n` holds entry `n` of every list argument, in the field that the argument's position in the usage line names (`app_id`, a single value, goes in every auction record). No record holds an element that failed its conversion. |
| `NeverPanics` (CLI) | invariant | The command returns an error on an input it cannot use and never panics. |
| `ReadsMatchReference` (codec) | invariant | Every tag and length read by the shift-and-or loop equals the protobuf definition of a base-128 varint (`RefVarint`) of exactly the bytes consumed. |
| `MarshalFitsSize` (codec) | invariant | `MarshalToSizedBuffer` into `Size(m)` bytes never panics and returns `n = Size(m)`. |
| `DecodesWhatWasEncoded` (codec) | invariant | `Unmarshal(Marshal(m))`, with or without an unknown field at either end, succeeds and gives back `m` through `proto.Unmarshal`, whatever the state it was handed held, and `m` merged into that state through `XXX_Unmarshal`. Two encodings in a row give protobuf's merge of the two states: each repeated field holds the elements of both in order, and the second `Params` is merged into the first (line 439 unmarshals into the existing `Params`). |
| `NeverInventsFields` (codec) | invariant | At every point of the loop on a valid, extended or truncated encoding, each repeated field holds what it held at the start (nothing after a `Reset`) followed by a prefix of the encoded list, and `Params` is the starting one or that merged with the encoded one: a cut at a field boundary loses data, but never puts bytes of one field into another or replaces what the caller's state held. |
| `OverflowOnlyAfterTenBytes` (codec) | invariant | `ErrIntOverflowGenesis` is returned only when the input holds ten continuation bytes in a row, so no valid varint of up to ten bytes is rejected. |
| `LoopAdvances` (codec) | action property | Every loop iteration that does not return strictly advances `iNdEx` and stays within `len(dAtA)`, which is the loop's termination argument. |

## 4. Runs

| Run | Config | Expect | Shows |
|---|---|---|---|
| `core` | `MCLiquidateBorrow.cfg` | pass (49,896 states, about 1 min) | The sweep locks exactly the unhealthy positions. No position is lost. Every deduction, in the sweep and in the re-size after an auction close, is split exactly into bonus and reserve penalty. The engine implements `PositionLifecycle`, and every position at risk is eventually locked. Setting: 2 positions, collateral price 1 or 2, interest up to 1 (enough to push a borrow of each routing over its threshold), one auction close, checked under `LiveSpec`. |
| `faults` | `MCLiquidateBorrowFaults.cfg` | pass (57,293 states) | The same locking property holds when one bank, history or index call fails, one auction start is delayed and panics halt the chain. A deleted borrow whose id an index failure left behind is never locked again. The run uses one position to stay within minutes. |
| `sizer_idempotence` | `…Idempotence.cfg` | violation | The sizer never records the first sizing. In the trace, a no-bridge borrow (5 collateral, 4 debt, interest 1) is locked, and a sell-off of 12.5 deducts 1 (bonus 0, penalty 1). The auction start is skipped. The next block sizes the vault again: a sell-off of 22.5 deducts 3 more (bonus 1, penalty 2), so 4 of the 5 units of collateral are gone. |
| `auction_within_collateral` | `…Auctioned.cfg` | violation | `min(sellOff, totalIn)` uses `totalIn` from before the deduction, so the auctioned collateral exceeds `AmountIn`. |
| `collateral_returned_once` | `…Returned.cfg` | violation | In the trace a first-bridged vault (lines 343-381) is repaid in full. The zero-debt close returns the collateral. The LTE branch then also recreates the borrow, since a ratio of 0 is at most the threshold. |
| `partial_failure` | `…Partial.cfg` | violation | In the trace, a sell-off of 12.5 gives bonus 0 and penalty 1. The reserve is credited 1 (line 257), then `BurnCoin` fails (line 265) before the deduction is stored. `LiquidateBorrows` returns nil and the block commits: the reserve holds a penalty that was neither deducted nor burned. |
| `lost_on_return` | `…Lost.cfg` | violation | The zero-debt close deletes the vault before sending the collateral. A failed send leaves the position nowhere. |
| `no_unlock_without_ratio` | `…Unlock.cfg` | violation | In the trace, the auction sells all 5 units of collateral and repays none of the 4 units of debt. The ratio call fails and its error is ignored, so the restoration reads a ratio of 0 and reopens a borrow with `amountIn = 0` and `amountOut = 4`. The sweep reads the same zero ratio, so it never locks that borrow again. |
| `stale_resize` | `…Stale.cfg` | violation | An auction closes with nothing sold. The ratio, 4/5, is above the point, so the restoration keeps the vault locked and stores that ratio. The collateral price then triples, which puts the ratio at 4/15. In the next block the sizer's guard at line 204 still reads the stored 4/5 and re-sizes the vault. The vault is second-bridged, and its sell-off is negative (−1100/89), and the auction module starts an auction for a vault that is no longer at risk. |
| `codec` | `MCGenesisCodec.cfg` | pass (45,752 states, under a minute) | The `GenesisState` codec round-trips on 96 states and skips unknown fields of every wire type. It reads varints correctly and reports an overflow only after ten continuation bytes. A parse of an encoding cut after 1 to 5 bytes never invents a field. Two encodings in a row parse to their merge. `XXX_Unmarshal` into a state already in use merges into it, and `proto.Unmarshal`'s `Reset` gives exactly the encoded state. Its `Unmarshal` loop advances on valid, truncated and corrupt inputs alike. |
| `collector_cli` | `MCCollectorCli.cfg` | pass (85,920 states, about 35 s) | Either command sends a proposal only when every argument parsed and every converted element converted. The proposal is the positional zip of the lists. Setting: every list of 1 or 2 entries, every subset of string entries failing, every argument count and set of flags cobra checks, every failure of the context, and every flag value and broadcast outcome of the submission. |
| `collector_cli_panic` | `MCCollectorCliPanic.cfg` | violation | `collector-lookup-params 1,2 5 …` (an app-id list of two, every other list of one) passes parsing. In the second iteration, the lookup loop reads `bid_factor[1]` (line 91), the first list it indexes, and panics with index out of range. |

The eight violation runs are the `findings` of `PROJECT.json`. Each passing
property has a mutant in `PROJECT.json`, an operator that sits in the module
just before the definition it replaces:

- `UnhealthyAtThreshold` uses `>=` instead of `>`.
- `LockedIdOfStale` uses the id counter unread.
- `NextLockedVaultIdUnsaved` does not save the counter.
- `DeletedAfterIndex` deletes the borrow only after the index updates, so a failed update leaves it open beside its vault.
- `UnliquidatePointFirstOnly` compares every bridged vault with the first bridged asset's un-liquidate point (a copy-paste of the branch at line 343).
- `ReindexBorrowDropped` is a `CreteNewBorrow` that stores the re-created borrow but does not append its id to the `BorrowIDs` index. Every step is still one the safety properties allow, since the sweep only reads indexed borrows. But a reopened borrow that interest pushes over its threshold is never locked, which breaks `UnhealthyEventuallyLocked`.
- `SellOffSplitBonusAsPenalty` uses the bonus fraction where the penalty belongs.
- `sovGenesisNoOr` drops the `|1`.
- `FieldSizeNoTag` forgets the tag byte.
- `ReadVarintFromShift8` shifts by 8.
- `ReadFieldFromTag` measures `postIndex` from the tag.
- `SkipFieldUnchecked` drops the `iNdEx + skippy > l` check.
- `LookupRecordZeroBased` builds the lookup record from index `n - 1`, the off-by-one of a 1-based reading of `args[i]`.
- `CheckOutcomeUnchecked` assigns the conversion's error and never tests it.
- `WriteOrderForward` iterates each repeated field from its first element in the backward write, so lists come back reversed.
- `ReadVarintFromEarlyOverflow` reports the overflow at `shift >= 63`, one group early, rejecting every ten-byte varint.

### Bounds

The CLI runs use lists of at most `MaxLen = 2` entries. That is the least length at which a list can be longer or shorter than another, and a later entry can fail after an earlier one was appended.


Two behaviours grow without limit, and the counters cap them:

- Interest grows without bound. `MaxInterest` caps it. Interest 1 on debt 3 or 4 against collateral 5 moves each routing's ratio across its threshold (0.8 or 1.0 against 0.8, 0.72 and 0.64). `core` uses 1; `faults` uses 2.
- The sizer's re-deduction bug makes the amounts grow for as long as an auction start is delayed. `MaxSkips` bounds the delays; with 0 skips the auction module starts every sized vault in the same block.

The other bounds are chosen so the interesting cases happen:

- `MaxAuctions = 1` lets one close happen, which reaches every branch of the restoration engine. Two closes with two positions reach over a million states, and with one position a second close only passes again through branches that one close already reaches. The `sold` and `repaid` amounts are enumerated over their whole ranges.
- `MaxFailures = 1` lets one bank call fail at any of the four points.
- Collateral prices {1, 2} (core) and {1, 3} (faults) make the sell-off change sign between sizings.

### Fairness

`Spec` asserts `WF_vars(LiquidateBorrows)`. `BeginBlocker` runs in every block while the chain runs, so that is fairness the code guarantees. The auction module, the lend module and the oracle get no fairness: an auction may never close, and prices may never move.

TLC would evaluate `ENABLED LiquidateBorrows` by unfolding the whole sizing recursion in every state. On a 12-state model that did not finish in minutes. The `core` run therefore checks `LiveSpec`, which replaces the weak fairness by `SweepFairness`: infinitely often, the chain has halted, `ToLock` is empty, or a sweep takes a step. `SweepFairness` follows from `WF_vars(LiquidateBorrows)` for two reasons:

- While the chain runs, `LiquidateBorrows` is always enabled, with `NoFail` and no skipped auction start.
- From a state with a borrow to lock, every sweep step deletes that borrow or halts, so it is never a stutter.

### Deadlock

Deadlock is checked in `core`. `faults` and the violation runs set `CHECK_DEADLOCK FALSE`, because a halted chain really does stop. `codec` and the CLI runs set it too, because `Unmarshal` and a command return.

The codec has no fairness and no liveness property. Its termination is stated as the safety property `LoopAdvances`: a variant that decreases in every iteration.

## 5. Not modelled

- **Index updates** at lines 38-51 (`UpdateUserBorrowIDMapping` and so on). They are collapsed into the one set `borrowIds`. Their failure (an id left behind) is modelled. A duplicate id that the lend module's `CreteNewBorrow` may append is not: a second visit in the same sweep finds no borrow and continues, so a set gives the same sweep.
- **The wasm query structs, the cdp gRPC types and the vault message-server tests.** The first two are declarations only: plain structs, and a `Query` service with no methods. The tests exercise a keeper that is not in the repository.
- **`GenesisState.XXX_Marshal` and `GetTxCmd`.** `XXX_Marshal` writes into `b[:cap(b)]` and returns `b[:n]`. That equals `Marshal` exactly when `cap(b) = XXX_Size()`, which is the buffer the proto library always passes. `GetTxCmd` registers no subcommand and only runs cobra's `ValidateCmd`.
- **A bridged denom matching neither bridged asset** (line 190). The spec only says "whichever matches", and the model's borrows carry one of the two configured denoms.
- **Lookups whose error is ignored** at lines 20-29 and 156-213. A zero-value struct only appears if the store is inconsistent, and the model's store is always consistent.
- **64-bit widths of `TruncateInt64` and `sdk.Int`.** Amounts are small integers.
- **Risk parameters the spec rules out upstream.** With threshold 0.8, penalty 20% and bonus 5%, the sell-off denominator `1 − (1 + 0.25)·0.8` is zero. The sizing of the first locked vault then makes `numerator.Quo(denominator)` (line 242) panic and halts the chain, where spec §7 asks for a hard stop of that vault only. The model reaches this with those constants, but the runs keep parameters the spec allows. The hazard at line 241 records it.
- **The auction module's own bidding.** Only its effect on the vault is modelled (`ClosedByAuction`).
- **Codec integer widths.** The codec's 64-bit varint values and `int32(wire >> 3)` are beyond TLC's integers. The wrap of `fieldNum` and of a negative `msglen` is not reached, and these are listed as uncovered hazards. `sozGenesis` is unused by the code.

## 6. Plan for the next sittings

1. **A negative sell-off denominator:** a property for the wrong-sign sell-off, if the spec's upstream constraint on the parameters is given a home in the model.
