---------------------------- MODULE CollectorCli ----------------------------
(***************************************************************************)
(* The two governance-proposal commands of the collector CLI              *)
(* (x/collector/client/cli/tx.go): collector-lookup-params (8 arguments)  *)
(* and auction-control (4 arguments).  Each parses its arguments as       *)
(* comma-separated lists, then loops over one of them (the driver) and    *)
(* indexes the others at the loop's index with no check of their length,  *)
(* converting some elements on the way (sdk.NewDecFromStr,                *)
(* strconv.ParseBool).  It then submits the proposal.                     *)
(*                                                                         *)
(* The data is abstracted to positions: element j of argument a is the    *)
(* pair <<a, j>>.  An argument is Bad (its parse returns an error) or a   *)
(* list of len elements, of which those in bad fail their conversion.     *)
(* Arguments are numbered from 1, so args[0] of the code is argument 1.   *)
(***************************************************************************)
EXTENDS Integers, Sequences, FiniteSets

CONSTANT
  MaxLen    \* the longest comma-separated list an argument holds

ASSUME MaxLen \in Nat \ {0}

VARIABLES
  cmd,      \* "lookup" | "auction": the command being run
  args,     \* argument number -> Bad or [len, bad]
  pc,       \* "cobra" | "parse" | "context" | "loop" | "submit" | "done"
  i,        \* the loop's index, from 1
  records,  \* the records appended so far
  result    \* "none" | "err" | "panic" | "sent"

vars == <<cmd, args, pc, i, records, result>>

\* a parse that returned an error (a parsed list has at least one element)
Bad == [len |-> 0, bad |-> {}]

NArgs == [lookup |-> 8, auction |-> 4]

(***************************************************************************)
(* How each argument is parsed.  "uints": ParseUint64SliceFromString,     *)
(* which fails on any element that is not a uint64; "strings":            *)
(* ParseStringFromString, a split that cannot fail, whose elements are    *)
(* converted in the loop; "uint": a single strconv.ParseUint.             *)
(***************************************************************************)
ArgKind ==
  [lookup  |-> <<"uints", "uints", "uints", "uints", "uints", "strings", "uints", "strings">>,
   auction |-> <<"uint", "uints", "strings", "strings">>]

\* the argument the loop ranges over: appId, asset_id
Driver == [lookup |-> 1, auction |-> 2]

\* what an argument can hold after the command line is split
ArgValues(kind) ==
  CASE kind = "uint"    -> {Bad, [len |-> 1, bad |-> {}]}
    [] kind = "uints"   -> {Bad} \cup {[len |-> n, bad |-> {}] : n \in 1..MaxLen}
    [] kind = "strings" -> UNION {{[len |-> n, bad |-> B] : B \in SUBSET (1..n)} : n \in 1..MaxLen}

Len_(a) == args[a].len

Init ==
  /\ cmd \in {"lookup", "auction"}
  /\ args \in [1..NArgs[cmd] -> UNION {ArgValues(ArgKind[cmd][a]) : a \in 1..NArgs[cmd]}]
  /\ \A a \in 1..NArgs[cmd] : args[a] \in ArgValues(ArgKind[cmd][a])
  /\ pc = "cobra"
  /\ i = 1
  /\ records = <<>>
  /\ result = "none"

Return(r) == pc' = "done" /\ result' = r

\* the flags each command registers, and those marked required
Flags == {"title", "description", "deposit"}

RequiredFlags == {"title", "description"}

(***************************************************************************)
(* Before RunE, cobra checks Args: cobra.ExactArgs(n) and that every flag *)
(* marked required was given on the command line (with any value, the    *)
(* empty string included).                                                 *)
(***************************************************************************)
CobraValidate ==
  /\ pc = "cobra"
  /\ \E argc \in NArgs[cmd] - 1 .. NArgs[cmd] + 1, given \in SUBSET Flags :
       IF argc = NArgs[cmd] /\ RequiredFlags \subseteq given
         THEN pc' = "parse" /\ UNCHANGED result
         ELSE Return("err")
  /\ UNCHANGED <<cmd, args, i, records>>

\* every argument is parsed before anything else; the first error returns it
ParseArgs ==
  /\ pc = "parse"
  /\ IF \E a \in DOMAIN args : args[a] = Bad
       THEN Return("err")
       ELSE pc' = "context" /\ UNCHANGED result
  /\ UNCHANGED <<cmd, args, i, records>>

\* client.GetClientTxContext reads the client's configuration and may fail
GetClientTxContext ==
  /\ pc = "context"
  /\ \/ Return("err")
     \/ pc' = "loop" /\ UNCHANGED result
  /\ UNCHANGED <<cmd, args, i, records>>

(***************************************************************************)
(* One iteration evaluates, in the order of the code, an index into an    *)
(* argument (a panic when the list is shorter than i) and, for the        *)
(* arguments converted in the loop, the conversion of that element (an    *)
(* error return).  Checks lists the arguments in that order.              *)
(*   lookup:  bid_factor[i], lockerSavingRate[i], then the composite      *)
(*            literal's appId, collector_asset_id, secondary_asset_id,    *)
(*            surplusThreshold, debtThreshold and lot_size.               *)
(*   auction: surplus_auction[i], debt_auction[i], asset_id[i].           *)
(***************************************************************************)
LookupChecks == <<8, 6, 1, 2, 3, 4, 5, 7>>

AuctionChecks == <<3, 4, 2>>

Checks == [lookup |-> LookupChecks, auction |-> AuctionChecks]

Converted(a) == ArgKind[cmd][a] = "strings"

\* the error of a conversion assigned and never tested (mutant)
CheckOutcomeUnchecked(k, n) ==
  IF n > Len_(Checks[cmd][k]) THEN "panic" ELSE "ok"

\* the outcome of evaluating check k at index n: "panic", "err" or "ok"
CheckOutcome(k, n) ==
  LET a == Checks[cmd][k] IN
  CASE n > Len_(a)                   -> "panic"
    [] Converted(a) /\ n \in args[a].bad -> "err"
    [] OTHER                          -> "ok"

\* the first check that does not succeed, or 0
FirstFailing(n) ==
  LET failing == {k \in DOMAIN Checks[cmd] : CheckOutcome(k, n) # "ok"} IN
  IF failing = {} THEN 0
  ELSE CHOOSE k \in failing : \A k2 \in failing : k =< k2

\* the record built with a zero-based index (mutant)
LookupRecordZeroBased(n) ==
  [AppId |-> <<1, n - 1>>, CollectorAssetId |-> <<2, n - 1>>, SecondaryAssetId |-> <<3, n - 1>>,
   SurplusThreshold |-> <<4, n - 1>>, DebtThreshold |-> <<5, n - 1>>,
   LockerSavingRate |-> <<6, n - 1>>, LotSize |-> <<7, n - 1>>, BidFactor |-> <<8, n - 1>>]

\* the record built at index n: field -> the argument element it holds
LookupRecord(n) ==
  [AppId |-> <<1, n>>, CollectorAssetId |-> <<2, n>>, SecondaryAssetId |-> <<3, n>>,
   SurplusThreshold |-> <<4, n>>, DebtThreshold |-> <<5, n>>,
   LockerSavingRate |-> <<6, n>>, LotSize |-> <<7, n>>, BidFactor |-> <<8, n>>]

\* AppId is set on the enclosing record in every iteration, to app_id
AuctionRecord(n) ==
  [AppId |-> <<1, 1>>, AssetId |-> <<2, n>>,
   IsSurplusAuction |-> <<3, n>>, IsDebtAuction |-> <<4, n>>]

Record(n) == IF cmd = "lookup" THEN LookupRecord(n) ELSE AuctionRecord(n)

LoopStep ==
  /\ pc = "loop"
  /\ i =< Len_(Driver[cmd])
  /\ LET k == FirstFailing(i) IN
       IF k = 0
         THEN /\ records' = Append(records, Record(i))
              /\ i' = i + 1
              /\ UNCHANGED <<pc, result>>
         ELSE /\ Return(CheckOutcome(k, i))
              /\ UNCHANGED <<i, records>>
  /\ UNCHANGED <<cmd, args>>

LoopExit ==
  /\ pc = "loop"
  /\ i > Len_(Driver[cmd])
  /\ pc' = "submit"
  /\ UNCHANGED <<cmd, args, i, records, result>>

(***************************************************************************)
(* MsgSubmitProposal.ValidateBasic of the gov module: a non-empty         *)
(* proposer, and content with a non-empty title and description.  The    *)
(* deposit reaching it was parsed by ParseCoinsNormalized, so it is       *)
(* valid (the empty string is no coins).                                  *)
(***************************************************************************)
ValidateBasic(m) == m.proposer # "" /\ m.title # "" /\ m.description # ""

(***************************************************************************)
(* After the loop: the title, description and deposit flags (an absent   *)
(* optional flag reads as ""), the --from address (empty when none is     *)
(* configured), ParseCoinsNormalized of the deposit, the proposal,        *)
(* ValidateBasic, then GenerateOrBroadcastTxCLI, which may fail.          *)
(***************************************************************************)
Submit ==
  /\ pc = "submit"
  /\ \E title \in {"", "text"}, description \in {"", "text"},
       deposit \in {"", "coins", "malformed"}, from \in {"", "addr"},
       broadcastOk \in BOOLEAN :
       LET m == [title |-> title, description |-> description,
                 proposer |-> from]
       IN  Return(IF deposit # "malformed" /\ ValidateBasic(m) /\ broadcastOk
                  THEN "sent" ELSE "err")
  /\ UNCHANGED <<cmd, args, i, records>>

Next == CobraValidate \/ ParseArgs \/ GetClientTxContext \/ LoopStep \/ LoopExit \/ Submit

Spec == Init /\ [][Next]_vars

-----------------------------------------------------------------------------
Elements(a) == {<<a, n>> : n \in 1..MaxLen}

TypeOK ==
  /\ cmd \in {"lookup", "auction"}
  /\ pc \in {"cobra", "parse", "context", "loop", "submit", "done"}
  /\ i \in 1..MaxLen + 1
  /\ result \in {"none", "err", "panic", "sent"}
  /\ \A n \in DOMAIN records :
       \A f \in DOMAIN records[n] :
         records[n][f] \in UNION {Elements(a) : a \in DOMAIN args}

(***************************************************************************)
(* The positional reading of each command's usage line, e.g.              *)
(* "collector-lookup-params [app-id] [collector_asset_id] ...": the field *)
(* each argument fills.                                                   *)
(***************************************************************************)
UsageArg ==
  [lookup  |-> [AppId |-> 1, CollectorAssetId |-> 2, SecondaryAssetId |-> 3,
                SurplusThreshold |-> 4, DebtThreshold |-> 5,
                LockerSavingRate |-> 6, LotSize |-> 7, BidFactor |-> 8],
   auction |-> [AppId |-> 1, AssetId |-> 2, IsSurplusAuction |-> 3,
                IsDebtAuction |-> 4]]

(***************************************************************************)
(* SentProposalIsZip: a proposal the command sends holds one record per   *)
(* entry of the driver list; record n holds entry n of every list         *)
(* argument in the field its position in the usage line names (app_id,    *)
(* a single value, in every auction record); and no element it holds     *)
(* failed its conversion.                                                 *)
(***************************************************************************)
SentProposalIsZip ==
  result = "sent" =>
    /\ Len(records) = Len_(Driver[cmd])
    /\ \A n \in 1..Len(records) :
         /\ DOMAIN records[n] = DOMAIN UsageArg[cmd]
         /\ \A f \in DOMAIN UsageArg[cmd] :
              LET a == UsageArg[cmd][f]
                  e == records[n][f]
              IN /\ e[1] = a
                 /\ e[2] = IF ArgKind[cmd][a] = "uint" THEN 1 ELSE n
                 /\ ArgKind[cmd][a] = "strings" => e[2] \notin args[a].bad

(***************************************************************************)
(* NeverPanics: the command returns an error on any input it cannot use, *)
(* as a cobra RunE does, and never panics.                                 *)
(***************************************************************************)
NeverPanics == result # "panic"
====
