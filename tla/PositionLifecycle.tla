------------------------- MODULE PositionLifecycle -------------------------
(***************************************************************************)
(* What the liquidation engine promises a lending position, with the      *)
(* sizing arithmetic, the bank calls and the auction left out (spec §2,   *)
(* §4.2 and §4.5).  A position is an open borrow or locked in a vault.    *)
(* Interest and prices move some open positions into or out of risk; the  *)
(* sweep of a block locks positions at risk and nothing else; a closed    *)
(* auction may turn a locked position back into an open borrow that is    *)
(* not at risk.  A panic halts the chain and nothing happens after it.    *)
(***************************************************************************)
CONSTANT Pos

VARIABLES
  phase,   \* position -> "open" | "locked"
  risky,   \* open positions whose ratio exceeds their threshold
  halted   \* the chain halted

avars == <<phase, risky, halted>>

Open == {p \in Pos : phase[p] = "open"}

TypeOK ==
  /\ phase \in [Pos -> {"open", "locked"}]
  /\ risky \subseteq Open
  /\ halted \in BOOLEAN

Init ==
  /\ phase = [p \in Pos |-> "open"]
  /\ risky \in SUBSET Pos
  /\ halted = FALSE

\* a sweep locks some of the positions at risk, and no other
Sweep ==
  /\ ~halted
  /\ \E locked \in SUBSET risky \ {{}} :
       /\ phase' = [p \in Pos |-> IF p \in locked THEN "locked" ELSE phase[p]]
       /\ risky' = risky \ locked
  /\ UNCHANGED halted

\* interest accrues or prices move: open positions enter or leave risk
Drift ==
  /\ ~halted
  /\ risky' \in SUBSET Open
  /\ risky' # risky
  /\ UNCHANGED <<phase, halted>>

\* an auction closes with the position healthy: it is open again, not at risk
Reopen(p) ==
  /\ ~halted
  /\ phase[p] = "locked"
  /\ phase' = [phase EXCEPT ![p] = "open"]
  /\ UNCHANGED <<risky, halted>>

Halt ==
  /\ ~halted
  /\ halted' = TRUE
  /\ UNCHANGED <<phase, risky>>

Next == Sweep \/ Drift \/ Halt \/ \E p \in Pos : Reopen(p)

\* the safety part: the steps a position may take
SafeSpec == Init /\ [][Next]_avars

\* a sweep runs in every block
Spec == SafeSpec /\ WF_avars(Sweep)

(***************************************************************************)
(* UnhealthyEventuallyLocked: a position at risk is eventually locked,    *)
(* unless it leaves risk first or the chain halts.                        *)
(***************************************************************************)
UnhealthyEventuallyLocked ==
  \A p \in Pos : p \in risky ~> (p \notin risky \/ halted)
====
