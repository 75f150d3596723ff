---------------------------- MODULE EscrowPolicy ----------------------------
(***************************************************************************)
(* What the escrow manager (crates/bin/escrow_manager) decides in a cycle: *)
(* the balance it wants for a debt, the one action it takes for a          *)
(* receiver, and how it cuts a set of deposits down to the cap of a cycle. *)
(*                                                                         *)
(* Amounts are in any unit.  The two floating point factors of the         *)
(* configuration are fractions.  Receivers are numbers: a BTreeMap keeps   *)
(* addresses in order, and the cap is spent in that order.                 *)
(***************************************************************************)
EXTENDS Integers, FiniteSets, Functions

CONSTANTS
    MinDeposit,             \* MIN_DEPOSIT
    MaxAdjustment,          \* MAX_ADJUSTMENT
    Round,                  \* the 100 GRT reduce_adjustments adds at a time
    FillNum, FillDen,       \* balance_fill_factor
    MarginNum, MarginDen,   \* withdraw_margin
    MinWithdraw             \* min_withdraw_grt

ASSUME PolicyAssumption ==
    /\ MinDeposit \in Nat \ {0} /\ MaxAdjustment \in Nat \ {0}
    /\ Round \in Nat \ {0} /\ MinWithdraw \in Nat
    /\ FillNum \in Nat \ {0} /\ FillDen \in Nat /\ FillNum <= FillDen
    /\ MarginNum \in Nat /\ MarginDen \in Nat \ {0} /\ MarginNum <= MarginDen

Lower(a, b) == IF a <= b THEN a ELSE b
Higher(a, b) == IF a >= b THEN a ELSE b

(* The step after a balance: double, or MAX_ADJUSTMENT more.               *)
NextRound(balance) == balance + Lower(balance, MaxAdjustment)

(* Mutant: a debt that fills a step exactly stays with it.                 *)
next_balance_filled(debt) ==
    LET from[balance \in Nat] ==
            IF debt * FillDen > balance * FillNum
            THEN from[NextRound(balance)]
            ELSE balance
    IN  from[MinDeposit]

(* The first step whose fill factor the debt does not reach.               *)
next_balance(debt) ==
    LET from[balance \in Nat] ==
            IF debt * FillDen >= balance * FillNum
            THEN from[NextRound(balance)]
            ELSE balance
    IN  from[MinDeposit]

-----------------------------------------------------------------------------
(* An account of PaymentsEscrow.  thaw_left is thaw_end_timestamp minus    *)
(* the latest block's timestamp, which is all the code compares.           *)
EffectiveBalance(account) == Higher(account.balance - account.thawing, 0)

(* Mutant: what is thawing counts as coverage.                             *)
ShortfallOfBalance(account, target) == Higher(target - account.balance, 0)

(* Mutant: less than the minimal deposit is not worth a deposit.           *)
ShortfallIfLarge(account, target) ==
    IF target - EffectiveBalance(account) >= MinDeposit
    THEN target - EffectiveBalance(account) ELSE 0

Shortfall(account, target) == Higher(target - EffectiveBalance(account), 0)

Nothing         == [kind |-> "nothing",  amount |-> 0]
Withdraw        == [kind |-> "withdraw", amount |-> 0]
Deposit(amount) == [kind |-> "deposit",  amount |-> amount]
Thaw(amount)    == [kind |-> "thaw",     amount |-> amount]

(* The reclamation policy of a cycle; clock: chain_now could be read.      *)
Reclaims == [enabled : BOOLEAN, clock : BOOLEAN]

(* Mutant: a thaw that ends now counts as matured.                         *)
MaturedAtTheEnd(account, reclaim) ==
    reclaim.enabled /\ reclaim.clock /\ account.thawing > 0 /\ account.thaw_left <= 0

Matured(account, reclaim) ==
    reclaim.enabled /\ reclaim.clock /\ account.thawing > 0 /\ account.thaw_left < 0

(* What a balance exceeds the target and its margin by.                    *)
Excess(account, target) ==
    Higher(account.balance - (target + (target * MarginNum) \div MarginDen), 0)

(* Mutant: a running thaw is resized.                                      *)
ReclaimableAlways(account, target, reclaim) ==
    /\ reclaim.enabled
    /\ Excess(account, target) > 0
    /\ Excess(account, target) >= MinWithdraw

Reclaimable(account, target, reclaim) ==
    /\ reclaim.enabled
    /\ account.thawing = 0
    /\ Excess(account, target) > 0
    /\ Excess(account, target) >= MinWithdraw

decide(account, target, reclaim) ==
    CASE Matured(account, reclaim) -> Withdraw
      [] ~Matured(account, reclaim) /\ Shortfall(account, target) > 0 ->
            Deposit(Shortfall(account, target))
      [] ~Matured(account, reclaim) /\ Shortfall(account, target) = 0
            /\ Reclaimable(account, target, reclaim) ->
            Thaw(Excess(account, target))
      [] OTHER -> Nothing

-----------------------------------------------------------------------------
(* The receivers after r, and then the first one again.                    *)
NextReceiver(receivers, r) ==
    LET later == {s \in receivers : s > r}
        first(S) == CHOOSE s \in S : \A t \in S : s <= t
    IN  IF later = {} THEN first(receivers) ELSE first(later)

(* Mutant of Raise: a receiver gets all it lacks at once.                  *)
RaiseFully(adjustments, desired, r) ==
    [adjustments EXCEPT ![r] = Higher(@, desired[r])]

Raise(adjustments, desired, r) ==
    IF adjustments[r] < desired[r]
    THEN [adjustments EXCEPT ![r] = Lower(desired[r], @ + Round)]
    ELSE adjustments

(* Rounds over the receivers in order: each is raised toward what it       *)
(* should have, until the sum reaches the cap.                             *)
reduce_adjustments(desired) ==
    LET receivers == DOMAIN desired
        reduced[at \in [adjustments : [receivers -> Nat], next : receivers]] ==
            LET raised == Raise(at.adjustments, desired, at.next)
            IN  IF SumFunction(raised) >= MaxAdjustment
                THEN raised
                ELSE reduced[[adjustments |-> raised,
                              next |-> NextReceiver(receivers, at.next)]]
    IN  reduced[[adjustments |-> [r \in receivers |-> MinDeposit],
                 next |-> CHOOSE r \in receivers : \A s \in receivers : r <= s]]

DepositsUncapped(adjustments) == adjustments   \* mutant of Deposits

(* The deposits of a cycle, capped only when they exceed the cap.          *)
Deposits(adjustments) ==
    IF SumFunction(adjustments) <= MaxAdjustment THEN adjustments
                                                 ELSE reduce_adjustments(adjustments)
=============================================================================
