--------------------------- MODULE EscrowManager ---------------------------
(***************************************************************************)
(* The escrow manager's loop (crates/bin/escrow_manager/src/main.rs and    *)
(* contracts.rs), with what it talks to: the PaymentsEscrow contract, the  *)
(* network subgraph that follows it, and the debts published by the Kafka  *)
(* consumers.                                                              *)
(*                                                                         *)
(* A cycle reads the accounts from the subgraph, then the debts, then the  *)
(* chain's clock, plans one action for each receiver, and sends at most    *)
(* three transactions one after the other: thaws, deposits, withdrawals.   *)
(* Each waits 30 seconds for its receipt: the transaction may land later.  *)
(* Receivers collect, time passes, and the process may be restarted at     *)
(* every await.                                                            *)
(*                                                                         *)
(* Before its loop the process authorizes its signers and raises its       *)
(* allowance.  An error there makes it exit, and it is started again.      *)
(*                                                                         *)
(* The subgraph may lag: it answers with the accounts of some recent block *)
(* no older than the block the client is pinned to.  blocks holds the      *)
(* recent blocks, the latest first, and a block is named by its age, the   *)
(* number of blocks after it.                                              *)
(***************************************************************************)
EXTENDS EscrowPolicy, Sequences

CONSTANTS
    Receivers,       \* indexers with an active allocation or an account
    Debts,           \* debts the Kafka consumers may publish
    ConfigDebts,     \* Config.debts, the manual floor of each receiver
    Signers,         \* the signers to authorize: none unless authorize_signers
    Reclaiming,      \* withdraw_enabled
    GrtAllowance,    \* grt_allowance
    Unlimited,       \* whether deposits are too small to count against it
    ThawPeriod,      \* the contract's thawing period, in clock ticks
    MaxLag,          \* the subgraph is at most this many blocks behind
    Unreliable,      \* whether RPC calls may fail, or answer too late
    MaxPending,      \* bound: transactions waiting to be mined
    MaxRestarts,     \* bound: restarts of the process
    MaxCollects,     \* bound: collections by receivers
    Collections      \* amounts a receiver may collect at once

ASSUME EscrowAssumption ==
    /\ IsFiniteSet(Receivers) /\ Receivers \subseteq Nat /\ Receivers # {}
    /\ Debts \subseteq Nat /\ 0 \in Debts
    /\ ConfigDebts \in [Receivers -> Nat]
    /\ {Reclaiming, Unlimited, Unreliable} \subseteq BOOLEAN
    /\ {GrtAllowance, ThawPeriod, MaxLag, MaxPending, MaxRestarts,
        MaxCollects} \subseteq Nat
    /\ Collections \subseteq Nat \ {0}

VARIABLES
    blocks,     \* escrow accounts as of the recent blocks
    allowance,  \* GRT the contract may still take from the payer
    authorized, \* signers authorized at the collector
    mempool,    \* the payer's transactions that have not landed, by nonce
    landed,     \* age of the block of the payer's last multicall
    debts,      \* the published debts, receipts and RAVs
    pin,        \* age of the block the subgraph client is pinned to
    cycle,      \* the cycle under way
    restarts, collects

chain == <<blocks, allowance, authorized, mempool, landed>>
vars  == <<chain, debts, pin, cycle, restarts, collects>>

Ages   == 0 .. MaxLag
Beyond == MaxLag + 1          \* older than any block the subgraph serves
Latest   == blocks[1]

NoAccount == [balance |-> 0, thawing |-> 0, thaw_left |-> 0]

Batches == <<"thaw", "deposit", "withdraw">>

Idle == [pc |-> "idle", accounts |-> [r \in Receivers |-> NoAccount],
         targets |-> [r \in Receivers |-> 0],
         reclaim |-> [enabled |-> FALSE, clock |-> FALSE],
         plan |-> [r \in Receivers |-> Nothing],
         waiting |-> FALSE, latest_tx |-> Beyond, signers |-> {}]

(* The start of main, up to its first await.                               *)
Starting == [Idle EXCEPT !.pc = IF Signers = {} THEN "allowance" ELSE "signers"]

Init ==
    /\ blocks = [i \in 1 .. Beyond |-> [r \in Receivers |-> NoAccount]]
    /\ allowance = 0
    /\ authorized = {}
    /\ mempool = <<>>
    /\ landed = Beyond
    /\ debts = [r \in Receivers |-> 0]
    /\ pin = Beyond
    /\ cycle = Starting
    /\ restarts = 0
    /\ collects = 0

(***************************************************************************)
(* The chain.  A block is mined for each change, and every block ages the  *)
(* ones before it.                                                         *)
(***************************************************************************)
Older(age) == Lower(age + 1, Beyond)

Mine(accounts) == blocks' = <<accounts>> \o SubSeq(blocks, 1, MaxLag)

AgeMarks(c) == [c EXCEPT !.latest_tx = Older(@)]

(* What a contract requires of a call, the latest block being `accounts'.  *)
Allows(accounts, kind, r, amount) ==
    CASE kind = "authorize" -> r \notin authorized
      [] kind = "deposit"  -> amount > 0
      [] kind = "thaw"     -> 0 < amount /\ amount <= accounts[r].balance
      [] kind = "withdraw" -> accounts[r].thawing > 0 /\ accounts[r].thaw_left < 0

(* One call that fails makes the whole multicall fail.                     *)
Executes(tx) ==
    /\ \A r \in DOMAIN tx.calls : Allows(Latest, tx.kind, r, tx.calls[r])
    /\ tx.kind = "deposit" => SumFunction(tx.calls) <= allowance

AfterCall(account, kind, amount) ==
    CASE kind = "deposit"  -> [account EXCEPT !.balance = @ + amount]
      [] kind = "thaw"     -> [account EXCEPT !.thawing = amount,
                                              !.thaw_left = ThawPeriod]
      [] kind = "withdraw" ->
            [NoAccount EXCEPT !.balance =
                account.balance - Lower(account.thawing, account.balance)]
      [] kind = "authorize" -> account

AfterTransaction(accounts, tx) ==
    [r \in Receivers |->
        IF r \in DOMAIN tx.calls
        THEN AfterCall(accounts[r], tx.kind, tx.calls[r])
        ELSE accounts[r]]

AllowanceAfter(tx) ==
    CASE tx.kind = "approve" -> GrtAllowance
      [] tx.kind = "deposit" /\ ~Unlimited -> allowance - SumFunction(tx.calls)
      [] OTHER -> allowance

(* The payer's next transaction is mined; it may revert.                   *)
TransactionLands ==
    /\ mempool # <<>>
    /\ LET tx == mempool[1]
       IN  /\ IF Executes(tx)
              THEN /\ Mine(AfterTransaction(Latest, tx))
                   /\ allowance' = AllowanceAfter(tx)
                   /\ authorized' = IF tx.kind = "authorize"
                                    THEN authorized \cup DOMAIN tx.calls
                                    ELSE authorized
              ELSE Mine(Latest) /\ UNCHANGED <<allowance, authorized>>
           /\ landed' = IF tx.kind \in Range(Batches) THEN 0 ELSE Older(landed)
    /\ mempool' = Tail(mempool)
    /\ pin' = Older(pin)
    /\ cycle' = AgeMarks(cycle)
    /\ UNCHANGED <<debts, restarts, collects>>

(* A receiver redeems a RAV.  A thaw never exceeds the balance.            *)
Collect(r, tokens) ==
    /\ collects < MaxCollects
    /\ tokens <= Latest[r].balance
    /\ LET balance == Latest[r].balance - tokens
           thawing == Lower(Latest[r].thawing, balance)
       IN  Mine([Latest EXCEPT ![r] =
               [balance |-> balance, thawing |-> thawing,
                thaw_left |-> IF thawing = 0 THEN 0 ELSE @.thaw_left]])
    /\ collects' = collects + 1
    /\ landed' = Older(landed)
    /\ pin' = Older(pin)
    /\ cycle' = AgeMarks(cycle)
    /\ UNCHANGED <<allowance, authorized, mempool, debts, restarts>>

(* A block of other transactions, one tick later.  Times are relative, so  *)
(* they come closer wherever they are remembered.                          *)
Closer(accounts) ==
    [r \in Receivers |->
        IF accounts[r].thawing > 0
        THEN [accounts[r] EXCEPT !.thaw_left = Higher(@ - 1, -1)]
        ELSE accounts[r]]

Tick ==
    /\ LET recent == [i \in 1 .. Beyond |-> Closer(blocks[i])]
       IN  blocks' = <<recent[1]>> \o SubSeq(recent, 1, MaxLag)
    /\ landed' = Older(landed)
    /\ pin' = Older(pin)
    /\ cycle' = AgeMarks([cycle EXCEPT !.accounts = Closer(@)])
    /\ UNCHANGED <<allowance, authorized, mempool, debts, restarts, collects>>

(***************************************************************************)
(* Startup.  What is unlisted is authorized, one signer after the other,   *)
(* and errors there are only logged; an error with the allowance is final. *)
(***************************************************************************)
InStartup == cycle.pc \in {"signers", "authorize", "allowance", "approve"}

(* Signers left to authorize, or else the allowance is next.               *)
Authorizing(signers) ==
    [Idle EXCEPT !.pc = IF signers = {} THEN "allowance" ELSE "authorize",
                 !.signers = signers]

(* authorized_signers answers; a lagging subgraph may miss some.           *)
ReadSigners(listed) ==
    /\ cycle.pc = "signers"
    /\ listed \subseteq authorized
    /\ MaxLag = 0 => listed = authorized
    /\ cycle' = Authorizing(Signers \ listed)
    /\ UNCHANGED <<chain, debts, pin, restarts, collects>>

NextSigner == CHOOSE signer \in cycle.signers : TRUE

StartupTransaction ==
    [kind |-> cycle.pc,
     calls |-> [address \in IF cycle.pc = "authorize" THEN {NextSigner} ELSE {} |-> 0]]

(* authorize_signer and approve.                                           *)
SendAtStartup ==
    /\ cycle.pc \in {"authorize", "approve"}
    /\ ~cycle.waiting
    /\ Len(mempool) < MaxPending
    /\ Executes(StartupTransaction)
    /\ mempool' = Append(mempool, StartupTransaction)
    /\ cycle' = [cycle EXCEPT !.waiting = TRUE]
    /\ UNCHANGED <<blocks, allowance, authorized, landed, debts, pin, restarts, collects>>

Approve == SendAtStartup /\ cycle.pc = "approve"

(* The watch ends, in time or not, or the transaction was not sent at all: *)
(* the outcome is logged.                                                  *)
SignerDone ==
    /\ cycle.pc = "authorize"
    /\ \/ Unreliable
       \/ IF cycle.waiting THEN mempool = <<>> ELSE ~Executes(StartupTransaction)
    /\ cycle' = Authorizing(cycle.signers \ {NextSigner})
    /\ UNCHANGED <<chain, debts, pin, restarts, collects>>

(* Mutant: an allowance that is just enough is approved anew.              *)
ShortOrEqual(granted) == granted <= GrtAllowance

Short(granted) == granted < GrtAllowance

ReadAllowance ==
    /\ cycle.pc = "allowance"
    /\ cycle' = IF Short(allowance) THEN [Idle EXCEPT !.pc = "approve"] ELSE Idle
    /\ UNCHANGED <<chain, debts, pin, restarts, collects>>

Approved ==
    /\ cycle.pc = "approve"
    /\ cycle.waiting
    /\ mempool = <<>>
    /\ cycle' = Idle
    /\ UNCHANGED <<chain, debts, pin, restarts, collects>>

(* Mutant: the approval is not waited for to the end.                      *)
StartUnapproved ==
    /\ InStartup /\ cycle.pc # "authorize"
    /\ Unreliable
    /\ cycle' = IF cycle.pc = "approve" THEN Idle ELSE Starting
    /\ UNCHANGED <<chain, debts, pin, restarts, collects>>

(* A query fails, the approval is refused, or not mined in 30 seconds: main*)
(* returns the error, and the process is started again.                    *)
ExitAtStartup ==
    /\ InStartup /\ cycle.pc # "authorize"
    /\ Unreliable
    /\ cycle' = Starting
    /\ UNCHANGED <<chain, debts, pin, restarts, collects>>

(* The Kafka consumers, started after that, publish a debt.                *)
Publish(r, debt) ==
    /\ ~InStartup
    /\ debts' = [debts EXCEPT ![r] = debt]
    /\ UNCHANGED <<chain, pin, cycle, restarts, collects>>

(***************************************************************************)
(* A cycle.                                                                *)
(***************************************************************************)
debt_ready == \E r \in Receivers : debts[r] > 0

Target(r) == next_balance(Higher(debts[r], ConfigDebts[r]))

(* Mutant: the pin is not sent with the query.                             *)
ReadAnyAccounts(age) ==
    /\ cycle.pc = "idle"
    /\ cycle' = [Idle EXCEPT
            !.pc = "clock",
            !.accounts = blocks[age + 1],
            !.targets = [r \in Receivers |-> Target(r)],
            !.reclaim = [enabled |-> Reclaiming /\ debt_ready, clock |-> FALSE]]
    /\ UNCHANGED <<chain, debts, pin, restarts, collects>>

(* escrow_accounts answers; the debts are read before the next await.  A   *)
(* failed query leaves the loop where it was.                              *)
ReadAccounts(age) ==
    /\ cycle.pc = "idle"
    /\ age <= pin
    /\ cycle' = [Idle EXCEPT
            !.pc = "clock",
            !.accounts = blocks[age + 1],
            !.targets = [r \in Receivers |-> Target(r)],
            !.reclaim = [enabled |-> Reclaiming /\ debt_ready, clock |-> FALSE]]
    /\ UNCHANGED <<chain, debts, pin, restarts, collects>>

Planned(c) == [r \in Receivers |-> decide(c.accounts[r], c.targets[r], c.reclaim)]

Calls(plan, kind) ==
    LET calls == [r \in {s \in Receivers : plan[s].kind = kind} |-> plan[r].amount]
    IN  IF kind = "deposit" THEN Deposits(calls) ELSE calls

(* Mutant: empty batches are sent as well.                                 *)
ProceedToNext(c, done) ==
    [c EXCEPT !.waiting = FALSE, !.pc = IF done = 3 THEN "pin" ELSE Batches[done + 1]]

(* Where the cycle goes from one of its batches, or from its plan: empty   *)
(* batches are skipped.                                                    *)
Proceed(c, done) ==
    LET left == {i \in done + 1 .. 3 : DOMAIN Calls(c.plan, Batches[i]) # {}}
    IN  [c EXCEPT
            !.waiting = FALSE,
            !.pc = IF left = {} THEN "pin"
                   ELSE Batches[CHOOSE i \in left : \A j \in left : i <= j]]

(* latest_block_timestamp answers, or not, and the cycle is planned.       *)
ReadClock(answers) ==
    /\ cycle.pc = "clock"
    /\ LET read == [cycle EXCEPT !.reclaim.clock = answers]
       IN  cycle' = Proceed([Idle EXCEPT !.reclaim = read.reclaim,
                                         !.plan = Planned(read),
                                         !.targets = cycle.targets], 0)
    /\ UNCHANGED <<chain, debts, pin, restarts, collects>>

Sending(i) == cycle.pc = Batches[i] /\ ~cycle.waiting

Transaction(i) == [kind |-> Batches[i], calls |-> Calls(cycle.plan, Batches[i])]

(* A transaction that would revert now is refused before it is sent.       *)
SendBatch(i) ==
    /\ Sending(i)
    /\ Len(mempool) < MaxPending
    /\ Executes(Transaction(i))
    /\ mempool' = Append(mempool, Transaction(i))
    /\ cycle' = [cycle EXCEPT !.waiting = TRUE]
    /\ UNCHANGED <<blocks, allowance, authorized, landed, debts, pin, restarts, collects>>

BatchRefused(i) ==
    /\ Sending(i)
    /\ ~Executes(Transaction(i)) \/ Unreliable
    /\ cycle' = Proceed(cycle, i)
    /\ UNCHANGED <<chain, debts, pin, restarts, collects>>

Waiting(i) == cycle.pc = Batches[i] /\ cycle.waiting

(* Nonces are in order, so the transaction waited for is the last one.     *)
ReceiptArrives(i) ==
    /\ Waiting(i)
    /\ mempool = <<>>
    /\ cycle' = Proceed([cycle EXCEPT !.latest_tx = landed], i)
    /\ UNCHANGED <<chain, debts, pin, restarts, collects>>

ReceiptTimesOut(i) ==
    /\ Waiting(i)
    /\ Unreliable
    /\ cycle' = Proceed(cycle, i)
    /\ UNCHANGED <<chain, debts, pin, restarts, collects>>

(* Mutant: the client is not rebuilt.                                      *)
EndUnpinned ==
    /\ cycle.pc = "pin"
    /\ cycle' = Idle
    /\ UNCHANGED <<chain, debts, pin, restarts, collects>>

(* The subgraph client is rebuilt when a receipt was seen.                 *)
EndCycle ==
    /\ cycle.pc = "pin"
    /\ pin' = Lower(pin, cycle.latest_tx)
    /\ cycle' = Idle
    /\ UNCHANGED <<chain, debts, restarts, collects>>

(* The process exits and starts again: a new subgraph client, and no debts *)
(* read yet.                                                               *)
Restart ==
    /\ restarts < MaxRestarts
    /\ restarts' = restarts + 1
    /\ debts' = [r \in Receivers |-> 0]
    /\ pin' = Beyond
    /\ cycle' = Starting
    /\ UNCHANGED <<chain, collects>>

Next ==
    \/ TransactionLands
    \/ \E r \in Receivers : \E tokens \in Collections : Collect(r, tokens)
    \/ Tick
    \/ \E listed \in SUBSET Signers : ReadSigners(listed)
    \/ SendAtStartup
    \/ SignerDone
    \/ ReadAllowance
    \/ Approved
    \/ ExitAtStartup
    \/ \E r \in Receivers : \E debt \in Debts : Publish(r, debt)
    \/ \E age \in Ages : ReadAccounts(age)
    \/ \E answers \in BOOLEAN : ReadClock(answers)
    \/ \E i \in 1 .. 3 :
          SendBatch(i) \/ BatchRefused(i) \/ ReceiptArrives(i) \/ ReceiptTimesOut(i)
    \/ EndCycle
    \/ Restart

Spec == Init /\ [][Next]_vars

(***************************************************************************)
(* Fairness.  Blocks are mined, the payer's transactions among them; the   *)
(* loop keeps running; the clock can be read and a transaction can be sent *)
(* again and again.  Receipts may be late every time, the subgraph may     *)
(* always answer with its oldest block, and nobody owes a restart.  At     *)
(* startup a query or the approval may fail, but not every time.  Restarts *)
(* are few and nothing else leads from the loop back to the startup, so a  *)
(* step of the loop and one of the startup can share a condition: it holds *)
(* of the disjunction exactly when it holds of both.                       *)
(***************************************************************************)
Fairness ==
    /\ WF_vars(TransactionLands)
    /\ WF_vars(Tick)
    /\ WF_vars(\E age \in Ages : ReadAccounts(age))
    /\ SF_vars(ReadClock(TRUE) \/ ReadAllowance)
    /\ SF_vars(SendBatch(1) \/ Approve)
    /\ SF_vars(SendBatch(2) \/ \E listed \in SUBSET Signers : ReadSigners(listed))
    /\ SF_vars(SendBatch(3))
    /\ \A i \in 1 .. 3 :
          /\ WF_vars(BatchRefused(i))
          /\ WF_vars(ReceiptArrives(i) \/ ReceiptTimesOut(i))
    /\ WF_vars(EndCycle \/ SignerDone \/ Approved \/ ExitAtStartup)

FairSpec == Spec /\ Fairness

-----------------------------------------------------------------------------
Account == [balance : Nat, thawing : Nat, thaw_left : -1 .. ThawPeriod]

Step == [kind : {"nothing", "withdraw", "deposit", "thaw"}, amount : Nat]

(* The shape of the state.  A thaw never exceeds its account's balance.    *)
TypeOK ==
    /\ Len(blocks) = Beyond
    /\ \A i \in 1 .. Beyond : \A r \in Receivers :
          /\ blocks[i][r] \in Account
          /\ blocks[i][r].thawing <= blocks[i][r].balance
    /\ allowance \in Nat
    /\ authorized \subseteq Signers
    /\ Len(mempool) <= MaxPending
    /\ \A i \in 1 .. Len(mempool) :
          \/ \E kind \in Range(Batches), receivers \in (SUBSET Receivers) \ {{}} :
                mempool[i] \in [kind : {kind}, calls : [receivers -> Nat]]
          \/ \E signer \in Signers :
                mempool[i] = [kind |-> "authorize", calls |-> [s \in {signer} |-> 0]]
          \/ mempool[i] = [kind |-> "approve", calls |-> [s \in {} |-> 0]]
    /\ landed \in 0 .. Beyond
    /\ debts \in [Receivers -> Debts]
    /\ pin \in 0 .. Beyond
    /\ InStartup \/ cycle.pc \in {"idle", "clock", "pin"} \cup Range(Batches)
    /\ cycle.signers \subseteq Signers
    /\ cycle.accounts \in [Receivers -> Account]
    /\ cycle.targets \in [Receivers -> Nat]
    /\ cycle.reclaim \in Reclaims
    /\ cycle.plan \in [Receivers -> Step]
    /\ cycle.waiting \in BOOLEAN
    /\ cycle.latest_tx \in 0 .. Beyond
    /\ restarts \in 0 .. MaxRestarts
    /\ collects \in 0 .. MaxCollects

(* "Whenever a transaction lands, track the block number.  We use this to  *)
(* pin the network subgraph snapshot so the decision algorithm does not    *)
(* operate on stale data" (main.rs:385): a cycle plans on the accounts of  *)
(* a block no older than the payer's own last transaction.                 *)
NeverPlansOnStaleData ==
    [][ cycle.pc = "idle" /\ cycle'.pc = "clock" =>
            \E age \in Ages : age <= landed /\ cycle'.accounts = blocks[age + 1]]_vars

(* A deposit takes the effective balance up to the target, and past it by  *)
(* less than the minimal deposit that a reduced adjustment starts from.    *)
(* The deposit was sized on an older block and other debts, and receivers  *)
(* collected since; only the payer's own earlier deposits could overshoot. *)
DepositsStopAtTarget ==
    [][\A r \in Receivers : Latest'[r].balance > Latest[r].balance =>
          EffectiveBalance(Latest'[r]) < cycle.targets[r] + MinDeposit]_vars

(* "Only ever called for receivers with nothing currently thawing.  `thaw' *)
(* restarts the thawing period on every call" (contracts.rs:165): a thaw   *)
(* under way only comes closer to its end, and only shrinks.               *)
ThawsStartFromNothing ==
    [][\A r \in Receivers : Latest[r].thawing > 0 /\ Latest'[r].thawing > 0 =>
          /\ Latest'[r].thawing <= Latest[r].thawing
          /\ Latest'[r].thaw_left <= Latest[r].thaw_left]_vars

(* "Callers must only include receivers whose thaw has definitely matured" *)
(* (contracts.rs:207): a withdrawal is never about to be sent, or waiting  *)
(* to be mined, for a thaw that is still running, which would fail the     *)
(* withdrawals of every other receiver with it.                            *)
WithdrawsOnlyMatured ==
    \A r \in Receivers :
        cycle.pc = "withdraw" /\ cycle.plan[r].kind = "withdraw"
            /\ Latest[r].thawing > 0
        => Latest[r].thaw_left < 0

(* A receiver to which a cycle plans no deposit and no withdrawal is       *)
(* covered when the cycle ends, though the cycle read accounts of an older *)
(* block, counted on escrow that thaws, or thawed some itself.  Only a     *)
(* collection in between excuses it.                                       *)
NobodyIsLeftShort ==
    cycle.pc = "pin" /\ collects = 0 =>
        \A r \in Receivers :
            cycle.plan[r].kind \in {"nothing", "thaw"} =>
                EffectiveBalance(Latest[r]) >= cycle.targets[r]

(* The target is a step above the debt, and a tight one: the step below is *)
(* half of it, or MAX_ADJUSTMENT less, and the debt fills that up, if only *)
(* just (next_balance, main.rs:505).                                       *)
TargetIsTight ==
    \A r \in Receivers :
        LET debt   == Higher(debts[r], ConfigDebts[r])
            target == Target(r)
            below  == Higher(target \div 2, target - MaxAdjustment)
        IN  /\ debt * FillDen < target * FillNum
            /\ target = MinDeposit \/ debt * FillDen >= below * FillNum

(* What the cycle wants to deposit, and what it does deposit.              *)
Wanted == [r \in {s \in Receivers : cycle.plan[s].kind = "deposit"} |-> cycle.plan[r].amount]
Paid == Calls(cycle.plan, "deposit")

(* A cycle that cannot pay everything spends the whole cap.  It exceeds    *)
(* the cap by less than a round, that of the raise that reached it.  Where *)
(* the minimal deposits, which the receivers of a batch are given first,   *)
(* use up the cap by themselves, they are paid, and one raise at most      *)
(* (reduce_adjustments, main.rs:601).                                      *)
CapIsSpent ==
    SumFunction(Wanted) > MaxAdjustment =>
        /\ SumFunction(Paid) >= MaxAdjustment
        /\ SumFunction(Paid) < Round + Higher(MaxAdjustment,
                                   MinDeposit * Cardinality(Receivers) + 1)

(* The cap is shared evenly.  Nobody is short of its deposit while another *)
(* has been raised by more than a round over it, and nobody is paid more   *)
(* than it lacks or the minimal deposit (reduce_adjustments).              *)
CapIsShared ==
    \A r, s \in DOMAIN Paid :
        /\ Paid[r] < Wanted[r] => Paid[s] <= Paid[r] + Round
        /\ Paid[r] <= Higher(Wanted[r], MinDeposit)

(* "Note that total deposits are capped at 10,000 GRT per cycle            *)
(* (`MAX_ADJUSTMENT`), which bounds how fast a thin margin can be          *)
(* refilled" (README.md:41 of the escrow manager): no transaction that is  *)
(* on its way deposits more.                                               *)
CycleIsCapped ==
    \A i \in DOMAIN mempool : mempool[i].kind = "deposit" =>
        SumFunction(mempool[i].calls) <= MaxAdjustment

(* Every debt that stays is covered for good by escrow that is not thawing,*)
(* at the balance next_balance asks for: whatever was thawed on an older   *)
(* picture, cut by the cap of a cycle, collected, lost or sent twice.      *)
DebtIsCovered ==
    \A r \in Receivers : \A debt \in Debts :
        <>[](debts[r] = debt) =>
            <>[](EffectiveBalance(Latest[r]) >= next_balance(Higher(debt, ConfigDebts[r])))

(* A thaw ends, by withdrawal or because the receiver collected it all, as *)
(* long as debt_ready keeps the reclamation running.                       *)
ThawEnds ==
    <>[]debt_ready =>
        \A r \in Receivers : (Latest[r].thawing > 0) ~> (Latest[r].thawing = 0)

(* The loop runs on an approval that is in force (main.rs:135): neither a  *)
(* late approve nor a restart in the middle of one lets it start without.  *)
LoopHasAllowance == Unlimited /\ ~InStartup => allowance >= GrtAllowance

(* The process gets to its loop, though the approval may be late each time *)
(* and makes the process exit: once it has landed it is found.             *)
StartupEnds == InStartup ~> ~InStartup
=============================================================================
