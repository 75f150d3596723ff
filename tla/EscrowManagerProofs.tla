------------------------- MODULE EscrowManagerProofs -------------------------
(***************************************************************************)
(* Proofs about EscrowManager: for any receivers, debts, configuration,    *)
(* thawing period and lag of the subgraph.                                 *)
(*                                                                         *)
(* The shape of the state and LoopHasAllowance hold whatever fails.  What  *)
(* the pin is for holds of a process that is not restarted and whose RPC   *)
(* calls are answered in time (Prompt).                                    *)
(***************************************************************************)
EXTENDS EscrowManager, EscrowPolicyProofs, SequenceTheorems

Phases == {"signers", "authorize", "allowance", "approve", "idle", "clock",
           "thaw", "deposit", "withdraw", "pin"}

Cycles == [pc : Phases, accounts : [Receivers -> Account], targets : [Receivers -> Nat],
           reclaim : Reclaims, plan : [Receivers -> Step], waiting : BOOLEAN,
           latest_tx : 0 .. Beyond, signers : SUBSET Signers]

Approval == [kind |-> "approve", calls |-> [s \in {} |-> 0]]

Authorization(signer) == [kind |-> "authorize", calls |-> [s \in {signer} |-> 0]]

Transactions ==
    [kind : Range(Batches), calls : UNION {[S -> Nat] : S \in (SUBSET Receivers) \ {{}}}]
       \cup {Authorization(signer) : signer \in Signers}
       \cup {Approval}

Sound(accounts) ==
    /\ accounts \in [Receivers -> Account]
    /\ \A r \in Receivers : accounts[r].thawing <= accounts[r].balance

(* The shape of a cycle.  No batch is empty.                               *)
GoodCycle(c) ==
    /\ c \in Cycles
    /\ c.pc = "authorize" => c.signers # {}
    /\ \A i \in 1 .. 3 : c.pc = Batches[i] => DOMAIN Calls(c.plan, Batches[i]) # {}

ChainInv ==
    /\ blocks \in [1 .. Beyond -> [Receivers -> Account]]
    /\ \A i \in 1 .. Beyond : Sound(blocks[i])
    /\ allowance \in Nat
    /\ authorized \subseteq Signers
    /\ mempool \in Seq(Transactions) /\ Len(mempool) <= MaxPending
    /\ landed \in 0 .. Beyond

TypeInv ==
    /\ ChainInv /\ GoodCycle(cycle)
    /\ debts \in [Receivers -> Debts]
    /\ pin \in 0 .. Beyond
    /\ restarts \in 0 .. MaxRestarts
    /\ collects \in 0 .. MaxCollects

(* The allowance is in force, or the process has yet to see its approval.  *)
AllowanceInv ==
    Unlimited =>
        \/ allowance >= GrtAllowance
        \/ /\ InStartup
           /\ (cycle.pc = "approve" /\ cycle.waiting) =>
                 (mempool # <<>> /\ mempool[Len(mempool)].kind = "approve")

-----------------------------------------------------------------------------
(* A process that is not restarted, and whose calls are answered in time.  *)
Prompt == ~Unreliable /\ MaxRestarts = 0

InBatch == cycle.pc \in {"thaw", "deposit", "withdraw"}
HasPlan == InBatch \/ cycle.pc = "pin"

(* What is sent is waited for, one transaction at a time.                  *)
OneAtATime ==
    mempool # <<>> =>
        /\ cycle.waiting /\ Len(mempool) = 1
        /\ InBatch \/ (cycle.pc \in {"authorize", "approve"} /\ mempool[1].kind = cycle.pc)
        /\ \A i \in 1 .. 3 : cycle.pc = Batches[i] => mempool[1] = Transaction(i)

(* The pin is no older than the payer's last multicall, or will be once the*)
(* receipt is seen and the cycle ends.                                     *)
PinFollows ==
    /\ ~HasPlan => cycle.latest_tx = Beyond
    /\ \/ InBatch /\ cycle.waiting /\ mempool = <<>>
       \/ Lower(pin, cycle.latest_tx) <= landed

(* What collections and time leave of an account.                          *)
Shrunk(old, new) ==
    /\ new.balance <= old.balance /\ new.thawing <= old.thawing
    /\ EffectiveBalance(new) <= EffectiveBalance(old)
    /\ new.thawing > 0 => new.thaw_left = old.thaw_left

(* Since a block no older than the payer's last multicall, and since the   *)
(* cycle read its accounts, nothing but collections happened to them.      *)
PictureInv ==
    /\ \A j \in Ages : j <= landed => \A r \in Receivers :
          /\ Shrunk(blocks[j + 1][r], Latest[r])
          /\ collects = 0 => Latest[r] = blocks[j + 1][r]
    /\ cycle.pc = "clock" => \A r \in Receivers :
          /\ Shrunk(cycle.accounts[r], Latest[r])
          /\ collects = 0 => Latest[r] = cycle.accounts[r]

(* The batch that is waited for has not landed, and those after it.        *)
NotYet == ~cycle.waiting \/ mempool # <<>>
BeforeThaws == cycle.pc = "thaw" /\ NotYet
BeforeDeposits == cycle.pc = "thaw" \/ (cycle.pc = "deposit" /\ NotYet)

(* What makes a planned step right stays true until it is taken.           *)
PlanInv ==
    HasPlan => \A r \in Receivers :
        LET step == cycle.plan[r]
        IN  /\ (step.kind = "withdraw" /\ Latest[r].thawing > 0) => Latest[r].thaw_left < 0
            /\ (step.kind = "thaw" /\ BeforeThaws) => Latest[r].thawing = 0
            /\ (step.kind = "deposit" /\ BeforeDeposits) =>
                  /\ step.amount > 0
                  /\ EffectiveBalance(Latest[r]) + step.amount <= cycle.targets[r]
            /\ (collects = 0 /\ step.kind = "thaw" /\ BeforeThaws) =>
                  step.amount + cycle.targets[r] <= Latest[r].balance
            /\ (collects = 0 /\ step.kind \in {"nothing", "thaw"}) =>
                  EffectiveBalance(Latest[r]) >= cycle.targets[r]

PromptInv == OneAtATime /\ PinFollows /\ PictureInv /\ PlanInv

-----------------------------------------------------------------------------
(* The three kinds of batches.                                             *)
LEMMA BatchKinds ==
    /\ Batches[1] = "thaw" /\ Batches[2] = "deposit" /\ Batches[3] = "withdraw"
    /\ Range(Batches) = {"thaw", "deposit", "withdraw"}
    /\ \A i \in 1 .. 3 : Batches[i] \in Phases
<1>1. Batches[1] = "thaw" /\ Batches[2] = "deposit" /\ Batches[3] = "withdraw"
  BY DEF Batches
<1>2. DOMAIN Batches = 1 .. 3
  BY DEF Batches
<1>3. \A i \in 1 .. 3 : i = 1 \/ i = 2 \/ i = 3
  OBVIOUS
<1> HIDE DEF Batches
<1> QED BY <1>1, <1>2, <1>3 DEF Range, Phases

Accounts == [Receivers -> Account]

Pushed(a, B) == <<a>> \o SubSeq(B, 1, MaxLag)

(* A new block in front of the recent ones, and the oldest one forgotten.  *)
LEMMA BlockMined ==
    ASSUME NEW B \in [1 .. Beyond -> Accounts], NEW a \in Accounts
    PROVE  /\ Pushed(a, B) \in [1 .. Beyond -> Accounts] /\ Pushed(a, B)[1] = a
           /\ \A i \in 1 .. MaxLag : Pushed(a, B)[i + 1] = B[i]
<1> DEFINE C == Pushed(a, B)
           D == SubSeq(B, 1, MaxLag)
<1>1. MaxLag \in Nat /\ Beyond = MaxLag + 1
  BY EscrowAssumption DEF Beyond
<1>2. B \in Seq(Accounts) /\ Len(B) = Beyond
  BY <1>1
<1>3. D \in Seq(Accounts) /\ Len(D) = MaxLag /\ \A i \in 1 .. MaxLag : D[i] = B[i]
  BY <1>1, <1>2
<1>a. C = <<a>> \o D
  BY DEF Pushed
<1> HIDE DEF C, D
<1>4. <<a>> \in Seq(Accounts) /\ Len(<<a>>) = 1 /\ <<a>>[1] = a
  OBVIOUS
<1>5. C \in Seq(Accounts) /\ Len(C) = Beyond /\ C[1] = a
      /\ \A i \in 1 .. MaxLag : C[i + 1] = D[i]
  BY <1>1, <1>3, <1>4, <1>a
<1>6. C \in [1 .. Beyond -> Accounts]
  BY <1>5, LenProperties
<1>7. \A i \in 1 .. MaxLag : C[i + 1] = B[i]
  BY <1>3, <1>5
<1> QED BY <1>5, <1>6, <1>7 DEF C

(* What a batch calls the contract with: the receivers planned for it, with*)
(* the amounts planned, or less for deposits beyond the cap of a cycle.    *)
LEMMA CallsMade ==
    ASSUME NEW plan \in [Receivers -> Step], NEW kind
    PROVE  LET calls == Calls(plan, kind)
               S == {s \in Receivers : plan[s].kind = kind}
           IN  /\ calls \in [S -> Nat] /\ DOMAIN calls = S
               /\ \A r \in S : \/ calls[r] = plan[r].amount
                               \/ kind = "deposit" /\ calls[r] <= Higher(plan[r].amount, MinDeposit)
<1> DEFINE S == {s \in Receivers : plan[s].kind = kind}
           calls == [r \in S |-> plan[r].amount]
<1>1. IsFiniteSet(S) /\ \A s \in S : s \in Nat
  BY EscrowAssumption, FS_Subset
<1>2. \A r \in Receivers : plan[r].amount \in Nat
  BY DEF Step
<1>3. calls \in [S -> Nat] /\ \A r \in S : calls[r] = plan[r].amount
  BY <1>2
<1>4. Calls(plan, kind) = IF kind = "deposit" THEN Deposits(calls) ELSE calls
  BY DEF Calls
<1> HIDE DEF S, calls
<1>5. Deposits(calls) \in [S -> Nat]
      /\ \A s \in S : Deposits(calls)[s] <= Higher(calls[s], MinDeposit)
  BY <1>1, <1>3, DepositsMade
<1>6. Calls(plan, kind) \in [S -> Nat]
  BY <1>3, <1>4, <1>5
<1>7. \A r \in S : \/ Calls(plan, kind)[r] = plan[r].amount
                   \/ kind = "deposit"
                      /\ Calls(plan, kind)[r] <= Higher(plan[r].amount, MinDeposit)
  BY <1>3, <1>4, <1>5
<1> QED BY <1>6, <1>7 DEF S

(* What is in a transaction.                                               *)
LEMMA TransactionKinds ==
    ASSUME NEW tx \in Transactions
    PROVE  \/ /\ tx.kind \in {"thaw", "deposit", "withdraw"}
              /\ DOMAIN tx.calls # {} /\ DOMAIN tx.calls \subseteq Receivers
              /\ tx.calls \in [DOMAIN tx.calls -> Nat]
              /\ tx = [kind |-> tx.kind, calls |-> tx.calls]
           \/ \E signer \in Signers : tx = Authorization(signer)
           \/ tx = Approval
<1>1. CASE tx \in [kind : Range(Batches),
                   calls : UNION {[S -> Nat] : S \in (SUBSET Receivers) \ {{}}}]
  <2>1. PICK S \in (SUBSET Receivers) \ {{}} : tx.calls \in [S -> Nat]
    BY <1>1
  <2>2. DOMAIN tx.calls = S /\ S # {} /\ S \subseteq Receivers
    BY <2>1
  <2>3. tx.kind \in {"thaw", "deposit", "withdraw"}
    BY <1>1, BatchKinds
  <2> QED BY <1>1, <2>1, <2>2, <2>3
<1> QED BY <1>1 DEF Transactions

(* The transaction of a batch that is not empty.                           *)
LEMMA TransactionMade ==
    ASSUME GoodCycle(cycle), NEW i \in 1 .. 3, cycle.pc = Batches[i]
    PROVE  Transaction(i) \in Transactions
<1> DEFINE S == {s \in Receivers : cycle.plan[s].kind = Batches[i]}
<1>1. cycle.plan \in [Receivers -> Step] /\ DOMAIN Calls(cycle.plan, Batches[i]) # {}
  BY DEF GoodCycle, Cycles
<1>2. Calls(cycle.plan, Batches[i]) \in [S -> Nat]
      /\ DOMAIN Calls(cycle.plan, Batches[i]) = S
  BY <1>1, CallsMade
<1>3. Transaction(i) = [kind |-> Batches[i], calls |-> Calls(cycle.plan, Batches[i])]
  BY DEF Transaction
<1>4. S \in (SUBSET Receivers) \ {{}}
  <2>1. S # {}
    <3> HIDE DEF S
    <3> QED BY <1>1, <1>2
  <2> QED BY <2>1
<1> HIDE DEF S
<1>5. Calls(cycle.plan, Batches[i]) \in UNION {[T -> Nat] : T \in (SUBSET Receivers) \ {{}}}
  BY <1>2, <1>4
<1>6. Batches[i] \in Range(Batches)
  <2>1. i = 1 \/ i = 2 \/ i = 3
    OBVIOUS
  <2> QED BY <2>1, BatchKinds
<1> QED BY <1>3, <1>5, <1>6 DEF Transactions

(* Proceed clears the wait and goes to a later batch that is not empty.    *)
LEMMA ProceedOn ==
    ASSUME NEW c \in Cycles, NEW done \in 0 .. 3
    PROVE  LET d == Proceed(c, done)
           IN  /\ GoodCycle(d) /\ d.waiting = FALSE
               /\ d.accounts = c.accounts /\ d.targets = c.targets /\ d.plan = c.plan
               /\ d.latest_tx = c.latest_tx
               /\ d.pc = "pin" \/ \E i \in done + 1 .. 3 : d.pc = Batches[i]
<1> DEFINE left == {i \in done + 1 .. 3 : DOMAIN Calls(c.plan, Batches[i]) # {}}
           first == CHOOSE i \in left : \A j \in left : i <= j
           phase == IF left = {} THEN "pin" ELSE Batches[first]
           d == Proceed(c, done)
<1>1. d = [c EXCEPT !.waiting = FALSE, !.pc = phase]
  BY DEF Proceed
<1>2. left # {} => first \in left
  <2>1. left \in SUBSET Nat
    OBVIOUS
  <2> HIDE DEF left
  <2> QED BY <2>1, FirstReceiver
<1>3. left \subseteq 1 .. 3 /\ left \subseteq done + 1 .. 3
      /\ \A i \in left : DOMAIN Calls(c.plan, Batches[i]) # {}
  OBVIOUS
<1> HIDE DEF left, first
<1>4. phase \in Phases
  BY <1>2, <1>3, BatchKinds DEF Phases
<1>5. phase = "pin" \/ (first \in left /\ phase = Batches[first])
  BY <1>2
<1> HIDE DEF phase
<1>6. /\ d \in Cycles /\ d.waiting = FALSE /\ d.pc = phase
      /\ d.accounts = c.accounts /\ d.targets = c.targets /\ d.plan = c.plan
      /\ d.latest_tx = c.latest_tx
  BY <1>1, <1>4 DEF Cycles
<1> HIDE DEF d
<1>7. \A i, j \in 1 .. 3 : Batches[i] = Batches[j] => i = j
  BY BatchKinds
<1>8. \A i \in 1 .. 3 : "pin" # Batches[i] /\ "authorize" # Batches[i]
  BY BatchKinds
<1>9. \A i \in 1 .. 3 : d.pc = Batches[i] => DOMAIN Calls(d.plan, Batches[i]) # {}
  BY <1>3, <1>5, <1>6, <1>7, <1>8
<1>10. d.pc # "authorize"
  BY <1>3, <1>5, <1>6, <1>8
<1>11. d.pc = "pin" \/ \E i \in done + 1 .. 3 : d.pc = Batches[i]
  BY <1>3, <1>5, <1>6
<1> QED BY <1>6, <1>9, <1>10, <1>11 DEF GoodCycle, d

(* The cycles that the process starts from.                                *)
LEMMA FreshCycles ==
    /\ Idle \in Cycles /\ Idle.waiting = FALSE /\ Idle.latest_tx = Beyond /\ Idle.pc = "idle"
    /\ GoodCycle(Idle)
    /\ GoodCycle(Starting) /\ Starting.waiting = FALSE /\ Starting.latest_tx = Beyond
    /\ Starting.pc \in {"signers", "allowance"}
    /\ GoodCycle([Idle EXCEPT !.pc = "approve"])
    /\ \A signers \in SUBSET Signers :
          LET c == Authorizing(signers)
          IN  /\ GoodCycle(c) /\ c.waiting = FALSE /\ c.latest_tx = Beyond
              /\ c.pc \in {"allowance", "authorize"}
<1>1. NoAccount \in Account
  BY EscrowAssumption DEF NoAccount, Account
<1>2. Nothing \in Step /\ Beyond \in 0 .. Beyond
  BY EscrowAssumption DEF Nothing, Step, Beyond
<1>3. Idle \in Cycles /\ Idle.waiting = FALSE /\ Idle.latest_tx = Beyond /\ Idle.pc = "idle"
  BY <1>1, <1>2 DEF Idle, Cycles, Phases, Reclaims
<1>4. ASSUME NEW phase \in {"idle", "signers", "allowance", "approve"}
      PROVE  LET c == [Idle EXCEPT !.pc = phase]
             IN  GoodCycle(c) /\ c.waiting = FALSE /\ c.latest_tx = Beyond /\ c.pc = phase
  <2> DEFINE c == [Idle EXCEPT !.pc = phase]
  <2>1. c \in Cycles /\ c.waiting = FALSE /\ c.latest_tx = Beyond /\ c.pc = phase
    BY <1>3, <1>4 DEF Cycles, Phases
  <2>2. c.pc # "authorize" /\ \A i \in 1 .. 3 : c.pc # Batches[i]
    BY <1>4, <2>1, BatchKinds
  <2> QED BY <2>1, <2>2 DEF GoodCycle
<1>5. Idle = [Idle EXCEPT !.pc = "idle"]
  BY <1>3 DEF Cycles
<1>6. ASSUME NEW signers \in SUBSET Signers
      PROVE  LET c == Authorizing(signers)
             IN  /\ GoodCycle(c) /\ c.waiting = FALSE /\ c.latest_tx = Beyond
                 /\ c.pc \in {"allowance", "authorize"}
  <2> DEFINE c == Authorizing(signers)
  <2>1. /\ c \in Cycles /\ c.waiting = FALSE /\ c.latest_tx = Beyond /\ c.signers = signers
        /\ c.pc = IF signers = {} THEN "allowance" ELSE "authorize"
    BY <1>3, <1>6 DEF Cycles, Phases, Authorizing
  <2>2. \A i \in 1 .. 3 : c.pc # Batches[i]
    BY <2>1, BatchKinds
  <2> QED BY <2>1, <2>2 DEF GoodCycle
<1>7. \/ Starting = [Idle EXCEPT !.pc = "signers"]
      \/ Starting = [Idle EXCEPT !.pc = "allowance"]
  BY DEF Starting
<1>8. GoodCycle(Starting) /\ Starting.waiting = FALSE /\ Starting.latest_tx = Beyond
      /\ Starting.pc \in {"signers", "allowance"}
  BY <1>4, <1>7
<1>9. GoodCycle(Idle) /\ GoodCycle([Idle EXCEPT !.pc = "approve"])
  BY <1>4, <1>5
<1> QED BY <1>3, <1>6, <1>8, <1>9
-----------------------------------------------------------------------------
(* A call leaves an account whose thaw does not exceed its balance.        *)
LEMMA CallSound ==
    ASSUME NEW account \in Account, account.thawing <= account.balance,
           NEW amount \in Nat, NEW kind \in {"thaw", "deposit", "withdraw", "authorize"},
           kind = "thaw" => amount <= account.balance
    PROVE  LET after == AfterCall(account, kind, amount)
           IN  after \in Account /\ after.thawing <= after.balance
<1> DEFINE after == AfterCall(account, kind, amount)
<1>1. /\ account.balance \in Nat /\ account.thawing \in Nat
      /\ account.thaw_left \in -1 .. ThawPeriod /\ ThawPeriod \in Nat
  BY EscrowAssumption DEF Account
<1>2. CASE kind = "thaw"
  <2>1. after = [account EXCEPT !.thawing = amount, !.thaw_left = ThawPeriod]
    BY <1>2 DEF AfterCall
  <2>2. after \in Account
    <3>1. ThawPeriod \in -1 .. ThawPeriod
      BY <1>1
    <3>2. \A k \in Account : [k EXCEPT !.thawing = amount, !.thaw_left = ThawPeriod] \in Account
      BY <3>1 DEF Account
    <3> HIDE DEF after
    <3> QED BY <2>1, <3>2
  <2>3. after.thawing = amount /\ after.balance = account.balance
    BY <2>1 DEF Account
  <2> QED BY <1>2, <2>2, <2>3
<1>3. CASE kind = "deposit"
  <2>1. after = [account EXCEPT !.balance = @ + amount]
    BY <1>3 DEF AfterCall
  <2> QED BY <1>1, <2>1 DEF Account
<1>4. CASE kind = "withdraw"
  <2> DEFINE left == account.balance - Lower(account.thawing, account.balance)
  <2>1. after = [NoAccount EXCEPT !.balance = left]
    BY <1>4 DEF AfterCall
  <2>2. left \in Nat
    BY <1>1 DEF Lower
  <2> HIDE DEF left
  <2>3. after = [balance |-> left, thawing |-> 0, thaw_left |-> 0]
    BY <2>1 DEF NoAccount
  <2> QED BY <1>1, <2>2, <2>3 DEF Account
<1>5. CASE kind = "authorize"
  <2>1. after = account
    BY <1>5 DEF AfterCall
  <2> QED BY <2>1
<1> QED BY <1>2, <1>3, <1>4, <1>5

(* So does a transaction that the contract executes.                       *)
LEMMA TransactionSound ==
    ASSUME NEW accounts, Sound(accounts), NEW tx \in Transactions,
           \A r \in DOMAIN tx.calls : Allows(accounts, tx.kind, r, tx.calls[r])
    PROVE  Sound(AfterTransaction(accounts, tx))
<1> DEFINE after(r) == IF r \in DOMAIN tx.calls
                       THEN AfterCall(accounts[r], tx.kind, tx.calls[r]) ELSE accounts[r]
<1>1. AfterTransaction(accounts, tx) = [r \in Receivers |-> after(r)]
  BY DEF AfterTransaction
<1>2. ASSUME NEW r \in Receivers
      PROVE  after(r) \in Account /\ after(r).thawing <= after(r).balance
  <2>1. accounts[r] \in Account /\ accounts[r].thawing <= accounts[r].balance
    BY DEF Sound
  <2>2. CASE r \notin DOMAIN tx.calls
    BY <2>1, <2>2
  <2>3. CASE r \in DOMAIN tx.calls
    <3>1. /\ tx.calls[r] \in Nat
          /\ tx.kind \in {"thaw", "deposit", "withdraw", "authorize"}
      <4>1. CASE /\ tx.kind \in {"thaw", "deposit", "withdraw"}
                 /\ tx.calls \in [DOMAIN tx.calls -> Nat]
        BY <2>3, <4>1
      <4>2. ASSUME NEW signer \in Signers, tx = Authorization(signer)
            PROVE  tx.calls[r] \in Nat /\ tx.kind = "authorize"
        BY <2>3, <4>2 DEF Authorization
      <4>3. CASE tx = Approval
        BY <2>3, <4>3 DEF Approval
      <4> QED BY <4>1, <4>2, <4>3, TransactionKinds
    <3>2. tx.kind = "thaw" => tx.calls[r] <= accounts[r].balance
      BY <2>3 DEF Allows
    <3>3. AfterCall(accounts[r], tx.kind, tx.calls[r]) \in Account
          /\ AfterCall(accounts[r], tx.kind, tx.calls[r]).thawing
                <= AfterCall(accounts[r], tx.kind, tx.calls[r]).balance
      BY <2>1, <3>1, <3>2, CallSound
    <3> QED BY <2>3, <3>3
  <2> QED BY <2>2, <2>3
<1> HIDE DEF after
<1> QED BY <1>1, <1>2 DEF Sound

(* Time brings a thaw closer to its end, and changes nothing else.         *)
LEMMA CloserSound ==
    ASSUME NEW accounts \in [Receivers -> Account]
    PROVE  /\ Closer(accounts) \in [Receivers -> Account]
           /\ Sound(accounts) => Sound(Closer(accounts))
           /\ \A r \in Receivers :
                 /\ Closer(accounts)[r].balance = accounts[r].balance
                 /\ Closer(accounts)[r].thawing = accounts[r].thawing
                 /\ Closer(accounts)[r].thaw_left =
                       IF accounts[r].thawing > 0 THEN Higher(accounts[r].thaw_left - 1, -1)
                                                  ELSE accounts[r].thaw_left
<1>1. ASSUME NEW r \in Receivers
      PROVE  /\ Closer(accounts)[r] \in Account
             /\ Closer(accounts)[r].balance = accounts[r].balance
             /\ Closer(accounts)[r].thawing = accounts[r].thawing
             /\ Closer(accounts)[r].thaw_left =
                   IF accounts[r].thawing > 0 THEN Higher(accounts[r].thaw_left - 1, -1)
                                              ELSE accounts[r].thaw_left
  <2>1. /\ accounts[r] \in Account /\ accounts[r].thaw_left \in -1 .. ThawPeriod
        /\ ThawPeriod \in Nat
    BY EscrowAssumption DEF Account
  <2>2. Higher(accounts[r].thaw_left - 1, -1) \in -1 .. ThawPeriod
    BY <2>1 DEF Higher
  <2>3. Closer(accounts)[r] = IF accounts[r].thawing > 0
                              THEN [accounts[r] EXCEPT !.thaw_left = Higher(@ - 1, -1)]
                              ELSE accounts[r]
    BY DEF Closer
  <2> QED BY <2>1, <2>2, <2>3 DEF Account
<1>2. Closer(accounts) \in [Receivers -> Account]
  <2>1. DOMAIN Closer(accounts) = Receivers
        /\ Closer(accounts) = [r \in Receivers |-> Closer(accounts)[r]]
    BY DEF Closer
  <2> QED BY <1>1, <2>1
<1> QED BY <1>1, <1>2 DEF Sound
(* Marks stay within range as blocks are mined.                            *)
LEMMA MarksAge ==
    ASSUME NEW age \in 0 .. Beyond
    PROVE  Older(age) \in 0 .. Beyond /\ Older(age) = (IF age < Beyond THEN age + 1 ELSE Beyond)
<1>1. Beyond \in Nat
  BY EscrowAssumption DEF Beyond
<1> QED BY <1>1 DEF Older, Lower

(* Time passing changes of a cycle only the accounts it read and its mark. *)
LEMMA CycleAges ==
    ASSUME NEW c, GoodCycle(c), NEW accounts \in [Receivers -> Account]
    PROVE  /\ GoodCycle(AgeMarks(c)) /\ AgeMarks(c).accounts = c.accounts
           /\ GoodCycle(AgeMarks([c EXCEPT !.accounts = accounts]))
           /\ AgeMarks([c EXCEPT !.accounts = accounts]).accounts = accounts
           /\ \A d \in {AgeMarks(c), AgeMarks([c EXCEPT !.accounts = accounts])} :
                 /\ d.pc = c.pc /\ d.targets = c.targets /\ d.plan = c.plan
                 /\ d.waiting = c.waiting /\ d.signers = c.signers
                 /\ d.latest_tx = Older(c.latest_tx)
<1>1. c \in Cycles /\ Older(c.latest_tx) \in 0 .. Beyond
  BY MarksAge DEF GoodCycle, Cycles
<1>2. ASSUME NEW b \in Cycles, Older(b.latest_tx) \in 0 .. Beyond
      PROVE  LET d == AgeMarks(b)
             IN  /\ d \in Cycles /\ d.accounts = b.accounts
                 /\ d.pc = b.pc /\ d.targets = b.targets /\ d.plan = b.plan
                 /\ d.waiting = b.waiting /\ d.signers = b.signers
                 /\ d.latest_tx = Older(b.latest_tx)
  BY <1>2 DEF AgeMarks, Cycles
<1> DEFINE b == [c EXCEPT !.accounts = accounts]
<1>3. /\ b \in Cycles /\ b.accounts = accounts
      /\ b.pc = c.pc /\ b.targets = c.targets /\ b.plan = c.plan
      /\ b.waiting = c.waiting /\ b.signers = c.signers /\ b.latest_tx = c.latest_tx
  BY <1>1 DEF Cycles
<1> HIDE DEF b
<1>4. /\ AgeMarks(c) \in Cycles /\ AgeMarks(c).accounts = c.accounts
      /\ AgeMarks(b) \in Cycles /\ AgeMarks(b).accounts = accounts
  BY <1>1, <1>2, <1>3
<1>5. \A d \in {AgeMarks(c), AgeMarks(b)} :
         /\ d.pc = c.pc /\ d.targets = c.targets /\ d.plan = c.plan
         /\ d.waiting = c.waiting /\ d.signers = c.signers
         /\ d.latest_tx = Older(c.latest_tx)
  BY <1>1, <1>2, <1>3
<1>6. \A d \in {AgeMarks(c), AgeMarks(b)} : GoodCycle(d)
  BY <1>4, <1>5 DEF GoodCycle
<1> QED BY <1>4, <1>5, <1>6 DEF b

(* The block in which the next transaction lands.                          *)
Landed == IF Executes(mempool[1]) THEN AfterTransaction(Latest, mempool[1]) ELSE Latest

(* The block of the transaction that lands, whether it reverts or not.     *)
LEMMA LandedBlock ==
    ASSUME TypeInv, TransactionLands
    PROVE  /\ mempool[1] \in Transactions /\ Mine(Landed) /\ Sound(Landed)
           /\ mempool' \in Seq(Transactions) /\ Len(mempool') = Len(mempool) - 1
           /\ \A i \in 1 .. Len(mempool') : mempool'[i] = mempool[i + 1]
           /\ Executes(mempool[1]) => allowance' = AllowanceAfter(mempool[1])
           /\ ~ Executes(mempool[1]) => allowance' = allowance
<1>1. mempool # <<>> /\ mempool \in Seq(Transactions)
  BY DEF TypeInv, ChainInv, TransactionLands
<1>2. mempool[1] \in Transactions
  BY <1>1
<1>3. mempool' \in Seq(Transactions) /\ Len(mempool') = Len(mempool) - 1
      /\ \A i \in 1 .. Len(mempool') : mempool'[i] = mempool[i + 1]
  <2>1. mempool' = Tail(mempool)
    BY DEF TransactionLands
  <2> QED BY <1>1, <2>1
<1>4. Sound(Latest)
  <2>1. 1 \in 1 .. Beyond
    BY EscrowAssumption DEF Beyond
  <2> QED BY <2>1 DEF TypeInv, ChainInv, Latest
<1>5. CASE Executes(mempool[1])
  <2>1. Mine(Landed) /\ allowance' = AllowanceAfter(mempool[1])
    BY <1>5 DEF TransactionLands, Landed
  <2>2. \A r \in DOMAIN mempool[1].calls :
           Allows(Latest, mempool[1].kind, r, mempool[1].calls[r])
    BY <1>5 DEF Executes
  <2>3. Sound(AfterTransaction(Latest, mempool[1]))
    BY <1>2, <1>4, <2>2, TransactionSound
  <2> QED BY <1>2, <1>3, <1>5, <2>1, <2>3 DEF Landed
<1>6. CASE ~ Executes(mempool[1])
  <2>1. Mine(Landed) /\ allowance' = allowance
    BY <1>6 DEF TransactionLands, Landed
  <2> QED BY <1>2, <1>3, <1>4, <1>6, <2>1 DEF Landed
<1> QED BY <1>5, <1>6

(* Blocks stay sound when a sound one is mined.                            *)
LEMMA BlocksStay ==
    ASSUME TypeInv, NEW accounts, Sound(accounts), Mine(accounts)
    PROVE  /\ blocks' \in [1 .. Beyond -> [Receivers -> Account]]
           /\ \A i \in 1 .. Beyond : Sound(blocks'[i])
           /\ blocks'[1] = accounts
           /\ \A i \in 1 .. MaxLag : blocks'[i + 1] = blocks[i]
<1>1. MaxLag \in Nat /\ Beyond = MaxLag + 1
  BY EscrowAssumption DEF Beyond
<1>2. blocks \in [1 .. Beyond -> [Receivers -> Account]]
      /\ \A i \in 1 .. Beyond : Sound(blocks[i])
  BY DEF TypeInv, ChainInv
<1>3. accounts \in [Receivers -> Account]
  BY DEF Sound
<1>4. blocks' = Pushed(accounts, blocks)
  BY DEF Mine, Pushed
<1>5. /\ blocks' \in [1 .. Beyond -> [Receivers -> Account]] /\ blocks'[1] = accounts
      /\ \A i \in 1 .. MaxLag : blocks'[i + 1] = blocks[i]
  <2>1. blocks \in [1 .. Beyond -> Accounts] /\ accounts \in Accounts
    BY <1>2, <1>3 DEF Accounts
  <2>2. /\ blocks' \in [1 .. Beyond -> Accounts] /\ blocks'[1] = accounts
        /\ \A i \in 1 .. MaxLag : blocks'[i + 1] = blocks[i]
    BY <1>4, <2>1, BlockMined
  <2> QED BY <2>2 DEF Accounts
<1>6. \A i \in 1 .. Beyond : i = 1 \/ (i - 1 \in 1 .. MaxLag /\ i = (i - 1) + 1)
  BY <1>1
<1>7. ASSUME NEW i \in 1 .. Beyond
      PROVE  Sound(blocks'[i])
  <2>1. CASE i = 1
    BY <1>5, <2>1
  <2>2. CASE i - 1 \in 1 .. MaxLag /\ i = (i - 1) + 1
    <3>1. blocks'[(i - 1) + 1] = blocks[i - 1]
      BY <1>5, <2>2
    <3>2. i - 1 \in 1 .. Beyond
      BY <1>1, <2>2
    <3> QED BY <1>2, <2>2, <3>1, <3>2
  <2> QED BY <1>6, <2>1, <2>2
<1> QED BY <1>5, <1>7

(* A step that only moves the cycle.                                       *)
LEMMA CycleMoves ==
    ASSUME TypeInv, UNCHANGED <<chain, debts, pin, restarts, collects>>, GoodCycle(cycle')
    PROVE  TypeInv'
BY DEF TypeInv, ChainInv, chain, GoodCycle

(* The plan of a cycle: one action for each receiver, from what was read.  *)
LEMMA PlanMade ==
    ASSUME GoodCycle(cycle), NEW answers \in BOOLEAN, ReadClock(answers)
    PROVE  /\ GoodCycle(cycle') /\ cycle'.waiting = FALSE /\ cycle'.latest_tx = Beyond
           /\ cycle'.pc \in {"thaw", "deposit", "withdraw", "pin"}
           /\ cycle'.targets = cycle.targets
           /\ \E reclaim \in Reclaims :
                 \A r \in Receivers :
                    cycle'.plan[r] = decide(cycle.accounts[r], cycle.targets[r], reclaim)
<1> DEFINE reclaim == [cycle.reclaim EXCEPT !.clock = answers]
           read == [cycle EXCEPT !.reclaim.clock = answers]
           plan == [r \in Receivers |->
                       decide(cycle.accounts[r], cycle.targets[r], reclaim)]
           c == [Idle EXCEPT !.reclaim = reclaim, !.plan = plan, !.targets = cycle.targets]
<1>1. cycle.accounts \in [Receivers -> Account] /\ cycle.targets \in [Receivers -> Nat]
      /\ cycle.reclaim \in Reclaims /\ cycle \in Cycles
  BY DEF GoodCycle, Cycles
<1>2. reclaim \in Reclaims
  BY <1>1 DEF Reclaims
<1>3. read.accounts = cycle.accounts /\ read.targets = cycle.targets /\ read.reclaim = reclaim
  BY <1>1 DEF Cycles
<1> HIDE DEF reclaim, read
<1>4. plan \in [Receivers -> Step]
  <2> SUFFICES ASSUME NEW r \in Receivers
               PROVE  decide(cycle.accounts[r], cycle.targets[r], reclaim) \in Step
    OBVIOUS
  <2> DEFINE step == decide(cycle.accounts[r], cycle.targets[r], reclaim)
  <2>1. /\ cycle.accounts[r].balance \in Nat /\ cycle.accounts[r].thawing \in Nat
        /\ cycle.targets[r] \in Nat
    BY <1>1 DEF Account
  <2>2. step.kind \in {"nothing", "withdraw", "deposit", "thaw"} /\ step.amount \in Nat
    BY <1>2, <2>1, DecideOne
  <2>3. step = [kind |-> step.kind, amount |-> step.amount]
    BY DEF decide, Withdraw, Deposit, Thaw, Nothing
  <2> HIDE DEF step
  <2>4. step \in Step
    BY <2>2, <2>3 DEF Step
  <2> QED BY <2>4 DEF step
<1>5. Planned(read) = plan
  BY <1>3 DEF Planned
<1> HIDE DEF plan
<1>6. cycle' = Proceed(c, 0)
  BY <1>3, <1>5 DEF ReadClock, read
<1>7. c \in Cycles /\ c.plan = plan /\ c.targets = cycle.targets /\ c.latest_tx = Beyond
  BY <1>1, <1>2, <1>4, FreshCycles DEF Cycles
<1> HIDE DEF c
<1>8. /\ GoodCycle(cycle') /\ cycle'.waiting = FALSE /\ cycle'.latest_tx = Beyond
      /\ cycle'.targets = cycle.targets /\ cycle'.plan = plan
      /\ cycle'.pc = "pin" \/ \E i \in 0 + 1 .. 3 : cycle'.pc = Batches[i]
  <2>1. 0 \in 0 .. 3
    OBVIOUS
  <2>2. /\ GoodCycle(Proceed(c, 0)) /\ Proceed(c, 0).waiting = FALSE
        /\ Proceed(c, 0).targets = c.targets /\ Proceed(c, 0).plan = c.plan
        /\ Proceed(c, 0).latest_tx = c.latest_tx
        /\ Proceed(c, 0).pc = "pin" \/ \E i \in 0 + 1 .. 3 : Proceed(c, 0).pc = Batches[i]
    BY <1>7, <2>1, ProceedOn
  <2> QED BY <1>6, <1>7, <2>2
<1>9. cycle'.pc \in {"thaw", "deposit", "withdraw", "pin"}
  <2>1. \A i \in 0 + 1 .. 3 : i = 1 \/ i = 2 \/ i = 3
    OBVIOUS
  <2> QED BY <1>8, <2>1, BatchKinds
<1>10. \A r \in Receivers :
          cycle'.plan[r] = decide(cycle.accounts[r], cycle.targets[r], reclaim)
  BY <1>8 DEF plan
<1> QED BY <1>2, <1>8, <1>9, <1>10
(* The steps that land a transaction, or let a receiver collect, or time   *)
(* pass keep the shape of the state (the contract, as contracts.rs sees it)*)
LEMMA LandingKeepsTypes ==
    ASSUME TypeInv, TransactionLands
    PROVE  TypeInv'
<1>1. /\ mempool[1] \in Transactions /\ Mine(Landed) /\ Sound(Landed)
      /\ mempool' \in Seq(Transactions) /\ Len(mempool') = Len(mempool) - 1
  BY LandedBlock
<1>2. /\ blocks' \in [1 .. Beyond -> [Receivers -> Account]]
      /\ \A i \in 1 .. Beyond : Sound(blocks'[i])
  BY <1>1, BlocksStay
<1>3. allowance' \in Nat
  <2>1. allowance \in Nat /\ GrtAllowance \in Nat
    BY EscrowAssumption DEF TypeInv, ChainInv
  <2>2. CASE ~ Executes(mempool[1])
    BY <2>1, <2>2, LandedBlock
  <2>3. CASE Executes(mempool[1])
    <3>1. allowance' = AllowanceAfter(mempool[1])
      BY <2>3, LandedBlock
    <3>2. CASE mempool[1].kind = "approve"
      BY <2>1, <3>1, <3>2 DEF AllowanceAfter
    <3>3. CASE mempool[1].kind = "deposit" /\ ~ Unlimited
      <4> DEFINE S == DOMAIN mempool[1].calls
                 calls == mempool[1].calls
      <4>1. IsFiniteSet(S) /\ calls \in [S -> Nat]
        <5>1. mempool[1] # Approval /\ \A signer \in Signers : mempool[1] # Authorization(signer)
          BY <3>3 DEF Approval, Authorization
        <5>2. S \subseteq Receivers /\ calls \in [S -> Nat]
          BY <1>1, <5>1, TransactionKinds
        <5> QED BY <5>2, EscrowAssumption, FS_Subset
      <4>2. SumFunction(calls) <= allowance
        BY <2>3, <3>3 DEF Executes
      <4> HIDE DEF calls, S
      <4>3. SumFunction(calls) \in Nat
        BY <4>1, DepositsAddUp
      <4>4. allowance' = allowance - SumFunction(calls)
        BY <3>1, <3>3 DEF AllowanceAfter, calls
      <4> QED BY <2>1, <4>2, <4>3, <4>4
    <3>4. CASE mempool[1].kind # "approve" /\ ~ (mempool[1].kind = "deposit" /\ ~ Unlimited)
      BY <2>1, <3>1, <3>4 DEF AllowanceAfter
    <3> QED BY <3>2, <3>3, <3>4
  <2> QED BY <2>2, <2>3
<1>4. authorized' \subseteq Signers
  <2>1. authorized \subseteq Signers
    BY DEF TypeInv, ChainInv
  <2>2. \/ authorized' = authorized
        \/ /\ mempool[1].kind = "authorize"
           /\ authorized' = authorized \cup DOMAIN mempool[1].calls
    BY DEF TransactionLands
  <2>3. mempool[1].kind = "authorize" => DOMAIN mempool[1].calls \subseteq Signers
    <3>1. ASSUME mempool[1].kind = "authorize" PROVE DOMAIN mempool[1].calls \subseteq Signers
      <4>1. PICK signer \in Signers : mempool[1] = Authorization(signer)
        BY <1>1, <3>1, TransactionKinds DEF Approval
      <4> QED BY <4>1 DEF Authorization
    <3> QED BY <3>1
  <2> QED BY <2>1, <2>2, <2>3
<1>5. landed' \in 0 .. Beyond
  <2>1. landed \in 0 .. Beyond /\ Beyond \in Nat
    BY EscrowAssumption DEF TypeInv, ChainInv, Beyond
  <2>2. landed' = 0 \/ landed' = Older(landed)
    BY DEF TransactionLands
  <2> QED BY <2>1, <2>2, MarksAge
<1>6. pin' \in 0 .. Beyond
  <2>1. pin \in 0 .. Beyond /\ pin' = Older(pin)
    BY DEF TypeInv, TransactionLands
  <2> QED BY <2>1, MarksAge
<1>7. GoodCycle(cycle')
  <2>1. GoodCycle(cycle) /\ cycle' = AgeMarks(cycle) /\ cycle.accounts \in [Receivers -> Account]
    BY DEF TypeInv, TransactionLands, GoodCycle, Cycles
  <2> QED BY <2>1, CycleAges
<1>8. Len(mempool') <= MaxPending /\ UNCHANGED <<debts, restarts, collects>>
  <2>1. Len(mempool) <= MaxPending /\ Len(mempool) \in Nat /\ MaxPending \in Nat
    BY EscrowAssumption DEF TypeInv, ChainInv
  <2> QED BY <1>1, <2>1 DEF TransactionLands
<1> QED BY <1>1, <1>2, <1>3, <1>4, <1>5, <1>6, <1>7, <1>8 DEF TypeInv, ChainInv

(* What a collection leaves of an account.                                 *)
Collected(account, tokens) ==
    LET balance == account.balance - tokens
        thawing == Lower(account.thawing, balance)
    IN  [balance |-> balance, thawing |-> thawing,
         thaw_left |-> IF thawing = 0 THEN 0 ELSE account.thaw_left]

(* The block of a collection keeps every thaw within its balance.          *)
LEMMA CollectedBlock ==
    ASSUME TypeInv, NEW r \in Receivers, NEW tokens \in Collections, Collect(r, tokens)
    PROVE  /\ tokens \in Nat \ {0} /\ tokens <= Latest[r].balance
           /\ Mine([Latest EXCEPT ![r] = Collected(Latest[r], tokens)])
           /\ Sound([Latest EXCEPT ![r] = Collected(Latest[r], tokens)])
<1> DEFINE account == Latest[r]
           balance == account.balance - tokens
           thawing == Lower(account.thawing, balance)
           after == Collected(account, tokens)
<1>1. tokens \in Nat \ {0} /\ tokens <= account.balance
  BY EscrowAssumption DEF Collect
<1>2. Sound(Latest)
  <2>1. 1 \in 1 .. Beyond
    BY EscrowAssumption DEF Beyond
  <2> QED BY <2>1 DEF TypeInv, ChainInv, Latest
<1>3. /\ account \in Account /\ account.balance \in Nat /\ account.thawing \in Nat
      /\ account.thaw_left \in -1 .. ThawPeriod /\ 0 \in -1 .. ThawPeriod
  BY <1>2, EscrowAssumption DEF Sound, Account
<1>4. balance \in Nat /\ thawing \in Nat /\ thawing <= balance
  BY <1>1, <1>3 DEF Lower
<1>5. after = [balance |-> balance, thawing |-> thawing,
               thaw_left |-> IF thawing = 0 THEN 0 ELSE account.thaw_left]
  BY DEF Collected
<1>6. Mine([Latest EXCEPT ![r] = after])
  <2>1. Mine([Latest EXCEPT ![r] =
               [balance |-> balance, thawing |-> thawing,
                thaw_left |-> IF thawing = 0 THEN 0 ELSE @.thaw_left]])
    BY DEF Collect
  <2>2. [Latest EXCEPT ![r] =
               [balance |-> balance, thawing |-> thawing,
                thaw_left |-> IF thawing = 0 THEN 0 ELSE @.thaw_left]]
           = [Latest EXCEPT ![r] = after]
    <3> HIDE DEF balance, thawing, after
    <3> QED BY <1>5
  <2> HIDE DEF balance, thawing, after
  <2> QED BY <2>1, <2>2
<1> HIDE DEF balance, thawing, after
<1>7. after \in Account /\ after.thawing <= after.balance
  BY <1>3, <1>4, <1>5 DEF Account
<1>8. Sound([Latest EXCEPT ![r] = after])
  BY <1>2, <1>7 DEF Sound
<1> QED BY <1>1, <1>6, <1>8 DEF after

(* Collections keep the shape of the state.                                *)
LEMMA CollectingKeepsTypes ==
    ASSUME TypeInv, NEW r \in Receivers, NEW tokens \in Collections, Collect(r, tokens)
    PROVE  TypeInv'
<1>1. /\ blocks' \in [1 .. Beyond -> [Receivers -> Account]]
      /\ \A i \in 1 .. Beyond : Sound(blocks'[i])
  BY CollectedBlock, BlocksStay
<1>2. landed' \in 0 .. Beyond /\ pin' \in 0 .. Beyond
  BY MarksAge DEF TypeInv, ChainInv, Collect
<1>3. GoodCycle(cycle')
  <2>1. GoodCycle(cycle) /\ cycle' = AgeMarks(cycle) /\ cycle.accounts \in [Receivers -> Account]
    BY DEF TypeInv, Collect, GoodCycle, Cycles
  <2> QED BY <2>1, CycleAges
<1>4. collects' \in 0 .. MaxCollects
  BY EscrowAssumption DEF TypeInv, Collect
<1> QED BY <1>1, <1>2, <1>3, <1>4 DEF TypeInv, ChainInv, Collect

(* Every recent block gets closer, and a new one is mined.                 *)
LEMMA TickBlocks ==
    ASSUME TypeInv, Tick
    PROVE  /\ blocks' \in [1 .. Beyond -> [Receivers -> Account]]
           /\ \A i \in 1 .. Beyond : Sound(blocks'[i])
           /\ blocks'[1] = Closer(Latest)
           /\ \A i \in 1 .. MaxLag : blocks'[i + 1] = Closer(blocks[i])
<1> DEFINE recent == [i \in 1 .. Beyond |-> Closer(blocks[i])]
<1>1. MaxLag \in Nat /\ Beyond = MaxLag + 1
  BY EscrowAssumption DEF Beyond
<1>2. \A i \in 1 .. Beyond : Sound(blocks[i]) /\ blocks[i] \in [Receivers -> Account]
  BY DEF TypeInv, ChainInv, Sound
<1>3. \A i \in 1 .. Beyond : Sound(recent[i]) /\ recent[i] \in Accounts
  BY <1>2, CloserSound DEF Accounts
<1>4. blocks' = Pushed(recent[1], recent)
  BY DEF Tick, Pushed
<1>5. recent \in [1 .. Beyond -> Accounts] /\ recent[1] \in Accounts
      /\ recent[1] = Closer(Latest) /\ \A i \in 1 .. MaxLag : recent[i] = Closer(blocks[i])
  BY <1>1, <1>3 DEF Latest
<1>6. 1 \in 1 .. Beyond
  BY <1>1
<1> HIDE DEF recent
<1>7. /\ blocks' \in [1 .. Beyond -> Accounts] /\ blocks'[1] = recent[1]
      /\ \A i \in 1 .. MaxLag : blocks'[i + 1] = recent[i]
  BY <1>4, <1>5, BlockMined
<1>8. ASSUME NEW i \in 1 .. Beyond
      PROVE  Sound(blocks'[i])
  <2>1. CASE i = 1
    BY <1>3, <1>6, <1>7, <2>1
  <2>2. CASE i # 1
    <3>1. i - 1 \in 1 .. MaxLag /\ i = (i - 1) + 1 /\ i - 1 \in 1 .. Beyond
      BY <1>1, <2>2
    <3>2. blocks'[(i - 1) + 1] = recent[i - 1]
      BY <1>7, <3>1
    <3> QED BY <1>3, <3>1, <3>2
  <2> QED BY <2>1, <2>2
<1> QED BY <1>5, <1>7, <1>8 DEF Accounts

(* Time keeps the shape of the state.                                      *)
LEMMA TimeKeepsTypes ==
    ASSUME TypeInv, Tick
    PROVE  TypeInv'
<1>1. /\ blocks' \in [1 .. Beyond -> [Receivers -> Account]]
      /\ \A i \in 1 .. Beyond : Sound(blocks'[i])
  BY TickBlocks
<1>2. landed' \in 0 .. Beyond /\ pin' \in 0 .. Beyond
  BY MarksAge DEF TypeInv, ChainInv, Tick
<1>3. GoodCycle(cycle')
  <2>1. GoodCycle(cycle) /\ cycle.accounts \in [Receivers -> Account]
    BY DEF TypeInv, GoodCycle, Cycles
  <2>2. Closer(cycle.accounts) \in [Receivers -> Account]
    BY <2>1, CloserSound
  <2>3. cycle' = AgeMarks([cycle EXCEPT !.accounts = Closer(cycle.accounts)])
    BY DEF Tick
  <2> QED BY <2>1, <2>2, <2>3, CycleAges
<1> QED BY <1>1, <1>2, <1>3 DEF TypeInv, ChainInv, Tick
(* What a process sends keeps the queue a queue of transactions.           *)
LEMMA SendingKeepsTypes ==
    ASSUME TypeInv, NEW tx \in Transactions, mempool' = Append(mempool, tx),
           Len(mempool) < MaxPending, cycle' = [cycle EXCEPT !.waiting = TRUE],
           UNCHANGED <<blocks, allowance, authorized, landed, debts, pin, restarts, collects>>
    PROVE  /\ TypeInv'
           /\ cycle'.pc = cycle.pc /\ cycle'.plan = cycle.plan /\ cycle'.waiting = TRUE
           /\ cycle'.targets = cycle.targets /\ cycle'.latest_tx = cycle.latest_tx
           /\ cycle'.signers = cycle.signers /\ cycle'.accounts = cycle.accounts
           /\ Len(mempool') = Len(mempool) + 1 /\ mempool'[Len(mempool')] = tx
<1>1. mempool \in Seq(Transactions) /\ cycle \in Cycles /\ GoodCycle(cycle)
  BY DEF TypeInv, ChainInv, GoodCycle
<1>2. /\ mempool' \in Seq(Transactions) /\ Len(mempool') = Len(mempool) + 1
      /\ mempool'[Len(mempool')] = tx
  BY <1>1
<1>3. Len(mempool') <= MaxPending
  BY <1>1, <1>2, EscrowAssumption
<1>4. /\ cycle' \in Cycles
      /\ cycle'.pc = cycle.pc /\ cycle'.plan = cycle.plan /\ cycle'.waiting = TRUE
      /\ cycle'.targets = cycle.targets /\ cycle'.latest_tx = cycle.latest_tx
      /\ cycle'.signers = cycle.signers /\ cycle'.accounts = cycle.accounts
  BY <1>1 DEF Cycles
<1>5. GoodCycle(cycle')
  BY <1>1, <1>4 DEF GoodCycle
<1> QED BY <1>2, <1>3, <1>4, <1>5 DEF TypeInv, ChainInv

(* The transaction that authorizes the next signer, or approves.           *)
LEMMA StartupTransactionMade ==
    ASSUME TypeInv, cycle.pc \in {"authorize", "approve"}
    PROVE  /\ StartupTransaction \in Transactions /\ StartupTransaction.kind = cycle.pc
           /\ cycle.pc = "approve" => StartupTransaction = Approval
<1>1. CASE cycle.pc = "authorize"
  <2>1. cycle.signers # {} /\ cycle.signers \subseteq Signers
    BY <1>1 DEF TypeInv, GoodCycle, Cycles
  <2>2. NextSigner \in Signers
    BY <2>1 DEF NextSigner
  <2>3. StartupTransaction = Authorization(NextSigner)
    BY <1>1 DEF StartupTransaction, Authorization
  <2> QED BY <1>1, <2>2, <2>3 DEF Transactions, Authorization
<1>2. CASE cycle.pc = "approve"
  <2>1. StartupTransaction = Approval
    BY <1>2 DEF StartupTransaction, Approval
  <2> QED BY <1>2, <2>1 DEF Transactions, Approval
<1> QED BY <1>1, <1>2

(* A cycle ends a batch, in whichever way: it proceeds, having seen a block*)
(* or not (main.rs, the three sends).                                      *)
LEMMA BatchEnds ==
    ASSUME TypeInv, NEW i \in 1 .. 3,
           \/ BatchRefused(i) \/ ReceiptTimesOut(i) \/ ReceiptArrives(i)
    PROVE  /\ GoodCycle(cycle') /\ cycle'.waiting = FALSE
           /\ cycle'.accounts = cycle.accounts /\ cycle'.targets = cycle.targets
           /\ cycle'.plan = cycle.plan
           /\ ReceiptArrives(i) => cycle'.latest_tx = landed
           /\ ~ ReceiptArrives(i) => cycle'.latest_tx = cycle.latest_tx
           /\ cycle'.pc = "pin" \/ \E j \in i + 1 .. 3 : cycle'.pc = Batches[j]
<1> DEFINE seen == [cycle EXCEPT !.latest_tx = landed]
<1>1. cycle \in Cycles /\ landed \in 0 .. Beyond /\ i \in 0 .. 3
  BY DEF TypeInv, ChainInv, GoodCycle
<1>2. /\ seen \in Cycles /\ seen.latest_tx = landed /\ seen.accounts = cycle.accounts
      /\ seen.targets = cycle.targets /\ seen.plan = cycle.plan
  BY <1>1 DEF Cycles
<1>3. ASSUME NEW c \in Cycles
      PROVE  /\ GoodCycle(Proceed(c, i)) /\ Proceed(c, i).waiting = FALSE
             /\ Proceed(c, i).accounts = c.accounts /\ Proceed(c, i).targets = c.targets
             /\ Proceed(c, i).plan = c.plan /\ Proceed(c, i).latest_tx = c.latest_tx
             /\ Proceed(c, i).pc = "pin" \/ \E j \in i + 1 .. 3 : Proceed(c, i).pc = Batches[j]
  BY <1>1, ProceedOn
<1>4. CASE ReceiptArrives(i)
  <2>1. cycle' = Proceed(seen, i)
    BY <1>4 DEF ReceiptArrives
  <2> HIDE DEF seen
  <2>2. /\ GoodCycle(cycle') /\ cycle'.waiting = FALSE
        /\ cycle'.accounts = seen.accounts /\ cycle'.targets = seen.targets
        /\ cycle'.plan = seen.plan /\ cycle'.latest_tx = seen.latest_tx
        /\ cycle'.pc = "pin" \/ \E j \in i + 1 .. 3 : cycle'.pc = Batches[j]
    BY <1>2, <1>3, <2>1
  <2> QED BY <1>2, <1>4, <2>2
<1>5. CASE ~ ReceiptArrives(i)
  <2>1. cycle' = Proceed(cycle, i)
    BY <1>5 DEF BatchRefused, ReceiptTimesOut
  <2> QED BY <1>1, <1>3, <1>5, <2>1
<1> QED BY <1>4, <1>5

(* Reading the accounts and the debts.                                     *)
LEMMA AccountsRead ==
    ASSUME TypeInv, NEW age \in Ages, ReadAccounts(age)
    PROVE  /\ GoodCycle(cycle') /\ cycle'.pc = "clock" /\ cycle'.accounts = blocks[age + 1]
           /\ cycle'.waiting = FALSE /\ cycle'.latest_tx = Beyond
<1> DEFINE targets == [r \in Receivers |-> Target(r)]
           reclaim == [enabled |-> Reclaiming /\ debt_ready, clock |-> FALSE]
<1>1. targets \in [Receivers -> Nat]
  <2> SUFFICES ASSUME NEW r \in Receivers PROVE Target(r) \in Nat
    OBVIOUS
  <2>1. debts[r] \in Nat /\ ConfigDebts[r] \in Nat
    BY EscrowAssumption DEF TypeInv
  <2>2. Higher(debts[r], ConfigDebts[r]) \in Nat
    BY <2>1 DEF Higher
  <2> QED BY <2>2, NextBalanceIsTight DEF Target
<1>2. reclaim \in Reclaims
  BY EscrowAssumption DEF Reclaims, debt_ready
<1>3. blocks[age + 1] \in [Receivers -> Account]
  <2>1. age + 1 \in 1 .. Beyond
    BY EscrowAssumption DEF Ages, Beyond
  <2> QED BY <2>1 DEF TypeInv, ChainInv
<1>4. cycle' = [Idle EXCEPT !.pc = "clock", !.accounts = blocks[age + 1],
                            !.targets = targets, !.reclaim = reclaim]
  BY DEF ReadAccounts
<1> HIDE DEF targets, reclaim
<1>5. ASSUME NEW c \in Cycles, NEW a \in [Receivers -> Account]
      PROVE  LET d == [c EXCEPT !.pc = "clock", !.accounts = a,
                                !.targets = targets, !.reclaim = reclaim]
             IN  /\ d \in Cycles /\ d.pc = "clock" /\ d.accounts = a
                 /\ d.waiting = c.waiting /\ d.latest_tx = c.latest_tx
  BY <1>1, <1>2 DEF Cycles, Phases
<1>6. /\ cycle' \in Cycles /\ cycle'.pc = "clock" /\ cycle'.accounts = blocks[age + 1]
      /\ cycle'.waiting = FALSE /\ cycle'.latest_tx = Beyond
  BY <1>3, <1>4, <1>5, FreshCycles
<1>7. \A i \in 1 .. 3 : cycle'.pc # Batches[i]
  BY <1>6, BatchKinds
<1> QED BY <1>6, <1>7 DEF GoodCycle

(* Every step keeps the shape of the state.                                *)
LEMMA TypeStep ==
    ASSUME TypeInv, [Next]_vars
    PROVE  TypeInv'
<1>1. CASE TransactionLands
  BY <1>1, LandingKeepsTypes
<1>2. ASSUME NEW r \in Receivers, NEW tokens \in Collections, Collect(r, tokens)
      PROVE  TypeInv'
  BY <1>2, CollectingKeepsTypes
<1>3. CASE Tick
  BY <1>3, TimeKeepsTypes
<1>4. ASSUME NEW listed \in SUBSET Signers, ReadSigners(listed) PROVE TypeInv'
  <2>1. cycle' = Authorizing(Signers \ listed)
        /\ UNCHANGED <<chain, debts, pin, restarts, collects>>
    BY <1>4 DEF ReadSigners
  <2>2. GoodCycle(cycle')
    BY <2>1, FreshCycles
  <2> QED BY <2>1, <2>2, CycleMoves
<1>5. CASE SendAtStartup
  <2>1. StartupTransaction \in Transactions
    BY <1>5, StartupTransactionMade DEF SendAtStartup
  <2> QED BY <1>5, <2>1, SendingKeepsTypes DEF SendAtStartup
<1>6. CASE SignerDone
  <2>1. cycle.signers \subseteq Signers
    BY DEF TypeInv, GoodCycle, Cycles
  <2>2. cycle' = Authorizing(cycle.signers \ {NextSigner})
        /\ UNCHANGED <<chain, debts, pin, restarts, collects>>
    BY <1>6 DEF SignerDone
  <2>3. GoodCycle(cycle')
    BY <2>1, <2>2, FreshCycles
  <2> QED BY <2>2, <2>3, CycleMoves
<1>7. CASE ReadAllowance \/ Approved \/ ExitAtStartup
  <2>1. GoodCycle(cycle')
    BY <1>7, FreshCycles DEF ReadAllowance, Approved, ExitAtStartup
  <2>2. UNCHANGED <<chain, debts, pin, restarts, collects>>
    BY <1>7 DEF ReadAllowance, Approved, ExitAtStartup
  <2> QED BY <2>1, <2>2, CycleMoves
<1>8. ASSUME NEW r \in Receivers, NEW debt \in Debts, Publish(r, debt) PROVE TypeInv'
  <2>1. debts' \in [Receivers -> Debts]
    BY <1>8 DEF TypeInv, Publish
  <2> QED BY <1>8, <2>1 DEF TypeInv, ChainInv, GoodCycle, Publish, chain
<1>9. ASSUME NEW age \in Ages, ReadAccounts(age) PROVE TypeInv'
  <2>1. GoodCycle(cycle')
    BY <1>9, AccountsRead
  <2> QED BY <1>9, <2>1, CycleMoves DEF ReadAccounts
<1>10. ASSUME NEW answers \in BOOLEAN, ReadClock(answers) PROVE TypeInv'
  <2>1. GoodCycle(cycle')
    BY <1>10, PlanMade DEF TypeInv
  <2> QED BY <1>10, <2>1, CycleMoves DEF ReadClock
<1>11. ASSUME NEW i \in 1 .. 3, SendBatch(i) PROVE TypeInv'
  <2>1. Transaction(i) \in Transactions
    BY <1>11, TransactionMade DEF SendBatch, Sending, TypeInv
  <2> QED BY <1>11, <2>1, SendingKeepsTypes DEF SendBatch
<1>12. ASSUME NEW i \in 1 .. 3, BatchRefused(i) \/ ReceiptTimesOut(i) \/ ReceiptArrives(i)
       PROVE  TypeInv'
  <2>1. GoodCycle(cycle')
    BY <1>12, BatchEnds
  <2>2. UNCHANGED <<chain, debts, pin, restarts, collects>>
    BY <1>12 DEF BatchRefused, ReceiptTimesOut, ReceiptArrives
  <2> QED BY <2>1, <2>2, CycleMoves
<1>13. CASE EndCycle
  <2>1. GoodCycle(cycle')
    BY <1>13, FreshCycles DEF EndCycle
  <2>2. pin' \in 0 .. Beyond
    BY <1>13 DEF EndCycle, Lower, TypeInv, GoodCycle, Cycles
  <2> QED BY <1>13, <2>1, <2>2 DEF TypeInv, ChainInv, EndCycle, chain
<1>14. CASE Restart
  <2>1. GoodCycle(cycle')
    BY <1>14, FreshCycles DEF Restart
  <2>2. /\ pin' \in 0 .. Beyond /\ debts' \in [Receivers -> Debts]
        /\ restarts' \in 0 .. MaxRestarts
    BY <1>14, EscrowAssumption DEF Restart, TypeInv, Beyond
  <2> QED BY <1>14, <2>1, <2>2 DEF TypeInv, ChainInv, Restart, chain
<1>15. CASE UNCHANGED vars
  BY <1>15, CycleMoves DEF vars, TypeInv
<1> QED BY <1>1, <1>2, <1>3, <1>4, <1>5, <1>6, <1>7, <1>8, <1>9, <1>10, <1>11, <1>12,
           <1>13, <1>14, <1>15 DEF Next
(* The process starts with nothing in escrow, approved or authorized.      *)
LEMMA TypeStart == Init => TypeInv
<1> SUFFICES ASSUME Init PROVE TypeInv
  OBVIOUS
<1>1. MaxLag \in Nat /\ Beyond = MaxLag + 1 /\ MaxPending \in Nat /\ 0 \in Debts
      /\ MaxRestarts \in Nat /\ MaxCollects \in Nat /\ ThawPeriod \in Nat
  BY EscrowAssumption DEF Beyond
<1>2. NoAccount \in Account /\ NoAccount.thawing <= NoAccount.balance
  BY <1>1 DEF NoAccount, Account
<1>3. Sound([r \in Receivers |-> NoAccount])
  BY <1>2 DEF Sound
<1>4. /\ blocks \in [1 .. Beyond -> [Receivers -> Account]]
      /\ \A i \in 1 .. Beyond : Sound(blocks[i])
  BY <1>2, <1>3 DEF Init
<1>5. mempool \in Seq(Transactions) /\ Len(mempool) <= MaxPending
  BY <1>1 DEF Init
<1>6. allowance \in Nat /\ authorized \subseteq Signers /\ landed \in 0 .. Beyond
  BY <1>1 DEF Init
<1>7. GoodCycle(cycle)
  BY FreshCycles DEF Init
<1>8. /\ debts \in [Receivers -> Debts] /\ pin \in 0 .. Beyond
      /\ restarts \in 0 .. MaxRestarts /\ collects \in 0 .. MaxCollects
  BY <1>1 DEF Init
<1> QED BY <1>4, <1>5, <1>6, <1>7, <1>8 DEF TypeInv, ChainInv

(* The inductive shape of the state.                                       *)
THEOREM EscrowTypeInvariant == Spec => []TypeInv
<1>1. TypeInv /\ [Next]_vars => TypeInv'
  BY TypeStep
<1> QED BY <1>1, TypeStart, PTL DEF Spec

(* The state keeps its shape, whatever fails or is late: a thaw never      *)
(* exceeds its balance, and no empty batch is sent.                        *)
THEOREM EscrowTypeCorrect == Spec => []TypeOK
<1>1. TypeInv => TypeOK
  <2> SUFFICES ASSUME TypeInv PROVE TypeOK
    OBVIOUS
  <2>1. blocks \in [1 .. Beyond -> [Receivers -> Account]] /\ Beyond \in Nat
    BY EscrowAssumption DEF TypeInv, ChainInv, Beyond
  <2>2. Len(blocks) = Beyond
    BY <2>1
  <2>3. ASSUME NEW i \in 1 .. Len(mempool)
        PROVE  \/ \E kind \in Range(Batches), receivers \in (SUBSET Receivers) \ {{}} :
                     mempool[i] \in [kind : {kind}, calls : [receivers -> Nat]]
               \/ \E signer \in Signers :
                     mempool[i] = [kind |-> "authorize", calls |-> [s \in {signer} |-> 0]]
               \/ mempool[i] = [kind |-> "approve", calls |-> [s \in {} |-> 0]]
    <3>1. mempool[i] \in Transactions
      BY <2>3 DEF TypeInv, ChainInv
    <3> DEFINE tx == mempool[i]
               S == DOMAIN tx.calls
    <3>2. CASE /\ tx.kind \in {"thaw", "deposit", "withdraw"}
               /\ S # {} /\ S \subseteq Receivers /\ tx.calls \in [S -> Nat]
               /\ tx = [kind |-> tx.kind, calls |-> tx.calls]
      <4>1. tx.kind \in Range(Batches) /\ S \in (SUBSET Receivers) \ {{}}
        BY <3>2, BatchKinds
      <4>2. tx \in [kind : {tx.kind}, calls : [S -> Nat]]
        <5> HIDE DEF tx, S
        <5> QED BY <3>2
      <4> QED BY <4>1, <4>2
    <3> QED BY <3>1, <3>2, TransactionKinds DEF Authorization, Approval
  <2>4. /\ InStartup \/ cycle.pc \in {"idle", "clock", "pin"} \cup Range(Batches)
        /\ cycle.signers \subseteq Signers
        /\ cycle.accounts \in [Receivers -> Account]
        /\ cycle.targets \in [Receivers -> Nat]
        /\ cycle.reclaim \in Reclaims
        /\ cycle.plan \in [Receivers -> Step]
        /\ cycle.waiting \in BOOLEAN
        /\ cycle.latest_tx \in 0 .. Beyond
    BY BatchKinds DEF TypeInv, GoodCycle, Cycles, Phases, InStartup
  <2>5. \A i \in 1 .. Beyond : \A r \in Receivers :
           blocks[i][r] \in Account /\ blocks[i][r].thawing <= blocks[i][r].balance
    BY DEF TypeInv, ChainInv, Sound
  <2> QED BY <2>2, <2>3, <2>4, <2>5 DEF TypeInv, ChainInv, TypeOK
<1> QED BY <1>1, EscrowTypeInvariant, PTL

-----------------------------------------------------------------------------
(* A transaction that lands leaves the allowance in force, or what is      *)
(* waited for in the queue.                                                *)
LEMMA LandingKeepsAllowance ==
    ASSUME TypeInv, AllowanceInv, Unlimited, TransactionLands
    PROVE  AllowanceInv'
<1> DEFINE tx == mempool[1]
<1>1. /\ tx \in Transactions /\ mempool' \in Seq(Transactions)
      /\ Len(mempool') = Len(mempool) - 1
      /\ \A i \in 1 .. Len(mempool') : mempool'[i] = mempool[i + 1]
      /\ Executes(tx) => allowance' = AllowanceAfter(tx)
      /\ ~ Executes(tx) => allowance' = allowance
  BY LandedBlock
<1>2. mempool \in Seq(Transactions) /\ mempool # <<>> /\ Len(mempool) \in Nat
      /\ Len(mempool) >= 1 /\ allowance \in Nat /\ GrtAllowance \in Nat
  BY EscrowAssumption DEF TypeInv, ChainInv, TransactionLands
<1>3. cycle'.pc = cycle.pc /\ cycle'.waiting = cycle.waiting
  <2>1. GoodCycle(cycle) /\ cycle' = AgeMarks(cycle) /\ cycle.accounts \in [Receivers -> Account]
    BY DEF TypeInv, TransactionLands, GoodCycle, Cycles
  <2> QED BY <2>1, CycleAges
<1> HIDE DEF tx
<1>4. allowance' = allowance \/ allowance' = GrtAllowance
  BY <1>1 DEF AllowanceAfter
<1>5. CASE allowance >= GrtAllowance
  BY <1>2, <1>4, <1>5 DEF AllowanceInv
<1>6. CASE /\ InStartup
           /\ (cycle.pc = "approve" /\ cycle.waiting) =>
                 (mempool # <<>> /\ mempool[Len(mempool)].kind = "approve")
  <2>1. InStartup'
    BY <1>3, <1>6 DEF InStartup
  <2>2. CASE ~ (cycle.pc = "approve" /\ cycle.waiting)
    BY <1>3, <2>1, <2>2 DEF AllowanceInv
  <2>3. CASE (cycle.pc = "approve" /\ cycle.waiting) /\ Len(mempool) = 1
    <3>1. tx.kind = "approve"
      BY <1>6, <2>3 DEF tx
    <3>2. tx = Approval
      <4>1. tx.kind \notin {"thaw", "deposit", "withdraw"}
            /\ \A signer \in Signers : tx # Authorization(signer)
        BY <3>1 DEF Authorization
      <4> QED BY <1>1, <4>1, TransactionKinds
    <3>3. Executes(tx)
      BY <3>2 DEF Executes, Approval
    <3>4. allowance' = GrtAllowance
      BY <1>1, <3>1, <3>3 DEF AllowanceAfter
    <3> QED BY <1>2, <3>4 DEF AllowanceInv
  <2>4. CASE (cycle.pc = "approve" /\ cycle.waiting) /\ Len(mempool) # 1
    <3>1. Len(mempool') \in 1 .. Len(mempool') /\ Len(mempool') + 1 = Len(mempool)
      BY <1>1, <1>2, <2>4
    <3>2. mempool'[Len(mempool')] = mempool[Len(mempool)]
      BY <1>1, <3>1
    <3>3. mempool' # <<>>
      BY <1>1, <3>1
    <3> QED BY <1>6, <2>1, <2>4, <3>2, <3>3 DEF AllowanceInv
  <2> QED BY <2>2, <2>3, <2>4
<1> QED BY <1>5, <1>6 DEF AllowanceInv

(* No step of the loop or of the startup lets go of the allowance.         *)
LEMMA AllowanceStep ==
    ASSUME TypeInv, AllowanceInv, [Next]_vars
    PROVE  AllowanceInv'
<1> SUFFICES ASSUME Unlimited PROVE AllowanceInv'
  BY DEF AllowanceInv
<1>1. /\ allowance >= GrtAllowance
         \/ (/\ InStartup
             /\ (cycle.pc = "approve" /\ cycle.waiting) =>
                   (mempool # <<>> /\ mempool[Len(mempool)].kind = "approve"))
  BY DEF AllowanceInv
<1>2. CASE TransactionLands
  BY <1>2, LandingKeepsAllowance
<1>3. ASSUME cycle'.pc = cycle.pc, cycle'.waiting = cycle.waiting,
             UNCHANGED <<allowance, mempool>>
      PROVE  AllowanceInv'
  BY <1>1, <1>3 DEF AllowanceInv, InStartup
<1>4. ASSUME NEW r \in Receivers, NEW tokens \in Collections, Collect(r, tokens)
      PROVE  AllowanceInv'
  <2>1. GoodCycle(cycle) /\ cycle' = AgeMarks(cycle) /\ cycle.accounts \in [Receivers -> Account]
    BY <1>4 DEF TypeInv, Collect, GoodCycle, Cycles
  <2>2. cycle'.pc = cycle.pc /\ cycle'.waiting = cycle.waiting
    BY <2>1, CycleAges
  <2> QED BY <1>3, <1>4, <2>2 DEF Collect
<1>5. CASE Tick
  <2>1. GoodCycle(cycle) /\ cycle.accounts \in [Receivers -> Account]
    BY DEF TypeInv, GoodCycle, Cycles
  <2>2. Closer(cycle.accounts) \in [Receivers -> Account]
    BY <2>1, CloserSound
  <2>3. cycle' = AgeMarks([cycle EXCEPT !.accounts = Closer(cycle.accounts)])
    BY <1>5 DEF Tick
  <2>4. cycle'.pc = cycle.pc /\ cycle'.waiting = cycle.waiting
    BY <2>1, <2>2, <2>3, CycleAges
  <2> QED BY <1>3, <1>5, <2>4 DEF Tick
<1>6. ASSUME UNCHANGED allowance,
             allowance >= GrtAllowance
                \/ (cycle'.pc \in {"signers", "authorize", "allowance", "approve"}
                    /\ cycle'.waiting = FALSE)
      PROVE  AllowanceInv'
  BY <1>6 DEF AllowanceInv, InStartup
<1>7. ASSUME NEW listed \in SUBSET Signers, ReadSigners(listed) PROVE AllowanceInv'
  <2>1. cycle' = Authorizing(Signers \ listed) /\ allowance' = allowance
    BY <1>7 DEF ReadSigners, chain
  <2>2. cycle'.pc \in {"allowance", "authorize"} /\ cycle'.waiting = FALSE
    BY <2>1, FreshCycles
  <2> QED BY <1>6, <2>1, <2>2
<1>8. CASE SendAtStartup
  <2>1. StartupTransaction \in Transactions /\ StartupTransaction.kind = cycle.pc
    BY <1>8, StartupTransactionMade DEF SendAtStartup
  <2>2. /\ cycle'.pc = cycle.pc /\ Len(mempool') = Len(mempool) + 1
        /\ mempool'[Len(mempool')] = StartupTransaction
    BY <1>8, <2>1, SendingKeepsTypes DEF SendAtStartup
  <2>3. mempool' # <<>> /\ InStartup'
    <3>1. Len(mempool) \in Nat
      BY DEF TypeInv, ChainInv
    <3>2. cycle'.pc \in {"authorize", "approve"}
      BY <1>8, <2>2 DEF SendAtStartup
    <3> QED BY <2>2, <3>1, <3>2 DEF InStartup
  <2> QED BY <2>1, <2>2, <2>3 DEF AllowanceInv
<1>9. CASE SignerDone
  <2>1. cycle.signers \subseteq Signers
    BY DEF TypeInv, GoodCycle, Cycles
  <2>2. cycle' = Authorizing(cycle.signers \ {NextSigner}) /\ allowance' = allowance
    BY <1>9 DEF SignerDone, chain
  <2>3. cycle'.pc \in {"allowance", "authorize"} /\ cycle'.waiting = FALSE
    BY <2>1, <2>2, FreshCycles
  <2> QED BY <1>6, <2>2, <2>3
<1>10. CASE ReadAllowance
  <2>1. allowance' = allowance
    BY <1>10 DEF ReadAllowance, chain
  <2>2. CASE Short(allowance)
    <3>1. cycle' = [Idle EXCEPT !.pc = "approve"]
      BY <1>10, <2>2 DEF ReadAllowance
    <3>2. cycle'.pc = "approve" /\ cycle'.waiting = FALSE
      BY <3>1, FreshCycles DEF Cycles
    <3> QED BY <1>6, <2>1, <3>2
  <2>3. CASE ~ Short(allowance)
    <3>1. allowance >= GrtAllowance
      BY <2>3, EscrowAssumption DEF Short, TypeInv, ChainInv
    <3> QED BY <1>6, <2>1, <3>1
  <2> QED BY <2>2, <2>3
<1>11. CASE Approved
  <2>1. allowance' = allowance /\ allowance >= GrtAllowance
    BY <1>1, <1>11 DEF Approved, chain
  <2> QED BY <1>6, <2>1
<1>12. CASE ExitAtStartup \/ Restart
  <2>1. cycle' = Starting /\ allowance' = allowance
    BY <1>12 DEF ExitAtStartup, Restart, chain
  <2> QED BY <1>6, <2>1, FreshCycles
<1>13. ASSUME allowance' = allowance, ~ InStartup
       PROVE  AllowanceInv'
  BY <1>1, <1>6, <1>13
<1>14. ASSUME NEW r \in Receivers, NEW debt \in Debts, Publish(r, debt) PROVE AllowanceInv'
  BY <1>13, <1>14 DEF Publish, chain
<1>15. ASSUME NEW age \in Ages, ReadAccounts(age) PROVE AllowanceInv'
  BY <1>13, <1>15 DEF ReadAccounts, chain, InStartup
<1>16. ASSUME NEW answers \in BOOLEAN, ReadClock(answers) PROVE AllowanceInv'
  BY <1>13, <1>16 DEF ReadClock, chain, InStartup
<1>17. ASSUME NEW i \in 1 .. 3,
              SendBatch(i) \/ BatchRefused(i) \/ ReceiptArrives(i) \/ ReceiptTimesOut(i)
       PROVE  AllowanceInv'
  <2>1. cycle.pc = Batches[i] /\ allowance' = allowance
    BY <1>17 DEF SendBatch, BatchRefused, ReceiptArrives, ReceiptTimesOut, Sending, Waiting, chain
  <2>2. i = 1 \/ i = 2 \/ i = 3
    OBVIOUS
  <2>3. ~ InStartup
    BY <2>1, <2>2, BatchKinds DEF InStartup
  <2> QED BY <1>13, <2>1, <2>3
<1>18. CASE EndCycle
  BY <1>13, <1>18 DEF EndCycle, chain, InStartup
<1>19. CASE UNCHANGED vars
  BY <1>3, <1>19 DEF vars, chain
<1> QED BY <1>2, <1>4, <1>5, <1>7, <1>8, <1>9, <1>10, <1>11, <1>12, <1>14, <1>15, <1>16,
           <1>17, <1>18, <1>19 DEF Next

(* The loop never runs on an allowance that is not in force (main.rs,      *)
(* check_allowance), whatever is late, lost or restarted.                  *)
THEOREM LoopIsApproved == Spec => []LoopHasAllowance
<1>1. Init => AllowanceInv
  <2> SUFFICES ASSUME Init PROVE AllowanceInv
    OBVIOUS
  <2>1. cycle = Starting
    BY DEF Init
  <2> QED BY <2>1, FreshCycles DEF AllowanceInv, InStartup
<1>2. TypeInv /\ AllowanceInv /\ [Next]_vars => AllowanceInv'
  BY AllowanceStep
<1>3. AllowanceInv => LoopHasAllowance
  BY DEF AllowanceInv, LoopHasAllowance
<1> QED BY <1>1, <1>2, <1>3, EscrowTypeInvariant, PTL DEF Spec
-----------------------------------------------------------------------------
(* The latest block and the blocks behind it, as sets the proofs use.      *)
LEMMA RecentAccounts ==
    ASSUME TypeInv
    PROVE  /\ Sound(Latest) /\ MaxLag \in Nat /\ Beyond = MaxLag + 1
           /\ \A j \in Ages : Sound(blocks[j + 1])
           /\ cycle.accounts \in [Receivers -> Account]
           /\ cycle \in Cycles
<1>1. MaxLag \in Nat /\ Beyond = MaxLag + 1
  BY EscrowAssumption DEF Beyond
<1>2. \A j \in Ages : j + 1 \in 1 .. Beyond
  BY <1>1 DEF Ages
<1>3. 1 \in 1 .. Beyond
  BY <1>1
<1> QED BY <1>1, <1>2, <1>3 DEF TypeInv, ChainInv, GoodCycle, Cycles, Latest

(* The numbers of an account.                                              *)
LEMMA EffectiveIsNat ==
    ASSUME NEW account \in Account
    PROVE  /\ account.balance \in Nat /\ account.thawing \in Nat /\ account.thaw_left \in Int
           /\ EffectiveBalance(account) \in Nat
           /\ account.thawing <= account.balance =>
                 EffectiveBalance(account) = account.balance - account.thawing
BY EscrowAssumption DEF Account, EffectiveBalance, Higher

(* Accounts only shrink, and what shrinks twice has shrunk.                *)
LEMMA ShrunkTwice ==
    ASSUME NEW a \in Account, NEW b \in Account, NEW c \in Account
    PROVE  Shrunk(a, a) /\ (Shrunk(a, b) /\ Shrunk(b, c) => Shrunk(a, c))
<1>1. \A x \in {a, b, c} : /\ x.balance \in Nat /\ x.thawing \in Nat /\ x.thaw_left \in Int
                           /\ EffectiveBalance(x) \in Nat
  BY EffectiveIsNat
<1>2. Shrunk(a, a)
  BY <1>1 DEF Shrunk
<1>3. ASSUME Shrunk(a, b), Shrunk(b, c) PROVE Shrunk(a, c)
  BY <1>1, <1>3 DEF Shrunk
<1> QED BY <1>2, <1>3

(* A receiver that collects takes from its account, and from a thaw only   *)
(* what the balance no longer covers.                                      *)
LEMMA CollectedShrinks ==
    ASSUME NEW account \in Account, NEW tokens \in Nat, tokens <= account.balance,
           account.thawing <= account.balance
    PROVE  Shrunk(account, Collected(account, tokens))
<1> DEFINE balance == account.balance - tokens
           thawing == Lower(account.thawing, balance)
           after == Collected(account, tokens)
<1>1. account.balance \in Nat /\ account.thawing \in Nat
  BY EffectiveIsNat
<1>2. balance \in Nat /\ thawing \in Nat /\ thawing <= balance
      /\ balance <= account.balance /\ thawing <= account.thawing
      /\ balance - thawing <= account.balance - account.thawing
  BY <1>1 DEF Lower
<1> HIDE DEF balance, thawing
<1>3. /\ after.balance = balance /\ after.thawing = thawing
      /\ after.thawing > 0 => after.thaw_left = account.thaw_left
  BY <1>2 DEF Collected, balance, thawing
<1> HIDE DEF after
<1>4. EffectiveBalance(after) <= EffectiveBalance(account)
  BY <1>1, <1>2, <1>3 DEF EffectiveBalance, Higher
<1> QED BY <1>2, <1>3, <1>4 DEF Shrunk, after

(* Time passes alike for what was read and what is there.                  *)
LEMMA CloserShrinks ==
    ASSUME NEW old \in [Receivers -> Account], NEW new \in [Receivers -> Account],
           NEW r \in Receivers, Shrunk(old[r], new[r])
    PROVE  Shrunk(Closer(old)[r], Closer(new)[r])
<1>1. /\ Closer(old)[r].balance = old[r].balance
      /\ Closer(old)[r].thawing = old[r].thawing
      /\ Closer(old)[r].thaw_left =
            IF old[r].thawing > 0 THEN Higher(old[r].thaw_left - 1, -1) ELSE old[r].thaw_left
  BY CloserSound
<1>2. /\ Closer(new)[r].balance = new[r].balance
      /\ Closer(new)[r].thawing = new[r].thawing
      /\ Closer(new)[r].thaw_left =
            IF new[r].thawing > 0 THEN Higher(new[r].thaw_left - 1, -1) ELSE new[r].thaw_left
  BY CloserSound
<1>3. EffectiveBalance(Closer(old)[r]) = EffectiveBalance(old[r])
      /\ EffectiveBalance(Closer(new)[r]) = EffectiveBalance(new[r])
  BY <1>1, <1>2 DEF EffectiveBalance
<1>4. old[r].thawing \in Nat /\ new[r].thawing \in Nat
  BY EffectiveIsNat
<1>5. new[r].thawing > 0 => old[r].thawing > 0 /\ new[r].thaw_left = old[r].thaw_left
  BY <1>4 DEF Shrunk
<1> QED BY <1>1, <1>2, <1>3, <1>5 DEF Shrunk

(* What a call changes of an account.                                      *)
LEMMA CallFields ==
    ASSUME NEW account \in Account, NEW amount \in Nat
    PROVE  /\ AfterCall(account, "thaw", amount).balance = account.balance
           /\ AfterCall(account, "thaw", amount).thawing = amount
           /\ AfterCall(account, "deposit", amount).balance = account.balance + amount
           /\ AfterCall(account, "deposit", amount).thawing = account.thawing
           /\ AfterCall(account, "deposit", amount).thaw_left = account.thaw_left
           /\ AfterCall(account, "withdraw", amount).thawing = 0
           /\ AfterCall(account, "withdraw", amount).balance <= account.balance
<1>1. account.balance \in Nat /\ account.thawing \in Nat
  BY EffectiveIsNat
<1>2. AfterCall(account, "thaw", amount)
         = [account EXCEPT !.thawing = amount, !.thaw_left = ThawPeriod]
  BY DEF AfterCall
<1>3. AfterCall(account, "deposit", amount) = [account EXCEPT !.balance = @ + amount]
  BY DEF AfterCall
<1>4. AfterCall(account, "withdraw", amount)
         = [NoAccount EXCEPT !.balance =
               account.balance - Lower(account.thawing, account.balance)]
  BY DEF AfterCall
<1>5. AfterCall(account, "withdraw", amount).thawing = 0
      /\ AfterCall(account, "withdraw", amount).balance <= account.balance
  BY <1>1, <1>4 DEF NoAccount, Lower
<1>6. AfterCall(account, "deposit", amount).balance = account.balance + amount
      /\ AfterCall(account, "deposit", amount).thawing = account.thawing
      /\ AfterCall(account, "deposit", amount).thaw_left = account.thaw_left
  BY <1>3 DEF Account
<1>7. AfterCall(account, "thaw", amount).balance = account.balance
      /\ AfterCall(account, "thaw", amount).thawing = amount
  BY <1>2 DEF Account
<1> QED BY <1>5, <1>6, <1>7

(* What lands is the transaction waited for: one of the startup, which     *)
(* leaves escrow alone, or the batch, which acts on what was planned.      *)
LEMMA WhatLands ==
    ASSUME TypeInv, OneAtATime, TransactionLands
    PROVE  /\ cycle.waiting /\ mempool # <<>> /\ mempool' = <<>> /\ Sound(Landed)
           /\ blocks'[1] = Landed /\ \A i \in 1 .. MaxLag : blocks'[i + 1] = blocks[i]
           /\ \/ /\ cycle.pc \in {"authorize", "approve"} /\ Landed = Latest
                 /\ landed' = Older(landed)
              \/ \E i \in 1 .. 3 :
                    /\ cycle.pc = Batches[i] /\ landed' = 0
                    /\ \A r \in Receivers :
                          \/ Landed[r] = Latest[r]
                          \/ LET amount == Calls(cycle.plan, Batches[i])[r]
                             IN  /\ cycle.plan[r].kind = Batches[i]
                                 /\ amount \in Nat
                                 /\ amount = cycle.plan[r].amount
                                       \/ (/\ Batches[i] = "deposit"
                                           /\ amount <= Higher(cycle.plan[r].amount, MinDeposit))
                                 /\ Landed[r] = AfterCall(Latest[r], Batches[i], amount)
<1> DEFINE tx == mempool[1]
<1>1. /\ tx \in Transactions /\ Mine(Landed) /\ Sound(Landed)
      /\ mempool' \in Seq(Transactions) /\ Len(mempool') = Len(mempool) - 1
  BY LandedBlock
<1>2. /\ mempool # <<>> /\ cycle.waiting /\ Len(mempool) = 1
      /\ InBatch \/ (cycle.pc \in {"authorize", "approve"} /\ tx.kind = cycle.pc)
      /\ \A i \in 1 .. 3 : cycle.pc = Batches[i] => tx = Transaction(i)
  BY DEF OneAtATime, TransactionLands
<1>3. mempool' = <<>>
  BY <1>1, <1>2
<1>4. blocks'[1] = Landed /\ \A i \in 1 .. MaxLag : blocks'[i + 1] = blocks[i]
  BY <1>1, BlocksStay
<1>5. Sound(Latest) /\ Latest \in [Receivers -> Account]
  BY RecentAccounts DEF Sound
<1>6. Landed = IF Executes(tx) THEN AfterTransaction(Latest, tx) ELSE Latest
  BY DEF Landed
<1>7. landed' = IF tx.kind \in Range(Batches) THEN 0 ELSE Older(landed)
  BY DEF TransactionLands
<1> HIDE DEF tx
<1>8. CASE cycle.pc \in {"authorize", "approve"} /\ tx.kind = cycle.pc
  <2>1. landed' = Older(landed)
    BY <1>7, <1>8, BatchKinds
  <2>2. AfterTransaction(Latest, tx) = Latest
    <3>1. AfterTransaction(Latest, tx) = [r \in Receivers |->
             IF r \in DOMAIN tx.calls THEN AfterCall(Latest[r], tx.kind, tx.calls[r])
                                      ELSE Latest[r]]
      BY DEF AfterTransaction
    <3>2. ASSUME NEW r \in Receivers, r \in DOMAIN tx.calls
          PROVE  AfterCall(Latest[r], tx.kind, tx.calls[r]) = Latest[r]
      <4>1. tx # Approval
        BY <3>2 DEF Approval
      <4>2. tx.kind = "authorize"
        <5>1. tx.kind \notin {"thaw", "deposit", "withdraw"}
          BY <1>8
        <5>2. PICK signer \in Signers : tx = Authorization(signer)
          BY <1>1, <4>1, <5>1, TransactionKinds
        <5> QED BY <5>2 DEF Authorization
      <4> QED BY <4>2 DEF AfterCall
    <3>3. AfterTransaction(Latest, tx) = [r \in Receivers |-> Latest[r]]
      BY <3>1, <3>2
    <3> QED BY <1>5, <3>3
  <2>3. Landed = Latest
    BY <1>6, <2>2
  <2> QED BY <1>1, <1>2, <1>3, <1>4, <1>8, <2>1, <2>3
<1>9. CASE InBatch
  <2>1. PICK i \in 1 .. 3 : cycle.pc = Batches[i]
    BY <1>9, BatchKinds DEF InBatch
  <2>2. tx = Transaction(i)
    BY <1>2, <2>1
  <2>3. tx.kind = Batches[i] /\ tx.calls = Calls(cycle.plan, Batches[i])
    BY <2>2 DEF Transaction
  <2>4. Batches[i] \in Range(Batches)
    <3>1. i = 1 \/ i = 2 \/ i = 3
      OBVIOUS
    <3> QED BY <3>1, BatchKinds
  <2>5. landed' = 0
    BY <1>7, <2>3, <2>4
  <2> DEFINE calls == Calls(cycle.plan, Batches[i])
             S == {s \in Receivers : cycle.plan[s].kind = Batches[i]}
  <2>6. cycle.plan \in [Receivers -> Step]
    BY DEF TypeInv, GoodCycle, Cycles
  <2>7. /\ calls \in [S -> Nat] /\ DOMAIN calls = S
        /\ \A r \in S : \/ calls[r] = cycle.plan[r].amount
                        \/ Batches[i] = "deposit"
                           /\ calls[r] <= Higher(cycle.plan[r].amount, MinDeposit)
    BY <2>6, CallsMade
  <2> HIDE DEF calls
  <2>8. ASSUME NEW r \in Receivers
        PROVE  \/ Landed[r] = Latest[r]
               \/ /\ cycle.plan[r].kind = Batches[i]
                  /\ calls[r] \in Nat
                  /\ calls[r] = cycle.plan[r].amount
                        \/ (/\ Batches[i] = "deposit"
                            /\ calls[r] <= Higher(cycle.plan[r].amount, MinDeposit))
                  /\ Landed[r] = AfterCall(Latest[r], Batches[i], calls[r])
    <3>1. CASE ~ Executes(tx) \/ r \notin S
      <4>1. r \notin S => AfterTransaction(Latest, tx)[r] = Latest[r]
        BY <2>3, <2>7 DEF AfterTransaction, calls
      <4> QED BY <1>6, <3>1, <4>1
    <3>2. CASE Executes(tx) /\ r \in S
      <4>1. Landed[r] = AfterCall(Latest[r], Batches[i], calls[r])
        BY <1>6, <2>3, <2>7, <3>2 DEF AfterTransaction, calls
      <4>2. cycle.plan[r].kind = Batches[i] /\ calls[r] \in Nat
        BY <2>7, <3>2
      <4> QED BY <2>7, <3>2, <4>1, <4>2
    <3> QED BY <3>1, <3>2
  <2> QED BY <1>1, <1>2, <1>3, <1>4, <2>1, <2>5, <2>8 DEF calls
<1> QED BY <1>2, <1>8, <1>9
-----------------------------------------------------------------------------
(* Time passing, for the cycle under way.                                  *)
LEMMA CycleGoesOn ==
    ASSUME TypeInv,
           \/ cycle' = AgeMarks(cycle)
           \/ cycle' = AgeMarks([cycle EXCEPT !.accounts = Closer(cycle.accounts)])
    PROVE  /\ cycle'.pc = cycle.pc /\ cycle'.targets = cycle.targets
           /\ cycle'.plan = cycle.plan /\ cycle'.waiting = cycle.waiting
           /\ cycle'.signers = cycle.signers /\ cycle'.latest_tx = Older(cycle.latest_tx)
           /\ cycle' = AgeMarks(cycle) => cycle'.accounts = cycle.accounts
           /\ cycle' = AgeMarks([cycle EXCEPT !.accounts = Closer(cycle.accounts)])
                 => cycle'.accounts = Closer(cycle.accounts)
           /\ InBatch' = InBatch /\ HasPlan' = HasPlan
<1>1. GoodCycle(cycle) /\ cycle.accounts \in [Receivers -> Account]
  BY DEF TypeInv, GoodCycle, Cycles
<1>2. Closer(cycle.accounts) \in [Receivers -> Account]
  BY <1>1, CloserSound
<1>3. /\ cycle'.pc = cycle.pc /\ cycle'.targets = cycle.targets
      /\ cycle'.plan = cycle.plan /\ cycle'.waiting = cycle.waiting
      /\ cycle'.signers = cycle.signers /\ cycle'.latest_tx = Older(cycle.latest_tx)
  BY <1>1, <1>2, CycleAges
<1>4. /\ cycle' = AgeMarks(cycle) => cycle'.accounts = cycle.accounts
      /\ cycle' = AgeMarks([cycle EXCEPT !.accounts = Closer(cycle.accounts)])
            => cycle'.accounts = Closer(cycle.accounts)
  BY <1>1, <1>2, CycleAges
<1>5. InBatch' = InBatch /\ HasPlan' = HasPlan
  BY <1>3 DEF InBatch, HasPlan
<1> QED BY <1>3, <1>4, <1>5

(* Marks that age together keep their order.                               *)
LEMMA MarksAgeTogether ==
    ASSUME NEW a \in 0 .. Beyond, NEW b \in 0 .. Beyond, NEW c \in 0 .. Beyond
    PROVE  /\ Lower(a, b) <= c => Lower(Older(a), Older(b)) <= Older(c)
           /\ Older(Beyond) = Beyond
           /\ a \in Nat /\ Beyond \in Nat
<1>1. Beyond \in Nat
  BY EscrowAssumption DEF Beyond
<1>2. /\ Older(a) = (IF a < Beyond THEN a + 1 ELSE Beyond)
      /\ Older(b) = (IF b < Beyond THEN b + 1 ELSE Beyond)
      /\ Older(c) = (IF c < Beyond THEN c + 1 ELSE Beyond)
      /\ Older(Beyond) = Beyond
  BY <1>1, MarksAge
<1> QED BY <1>1, <1>2 DEF Lower

(* A pin that aged with everything else.                                   *)
LEMMA PinAges ==
    ASSUME TypeInv, PinFollows, pin' = Older(pin), landed' = Older(landed),
           cycle'.latest_tx = Older(cycle.latest_tx), cycle'.waiting = cycle.waiting,
           InBatch' = InBatch, HasPlan' = HasPlan,
           mempool' = mempool \/ ~ InBatch
    PROVE  PinFollows'
<1>1. pin \in 0 .. Beyond /\ landed \in 0 .. Beyond /\ cycle.latest_tx \in 0 .. Beyond
      /\ Beyond \in 0 .. Beyond
  BY RecentAccounts DEF TypeInv, ChainInv, Cycles
<1>2. Older(Beyond) = Beyond
  BY <1>1, MarksAgeTogether
<1>3. Lower(pin, cycle.latest_tx) <= landed => Lower(pin', cycle'.latest_tx) <= landed'
  BY <1>1, MarksAgeTogether
<1>4. CASE InBatch /\ cycle.waiting /\ mempool = <<>>
  BY <1>2, <1>4 DEF PinFollows
<1>5. CASE Lower(pin, cycle.latest_tx) <= landed
  BY <1>2, <1>3, <1>5 DEF PinFollows
<1> QED BY <1>4, <1>5 DEF PinFollows

(* The recent blocks after a new one, if the latest one follows the last.  *)
LEMMA PictureAges ==
    ASSUME TypeInv, PictureInv, NEW seen \in [[Receivers -> Account] -> [Receivers -> Account]],
           blocks' \in [1 .. Beyond -> [Receivers -> Account]],
           \A i \in 1 .. MaxLag : blocks'[i + 1] = seen[blocks[i]],
           landed' = Older(landed),
           \A b \in [Receivers -> Account] : \A r \in Receivers :
               Shrunk(b[r], Latest[r]) => Shrunk(seen[b][r], blocks'[1][r]),
           \A b \in [Receivers -> Account] : \A r \in Receivers :
               (collects' = 0 /\ (collects = 0 => Latest[r] = b[r]))
                   => blocks'[1][r] = seen[b][r],
           NEW j \in Ages, j <= landed', NEW r \in Receivers
    PROVE  /\ Shrunk(blocks'[j + 1][r], blocks'[1][r])
           /\ collects' = 0 => blocks'[1][r] = blocks'[j + 1][r]
<1>1. MaxLag \in Nat /\ Beyond = MaxLag + 1 /\ landed \in 0 .. Beyond /\ j \in 0 .. MaxLag
  BY RecentAccounts DEF TypeInv, ChainInv, Ages
<1>2. CASE j = 0
  <2>1. blocks'[1][r] \in Account
    BY <1>1
  <2>2. Shrunk(blocks'[1][r], blocks'[1][r])
    BY <2>1, ShrunkTwice
  <2> QED BY <1>2, <2>2
<1>3. CASE j # 0
  <2>1. j - 1 \in Ages /\ j \in 1 .. MaxLag /\ (j - 1) + 1 = j
    BY <1>1, <1>3 DEF Ages
  <2>2. j - 1 <= landed
    <3>1. landed' = (IF landed < Beyond THEN landed + 1 ELSE Beyond)
      BY <1>1, MarksAge
    <3> QED BY <1>1, <2>1, <3>1
  <2>3. Shrunk(blocks[j][r], Latest[r]) /\ (collects = 0 => Latest[r] = blocks[j][r])
    <3>1. /\ Shrunk(blocks[(j - 1) + 1][r], Latest[r])
          /\ collects = 0 => Latest[r] = blocks[(j - 1) + 1][r]
      BY <2>1, <2>2 DEF PictureInv
    <3> QED BY <2>1, <3>1
  <2>4. blocks[j] \in [Receivers -> Account] /\ blocks'[j + 1] = seen[blocks[j]]
    BY <1>1, <2>1 DEF TypeInv, ChainInv
  <2> QED BY <2>3, <2>4
<1> QED BY <1>2, <1>3
-----------------------------------------------------------------------------
(* A step that leaves the chain and the plan alone, or eases the accounts: *)
(* what made the planned steps right still does.                           *)
LEMMA PlanStays ==
    ASSUME TypeInv, TypeInv', PlanInv,
           cycle'.plan = cycle.plan, cycle'.targets = cycle.targets,
           HasPlan' => HasPlan, BeforeThaws' => BeforeThaws, BeforeDeposits' => BeforeDeposits,
           collects' = 0 => collects = 0,
           \A r \in Receivers :
              /\ Latest'[r].thawing <= Latest[r].thawing
              /\ (Latest'[r].thawing > 0 /\ Latest[r].thaw_left < 0) => Latest'[r].thaw_left < 0
              /\ EffectiveBalance(Latest'[r]) <= EffectiveBalance(Latest[r])
              /\ collects' = 0 => (Latest'[r].balance = Latest[r].balance
                    /\ EffectiveBalance(Latest'[r]) = EffectiveBalance(Latest[r]))
    PROVE  PlanInv'
<1> SUFFICES ASSUME HasPlan', NEW r \in Receivers
             PROVE  LET step == cycle'.plan[r]
                        new == Latest'[r]
                    IN  /\ (step.kind = "withdraw" /\ new.thawing > 0) => new.thaw_left < 0
                        /\ (step.kind = "thaw" /\ BeforeThaws') => new.thawing = 0
                        /\ (step.kind = "deposit" /\ BeforeDeposits') =>
                              /\ step.amount > 0
                              /\ EffectiveBalance(new) + step.amount <= cycle'.targets[r]
                        /\ (collects' = 0 /\ step.kind = "thaw" /\ BeforeThaws') =>
                              step.amount + cycle'.targets[r] <= new.balance
                        /\ (collects' = 0 /\ step.kind \in {"nothing", "thaw"}) =>
                              EffectiveBalance(new) >= cycle'.targets[r]
  BY DEF PlanInv
<1> DEFINE step == cycle.plan[r]
           old == Latest[r]
           new == Latest'[r]
           target == cycle.targets[r]
<1>1. old \in Account /\ new \in Account
  <2>1. Sound(Latest) /\ Sound(Latest')
    <3>1. 1 \in 1 .. Beyond
      BY EscrowAssumption DEF Beyond
    <3> QED BY <3>1 DEF TypeInv, ChainInv, Latest
  <2> QED BY <2>1 DEF Sound
<1>2. /\ old.thawing \in Nat /\ new.thawing \in Nat
      /\ EffectiveBalance(old) \in Nat /\ EffectiveBalance(new) \in Nat
  BY <1>1, EffectiveIsNat
<1>3. step.amount \in Nat /\ target \in Nat
  BY DEF TypeInv, GoodCycle, Cycles, Step
<1>4. /\ (step.kind = "withdraw" /\ old.thawing > 0) => old.thaw_left < 0
      /\ (step.kind = "thaw" /\ BeforeThaws) => old.thawing = 0
      /\ (step.kind = "deposit" /\ BeforeDeposits) =>
            (step.amount > 0 /\ EffectiveBalance(old) + step.amount <= target)
      /\ (collects = 0 /\ step.kind = "thaw" /\ BeforeThaws) =>
            step.amount + target <= old.balance
      /\ (collects = 0 /\ step.kind \in {"nothing", "thaw"}) =>
            EffectiveBalance(old) >= target
  BY DEF PlanInv
<1>5. cycle'.plan[r] = step /\ cycle'.targets[r] = target
  OBVIOUS
<1>6. /\ new.thawing <= old.thawing
      /\ (new.thawing > 0 /\ old.thaw_left < 0) => new.thaw_left < 0
      /\ EffectiveBalance(new) <= EffectiveBalance(old)
      /\ collects' = 0 => (new.balance = old.balance
            /\ EffectiveBalance(new) = EffectiveBalance(old))
  OBVIOUS
<1> HIDE DEF step, old, new, target
<1>7. (step.kind = "withdraw" /\ new.thawing > 0) => new.thaw_left < 0
  BY <1>2, <1>4, <1>6
<1>8. (step.kind = "thaw" /\ BeforeThaws') => new.thawing = 0
  BY <1>2, <1>4, <1>6
<1>9. (step.kind = "deposit" /\ BeforeDeposits') =>
            (step.amount > 0 /\ EffectiveBalance(new) + step.amount <= target)
  BY <1>2, <1>3, <1>4, <1>6
<1>10. (collects' = 0 /\ step.kind = "thaw" /\ BeforeThaws') =>
            step.amount + target <= new.balance
  BY <1>4, <1>6
<1>11. (collects' = 0 /\ step.kind \in {"nothing", "thaw"}) =>
            EffectiveBalance(new) >= target
  BY <1>4, <1>6
<1> QED BY <1>5, <1>7, <1>8, <1>9, <1>10, <1>11 DEF new

(* A step of the process that does not read accounts.                      *)
LEMMA PictureStays ==
    ASSUME PictureInv, UNCHANGED <<blocks, landed, collects>>, cycle'.pc # "clock"
    PROVE  PictureInv'
BY DEF PictureInv, Latest

(* Outside the batches nothing is on its way, and the pin is recent enough.*)
LEMMA QuietOutside ==
    ASSUME TypeInv, OneAtATime, PinFollows, ~ InBatch
    PROVE  /\ cycle.pc \notin {"authorize", "approve"} => mempool = <<>>
           /\ ~ cycle.waiting => mempool = <<>>
           /\ Lower(pin, cycle.latest_tx) <= landed
           /\ ~ HasPlan => (pin <= landed /\ cycle.latest_tx = Beyond)
           /\ \A p \in 0 .. Beyond : Lower(p, Beyond) = p
<1>1. Beyond \in Nat /\ pin \in 0 .. Beyond
  BY EscrowAssumption DEF Beyond, TypeInv
<1>2. Lower(pin, cycle.latest_tx) <= landed
  BY DEF PinFollows
<1>3. \A p \in 0 .. Beyond : Lower(p, Beyond) = p
  BY <1>1 DEF Lower
<1>4. ~ HasPlan => (pin <= landed /\ cycle.latest_tx = Beyond)
  BY <1>1, <1>2, <1>3 DEF PinFollows
<1> QED BY <1>2, <1>3, <1>4 DEF OneAtATime

(* The startup and the end of a cycle, as long as nothing is on its way.   *)
LEMMA QuietMoves ==
    ASSUME TypeInv, PromptInv, ~ InBatch, mempool = <<>>,
           UNCHANGED <<chain, collects>>, cycle'.latest_tx = Beyond,
           (pin' = pin /\ ~ HasPlan) \/ pin' = Lower(pin, cycle.latest_tx),
           cycle'.pc \notin {"thaw", "deposit", "withdraw", "pin", "clock"}
    PROVE  PromptInv'
<1>1. blocks' = blocks /\ landed' = landed /\ mempool' = <<>>
  BY DEF chain
<1>2. OneAtATime'
  BY <1>1 DEF OneAtATime
<1>3. ~ HasPlan'
  BY DEF HasPlan, InBatch
<1>4. PinFollows'
  <2>1. /\ Lower(pin, cycle.latest_tx) <= landed
        /\ ~ HasPlan => pin <= landed
        /\ \A p \in 0 .. Beyond : Lower(p, Beyond) = p
    BY QuietOutside DEF PromptInv
  <2>2. pin' <= landed
    BY <2>1
  <2>3. pin' \in 0 .. Beyond
    BY DEF TypeInv, GoodCycle, Cycles, Lower
  <2>4. Lower(pin', cycle'.latest_tx) = pin'
    BY <2>1, <2>3
  <2> QED BY <1>1, <1>3, <2>2, <2>4 DEF PinFollows
<1>5. PictureInv'
  BY <1>1, PictureStays DEF PromptInv
<1>6. PlanInv'
  BY <1>3 DEF PlanInv
<1> QED BY <1>2, <1>4, <1>5, <1>6 DEF PromptInv
-----------------------------------------------------------------------------
(* The startup transaction or the batch that was waited for is mined.      *)
LEMMA LandingIsPrompt ==
    ASSUME TypeInv, TypeInv', PromptInv, TransactionLands
    PROVE  PromptInv'
<1>1. /\ cycle.waiting /\ mempool # <<>> /\ mempool' = <<>> /\ Sound(Landed)
      /\ blocks'[1] = Landed /\ \A i \in 1 .. MaxLag : blocks'[i + 1] = blocks[i]
  BY WhatLands DEF PromptInv
<1>2. /\ cycle' = AgeMarks(cycle) /\ pin' = Older(pin) /\ collects' = collects
  BY DEF TransactionLands
<1>3. /\ cycle'.pc = cycle.pc /\ cycle'.targets = cycle.targets
      /\ cycle'.plan = cycle.plan /\ cycle'.waiting = cycle.waiting
      /\ cycle'.latest_tx = Older(cycle.latest_tx)
      /\ InBatch' = InBatch /\ HasPlan' = HasPlan
  BY <1>2, CycleGoesOn
<1>4. OneAtATime'
  BY <1>1 DEF OneAtATime
<1>5. MaxLag \in Nat /\ Beyond = MaxLag + 1 /\ Sound(Latest)
      /\ blocks \in [1 .. Beyond -> [Receivers -> Account]]
      /\ blocks' \in [1 .. Beyond -> [Receivers -> Account]]
  BY RecentAccounts DEF TypeInv, ChainInv
<1>6. CASE cycle.pc \in {"authorize", "approve"} /\ Landed = Latest /\ landed' = Older(landed)
  <2>1. ~ InBatch /\ ~ HasPlan
    BY <1>6 DEF InBatch, HasPlan
  <2>2. PinFollows'
    BY <1>2, <1>3, <1>6, <2>1, PinAges DEF PromptInv
  <2>3. PlanInv'
    BY <1>3, <2>1 DEF PlanInv
  <2>4. PictureInv'
    <3>1. ASSUME NEW j \in Ages, j <= landed', NEW r \in Receivers
          PROVE  /\ Shrunk(blocks'[j + 1][r], blocks'[1][r])
                 /\ collects' = 0 => blocks'[1][r] = blocks'[j + 1][r]
      <4> DEFINE seen == [b \in [Receivers -> Account] |-> b]
      <4>1. seen \in [[Receivers -> Account] -> [Receivers -> Account]]
        OBVIOUS
      <4>2. \A i \in 1 .. MaxLag : blocks'[i + 1] = seen[blocks[i]]
        BY <1>1, <1>5
      <4>3. \A b \in [Receivers -> Account] : seen[b] = b
        OBVIOUS
      <4> HIDE DEF seen
      <4>4. \A b \in [Receivers -> Account] : \A s \in Receivers :
               Shrunk(b[s], Latest[s]) => Shrunk(seen[b][s], blocks'[1][s])
        BY <1>1, <1>6, <4>3
      <4>5. \A b \in [Receivers -> Account] : \A s \in Receivers :
               (collects' = 0 /\ (collects = 0 => Latest[s] = b[s]))
                   => blocks'[1][s] = seen[b][s]
        BY <1>1, <1>2, <1>6, <4>3
      <4> QED BY <1>5, <1>6, <3>1, <4>1, <4>2, <4>4, <4>5, PictureAges DEF PromptInv
    <3>2. cycle'.pc # "clock"
      BY <1>3, <1>6
    <3> QED BY <3>1, <3>2 DEF PictureInv, Latest
  <2> QED BY <1>4, <2>2, <2>3, <2>4 DEF PromptInv
<1>7. ASSUME NEW i \in 1 .. 3, cycle.pc = Batches[i], landed' = 0,
             \A r \in Receivers :
                \/ Landed[r] = Latest[r]
                \/ LET amount == Calls(cycle.plan, Batches[i])[r]
                   IN  /\ cycle.plan[r].kind = Batches[i]
                       /\ amount \in Nat
                       /\ amount = cycle.plan[r].amount
                             \/ (/\ Batches[i] = "deposit"
                                 /\ amount <= Higher(cycle.plan[r].amount, MinDeposit))
                       /\ Landed[r] = AfterCall(Latest[r], Batches[i], amount)
      PROVE  PromptInv'
  <2>1. InBatch /\ HasPlan /\ cycle.pc # "clock"
    BY <1>7, BatchKinds DEF InBatch, HasPlan
  <2>2. PinFollows'
    BY <1>1, <1>3, <2>1 DEF PinFollows
  <2>3. PictureInv'
    <3>1. ASSUME NEW j \in Ages, j <= landed', NEW r \in Receivers
          PROVE  /\ Shrunk(blocks'[j + 1][r], blocks'[1][r])
                 /\ collects' = 0 => blocks'[1][r] = blocks'[j + 1][r]
      <4>1. j = 0 /\ j + 1 = 1
        BY <1>5, <1>7, <3>1 DEF Ages
      <4>2. blocks'[1][r] \in Account
        BY <1>5
      <4> QED BY <4>1, <4>2, ShrunkTwice
    <3> QED BY <1>3, <2>1, <3>1 DEF PictureInv, Latest
  <2>4. ~ BeforeThaws' /\ BeforeThaws = (cycle.pc = "thaw")
        /\ BeforeDeposits' = (cycle.pc = "thaw")
        /\ BeforeDeposits = (cycle.pc \in {"thaw", "deposit"})
    BY <1>1, <1>3 DEF BeforeThaws, BeforeDeposits, NotYet
  <2>5. ASSUME NEW r \in Receivers
        PROVE  LET step == cycle.plan[r]
                   new == Landed[r]
               IN  /\ (step.kind = "withdraw" /\ new.thawing > 0) => new.thaw_left < 0
                   /\ (step.kind = "deposit" /\ cycle.pc = "thaw") =>
                         /\ step.amount > 0
                         /\ EffectiveBalance(new) + step.amount <= cycle.targets[r]
                   /\ (collects = 0 /\ step.kind \in {"nothing", "thaw"}) =>
                         EffectiveBalance(new) >= cycle.targets[r]
    <3> DEFINE step == cycle.plan[r]
               old == Latest[r]
               new == Landed[r]
               target == cycle.targets[r]
               amount == Calls(cycle.plan, Batches[i])[r]
    <3>1. old \in Account /\ new \in Account
      BY <1>1, <1>5 DEF Sound
    <3>2. step.amount \in Nat /\ target \in Nat
      BY DEF TypeInv, GoodCycle, Cycles, Step
    <3>3. /\ (step.kind = "withdraw" /\ old.thawing > 0) => old.thaw_left < 0
          /\ (step.kind = "deposit" /\ BeforeDeposits) =>
                (step.amount > 0 /\ EffectiveBalance(old) + step.amount <= target)
          /\ (collects = 0 /\ step.kind = "thaw" /\ BeforeThaws) =>
                step.amount + target <= old.balance
          /\ (collects = 0 /\ step.kind \in {"nothing", "thaw"}) =>
                EffectiveBalance(old) >= target
      BY <2>1 DEF PromptInv, PlanInv
    <3>4. \/ new = old
          \/ /\ step.kind = cycle.pc /\ amount \in Nat
             /\ amount = step.amount \/ cycle.pc = "deposit"
             /\ new = AfterCall(old, cycle.pc, amount)
      BY <1>7
    <3>5. cycle.pc \in {"thaw", "deposit", "withdraw"}
      BY <2>1 DEF InBatch
    <3> HIDE DEF step, old, new, target, amount
    <3>6. CASE new = old
      BY <2>4, <3>3, <3>6 DEF step, old, new, target
    <3>7. CASE /\ step.kind = cycle.pc /\ amount \in Nat
               /\ amount = step.amount \/ cycle.pc = "deposit"
               /\ new = AfterCall(old, cycle.pc, amount)
      <4>1. CASE cycle.pc = "withdraw"
        <5>1. new.thawing = 0
          BY <3>1, <3>7, <4>1, CallFields
        <5> QED BY <3>7, <4>1, <5>1 DEF step, new
      <4>2. CASE cycle.pc = "deposit"
        BY <3>7, <4>2 DEF step
      <4>3. CASE cycle.pc = "thaw"
        <5>1. amount = step.amount
          BY <3>7, <4>3
        <5>2. new.balance = old.balance /\ new.thawing = step.amount
          BY <3>1, <3>7, <4>3, <5>1, CallFields
        <5>3. collects = 0 => step.amount + target <= old.balance
          BY <2>4, <3>3, <3>7, <4>3
        <5>4. old.balance \in Nat
          BY <3>1, EffectiveIsNat
        <5>5. collects = 0 => EffectiveBalance(new) >= target
          BY <3>2, <5>2, <5>3, <5>4 DEF EffectiveBalance, Higher
        <5> QED BY <3>7, <4>3, <5>5 DEF step, new, target
      <4> QED BY <3>5, <4>1, <4>2, <4>3
    <3> QED BY <3>4, <3>6, <3>7
  <2>6. PlanInv'
    <3>1. Latest' = Landed
      BY <1>1 DEF Latest
    <3> QED BY <1>2, <1>3, <2>4, <2>5, <3>1 DEF PlanInv
  <2> QED BY <1>4, <2>2, <2>3, <2>6 DEF PromptInv
<1> QED BY <1>6, <1>7, WhatLands DEF PromptInv
-----------------------------------------------------------------------------
(* Receivers collect.                                                      *)
LEMMA CollectingIsPrompt ==
    ASSUME TypeInv, TypeInv', PromptInv,
           NEW q \in Receivers, NEW tokens \in Collections, Collect(q, tokens)
    PROVE  PromptInv'
<1> DEFINE next == [Latest EXCEPT ![q] = Collected(Latest[q], tokens)]
<1>1. /\ tokens \in Nat \ {0} /\ tokens <= Latest[q].balance /\ Mine(next) /\ Sound(next)
  BY CollectedBlock
<1>2. /\ blocks' \in [1 .. Beyond -> [Receivers -> Account]] /\ blocks'[1] = next
      /\ \A i \in 1 .. MaxLag : blocks'[i + 1] = blocks[i]
  <2> HIDE DEF next
  <2> QED BY <1>1, BlocksStay
<1>3. /\ cycle' = AgeMarks(cycle) /\ pin' = Older(pin) /\ landed' = Older(landed)
      /\ collects' = collects + 1 /\ mempool' = mempool
  BY DEF Collect
<1>4. /\ cycle'.pc = cycle.pc /\ cycle'.targets = cycle.targets
      /\ cycle'.plan = cycle.plan /\ cycle'.waiting = cycle.waiting
      /\ cycle'.latest_tx = Older(cycle.latest_tx) /\ cycle'.accounts = cycle.accounts
      /\ InBatch' = InBatch /\ HasPlan' = HasPlan
  BY <1>3, CycleGoesOn
<1>5. collects' # 0
  BY <1>3, EscrowAssumption DEF TypeInv
<1>6. Sound(Latest) /\ Latest \in [Receivers -> Account] /\ Latest' = next
      /\ cycle.accounts \in [Receivers -> Account] /\ next \in [Receivers -> Account]
  BY <1>1, <1>2, RecentAccounts DEF Sound, Latest
<1>7. \A r \in Receivers : Shrunk(Latest[r], next[r])
  <2> SUFFICES ASSUME NEW r \in Receivers PROVE Shrunk(Latest[r], next[r])
    OBVIOUS
  <2>1. Latest[r] \in Account /\ Latest[r].thawing <= Latest[r].balance
    BY <1>6 DEF Sound
  <2>2. CASE r = q
    <3>1. next[r] = Collected(Latest[r], tokens)
      BY <1>6, <2>2
    <3>2. tokens \in Nat /\ tokens <= Latest[r].balance
      BY <1>1, <2>2
    <3> HIDE DEF next
    <3> QED BY <2>1, <3>1, <3>2, CollectedShrinks
  <2>3. CASE r # q
    <3>1. next[r] = Latest[r]
      BY <1>6, <2>3
    <3> HIDE DEF next
    <3> QED BY <2>1, <3>1, ShrunkTwice
  <2> QED BY <2>2, <2>3
<1> HIDE DEF next
<1>8. \A b \in [Receivers -> Account] : \A r \in Receivers :
         Shrunk(b[r], Latest[r]) => Shrunk(b[r], next[r])
  <2> SUFFICES ASSUME NEW b \in [Receivers -> Account], NEW r \in Receivers,
                      Shrunk(b[r], Latest[r])
               PROVE  Shrunk(b[r], next[r])
    OBVIOUS
  <2>1. b[r] \in Account /\ Latest[r] \in Account /\ next[r] \in Account
    BY <1>6
  <2>2. Shrunk(Latest[r], next[r])
    BY <1>7
  <2> QED BY <2>1, <2>2, ShrunkTwice
<1>9. OneAtATime'
  <2>1. \A i \in 1 .. 3 : Transaction(i)' = Transaction(i)
    BY <1>4 DEF Transaction
  <2> QED BY <1>3, <1>4, <2>1 DEF OneAtATime, PromptInv
<1>10. PinFollows'
  BY <1>3, <1>4, PinAges DEF PromptInv
<1>11. PictureInv'
  <2>1. ASSUME NEW j \in Ages, j <= landed', NEW r \in Receivers
        PROVE  Shrunk(blocks'[j + 1][r], blocks'[1][r])
    <3> DEFINE seen == [b \in [Receivers -> Account] |-> b]
    <3>1. seen \in [[Receivers -> Account] -> [Receivers -> Account]]
      OBVIOUS
    <3>2. \A b \in [Receivers -> Account] : seen[b] = b
      OBVIOUS
    <3>3. \A i \in 1 .. MaxLag : blocks'[i + 1] = seen[blocks[i]]
      <4>1. /\ MaxLag \in Nat /\ Beyond = MaxLag + 1
            /\ blocks \in [1 .. Beyond -> [Receivers -> Account]]
        BY RecentAccounts DEF TypeInv, ChainInv
      <4>2. \A i \in 1 .. MaxLag : blocks[i] \in [Receivers -> Account]
        BY <4>1
      <4> HIDE DEF seen
      <4> QED BY <1>2, <3>2, <4>2
    <3> HIDE DEF seen
    <3>4. \A b \in [Receivers -> Account] : \A s \in Receivers :
             Shrunk(b[s], Latest[s]) => Shrunk(seen[b][s], blocks'[1][s])
      BY <1>2, <1>8, <3>2
    <3>5. \A b \in [Receivers -> Account] : \A s \in Receivers :
             (collects' = 0 /\ (collects = 0 => Latest[s] = b[s]))
                 => blocks'[1][s] = seen[b][s]
      BY <1>5
    <3> QED BY <1>2, <1>3, <2>1, <3>1, <3>3, <3>4, <3>5, PictureAges DEF PromptInv
  <2>2. ASSUME cycle.pc = "clock", NEW r \in Receivers
        PROVE  Shrunk(cycle.accounts[r], next[r])
    BY <1>6, <1>8, <2>2 DEF PromptInv, PictureInv
  <2> QED BY <1>2, <1>4, <1>5, <1>6, <2>1, <2>2 DEF PictureInv, Latest
<1>12. PlanInv'
  <2>1. /\ BeforeThaws' => BeforeThaws
        /\ BeforeDeposits' => BeforeDeposits
    BY <1>3, <1>4 DEF BeforeThaws, BeforeDeposits, NotYet
  <2>2. ASSUME NEW r \in Receivers
        PROVE  /\ Latest'[r].thawing <= Latest[r].thawing
               /\ (Latest'[r].thawing > 0 /\ Latest[r].thaw_left < 0) => Latest'[r].thaw_left < 0
               /\ EffectiveBalance(Latest'[r]) <= EffectiveBalance(Latest[r])
    <3>1. Shrunk(Latest[r], Latest'[r])
      BY <1>6, <1>7
    <3> QED BY <3>1 DEF Shrunk
  <2> QED BY <1>4, <1>5, <2>1, <2>2, PlanStays DEF PromptInv
<1> QED BY <1>9, <1>10, <1>11, <1>12 DEF PromptInv

(* Time passes: for the accounts there are as for those that were read.    *)
LEMMA TimeIsPrompt ==
    ASSUME TypeInv, TypeInv', PromptInv, Tick
    PROVE  PromptInv'
<1>1. /\ blocks' \in [1 .. Beyond -> [Receivers -> Account]] /\ blocks'[1] = Closer(Latest)
      /\ \A i \in 1 .. MaxLag : blocks'[i + 1] = Closer(blocks[i])
  BY TickBlocks
<1>2. /\ cycle' = AgeMarks([cycle EXCEPT !.accounts = Closer(cycle.accounts)])
      /\ pin' = Older(pin) /\ landed' = Older(landed)
      /\ collects' = collects /\ mempool' = mempool
  BY DEF Tick
<1>3. /\ cycle'.pc = cycle.pc /\ cycle'.targets = cycle.targets
      /\ cycle'.plan = cycle.plan /\ cycle'.waiting = cycle.waiting
      /\ cycle'.latest_tx = Older(cycle.latest_tx)
      /\ cycle'.accounts = Closer(cycle.accounts)
      /\ InBatch' = InBatch /\ HasPlan' = HasPlan
  BY <1>2, CycleGoesOn
<1>4. Latest \in [Receivers -> Account] /\ Latest' = Closer(Latest)
      /\ cycle.accounts \in [Receivers -> Account]
  BY <1>1, RecentAccounts DEF Sound, Latest
<1>5. \A b \in [Receivers -> Account] : \A r \in Receivers :
         Shrunk(b[r], Latest[r]) => Shrunk(Closer(b)[r], Closer(Latest)[r])
  BY <1>4, CloserShrinks
<1>6. \A b \in [Receivers -> Account] : \A r \in Receivers :
         Latest[r] = b[r] => Closer(Latest)[r] = Closer(b)[r]
  BY <1>4 DEF Closer
<1>7. OneAtATime'
  <2>1. \A i \in 1 .. 3 : Transaction(i)' = Transaction(i)
    BY <1>3 DEF Transaction
  <2> QED BY <1>2, <1>3, <2>1 DEF OneAtATime, PromptInv
<1>8. PinFollows'
  BY <1>2, <1>3, PinAges DEF PromptInv
<1>9. PictureInv'
  <2>1. ASSUME NEW j \in Ages, j <= landed', NEW r \in Receivers
        PROVE  /\ Shrunk(blocks'[j + 1][r], blocks'[1][r])
               /\ collects' = 0 => blocks'[1][r] = blocks'[j + 1][r]
    <3> DEFINE seen == [b \in [Receivers -> Account] |-> Closer(b)]
    <3>1. \A b \in [Receivers -> Account] : seen[b] = Closer(b)
      OBVIOUS
    <3>2. seen \in [[Receivers -> Account] -> [Receivers -> Account]]
      <4>1. \A b \in [Receivers -> Account] : Closer(b) \in [Receivers -> Account]
        BY CloserSound
      <4> QED BY <4>1
    <3>3. \A i \in 1 .. MaxLag : blocks'[i + 1] = seen[blocks[i]]
      <4>1. /\ MaxLag \in Nat /\ Beyond = MaxLag + 1
            /\ blocks \in [1 .. Beyond -> [Receivers -> Account]]
        BY RecentAccounts DEF TypeInv, ChainInv
      <4>2. \A i \in 1 .. MaxLag : blocks[i] \in [Receivers -> Account]
        BY <4>1
      <4> HIDE DEF seen
      <4> QED BY <1>1, <3>1, <4>2
    <3> HIDE DEF seen
    <3>4. \A b \in [Receivers -> Account] : \A s \in Receivers :
             Shrunk(b[s], Latest[s]) => Shrunk(seen[b][s], blocks'[1][s])
      BY <1>1, <1>5, <3>1
    <3>5. \A b \in [Receivers -> Account] : \A s \in Receivers :
             (collects' = 0 /\ (collects = 0 => Latest[s] = b[s]))
                 => blocks'[1][s] = seen[b][s]
      BY <1>1, <1>2, <1>6, <3>1
    <3> QED BY <1>1, <1>2, <2>1, <3>2, <3>3, <3>4, <3>5, PictureAges DEF PromptInv
  <2>2. ASSUME cycle.pc = "clock", NEW r \in Receivers
        PROVE  /\ Shrunk(cycle'.accounts[r], Latest'[r])
               /\ collects' = 0 => Latest'[r] = cycle'.accounts[r]
    <3>1. /\ Shrunk(cycle.accounts[r], Latest[r])
          /\ collects = 0 => Latest[r] = cycle.accounts[r]
      BY <2>2 DEF PromptInv, PictureInv
    <3> QED BY <1>2, <1>3, <1>4, <1>5, <1>6, <3>1
  <2> QED BY <1>3, <2>1, <2>2 DEF PictureInv, Latest
<1>10. PlanInv'
  <2>1. /\ BeforeThaws' => BeforeThaws
        /\ BeforeDeposits' => BeforeDeposits
    BY <1>2, <1>3 DEF BeforeThaws, BeforeDeposits, NotYet
  <2>2. ASSUME NEW r \in Receivers
        PROVE  /\ Latest'[r].thawing <= Latest[r].thawing
               /\ (Latest'[r].thawing > 0 /\ Latest[r].thaw_left < 0) => Latest'[r].thaw_left < 0
               /\ EffectiveBalance(Latest'[r]) <= EffectiveBalance(Latest[r])
               /\ Latest'[r].balance = Latest[r].balance
               /\ EffectiveBalance(Latest'[r]) = EffectiveBalance(Latest[r])
    <3>1. Latest[r] \in Account
      BY <1>4
    <3>2. /\ Latest[r].thawing \in Nat /\ Latest[r].thaw_left \in Int
          /\ EffectiveBalance(Latest[r]) \in Nat
      BY <3>1, EffectiveIsNat
    <3>3. /\ Closer(Latest)[r].balance = Latest[r].balance
          /\ Closer(Latest)[r].thawing = Latest[r].thawing
          /\ Closer(Latest)[r].thaw_left =
                IF Latest[r].thawing > 0 THEN Higher(Latest[r].thaw_left - 1, -1)
                                         ELSE Latest[r].thaw_left
      BY <1>4, CloserSound
    <3>4. EffectiveBalance(Closer(Latest)[r]) = EffectiveBalance(Latest[r])
      BY <3>3 DEF EffectiveBalance
    <3> QED BY <1>4, <3>2, <3>3, <3>4 DEF Higher
  <2> QED BY <1>2, <1>3, <2>1, <2>2, PlanStays DEF PromptInv
<1> QED BY <1>7, <1>8, <1>9, <1>10 DEF PromptInv
-----------------------------------------------------------------------------
(* The batches, in their order.                                            *)
LEMMA BatchNames ==
    /\ Batches[1] = "thaw" /\ Batches[2] = "deposit" /\ Batches[3] = "withdraw"
    /\ \A i \in 1 .. 3 : Batches[i] \in {"thaw", "deposit", "withdraw"}
    /\ \A i \in 1 .. 3 : \A k \in 1 .. 3 : Batches[i] = Batches[k] => i = k
<1>1. Batches[1] = "thaw" /\ Batches[2] = "deposit" /\ Batches[3] = "withdraw"
  BY DEF Batches
<1>2. \A i \in 1 .. 3 : i = 1 \/ i = 2 \/ i = 3
  OBVIOUS
<1> QED BY <1>1, <1>2

(* A transaction is sent when none is on its way, and then waited for.     *)
LEMMA SendingIsPrompt ==
    ASSUME TypeInv, TypeInv', PromptInv, ~ cycle.waiting, NEW tx,
           mempool' = Append(mempool, tx), cycle' = [cycle EXCEPT !.waiting = TRUE],
           UNCHANGED <<blocks, landed, pin, collects>>,
           \/ cycle.pc \in {"authorize", "approve"} /\ tx.kind = cycle.pc
           \/ \E i \in 1 .. 3 : cycle.pc = Batches[i] /\ tx = Transaction(i)
    PROVE  PromptInv'
<1>1. mempool = <<>>
  BY DEF PromptInv, OneAtATime
<1>2. mempool' # <<>> /\ Len(mempool') = 1 /\ mempool'[1] = tx
  BY <1>1
<1>3. cycle \in Cycles
  BY DEF TypeInv, GoodCycle
<1>4. /\ cycle'.pc = cycle.pc /\ cycle'.plan = cycle.plan /\ cycle'.waiting = TRUE
      /\ cycle'.targets = cycle.targets /\ cycle'.latest_tx = cycle.latest_tx
      /\ InBatch' = InBatch /\ HasPlan' = HasPlan
  BY <1>3 DEF Cycles, InBatch, HasPlan
<1>5. \A i \in 1 .. 3 : Transaction(i)' = Transaction(i)
  BY <1>4 DEF Transaction
<1>6. cycle.pc # "clock"
  BY BatchKinds
<1>7. OneAtATime'
  <2>1. CASE cycle.pc \in {"authorize", "approve"} /\ tx.kind = cycle.pc
    <3>1. \A i \in 1 .. 3 : cycle.pc # Batches[i]
      BY <2>1, BatchKinds
    <3> QED BY <1>2, <1>4, <2>1, <3>1 DEF OneAtATime
  <2>2. ASSUME NEW i \in 1 .. 3, cycle.pc = Batches[i], tx = Transaction(i)
        PROVE  OneAtATime'
    <3>1. InBatch
      BY <2>2, BatchKinds DEF InBatch
    <3>2. \A k \in 1 .. 3 : cycle.pc = Batches[k] => k = i
      BY <2>2, BatchNames
    <3> QED BY <1>2, <1>4, <1>5, <2>2, <3>1, <3>2 DEF OneAtATime
  <2> QED BY <2>1, <2>2
<1>8. PinFollows'
  BY <1>4 DEF PromptInv, PinFollows
<1>9. PictureInv'
  BY <1>4, <1>6, PictureStays DEF PromptInv
<1>10. PlanInv'
  <2>1. /\ BeforeThaws' => BeforeThaws
        /\ BeforeDeposits' => BeforeDeposits
    BY <1>4 DEF BeforeThaws, BeforeDeposits, NotYet
  <2>2. Latest' = Latest
    BY DEF Latest
  <2>3. \A r \in Receivers : Latest[r] \in Account
    BY RecentAccounts DEF Sound
  <2>4. \A r \in Receivers : Latest[r].thawing \in Nat /\ EffectiveBalance(Latest[r]) \in Nat
    BY <2>3, EffectiveIsNat
  <2> QED BY <1>4, <2>1, <2>2, <2>4, PlanStays DEF PromptInv
<1> QED BY <1>7, <1>8, <1>9, <1>10 DEF PromptInv

(* A batch is refused, or its receipt is seen: the next one has its turn.  *)
LEMMA BatchesArePrompt ==
    ASSUME TypeInv, TypeInv', PromptInv, NEW i \in 1 .. 3,
           BatchRefused(i) \/ ReceiptArrives(i)
    PROVE  PromptInv'
<1>1. /\ cycle'.waiting = FALSE /\ cycle'.targets = cycle.targets /\ cycle'.plan = cycle.plan
      /\ ReceiptArrives(i) => cycle'.latest_tx = landed
      /\ ~ ReceiptArrives(i) => cycle'.latest_tx = cycle.latest_tx
      /\ cycle'.pc = "pin" \/ \E j \in i + 1 .. 3 : cycle'.pc = Batches[j]
  BY BatchEnds
<1>2. /\ cycle.pc = Batches[i]
      /\ ReceiptArrives(i) => mempool = <<>>
      /\ ~ ReceiptArrives(i) => ~ cycle.waiting
      /\ blocks' = blocks /\ landed' = landed /\ mempool' = mempool
      /\ pin' = pin /\ collects' = collects
  BY DEF BatchRefused, ReceiptArrives, Sending, Waiting, chain
<1>3. mempool = <<>>
  <2>1. CASE ReceiptArrives(i)
    BY <1>2, <2>1
  <2>2. CASE ~ ReceiptArrives(i)
    <3>1. ~ cycle.waiting
      BY <1>2, <2>2
    <3> QED BY <3>1 DEF PromptInv, OneAtATime
  <2> QED BY <2>1, <2>2
<1>4. InBatch /\ HasPlan
  <2>1. cycle.pc = Batches[i]
    BY <1>2
  <2> QED BY <2>1, BatchNames DEF InBatch, HasPlan
<1>5. HasPlan' /\ cycle'.pc \notin {"clock", "thaw"} /\ (cycle'.pc = "deposit" => cycle.pc = "thaw")
  <2>1. CASE cycle'.pc = "pin"
    BY <2>1 DEF HasPlan
  <2>2. ASSUME NEW j \in i + 1 .. 3, cycle'.pc = Batches[j]
        PROVE  HasPlan' /\ cycle'.pc \notin {"clock", "thaw"}
               /\ (cycle'.pc = "deposit" => cycle.pc = "thaw")
    <3>1. /\ j = 2 \/ j = 3
          /\ j = 2 => i = 1
      OBVIOUS
    <3>2. cycle.pc = Batches[i]
      BY <1>2
    <3>3. CASE j = 2
      <4>1. cycle.pc = "thaw" /\ cycle'.pc = "deposit"
        BY <2>2, <3>1, <3>2, <3>3, BatchNames
      <4> QED BY <4>1 DEF HasPlan, InBatch
    <3>4. CASE j = 3
      <4>1. cycle'.pc = "withdraw"
        BY <2>2, <3>4, BatchNames
      <4> QED BY <4>1 DEF HasPlan, InBatch
    <3> QED BY <3>1, <3>3, <3>4
  <2> QED BY <1>1, <2>1, <2>2
<1>6. OneAtATime'
  BY <1>2, <1>3 DEF OneAtATime
<1>7. PinFollows'
  <2>1. landed \in 0 .. Beyond /\ pin \in 0 .. Beyond
    BY DEF TypeInv, ChainInv
  <2>2. CASE ReceiptArrives(i)
    <3>1. Lower(pin, landed) <= landed
      BY <2>1 DEF Lower
    <3> QED BY <1>1, <1>2, <1>5, <2>2, <3>1 DEF PinFollows
  <2>3. CASE ~ ReceiptArrives(i)
    BY <1>1, <1>2, <1>5, <2>3 DEF PinFollows, PromptInv
  <2> QED BY <2>2, <2>3
<1>8. PictureInv'
  BY <1>2, <1>5, PictureStays DEF PromptInv
<1>9. PlanInv'
  <2>1. /\ BeforeThaws' => BeforeThaws
        /\ BeforeDeposits' => BeforeDeposits
    BY <1>5 DEF BeforeThaws, BeforeDeposits
  <2>2. Latest' = Latest
    BY <1>2 DEF Latest
  <2>3. \A r \in Receivers : Latest[r] \in Account
    BY RecentAccounts DEF Sound
  <2>4. \A r \in Receivers : Latest[r].thawing \in Nat /\ EffectiveBalance(Latest[r]) \in Nat
    BY <2>3, EffectiveIsNat
  <2> QED BY <1>1, <1>2, <1>4, <2>1, <2>2, <2>4, PlanStays DEF PromptInv
<1> QED BY <1>6, <1>7, <1>8, <1>9 DEF PromptInv

(* The accounts are those of a block no older than the payer's last        *)
(* multicall.                                                              *)
LEMMA ReadingIsPrompt ==
    ASSUME TypeInv, PromptInv, NEW age \in Ages, ReadAccounts(age)
    PROVE  PromptInv' /\ age <= landed /\ cycle'.accounts = blocks[age + 1]
<1>1. /\ cycle'.pc = "clock" /\ cycle'.accounts = blocks[age + 1]
      /\ cycle'.waiting = FALSE /\ cycle'.latest_tx = Beyond
  BY AccountsRead
<1>2. /\ cycle.pc = "idle" /\ age <= pin /\ blocks' = blocks /\ landed' = landed
      /\ mempool' = mempool /\ pin' = pin /\ collects' = collects
  BY DEF ReadAccounts, chain
<1>3. ~ InBatch /\ ~ HasPlan /\ ~ HasPlan'
  BY <1>1, <1>2 DEF InBatch, HasPlan
<1>4. mempool = <<>> /\ pin <= landed /\ Lower(pin, Beyond) = pin
  BY <1>2, <1>3, QuietOutside DEF PromptInv, TypeInv
<1>5. age <= landed
  BY <1>2, <1>4, EscrowAssumption DEF TypeInv, ChainInv, Ages, Beyond
<1>6. OneAtATime'
  BY <1>2, <1>4 DEF OneAtATime
<1>7. PinFollows'
  BY <1>1, <1>2, <1>3, <1>4 DEF PinFollows
<1>8. PictureInv'
  <2>1. \A r \in Receivers :
           /\ Shrunk(blocks[age + 1][r], Latest[r])
           /\ collects = 0 => Latest[r] = blocks[age + 1][r]
    BY <1>5 DEF PromptInv, PictureInv
  <2> QED BY <1>1, <1>2, <2>1 DEF PromptInv, PictureInv, Latest
<1>9. PlanInv'
  BY <1>3 DEF PlanInv
<1> QED BY <1>1, <1>5, <1>6, <1>7, <1>8, <1>9 DEF PromptInv
-----------------------------------------------------------------------------
(* The plan is right for the accounts there are, not only for those that   *)
(* were read.                                                              *)
LEMMA PlanningIsPrompt ==
    ASSUME TypeInv, PromptInv, NEW answers \in BOOLEAN, ReadClock(answers)
    PROVE  PromptInv'
<1>1. /\ cycle'.waiting = FALSE /\ cycle'.latest_tx = Beyond
      /\ cycle'.pc \in {"thaw", "deposit", "withdraw", "pin"}
      /\ cycle'.targets = cycle.targets
      /\ \E reclaim \in Reclaims :
            \A r \in Receivers :
               cycle'.plan[r] = decide(cycle.accounts[r], cycle.targets[r], reclaim)
  BY PlanMade DEF TypeInv
<1>2. /\ cycle.pc = "clock" /\ blocks' = blocks /\ landed' = landed
      /\ mempool' = mempool /\ pin' = pin /\ collects' = collects
  BY DEF ReadClock, chain
<1>3. ~ InBatch /\ ~ HasPlan /\ HasPlan'
  BY <1>1, <1>2 DEF InBatch, HasPlan
<1>4. mempool = <<>> /\ pin <= landed /\ Lower(pin, Beyond) = pin
  BY <1>2, <1>3, QuietOutside DEF PromptInv, TypeInv
<1>5. OneAtATime'
  BY <1>2, <1>4 DEF OneAtATime
<1>6. PinFollows'
  BY <1>1, <1>2, <1>3, <1>4 DEF PinFollows
<1>7. PictureInv'
  <2>1. cycle'.pc # "clock"
    BY <1>1
  <2> QED BY <1>2, <2>1, PictureStays DEF PromptInv
<1>8. PlanInv'
  <2>1. PICK reclaim \in Reclaims : \A r \in Receivers :
           cycle'.plan[r] = decide(cycle.accounts[r], cycle.targets[r], reclaim)
    BY <1>1
  <2>2. ASSUME NEW r \in Receivers
        PROVE  LET step == cycle'.plan[r]
                   now == Latest[r]
                   target == cycle.targets[r]
               IN  /\ (step.kind = "withdraw" /\ now.thawing > 0) => now.thaw_left < 0
                   /\ step.kind = "thaw" => now.thawing = 0
                   /\ step.kind = "deposit" =>
                         (step.amount > 0 /\ EffectiveBalance(now) + step.amount <= target)
                   /\ (collects = 0 /\ step.kind = "thaw") =>
                         step.amount + target <= now.balance
                   /\ (collects = 0 /\ step.kind \in {"nothing", "thaw"}) =>
                         EffectiveBalance(now) >= target
    <3> DEFINE step == cycle'.plan[r]
               now == Latest[r]
               read == cycle.accounts[r]
               target == cycle.targets[r]
    <3>1. step = decide(read, target, reclaim)
      BY <2>1
    <3>2. read \in Account /\ now \in Account /\ target \in Nat
      BY RecentAccounts DEF Sound, Cycles
    <3>3. Shrunk(read, now) /\ (collects = 0 => now = read)
      BY <1>2 DEF PromptInv, PictureInv
    <3> HIDE DEF step, now, read, target
    <3>4. /\ read.balance \in Nat /\ read.thawing \in Nat /\ read.thaw_left \in Int
          /\ now.thawing \in Nat
          /\ EffectiveBalance(read) \in Nat /\ EffectiveBalance(now) \in Nat
      BY <3>2, EffectiveIsNat
    <3>5. /\ step.amount \in Nat
          /\ step.kind = "withdraw" <=> Matured(read, reclaim)
          /\ step.kind = "deposit" =>
                /\ step.amount > 0 /\ EffectiveBalance(read) < target
                /\ EffectiveBalance(read) + step.amount = target
          /\ step.kind = "thaw" =>
                /\ step.amount > 0 /\ read.thawing = 0
                /\ step.amount + target <= read.balance
          /\ step.kind \in {"nothing", "thaw"} => EffectiveBalance(read) >= target
      BY <3>1, <3>2, <3>4, DecideOne
    <3>6. (step.kind = "withdraw" /\ now.thawing > 0) => now.thaw_left < 0
      <4>1. step.kind = "withdraw" => read.thaw_left < 0
        BY <3>5 DEF Matured
      <4> QED BY <3>3, <4>1 DEF Shrunk
    <3>7. step.kind = "thaw" => now.thawing = 0
      BY <3>3, <3>4, <3>5 DEF Shrunk
    <3>8. step.kind = "deposit" =>
             (step.amount > 0 /\ EffectiveBalance(now) + step.amount <= target)
      <4>1. EffectiveBalance(now) <= EffectiveBalance(read)
        BY <3>3 DEF Shrunk
      <4> QED BY <3>2, <3>4, <3>5, <4>1
    <3>9. (collects = 0 /\ step.kind = "thaw") => step.amount + target <= now.balance
      BY <3>3, <3>5
    <3>10. (collects = 0 /\ step.kind \in {"nothing", "thaw"}) => EffectiveBalance(now) >= target
      BY <3>3, <3>5
    <3> QED BY <3>6, <3>7, <3>8, <3>9, <3>10 DEF step, now, target
  <2>3. Latest' = Latest
    BY <1>2 DEF Latest
  <2> QED BY <1>1, <1>2, <2>2, <2>3 DEF PlanInv
<1> QED BY <1>5, <1>6, <1>7, <1>8 DEF PromptInv

(* Initially the accounts are empty and nothing was sent.                  *)
LEMMA PromptStart == Init => PromptInv
<1> SUFFICES ASSUME Init PROVE PromptInv
  OBVIOUS
<1>1. TypeInv
  BY TypeStart
<1>2. MaxLag \in Nat /\ Beyond = MaxLag + 1 /\ Beyond \in Nat
  BY EscrowAssumption DEF Beyond
<1>3. Starting.waiting = FALSE /\ Starting.latest_tx = Beyond
      /\ Starting.pc \in {"signers", "allowance"}
  BY FreshCycles
<1>4. cycle = Starting /\ mempool = <<>> /\ pin = Beyond /\ landed = Beyond
      /\ blocks = [i \in 1 .. Beyond |-> [r \in Receivers |-> NoAccount]]
  BY DEF Init
<1>5. ~ HasPlan
  BY <1>3, <1>4 DEF HasPlan, InBatch
<1>6. OneAtATime
  BY <1>4 DEF OneAtATime
<1>7. PinFollows
  BY <1>2, <1>3, <1>4 DEF PinFollows, Lower
<1>8. PictureInv
  <2>1. ASSUME NEW j \in Ages, NEW r \in Receivers
        PROVE  Shrunk(blocks[j + 1][r], Latest[r]) /\ Latest[r] = blocks[j + 1][r]
    <3>1. j + 1 \in 1 .. Beyond /\ 1 \in 1 .. Beyond
      BY <1>2 DEF Ages
    <3>2. blocks[j + 1][r] = NoAccount /\ Latest[r] = NoAccount
      BY <1>4, <3>1 DEF Latest
    <3>3. Latest[r] \in Account
      BY <1>1, RecentAccounts DEF Sound
    <3> QED BY <3>2, <3>3, ShrunkTwice
  <2>2. cycle.pc # "clock"
    BY <1>3, <1>4
  <2> QED BY <2>1, <2>2 DEF PictureInv
<1>9. PlanInv
  BY <1>5 DEF PlanInv
<1> QED BY <1>6, <1>7, <1>8, <1>9 DEF PromptInv
-----------------------------------------------------------------------------
(* A process that is not restarted and whose calls are answered in time.   *)
LEMMA PromptStep ==
    ASSUME Prompt, TypeInv, PromptInv, [Next]_vars
    PROVE  PromptInv'
<1>1. TypeInv'
  BY TypeStep
<1>2. CASE TransactionLands
  BY <1>1, <1>2, LandingIsPrompt
<1>3. ASSUME NEW r \in Receivers, NEW tokens \in Collections, Collect(r, tokens)
      PROVE  PromptInv'
  BY <1>1, <1>3, CollectingIsPrompt
<1>4. CASE Tick
  BY <1>1, <1>4, TimeIsPrompt
<1>5. ASSUME NEW listed \in SUBSET Signers, ReadSigners(listed) PROVE PromptInv'
  <2>1. /\ cycle.pc = "signers" /\ cycle' = Authorizing(Signers \ listed)
        /\ UNCHANGED <<chain, collects>> /\ pin' = pin
    BY <1>5 DEF ReadSigners
  <2>2. cycle'.latest_tx = Beyond /\ cycle'.pc \in {"allowance", "authorize"}
    BY <2>1, FreshCycles
  <2>3. ~ InBatch /\ ~ HasPlan
    BY <2>1 DEF InBatch, HasPlan
  <2>4. mempool = <<>>
    BY <2>1, <2>3, QuietOutside DEF PromptInv
  <2> QED BY <2>1, <2>2, <2>3, <2>4, QuietMoves
<1>6. CASE SendAtStartup
  <2>1. StartupTransaction.kind = cycle.pc
    BY <1>6, StartupTransactionMade DEF SendAtStartup
  <2> QED BY <1>1, <1>6, <2>1, SendingIsPrompt DEF SendAtStartup
<1>7. CASE SignerDone
  <2>1. /\ cycle.pc = "authorize" /\ cycle' = Authorizing(cycle.signers \ {NextSigner})
        /\ UNCHANGED <<chain, collects>> /\ pin' = pin
        /\ cycle.waiting => mempool = <<>>
    BY <1>7 DEF SignerDone, Prompt
  <2>2. cycle.signers \ {NextSigner} \in SUBSET Signers
    BY DEF TypeInv, GoodCycle, Cycles
  <2>3. cycle'.latest_tx = Beyond /\ cycle'.pc \in {"allowance", "authorize"}
    BY <2>1, <2>2, FreshCycles
  <2>4. ~ InBatch /\ ~ HasPlan
    BY <2>1 DEF InBatch, HasPlan
  <2>5. mempool = <<>>
    BY <2>1, <2>4, QuietOutside DEF PromptInv
  <2> QED BY <2>1, <2>3, <2>4, <2>5, QuietMoves
<1>8. CASE ReadAllowance \/ Approved
  <2>1. /\ cycle.pc \in {"allowance", "approve"} /\ UNCHANGED <<chain, collects>> /\ pin' = pin
        /\ cycle' = [Idle EXCEPT !.pc = "approve"] \/ cycle' = Idle
        /\ cycle.pc = "approve" => mempool = <<>>
    BY <1>8 DEF ReadAllowance, Approved
  <2>2. cycle'.latest_tx = Beyond /\ cycle'.pc \in {"approve", "idle"}
    BY <2>1 DEF Idle
  <2>3. ~ InBatch /\ ~ HasPlan
    BY <2>1 DEF InBatch, HasPlan
  <2>4. mempool = <<>>
    BY <2>1, <2>3, QuietOutside DEF PromptInv
  <2> QED BY <2>1, <2>2, <2>3, <2>4, QuietMoves
<1>9. CASE UNCHANGED <<chain, pin, cycle, collects>>
  BY <1>9 DEF chain, PromptInv, OneAtATime, PinFollows, PictureInv, PlanInv, HasPlan, InBatch,
     Latest, Transaction, BeforeThaws, BeforeDeposits, NotYet
<1>10. ASSUME NEW age \in Ages, ReadAccounts(age) PROVE PromptInv'
  BY <1>10, ReadingIsPrompt
<1>11. ASSUME NEW answers \in BOOLEAN, ReadClock(answers) PROVE PromptInv'
  BY <1>11, PlanningIsPrompt
<1>12. ASSUME NEW i \in 1 .. 3, SendBatch(i) PROVE PromptInv'
  BY <1>1, <1>12, SendingIsPrompt DEF SendBatch, Sending
<1>13. ASSUME NEW i \in 1 .. 3, BatchRefused(i) \/ ReceiptArrives(i) PROVE PromptInv'
  BY <1>1, <1>13, BatchesArePrompt
<1>14. CASE EndCycle
  <2>1. /\ cycle.pc = "pin" /\ cycle' = Idle /\ UNCHANGED <<chain, collects>>
        /\ pin' = Lower(pin, cycle.latest_tx)
    BY <1>14 DEF EndCycle
  <2>2. cycle'.latest_tx = Beyond /\ cycle'.pc = "idle"
    BY <2>1, FreshCycles
  <2>3. ~ InBatch
    BY <2>1 DEF InBatch
  <2>4. mempool = <<>>
    BY <2>1, <2>3, QuietOutside DEF PromptInv
  <2> QED BY <2>1, <2>2, <2>3, <2>4, QuietMoves
<1>15. ~ ExitAtStartup /\ ~ Restart /\ \A i \in 1 .. 3 : ~ ReceiptTimesOut(i)
  BY DEF Prompt, ExitAtStartup, Restart, ReceiptTimesOut, TypeInv
<1>16. UNCHANGED vars => UNCHANGED <<chain, pin, cycle, collects>>
  BY DEF vars
<1>17. ASSUME NEW r \in Receivers, NEW debt \in Debts, Publish(r, debt)
       PROVE  UNCHANGED <<chain, pin, cycle, collects>>
  BY <1>17 DEF Publish
<1> QED BY <1>2, <1>3, <1>4, <1>5, <1>6, <1>7, <1>8, <1>9, <1>10, <1>11, <1>12, <1>13,
           <1>14, <1>15, <1>16, <1>17 DEF Next

(* What such a process can rely on: nothing but collections happens to the *)
(* accounts since they were read, and what was planned stays right.        *)
THEOREM PromptProcess ==
    ASSUME Prompt
    PROVE  Spec => [](TypeInv /\ PromptInv)
<1>1. Init => TypeInv /\ PromptInv
  BY TypeStart, PromptStart
<1>2. TypeInv /\ PromptInv /\ [Next]_vars => TypeInv' /\ PromptInv'
  BY TypeStep, PromptStep
<1> QED BY <1>1, <1>2, PTL DEF Spec

(* No withdrawal is sent for a thaw that is still running.                 *)
THEOREM WithdrawalsAreMature ==
    ASSUME Prompt
    PROVE  Spec => []WithdrawsOnlyMatured
<1>1. PromptInv => WithdrawsOnlyMatured
  BY DEF PromptInv, PlanInv, HasPlan, InBatch, WithdrawsOnlyMatured
<1> QED BY <1>1, PromptProcess, PTL

(* Whoever gets no deposit and no withdrawal is covered when a cycle ends. *)
THEOREM EverybodyIsCovered ==
    ASSUME Prompt
    PROVE  Spec => []NobodyIsLeftShort
<1>1. PromptInv => NobodyIsLeftShort
  BY DEF PromptInv, PlanInv, HasPlan, NobodyIsLeftShort
<1> QED BY <1>1, PromptProcess, PTL
-----------------------------------------------------------------------------
(* Only reading accounts starts a cycle.                                   *)
LEMMA WhoStartsACycle ==
    ASSUME TypeInv, [Next]_vars, cycle.pc = "idle", cycle'.pc = "clock"
    PROVE  \E age \in Ages : ReadAccounts(age)
<1>1. ~ TransactionLands
  <2> SUFFICES ASSUME TransactionLands PROVE FALSE
    OBVIOUS
  <2>1. cycle'.pc = cycle.pc
    BY CycleGoesOn DEF TransactionLands
  <2> QED BY <2>1
<1>2. ASSUME NEW r \in Receivers, NEW tokens \in Collections, Collect(r, tokens)
      PROVE  FALSE
  <2>1. cycle'.pc = cycle.pc
    BY <1>2, CycleGoesOn DEF Collect
  <2> QED BY <2>1
<1>3. ~ Tick
  <2> SUFFICES ASSUME Tick PROVE FALSE
    OBVIOUS
  <2>1. cycle'.pc = cycle.pc
    BY CycleGoesOn DEF Tick
  <2> QED BY <2>1
<1>4. ~ ReadAllowance /\ ~ Approved /\ ~ SendAtStartup /\ ~ SignerDone /\ ~ EndCycle
      /\ ~ ExitAtStartup /\ \A listed \in SUBSET Signers : ~ ReadSigners(listed)
  BY DEF ReadAllowance, Approved, SendAtStartup, SignerDone, EndCycle, ExitAtStartup,
     ReadSigners, InStartup
<1>5. ~ Restart
  BY FreshCycles DEF Restart
<1>6. \A answers \in BOOLEAN : ~ ReadClock(answers)
  BY DEF ReadClock
<1>7. ASSUME NEW i \in 1 .. 3 PROVE cycle.pc # Batches[i]
  BY BatchNames
<1>8. \A i \in 1 .. 3 :
         ~ SendBatch(i) /\ ~ BatchRefused(i) /\ ~ ReceiptArrives(i) /\ ~ ReceiptTimesOut(i)
  BY <1>7 DEF SendBatch, BatchRefused, ReceiptArrives, ReceiptTimesOut, Sending, Waiting
<1>9. cycle' # cycle
  OBVIOUS
<1>10. \A r \in Receivers : \A debt \in Debts : ~ Publish(r, debt)
  BY <1>9 DEF Publish
<1>11. ~ UNCHANGED vars
  BY <1>9 DEF vars
<1> QED BY <1>1, <1>2, <1>3, <1>4, <1>5, <1>6, <1>8, <1>10, <1>11 DEF Next

(* Only landing transactions, collections and time make a new block.       *)
LEMMA WhoChangesAccounts ==
    ASSUME [Next]_vars
    PROVE  \/ TransactionLands
           \/ \E r \in Receivers : \E tokens \in Collections : Collect(r, tokens)
           \/ Tick
           \/ blocks' = blocks
BY DEF Next, ReadSigners, SendAtStartup, SignerDone, ReadAllowance, Approved, ExitAtStartup,
   Publish, ReadAccounts, ReadClock, SendBatch, BatchRefused, ReceiptArrives, ReceiptTimesOut,
   EndCycle, Restart, chain, vars

(* A cycle plans on a block no older than the payer's last multicall.      *)
THEOREM PinIsEnough ==
    ASSUME Prompt
    PROVE  Spec => NeverPlansOnStaleData
<1>1. ASSUME TypeInv, PromptInv, [Next]_vars, cycle.pc = "idle", cycle'.pc = "clock"
      PROVE  \E age \in Ages : age <= landed /\ cycle'.accounts = blocks[age + 1]
  <2>1. PICK age \in Ages : ReadAccounts(age)
    BY <1>1, WhoStartsACycle
  <2>2. age <= landed /\ cycle'.accounts = blocks[age + 1]
    BY <1>1, <2>1, ReadingIsPrompt
  <2> QED BY <2>2
<1>2. TypeInv /\ PromptInv /\ [Next]_vars =>
         [cycle.pc = "idle" /\ cycle'.pc = "clock" =>
             \E age \in Ages : age <= landed /\ cycle'.accounts = blocks[age + 1]]_vars
  BY <1>1
<1> QED BY <1>2, PromptProcess, PTL DEF Spec, NeverPlansOnStaleData

(* What a step makes of an account: a thaw starts from nothing, a deposit  *)
(* stops at the target, and everything else only shrinks.                  *)
LEMMA AccountStep ==
    ASSUME TypeInv, PromptInv, [Next]_vars, NEW r \in Receivers
    PROVE  /\ (Latest[r].thawing > 0 /\ Latest'[r].thawing > 0) =>
                 /\ Latest'[r].thawing <= Latest[r].thawing
                 /\ Latest'[r].thaw_left <= Latest[r].thaw_left
           /\ Latest'[r].balance > Latest[r].balance =>
                 EffectiveBalance(Latest'[r]) < cycle.targets[r] + MinDeposit
<1> DEFINE old == Latest[r]
           new == Latest'[r]
           target == cycle.targets[r]
<1>1. TypeInv'
  BY TypeStep
<1>2. old \in Account /\ new \in Account /\ target \in Nat /\ MinDeposit \in Nat \ {0}
  <2>1. Sound(Latest) /\ Sound(Latest')
    <3>1. 1 \in 1 .. Beyond
      BY EscrowAssumption DEF Beyond
    <3> QED BY <1>1, <3>1 DEF TypeInv, ChainInv, Latest
  <2> QED BY <2>1, PolicyAssumption DEF Sound, TypeInv, GoodCycle, Cycles
<1>3. /\ old.balance \in Nat /\ old.thawing \in Nat /\ old.thaw_left \in Int
      /\ new.balance \in Nat /\ new.thawing \in Nat /\ new.thaw_left \in Int
      /\ EffectiveBalance(old) \in Nat /\ EffectiveBalance(new) \in Nat
  BY <1>2, EffectiveIsNat
<1>4. old.thawing <= old.balance
  BY RecentAccounts DEF Sound
<1>5. CASE Shrunk(old, new)
  <2> HIDE DEF old, new
  <2>1. new.balance <= old.balance /\ new.thawing <= old.thawing
        /\ (new.thawing > 0 => new.thaw_left = old.thaw_left)
    BY <1>5 DEF Shrunk
  <2> QED BY <1>3, <2>1 DEF old, new
<1>6. CASE TransactionLands
  <2>1. PICK i \in 1 .. 3 :
           \/ new = old
           \/ LET amount == Calls(cycle.plan, Batches[i])[r]
              IN  /\ cycle.pc = Batches[i] /\ cycle.plan[r].kind = Batches[i]
                  /\ amount \in Nat
                  /\ amount = cycle.plan[r].amount
                        \/ (/\ Batches[i] = "deposit"
                            /\ amount <= Higher(cycle.plan[r].amount, MinDeposit))
                  /\ new = AfterCall(old, Batches[i], amount)
    <3>1. 1 \in 1 .. 3
      OBVIOUS
    <3>2. /\ Latest' = Landed
          /\ \/ Landed = Latest
             \/ \E i \in 1 .. 3 :
                   /\ cycle.pc = Batches[i]
                   /\ \A s \in Receivers :
                         \/ Landed[s] = Latest[s]
                         \/ LET amount == Calls(cycle.plan, Batches[i])[s]
                            IN  /\ cycle.plan[s].kind = Batches[i]
                                /\ amount \in Nat
                                /\ amount = cycle.plan[s].amount
                                      \/ (/\ Batches[i] = "deposit"
                                          /\ amount <= Higher(cycle.plan[s].amount, MinDeposit))
                                /\ Landed[s] = AfterCall(Latest[s], Batches[i], amount)
      BY <1>6, WhatLands DEF PromptInv, Latest
    <3> QED BY <3>1, <3>2
  <2> DEFINE step == cycle.plan[r]
             amount == Calls(cycle.plan, Batches[i])[r]
  <2>2. /\ step.amount \in Nat
        /\ (HasPlan /\ step.kind = "thaw" /\ BeforeThaws) => old.thawing = 0
        /\ (HasPlan /\ step.kind = "deposit" /\ BeforeDeposits) =>
              (step.amount > 0 /\ EffectiveBalance(old) + step.amount <= target)
    BY DEF PromptInv, PlanInv, TypeInv, GoodCycle, Cycles, Step
  <2>3. NotYet
    BY <1>6 DEF TransactionLands, NotYet
  <2>4. /\ cycle.pc = "thaw" => (HasPlan /\ BeforeThaws)
        /\ cycle.pc = "deposit" => (HasPlan /\ BeforeDeposits)
    BY <2>3 DEF HasPlan, InBatch, BeforeThaws, BeforeDeposits
  <2>5. Batches[i] \in {"thaw", "deposit", "withdraw"}
    BY BatchNames
  <2>6. \/ new = old
        \/ /\ cycle.pc = Batches[i] /\ step.kind = Batches[i] /\ amount \in Nat
           /\ amount = step.amount
                 \/ (Batches[i] = "deposit" /\ amount <= Higher(step.amount, MinDeposit))
           /\ new = AfterCall(old, Batches[i], amount)
    BY <2>1
  <2> HIDE DEF old, new, target, step, amount
  <2>7. CASE new = old
    <3>1. new.balance <= old.balance /\ new.thawing <= old.thawing
          /\ new.thaw_left <= old.thaw_left
      BY <1>3, <2>7
    <3> QED BY <1>3, <3>1 DEF old, new
  <2>8. CASE /\ cycle.pc = Batches[i] /\ step.kind = Batches[i] /\ amount \in Nat
             /\ amount = step.amount
                   \/ (Batches[i] = "deposit" /\ amount <= Higher(step.amount, MinDeposit))
             /\ new = AfterCall(old, Batches[i], amount)
    <3>1. CASE Batches[i] = "thaw"
      <4>1. old.thawing = 0
        BY <2>2, <2>4, <2>8, <3>1
      <4>2. new.balance = old.balance
        BY <1>2, <2>8, <3>1, CallFields
      <4> QED BY <1>3, <4>1, <4>2 DEF old, new
    <3>2. CASE Batches[i] = "withdraw"
      <4>1. new.thawing = 0 /\ new.balance <= old.balance
        BY <1>2, <2>8, <3>2, CallFields
      <4> QED BY <1>3, <4>1 DEF old, new
    <3>3. CASE Batches[i] = "deposit"
      <4>1. new.balance = old.balance + amount /\ new.thawing = old.thawing
            /\ new.thaw_left = old.thaw_left
        BY <1>2, <2>8, <3>3, CallFields
      <4>2. step.amount > 0 /\ EffectiveBalance(old) + step.amount <= target
        BY <2>2, <2>4, <2>8, <3>3
      <4>3. EffectiveBalance(new) = EffectiveBalance(old) + amount
        BY <1>3, <1>4, <2>8, <4>1 DEF EffectiveBalance, Higher, old
      <4>4. amount <= step.amount \/ amount <= MinDeposit
        BY <1>2, <2>2, <2>8 DEF Higher
      <4>5. EffectiveBalance(new) < target + MinDeposit
        BY <1>2, <1>3, <2>2, <2>8, <4>2, <4>3, <4>4
      <4>6. new.thawing <= old.thawing /\ new.thaw_left <= old.thaw_left
        BY <1>3, <4>1
      <4> QED BY <4>5, <4>6 DEF old, new, target
    <3> QED BY <2>5, <3>1, <3>2, <3>3
  <2> QED BY <2>6, <2>7, <2>8
<1>7. ASSUME NEW q \in Receivers, NEW tokens \in Collections, Collect(q, tokens)
      PROVE  Shrunk(old, new)
  <2>1. Mine([Latest EXCEPT ![q] = Collected(Latest[q], tokens)])
        /\ Sound([Latest EXCEPT ![q] = Collected(Latest[q], tokens)])
        /\ tokens \in Nat /\ tokens <= Latest[q].balance
    BY <1>7, CollectedBlock
  <2>2. Latest' = [Latest EXCEPT ![q] = Collected(Latest[q], tokens)]
    BY <2>1, BlocksStay DEF Latest
  <2>3. Latest \in [Receivers -> Account]
    BY RecentAccounts DEF Sound
  <2>4. CASE r = q
    <3>1. new = Collected(old, tokens) /\ tokens <= old.balance
      BY <2>1, <2>2, <2>3, <2>4
    <3> HIDE DEF old, new
    <3> QED BY <1>2, <1>4, <2>1, <3>1, CollectedShrinks DEF old
  <2>5. CASE r # q
    <3>1. new = old
      BY <2>2, <2>3, <2>5
    <3> HIDE DEF old, new
    <3> QED BY <1>2, <3>1, ShrunkTwice
  <2> QED BY <2>4, <2>5
<1>8. CASE Tick
  <2>1. Latest' = Closer(Latest)
    BY <1>8, TickBlocks DEF Latest
  <2>2. Latest \in [Receivers -> Account]
    BY RecentAccounts DEF Sound
  <2>3. /\ new.balance = old.balance /\ new.thawing = old.thawing
        /\ new.thaw_left = IF old.thawing > 0 THEN Higher(old.thaw_left - 1, -1)
                                              ELSE old.thaw_left
    BY <2>1, <2>2, CloserSound
  <2>4. old.thaw_left >= -1
    BY <1>2 DEF Account
  <2> HIDE DEF old, new
  <2>5. ~ (new.balance > old.balance) /\ new.thawing <= old.thawing
        /\ new.thaw_left <= old.thaw_left
    BY <1>3, <2>3, <2>4 DEF Higher
  <2> QED BY <2>5 DEF old, new
<1>9. CASE blocks' = blocks
  <2>1. new = old
    BY <1>9 DEF Latest
  <2> HIDE DEF old, new
  <2> QED BY <1>2, <1>5, <2>1, ShrunkTwice
<1> QED BY <1>5, <1>6, <1>7, <1>8, <1>9, WhoChangesAccounts

(* A thaw under way is never restarted.                                    *)
THEOREM ThawsAreNotRestarted ==
    ASSUME Prompt
    PROVE  Spec => ThawsStartFromNothing
<1>1. TypeInv /\ PromptInv /\ [Next]_vars =>
         [\A r \in Receivers : Latest[r].thawing > 0 /\ Latest'[r].thawing > 0 =>
             /\ Latest'[r].thawing <= Latest[r].thawing
             /\ Latest'[r].thaw_left <= Latest[r].thaw_left]_vars
  BY AccountStep
<1> QED BY <1>1, PromptProcess, PTL DEF Spec, ThawsStartFromNothing

(* No deposit overshoots its target by as much as the minimal deposit.     *)
THEOREM DepositsAreBounded ==
    ASSUME Prompt
    PROVE  Spec => DepositsStopAtTarget
<1>1. TypeInv /\ PromptInv /\ [Next]_vars =>
         [\A r \in Receivers : Latest'[r].balance > Latest[r].balance =>
             EffectiveBalance(Latest'[r]) < cycle.targets[r] + MinDeposit]_vars
  BY AccountStep
<1> QED BY <1>1, PromptProcess, PTL DEF Spec, DepositsStopAtTarget

-----------------------------------------------------------------------------
(***************************************************************************)
(* The amounts of a cycle, whatever fails, is late or is restarted.        *)
(***************************************************************************)

(* The target of each receiver is a tight step above its debt (main.rs,    *)
(* next_balance), for any debts, steps and fill factor.                    *)
THEOREM TargetTightness == Spec => []TargetIsTight
<1>1. TypeInv => TargetIsTight
  <2> SUFFICES ASSUME TypeInv, NEW r \in Receivers
               PROVE  LET debt   == Higher(debts[r], ConfigDebts[r])
                          target == Target(r)
                          below  == Higher(target \div 2, target - MaxAdjustment)
                      IN  /\ debt * FillDen < target * FillNum
                          /\ target = MinDeposit \/ debt * FillDen >= below * FillNum
    BY DEF TargetIsTight
  <2> DEFINE debt == Higher(debts[r], ConfigDebts[r])
             target == Target(r)
             below == Higher(target \div 2, target - MaxAdjustment)
  <2>1. debt \in Nat
    <3>1. debts[r] \in Nat /\ ConfigDebts[r] \in Nat
      BY EscrowAssumption DEF TypeInv
    <3> QED BY <3>1 DEF Higher
  <2>2. target = next_balance(debt)
    BY DEF Target
  <2> HIDE DEF debt, target
  <2>3. /\ target \in Nat /\ Enough(target, debt)
        /\ target = MinDeposit \/ ~ Enough(StepBefore(target), debt)
    BY <2>1, <2>2, NextBalanceIsTight
  <2>4. below = StepBefore(target) /\ below \in Nat
    BY <2>3, PolicyAssumption DEF StepBefore, Higher
  <2>5. debt * FillDen \in Nat /\ below * FillNum \in Nat
    BY <2>1, <2>4, PolicyAssumption
  <2> HIDE DEF below
  <2>6. debt * FillDen < target * FillNum
    BY <2>3 DEF Enough
  <2>7. target = MinDeposit \/ debt * FillDen >= below * FillNum
    BY <2>3, <2>4, <2>5 DEF Enough
  <2> QED BY <2>6, <2>7 DEF debt, target, below
<1> QED BY <1>1, EscrowTypeInvariant, PTL

(* What Deposits makes of the deposits that a cycle wants.                 *)
LEMMA BatchOfACycle ==
    ASSUME TypeInv
    PROVE  LET S == DOMAIN Wanted
           IN  /\ IsFiniteSet(S) /\ Cardinality(S) \in Nat /\ Cardinality(Receivers) \in Nat
               /\ Cardinality(S) <= Cardinality(Receivers)
               /\ Wanted \in [S -> Nat] /\ Paid \in [S -> Nat]
               /\ SumFunction(Wanted) <= MaxAdjustment => Paid = Wanted
               /\ SumFunction(Wanted) > MaxAdjustment =>
                     SharedOut(S, Paid, Wanted) /\ SumFunction(Paid) >= MaxAdjustment
               /\ \A s \in S : Paid[s] <= Higher(Wanted[s], MinDeposit)
<1> DEFINE S == {s \in Receivers : cycle.plan[s].kind = "deposit"}
<1>1. cycle.plan \in [Receivers -> Step]
  BY DEF TypeInv, GoodCycle, Cycles
<1>2. Wanted \in [S -> Nat] /\ DOMAIN Wanted = S
  BY <1>1 DEF Wanted, Step
<1>3. Paid = Deposits(Wanted)
  BY DEF Paid, Calls, Wanted
<1>4. IsFiniteSet(Receivers) /\ Receivers \subseteq Nat
  BY EscrowAssumption
<1>5. /\ IsFiniteSet(S) /\ Cardinality(S) \in Nat /\ Cardinality(Receivers) \in Nat
      /\ Cardinality(S) <= Cardinality(Receivers)
  BY <1>4, FS_Subset, FS_CardinalityType
<1>6. \A s \in S : s \in Nat
  BY <1>4
<1> HIDE DEF S
<1>7. /\ Deposits(Wanted) \in [S -> Nat]
      /\ \A s \in S : Deposits(Wanted)[s] <= Higher(Wanted[s], MinDeposit)
      /\ SumFunction(Wanted) <= MaxAdjustment => Deposits(Wanted) = Wanted
      /\ SumFunction(Wanted) > MaxAdjustment =>
            SharedOut(S, Deposits(Wanted), Wanted)
              /\ SumFunction(Deposits(Wanted)) >= MaxAdjustment
  BY <1>2, <1>5, <1>6, DepositsMade
<1> QED BY <1>2, <1>3, <1>5, <1>7

(* When the deposits exceed the cap the whole cap is spent, and less than  *)
(* a round more (main.rs, reduce_adjustments), for any number of receivers.*)
THEOREM CapSpending == Spec => []CapIsSpent
<1>1. TypeInv => CapIsSpent
  <2> SUFFICES ASSUME TypeInv, SumFunction(Wanted) > MaxAdjustment
               PROVE  /\ SumFunction(Paid) >= MaxAdjustment
                      /\ SumFunction(Paid) < Round + Higher(MaxAdjustment,
                                       MinDeposit * Cardinality(Receivers) + 1)
    BY DEF CapIsSpent
  <2> DEFINE S == DOMAIN Wanted
             few == MinDeposit * Cardinality(S)
             most == MinDeposit * Cardinality(Receivers)
  <2>1. SharedOut(S, Paid, Wanted) /\ SumFunction(Paid) >= MaxAdjustment
    BY BatchOfACycle
  <2>2. SumFunction(Paid) < Round + Higher(MaxAdjustment, few + 1)
    BY <2>1 DEF SharedOut
  <2>3. /\ IsFiniteSet(S) /\ Cardinality(S) \in Nat /\ Cardinality(Receivers) \in Nat
        /\ Cardinality(S) <= Cardinality(Receivers) /\ Paid \in [S -> Nat]
    BY BatchOfACycle
  <2>4. MinDeposit \in Nat /\ MaxAdjustment \in Nat /\ Round \in Nat
    BY PolicyAssumption
  <2> HIDE DEF S
  <2>5. SumFunction(Paid) \in Nat
    BY <2>3, DepositsAddUp
  <2>6. few \in Nat /\ most \in Nat /\ few <= most
    <3>1. /\ Cardinality(Receivers) - Cardinality(S) \in Nat
          /\ MinDeposit * (Cardinality(Receivers) - Cardinality(S)) \in Nat
      BY <2>3, <2>4
    <3>2. most = few + MinDeposit * (Cardinality(Receivers) - Cardinality(S))
      BY <2>3, <2>4
    <3>3. few \in Nat /\ most \in Nat
      BY <2>3, <2>4
    <3> HIDE DEF few, most
    <3> QED BY <3>1, <3>2, <3>3
  <2> HIDE DEF few, most
  <2>7. SumFunction(Paid) < Round + Higher(MaxAdjustment, most + 1)
    BY <2>2, <2>4, <2>5, <2>6 DEF Higher
  <2> QED BY <2>1, <2>7 DEF most
<1> QED BY <1>1, EscrowTypeInvariant, PTL

(* The cap is shared out evenly over the receivers of a batch (main.rs,    *)
(* reduce_adjustments), for any number of them.                            *)
THEOREM CapSharing == Spec => []CapIsShared
<1>1. TypeInv => CapIsShared
  <2> SUFFICES ASSUME TypeInv, NEW r \in DOMAIN Paid, NEW s \in DOMAIN Paid
               PROVE  /\ Paid[r] < Wanted[r] => Paid[s] <= Paid[r] + Round
                      /\ Paid[r] <= Higher(Wanted[r], MinDeposit)
    BY DEF CapIsShared
  <2> DEFINE S == DOMAIN Wanted
  <2>1. /\ Paid \in [S -> Nat] /\ Wanted \in [S -> Nat] /\ IsFiniteSet(S)
        /\ \A t \in S : Paid[t] <= Higher(Wanted[t], MinDeposit)
    BY BatchOfACycle
  <2>2. CASE SumFunction(Wanted) <= MaxAdjustment
    <3>1. Paid = Wanted
      BY <2>2, BatchOfACycle
    <3>2. r \in S /\ Wanted[r] \in Nat
      BY <2>1
    <3> QED BY <2>1, <3>1, <3>2
  <2>3. CASE SumFunction(Wanted) > MaxAdjustment
    <3>1. SharedOut(S, Paid, Wanted)
      BY <2>3, BatchOfACycle
    <3> QED BY <2>1, <3>1 DEF SharedOut
  <2>4. SumFunction(Wanted) \in Nat /\ MaxAdjustment \in Nat
    BY <2>1, DepositsAddUp, PolicyAssumption
  <2> QED BY <2>2, <2>3, <2>4
<1> QED BY <1>1, EscrowTypeInvariant, PTL
=============================================================================
