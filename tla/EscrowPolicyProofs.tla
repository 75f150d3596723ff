------------------------- MODULE EscrowPolicyProofs -------------------------
(***************************************************************************)
(* Proofs about EscrowPolicy: what its two loops return, for every debt,   *)
(* every batch of deposits and every value of the constants.               *)
(***************************************************************************)
EXTENDS EscrowPolicy, Sums

(***************************************************************************)
(* Loops.  A loop goes from x in X to next[x] until x is in stop, and then *)
(* returns out[x]; g is what it returns from each x.  A measure that       *)
(* decreases shows that it ends, and an invariant what it returns.         *)
(***************************************************************************)
Loops(g, next, stop, out, X) ==
    g = [x \in X |-> IF x \in stop THEN out[x] ELSE g[next[x]]]

(* A loop that a bounded measure shows to end returns something from each  *)
(* x; from an x that it never leaves that is anything.                     *)
LEMMA LoopExists ==
    ASSUME NEW X, NEW next \in [X -> X], NEW stop, NEW out,
           NEW bound \in Nat, NEW m \in [X -> 0 .. bound],
           \A x \in X : x \in stop \/ m[next[x]] < m[x] \/ next[x] = x
    PROVE  \E g : Loops(g, next, stop, out, X)
<1> DEFINE Good(g, n) == \A x \in X : m[x] < n =>
              g[x] = IF x \in stop THEN out[x] ELSE g[next[x]]
           Bad == {n \in Nat : ~ \E g : Good(g, n)}
<1>1. ASSUME NEW n \in Nat, NEW g, Good(g, n)
      PROVE  \E h : Good(h, n + 1)
  <2> DEFINE h == [x \in X |-> IF m[x] < n THEN g[x]
                               ELSE IF x \in stop THEN out[x]
                               ELSE g[next[x]]]
  <2>1. ASSUME NEW x \in X, m[x] < n + 1
        PROVE  h[x] = IF x \in stop THEN out[x] ELSE h[next[x]]
    <3>1. next[x] \in X /\ m[x] \in Int /\ m[next[x]] \in Int
      OBVIOUS
    <3>2. CASE x \in stop
      BY <1>1, <3>2
    <3>3. CASE x \notin stop /\ next[x] = x
      BY <3>3
    <3>4. CASE x \notin stop /\ m[next[x]] < m[x]
      <4>1. m[next[x]] < n
        BY <2>1, <3>1, <3>4
      <4>2. h[next[x]] = g[next[x]]
        BY <3>1, <4>1
      <4>3. h[x] = g[next[x]]
        BY <1>1, <3>4
      <4> QED BY <3>4, <4>2, <4>3
    <3> QED BY <3>2, <3>3, <3>4
  <2> HIDE DEF h
  <2> QED BY <2>1
<1>2. Good([x \in X |-> 0], 0)
  OBVIOUS
<1>3. \E g : Good(g, bound + 1)
  <2> HIDE DEF Good
  <2> SUFFICES ASSUME ~ \E g : Good(g, bound + 1) PROVE FALSE
    OBVIOUS
  <2>1. bound + 1 \in Bad /\ Bad \in SUBSET Nat
    OBVIOUS
  <2>2. PICK n \in Bad : \A k \in Bad : n <= k
    <3> HIDE DEF Bad
    <3> QED BY <2>1, LeastNatural
  <2>3. n \in Nat /\ ~ \E g : Good(g, n)
    BY <2>2
  <2>4. n # 0
    BY <1>2, <2>3
  <2>5. n - 1 \in Nat /\ (n - 1) + 1 = n /\ n - 1 \notin Bad
    BY <2>2, <2>3, <2>4
  <2>6. PICK g : Good(g, n - 1)
    BY <2>5
  <2>7. \E h : Good(h, (n - 1) + 1)
    BY <1>1, <2>5, <2>6
  <2> QED BY <2>3, <2>5, <2>7
<1>4. PICK g : Good(g, bound + 1)
  BY <1>3
<1> DEFINE h == [x \in X |-> g[x]]
<1>5. ASSUME NEW x \in X PROVE h[x] = IF x \in stop THEN out[x] ELSE h[next[x]]
  <2>1. m[x] < bound + 1 /\ next[x] \in X
    OBVIOUS
  <2> QED BY <1>4, <2>1
<1>6. Loops(h, next, stop, out, X)
  BY <1>5 DEF Loops
<1> QED BY <1>6

(* From an x of the invariant it returns what it has in a stopping state of*)
(* the invariant.                                                          *)
LEMMA LoopEnds ==
    ASSUME NEW X, NEW next, NEW stop, NEW out, NEW m, NEW g,
           Loops(g, next, stop, out, X),
           NEW I, \A x \in I : x \in X /\ m[x] \in Nat,
           \A x \in I : x \in stop \/ (next[x] \in I /\ m[next[x]] < m[x]),
           NEW x \in I
    PROVE  \E y \in I : y \in stop /\ g[x] = out[y]
<1> DEFINE Ends(z) == \E y \in I : y \in stop /\ g[z] = out[y]
           Bad == {n \in Nat : \E z \in I : m[z] = n /\ ~ Ends(z)}
<1> SUFFICES ASSUME ~ Ends(x) PROVE FALSE
  OBVIOUS
<1>1. Bad \in SUBSET Nat /\ Bad # {}
  <2>1. m[x] \in Bad
    OBVIOUS
  <2> QED BY <2>1
<1>2. PICK n \in Bad : \A k \in Bad : n <= k
  <2> HIDE DEF Bad
  <2> QED BY <1>1, LeastNatural
<1>3. PICK z \in I : m[z] = n /\ ~ Ends(z)
  BY <1>2
<1>4. g[z] = IF z \in stop THEN out[z] ELSE g[next[z]]
  BY DEF Loops
<1>5. z \notin stop
  BY <1>3, <1>4
<1>6. next[z] \in I /\ m[next[z]] < n /\ m[next[z]] \in Nat /\ g[next[z]] = g[z]
  BY <1>3, <1>4, <1>5
<1>7. ~ Ends(next[z])
  BY <1>3, <1>6
<1>8. m[next[z]] \in Bad
  BY <1>6, <1>7
<1>9. n <= m[next[z]] /\ n \in Nat
  BY <1>2, <1>8
<1> QED BY <1>6, <1>9

(***************************************************************************)
(* next_balance.                                                           *)
(***************************************************************************)

(* Whether a step is enough for a debt, and the step before it.            *)
Enough(balance, debt) == debt * FillDen < balance * FillNum
StepBefore(balance)   == Higher(balance \div 2, balance - MaxAdjustment)

(* A balance of more than FillDen times the debt is enough.                *)
LEMMA LargeIsEnough ==
    ASSUME NEW debt \in Nat, NEW balance \in Nat, balance > debt * FillDen
    PROVE  Enough(balance, debt)
<1>1. FillNum \in Nat /\ FillNum >= 1 /\ debt * FillDen \in Nat
  BY PolicyAssumption
<1>2. balance * FillNum \in Nat /\ balance * (FillNum - 1) \in Nat
  BY <1>1
<1>3. balance * FillNum = balance + balance * (FillNum - 1)
  BY <1>1
<1> QED BY <1>1, <1>2, <1>3 DEF Enough

(* The step after a step has it as the step before.                        *)
LEMMA StepAfter ==
    ASSUME NEW balance \in Nat, balance > 0
    PROVE  /\ NextRound(balance) \in Nat /\ NextRound(balance) > balance
           /\ StepBefore(NextRound(balance)) = balance
BY PolicyAssumption DEF NextRound, StepBefore, Lower, Higher

(* The balance asked for is enough for the debt, and the step before it is *)
(* not (main.rs, next_balance).                                            *)
LEMMA NextBalanceIsTight ==
    ASSUME NEW debt \in Nat
    PROVE  /\ next_balance(debt) \in Nat /\ next_balance(debt) >= MinDeposit
           /\ Enough(next_balance(debt), debt)
           /\ \/ next_balance(debt) = MinDeposit
              \/ ~ Enough(StepBefore(next_balance(debt)), debt)
<1> DEFINE bound == debt * FillDen
           next == [b \in Nat |-> NextRound(b)]
           stop == {b \in Nat : ~ (debt * FillDen >= b * FillNum)}
           out == [b \in Nat |-> b]
           m == [b \in Nat |-> IF b <= bound THEN bound - b + 1 ELSE 0]
           from == CHOOSE g : g = [b \in Nat |-> IF debt * FillDen >= b * FillNum
                                                 THEN g[NextRound(b)] ELSE b]
           I == {b \in Nat : b >= MinDeposit /\ (b = MinDeposit \/ ~ Enough(StepBefore(b), debt))}
<1>1. bound \in Nat /\ MinDeposit \in Nat /\ MinDeposit >= 1
  BY PolicyAssumption
<1>2. next_balance(debt) = from[MinDeposit]
  BY DEF next_balance
<1>3. \A b \in Nat : b \in stop <=> Enough(b, debt)
  <2>1. \A b \in Nat : b * FillNum \in Nat /\ debt * FillDen \in Nat
    BY PolicyAssumption
  <2> QED BY <2>1 DEF Enough
<1>4. \A b \in Nat : b <= bound \/ b \in stop
  BY <1>1, <1>3, LargeIsEnough
<1>5. \A b \in Nat : m[b] \in 0 .. bound + 1
  BY <1>1
<1>6. \A b \in Nat : b # 0 => next[b] \in Nat /\ next[b] > b /\ StepBefore(next[b]) = b
  BY StepAfter
<1>7. next[0] = 0
  BY PolicyAssumption DEF NextRound, Lower
<1>8. \A b \in Nat : b # 0 => b \in stop \/ m[next[b]] < m[b]
  <2> SUFFICES ASSUME NEW b \in Nat, b # 0, b \notin stop
               PROVE  m[next[b]] < m[b]
    OBVIOUS
  <2>1. b <= bound /\ next[b] \in Nat /\ next[b] > b
    BY <1>4, <1>6
  <2> HIDE DEF next, stop
  <2> QED BY <1>1, <2>1
<1>9. PICK g : Loops(g, next, stop, out, Nat)
  <2>1. next \in [Nat -> Nat]
    <3>1. \A b \in Nat : NextRound(b) \in Nat
      BY <1>6, <1>7
    <3> QED BY <3>1
  <2>2. m \in [Nat -> 0 .. bound + 1]
    BY <1>5
  <2>3. \A b \in Nat : b \in stop \/ m[next[b]] < m[b] \/ next[b] = b
    BY <1>7, <1>8
  <2>4. bound + 1 \in Nat
    BY <1>1
  <2> HIDE DEF next, stop, out, m, bound
  <2> QED BY <2>1, <2>2, <2>3, <2>4, LoopExists
<1>10. \A f : Loops(f, next, stop, out, Nat) <=>
          f = [b \in Nat |-> IF debt * FillDen >= b * FillNum THEN f[NextRound(b)] ELSE b]
  BY DEF Loops
<1>11. Loops(from, next, stop, out, Nat)
  <2>1. \E f : f = [b \in Nat |-> IF debt * FillDen >= b * FillNum
                                    THEN f[NextRound(b)] ELSE b]
    BY <1>9, <1>10
  <2>2. from = [b \in Nat |-> IF debt * FillDen >= b * FillNum
                              THEN from[NextRound(b)] ELSE b]
    BY <2>1
  <2> QED BY <1>10, <2>2
<1>12. \A b \in I : b \in stop \/ (next[b] \in I /\ m[next[b]] < m[b])
  <2> SUFFICES ASSUME NEW b \in I, b \notin stop
               PROVE  next[b] \in I /\ m[next[b]] < m[b]
    OBVIOUS
  <2>1. b \in Nat /\ b # 0 /\ b >= MinDeposit
    BY <1>1
  <2>2. next[b] \in Nat /\ next[b] > b /\ StepBefore(next[b]) = b /\ m[next[b]] < m[b]
    BY <1>6, <1>8, <2>1
  <2>3. ~ Enough(b, debt)
    BY <1>3, <2>1
  <2> HIDE DEF next, stop, m
  <2> QED BY <1>1, <2>1, <2>2, <2>3
<1>13. MinDeposit \in I
  BY <1>1
<1>14. \E b \in I : b \in stop /\ from[MinDeposit] = out[b]
  <2>1. \A b \in I : b \in Nat /\ m[b] \in Nat
    BY <1>5
  <2> HIDE DEF next, stop, out, m, from, I
  <2> QED BY <1>11, <1>12, <1>13, <2>1, LoopEnds
<1>15. PICK b \in I : b \in stop /\ from[MinDeposit] = out[b]
  BY <1>14
<1>16. from[MinDeposit] = b /\ Enough(b, debt)
  BY <1>3, <1>15
<1> HIDE DEF from
<1> QED BY <1>2, <1>15, <1>16

(***************************************************************************)
(* reduce_adjustments.                                                     *)
(***************************************************************************)

(* The sum of a function is that over its domain.                          *)
LEMMA FunctionSum ==
    ASSUME NEW f
    PROVE  SumFunction(f) = SumOver(f, DOMAIN f)
BY DEF SumFunction, SumFunctionOnSet, FoldFunctionOnSet, SumOver, MapThenSumSet,
       MapThenFoldSet

(* Deposits add up to a number, and more deposits to no less.              *)
LEMMA DepositsAddUp ==
    ASSUME NEW R, IsFiniteSet(R), NEW f \in [R -> Nat], NEW g \in [R -> Nat]
    PROVE  /\ SumFunction(f) \in Nat
           /\ (\A r \in R : f[r] <= g[r]) => SumFunction(f) <= SumFunction(g)
<1>1. SumFunction(f) = SumOver(f, R) /\ SumFunction(g) = SumOver(g, R)
  BY FunctionSum
<1>2. \A r \in R : f[r] \in Nat /\ g[r] \in Nat
  OBVIOUS
<1>3. SumOver(f, R) \in Nat
  BY <1>2, SumNat
<1>4. ASSUME \A r \in R : f[r] <= g[r]
      PROVE  SumOver(f, R) <= SumOver(g, R)
  <2>1. \A r \in R : f[r] \in Int /\ g[r] \in Int /\ f[r] <= g[r]
    BY <1>2, <1>4
  <2> QED BY <2>1, SumMonotone
<1> QED BY <1>1, <1>3, <1>4

(* One receiver is raised by a round at most, and nobody else.             *)
LEMMA RaiseOne ==
    ASSUME NEW R, IsFiniteSet(R), NEW desired \in [R -> Nat],
           NEW a \in [R -> Nat], NEW r \in R
    PROVE  /\ Raise(a, desired, r) \in [R -> Nat]
           /\ \A s \in R \ {r} : Raise(a, desired, r)[s] = a[s]
           /\ Raise(a, desired, r)[r] =
                 IF a[r] < desired[r] THEN Lower(desired[r], a[r] + Round) ELSE a[r]
           /\ a[r] <= Raise(a, desired, r)[r]
           /\ Raise(a, desired, r)[r] <= a[r] + Round
           /\ a[r] < desired[r] => a[r] < Raise(a, desired, r)[r]
           /\ SumFunction(Raise(a, desired, r))
                 = SumFunction(a) + (Raise(a, desired, r)[r] - a[r])
<1> DEFINE b == Raise(a, desired, r)
<1>1. Round \in Nat /\ Round > 0 /\ a[r] \in Nat /\ desired[r] \in Nat
  BY PolicyAssumption
<1>2. Lower(desired[r], a[r] + Round) \in Nat
  BY <1>1 DEF Lower
<1>3. b \in [R -> Nat] /\ \A s \in R \ {r} : b[s] = a[s]
  BY <1>2 DEF Raise
<1>4. b[r] = IF a[r] < desired[r] THEN Lower(desired[r], a[r] + Round) ELSE a[r]
  BY DEF Raise
<1> HIDE DEF b
<1>5. a[r] <= b[r] /\ b[r] <= a[r] + Round /\ (a[r] < desired[r] => a[r] < b[r])
  BY <1>1, <1>4 DEF Lower
<1>6. SumOver(b, R) = SumOver(a, R) + (b[r] - a[r])
  <2>1. \A s \in R : a[s] \in Int
    OBVIOUS
  <2>2. b[r] \in Int
    BY <1>3
  <2> QED BY <1>3, <2>1, <2>2, SumUpdate
<1>7. SumFunction(b) = SumOver(b, R) /\ SumFunction(a) = SumOver(a, R)
  BY <1>3, FunctionSum
<1> QED BY <1>3, <1>4, <1>5, <1>6, <1>7 DEF b

(* The first of some receivers is the least.                               *)
LEMMA FirstReceiver ==
    ASSUME NEW S \in SUBSET Nat, S # {}
    PROVE  /\ (CHOOSE s \in S : \A t \in S : s <= t) \in S
           /\ \A t \in S : (CHOOSE s \in S : \A u \in S : s <= u) <= t
<1>1. \E s \in S : \A t \in S : s <= t
  BY LeastNatural
<1> QED BY <1>1

(* The next receiver: none is between, or there was none left in the round.*)
LEMMA NextOne ==
    ASSUME NEW R \in SUBSET Nat, NEW r \in R
    PROVE  /\ NextReceiver(R, r) \in R
           /\ \/ /\ r < NextReceiver(R, r)
                 /\ \A s \in R : s > r <=> s >= NextReceiver(R, r)
              \/ /\ \A s \in R : s <= r
                 /\ \A s \in R : s >= NextReceiver(R, r)
<1> DEFINE later == {s \in R : s > r}
           first(S) == CHOOSE s \in S : \A t \in S : s <= t
<1>1. NextReceiver(R, r) = IF later = {} THEN first(R) ELSE first(later)
  BY DEF NextReceiver
<1>2. r \in Nat /\ R # {} /\ later \in SUBSET Nat
  OBVIOUS
<1>3. CASE later = {}
  <2>1. first(R) \in R /\ \A s \in R : first(R) <= s
    BY <1>2, FirstReceiver
  <2>2. \A s \in R : s <= r
    BY <1>3
  <2> HIDE DEF first
  <2> QED BY <1>1, <1>3, <2>1, <2>2
<1>4. CASE later # {}
  <2>1. first(later) \in later /\ \A s \in later : first(later) <= s
    <3> HIDE DEF later
    <3> QED BY <1>2, <1>4, FirstReceiver
  <2> HIDE DEF first
  <2>2. first(later) \in R /\ first(later) > r /\ first(later) \in Nat
    BY <2>1
  <2>3. \A s \in R : s > r <=> s >= first(later)
    BY <1>2, <2>1, <2>2
  <2> QED BY <1>1, <1>4, <2>2, <2>3
<1> QED BY <1>3, <1>4

(* How many turns at most until it is the turn of a receiver that lacks    *)
(* something: those left in this round, and another round if they lack     *)
(* nothing.                                                                *)
Ahead(R, r) == {s \in R : s >= r}
Lacks(a, desired, s) == a[s] < desired[s]
Turns(R, a, desired, r) ==
    IF \E s \in Ahead(R, r) : Lacks(a, desired, s)
    THEN Cardinality(Ahead(R, r))
    ELSE Cardinality(R) + Cardinality(Ahead(R, r))

(* There are at most two rounds of turns.                                  *)
LEMMA TurnsAreFew ==
    ASSUME NEW R, IsFiniteSet(R), NEW a, NEW desired, NEW r
    PROVE  /\ Cardinality(R) \in Nat /\ Cardinality(Ahead(R, r)) \in Nat
           /\ Cardinality(Ahead(R, r)) <= Cardinality(R)
           /\ Turns(R, a, desired, r) \in 0 .. 2 * Cardinality(R)
<1>1. Ahead(R, r) \subseteq R
  BY DEF Ahead
<1>2. /\ Cardinality(R) \in Nat /\ Cardinality(Ahead(R, r)) \in Nat
      /\ Cardinality(Ahead(R, r)) <= Cardinality(R)
  BY <1>1, FS_Subset, FS_CardinalityType
<1> QED BY <1>2 DEF Turns

(* A turn of a receiver that lacks nothing is one less.                    *)
LEMMA TurnIsUsed ==
    ASSUME NEW R, IsFiniteSet(R), \A s \in R : s \in Nat, NEW a, NEW desired,
           NEW r \in R, ~ Lacks(a, desired, r),
           \E s \in R : Lacks(a, desired, s)
    PROVE  Turns(R, a, desired, NextReceiver(R, r)) < Turns(R, a, desired, r)
<1> DEFINE n == NextReceiver(R, r)
<1>1. R \in SUBSET Nat
  OBVIOUS
<1>2. n \in R /\ n \in Nat /\ r \in Nat
  BY <1>1, NextOne
<1> HIDE DEF n
<1>3. /\ Cardinality(R) \in Nat /\ Cardinality(Ahead(R, r)) \in Nat
      /\ Cardinality(Ahead(R, n)) \in Nat
  BY TurnsAreFew
<1>4. CASE /\ r < n
           /\ \A s \in R : s > r <=> s >= n
  <2>1. Ahead(R, n) = Ahead(R, r) \ {r} /\ r \in Ahead(R, r)
    <3>1. ASSUME NEW s \in R PROVE s >= n <=> (s >= r /\ s # r)
      <4>1. s \in Nat /\ r \in Nat /\ (s > r <=> s >= n)
        BY <1>2, <1>4
      <4>2. s > r <=> (s >= r /\ s # r)
        BY <4>1
      <4> QED BY <4>1, <4>2
    <3>2. r >= r
      BY <1>2
    <3> QED BY <3>1, <3>2, Zenon DEF Ahead
  <2>2. IsFiniteSet(Ahead(R, r))
    BY FS_Subset DEF Ahead
  <2>3. Cardinality(Ahead(R, n)) = Cardinality(Ahead(R, r)) - 1
    <3>1. \A S : IsFiniteSet(S) /\ r \in S => Cardinality(S \ {r}) = Cardinality(S) - 1
      BY FS_RemoveElement
    <3> QED BY <2>1, <2>2, <3>1, Zenon
  <2>4. (\E s \in Ahead(R, n) : Lacks(a, desired, s))
           <=> (\E s \in Ahead(R, r) : Lacks(a, desired, s))
    BY <2>1
  <2> QED BY <1>3, <2>3, <2>4 DEF Turns, n
<1>5. CASE /\ \A s \in R : s <= r
           /\ \A s \in R : s >= n
  <2>1. Ahead(R, n) = R /\ Ahead(R, r) = {r}
    <3>1. ASSUME NEW s \in R PROVE s >= r <=> s = r
      <4>1. s \in Nat /\ r \in Nat /\ s <= r
        BY <1>2, <1>5
      <4> QED BY <4>1
    <3> QED BY <1>5, <3>1, Zenon DEF Ahead
  <2>2. Cardinality(Ahead(R, r)) = 1
    BY <2>1, FS_Singleton
  <2>3. Turns(R, a, desired, n) = Cardinality(R)
    BY <2>1 DEF Turns
  <2>4. Turns(R, a, desired, r) = Cardinality(R) + 1
    BY <2>1, <2>2 DEF Turns
  <2> QED BY <1>3, <2>3, <2>4 DEF n
<1> QED BY <1>1, <1>4, <1>5, NextOne DEF n

(* Where the loop over the receivers is.                                   *)
Turn(R) == [adjustments : [R -> Nat], next : R]
Raised(x, desired) == Raise(x.adjustments, desired, x.next)

(* How long it goes on at most: each raise leaves less of the cap, and in  *)
(* between there are at most two rounds of turns.                          *)
TurnsLeft(R, x, desired) ==
    IF SumFunction(x.adjustments) >= MaxAdjustment THEN 0
    ELSE (MaxAdjustment - SumFunction(x.adjustments)) * (2 * Cardinality(R) + 1)
            + Turns(R, x.adjustments, desired, x.next)

(* What the turns have raised: everyone whose turn it was in this round has*)
(* one round more, if it lacked that much.  The sum is below the cap, but  *)
(* for the minimal deposits at the start.                                  *)
Level(x, s, c) == IF s < x.next THEN c + Round ELSE c
EvenlyRaised(R, x, desired) ==
    /\ \A s \in R : /\ MinDeposit <= x.adjustments[s]
                    /\ x.adjustments[s] <= Higher(desired[s], MinDeposit)
    /\ \E c \in Nat : \A s \in R :
          /\ x.adjustments[s] <= Level(x, s, c)
          /\ Lacks(x.adjustments, desired, s) => x.adjustments[s] = Level(x, s, c)
    /\ SumFunction(x.adjustments)
          < Higher(MaxAdjustment, MinDeposit * Cardinality(R) + 1)

(* A turn that does not reach the cap brings the end closer.               *)
LEMMA TurnsRunOut ==
    ASSUME NEW R, IsFiniteSet(R), \A s \in R : s \in Nat,
           NEW desired \in [R -> Nat], SumFunction(desired) > MaxAdjustment,
           NEW x \in Turn(R), NEW y,
           y = [adjustments |-> Raised(x, desired), next |-> NextReceiver(R, x.next)],
           SumFunction(Raised(x, desired)) < MaxAdjustment
    PROVE  /\ y \in Turn(R)
           /\ TurnsLeft(R, y, desired) < TurnsLeft(R, x, desired)
<1> DEFINE a == x.adjustments
           r == x.next
           b == y.adjustments
           n == y.next
           K == 2 * Cardinality(R) + 1
<1>1. a \in [R -> Nat] /\ r \in R /\ R \in SUBSET Nat
  BY DEF Turn
<1>2. b = Raise(a, desired, r) /\ n = NextReceiver(R, r)
  BY DEF Raised
<1> HIDE DEF a, b, n, r
<1>3. /\ b \in [R -> Nat]
      /\ a[r] <= b[r]
      /\ Lacks(a, desired, r) => a[r] < b[r]
      /\ SumFunction(b) = SumFunction(a) + (b[r] - a[r])
  <2>1. a[r] < desired[r] <=> Lacks(a, desired, r)
    BY DEF Lacks
  <2> QED BY <1>1, <1>2, <2>1, RaiseOne
<1>4. n \in R
  BY <1>1, <1>2, NextOne
<1>5. SumFunction(a) \in Nat /\ SumFunction(b) \in Nat /\ SumFunction(desired) \in Nat
  BY <1>1, <1>3, DepositsAddUp
<1>6. MaxAdjustment \in Nat /\ Cardinality(R) \in Nat
  BY PolicyAssumption, FS_CardinalityType
<1>7. SumFunction(b) < MaxAdjustment
  BY <1>2 DEF Raised, a, r
<1>8. a[r] \in Nat /\ b[r] \in Nat /\ SumFunction(a) < MaxAdjustment
  <2>1. a[r] \in Nat /\ b[r] \in Nat
    BY <1>1, <1>3
  <2> QED BY <1>3, <1>5, <1>6, <1>7, <2>1
<1>9. /\ Turns(R, a, desired, r) \in 0 .. 2 * Cardinality(R)
      /\ Turns(R, b, desired, n) \in 0 .. 2 * Cardinality(R)
  BY TurnsAreFew
<1>10. /\ TurnsLeft(R, x, desired) =
             (MaxAdjustment - SumFunction(a)) * K + Turns(R, a, desired, r)
       /\ TurnsLeft(R, y, desired) =
             (MaxAdjustment - SumFunction(b)) * K + Turns(R, b, desired, n)
  BY <1>5, <1>6, <1>7, <1>8 DEF TurnsLeft, a, b, n, r
<1>11. y \in Turn(R)
  <2>1. y = [adjustments |-> b, next |-> n]
    BY DEF b, n
  <2> QED BY <1>3, <1>4, <2>1 DEF Turn
<1>12. CASE Lacks(a, desired, r)
  <2>1. PICK u \in Nat : u = MaxAdjustment - SumFunction(b)
    BY <1>5, <1>6, <1>7
  <2>2. PICK v \in Nat : v = MaxAdjustment - SumFunction(a)
    BY <1>5, <1>6, <1>8
  <2>3. v >= u + 1
    BY <1>3, <1>5, <1>6, <1>8, <1>12, <2>1, <2>2
  <2>4. K \in Nat /\ u * K \in Nat /\ v * K \in Nat /\ (u + 1) * K = u * K + K
    BY <1>6
  <2>5. v * K >= (u + 1) * K
    <3>1. PICK d \in Nat : v = (u + 1) + d
      <4>1. v - (u + 1) \in Nat
        BY <2>3
      <4> QED BY <4>1
    <3>2. d * K \in Nat /\ v * K = (u + 1) * K + d * K /\ (u + 1) * K \in Nat
      BY <2>4, <3>1
    <3> HIDE DEF K
    <3> QED BY <3>2
  <2>6. TurnsLeft(R, x, desired) = v * K + Turns(R, a, desired, r)
    BY <1>10, <2>2
  <2>7. TurnsLeft(R, y, desired) = u * K + Turns(R, b, desired, n)
    BY <1>10, <2>1
  <2>8. Turns(R, b, desired, n) < K
    BY <1>6, <1>9
  <2> HIDE DEF K
  <2>9. TurnsLeft(R, y, desired) < TurnsLeft(R, x, desired)
    BY <1>6, <1>9, <2>4, <2>5, <2>6, <2>7, <2>8
  <2> QED BY <1>11, <2>9
<1>13. CASE ~ Lacks(a, desired, r)
  <2>1. b = a
    BY <1>2, <1>13 DEF Raise, Lacks
  <2>2. \E s \in R : Lacks(a, desired, s)
    <3> SUFFICES ASSUME \A s \in R : ~ Lacks(a, desired, s) PROVE FALSE
      OBVIOUS
    <3>1. \A s \in R : desired[s] <= a[s]
      BY <1>1 DEF Lacks
    <3>2. SumFunction(desired) <= SumFunction(a)
      BY <1>1, <3>1, DepositsAddUp
    <3> QED BY <1>5, <1>6, <1>8, <3>2
  <2>3. Turns(R, a, desired, n) < Turns(R, a, desired, r)
    BY <1>1, <1>2, <1>13, <2>2, TurnIsUsed
  <2>4. (MaxAdjustment - SumFunction(a)) * K \in Int
    BY <1>5, <1>6
  <2> HIDE DEF K
  <2>5. TurnsLeft(R, y, desired) < TurnsLeft(R, x, desired)
    BY <1>9, <1>10, <2>1, <2>3, <2>4
  <2> QED BY <1>11, <2>5
<1> QED BY <1>12, <1>13

(* What the loop may return.                                               *)
SharedOut(R, paid, desired) ==
    /\ paid \in [R -> Nat]
    /\ \A s \in R : MinDeposit <= paid[s] /\ paid[s] <= Higher(desired[s], MinDeposit)
    /\ \A s, t \in R : paid[s] < desired[s] => paid[t] <= paid[s] + Round
    /\ SumFunction(paid)
          < Round + Higher(MaxAdjustment, MinDeposit * Cardinality(R) + 1)

(* One raise, of a receiver that is at its level or lacks nothing.         *)
LEMMA LevelRaised ==
    ASSUME NEW was \in Nat, NEW now \in Nat, NEW lacking \in Nat, NEW c \in Nat,
           MinDeposit <= was, was <= Higher(lacking, MinDeposit), was <= c,
           was < lacking => was = c,
           now = IF was < lacking THEN Lower(lacking, was + Round) ELSE was
    PROVE  /\ MinDeposit <= now /\ now <= Higher(lacking, MinDeposit)
           /\ now <= c + Round
           /\ now < lacking => now = c + Round
<1>1. MinDeposit \in Nat /\ Round \in Nat
  BY PolicyAssumption
<1>2. CASE was < lacking
  <2>1. was = c /\ now = IF lacking <= c + Round THEN lacking ELSE c + Round
    BY <1>2 DEF Lower
  <2> QED BY <1>1, <1>2, <2>1 DEF Higher
<1>3. CASE ~ (was < lacking)
  <2>1. now = was
    BY <1>3
  <2> QED BY <1>1, <1>3, <2>1
<1> QED BY <1>2, <1>3

(* A turn keeps the deposits even.                                         *)
LEMMA TurnIsEven ==
    ASSUME NEW R, IsFiniteSet(R), \A s \in R : s \in Nat,
           NEW desired \in [R -> Nat],
           NEW x \in Turn(R), EvenlyRaised(R, x, desired), NEW y,
           y = [adjustments |-> Raised(x, desired), next |-> NextReceiver(R, x.next)]
    PROVE  /\ SharedOut(R, Raised(x, desired), desired)
           /\ SumFunction(Raised(x, desired)) < MaxAdjustment => EvenlyRaised(R, y, desired)
<1> DEFINE a == x.adjustments
           r == x.next
           b == Raised(x, desired)
           n == NextReceiver(R, r)
           most == Higher(MaxAdjustment, MinDeposit * Cardinality(R) + 1)
<1>1. a \in [R -> Nat] /\ r \in R /\ R \in SUBSET Nat
  BY DEF Turn
<1>2. b = Raise(a, desired, r) /\ y.adjustments = b /\ y.next = n
  BY DEF Raised
<1>3. /\ Round \in Nat /\ Round > 0 /\ MinDeposit \in Nat
      /\ MaxAdjustment \in Nat /\ Cardinality(R) \in Nat
  BY PolicyAssumption, FS_CardinalityType
<1>4. most \in Nat /\ most >= MaxAdjustment
  BY <1>3 DEF Higher
<1>5. /\ \A s \in R : MinDeposit <= a[s] /\ a[s] <= Higher(desired[s], MinDeposit)
      /\ SumFunction(a) < most
  BY DEF EvenlyRaised
<1>6. PICK c \in Nat : \A s \in R :
         /\ a[s] <= (IF s < r THEN c + Round ELSE c)
         /\ a[s] < desired[s] => a[s] = (IF s < r THEN c + Round ELSE c)
  BY DEF EvenlyRaised, Level, Lacks
<1> HIDE DEF a, b, n, r, most
<1>7. /\ b \in [R -> Nat]
      /\ \A s \in R \ {r} : b[s] = a[s]
      /\ b[r] = IF a[r] < desired[r] THEN Lower(desired[r], a[r] + Round) ELSE a[r]
      /\ a[r] <= b[r] /\ b[r] <= a[r] + Round
      /\ SumFunction(b) = SumFunction(a) + (b[r] - a[r])
  <2>1. \A s \in R \ {r} : b[s] = a[s]
    BY <1>1, <1>2 DEF Raise
  <2>2. b[r] = IF a[r] < desired[r] THEN Lower(desired[r], a[r] + Round) ELSE a[r]
    BY <1>1, <1>2 DEF Raise
  <2>3. \A f \in [R -> Nat] : \A s \in R :
           /\ Raise(f, desired, s) \in [R -> Nat]
           /\ f[s] <= Raise(f, desired, s)[s]
           /\ Raise(f, desired, s)[s] <= f[s] + Round
           /\ SumFunction(Raise(f, desired, s))
                 = SumFunction(f) + (Raise(f, desired, s)[s] - f[s])
    BY RaiseOne
  <2>4. /\ b \in [R -> Nat] /\ a[r] <= b[r] /\ b[r] <= a[r] + Round
        /\ SumFunction(b) = SumFunction(a) + (b[r] - a[r])
    BY <1>1, <1>2, <2>3
  <2> QED BY <2>1, <2>2, <2>4
<1>8. \A s \in R : a[s] \in Nat /\ b[s] \in Nat /\ desired[s] \in Nat /\ s \in Nat
  BY <1>1, <1>7
<1>9. ASSUME NEW s \in R
      PROVE  /\ MinDeposit <= b[s] /\ b[s] <= Higher(desired[s], MinDeposit)
             /\ b[s] <= (IF s <= r THEN c + Round ELSE c)
             /\ b[s] < desired[s] => b[s] = (IF s <= r THEN c + Round ELSE c)
  <2>1. CASE s = r
    <3>1. /\ a[r] \in Nat /\ b[r] \in Nat /\ desired[r] \in Nat /\ r \in Nat
          /\ MinDeposit <= a[r] /\ a[r] <= Higher(desired[r], MinDeposit)
          /\ a[r] <= c
          /\ a[r] < desired[r] => a[r] = c
      BY <1>1, <1>5, <1>6, <1>8
    <3>2. b[r] = IF a[r] < desired[r] THEN Lower(desired[r], a[r] + Round) ELSE a[r]
      BY <1>7
    <3>3. /\ MinDeposit <= b[r] /\ b[r] <= Higher(desired[r], MinDeposit)
          /\ b[r] <= c + Round
          /\ b[r] < desired[r] => b[r] = c + Round
      BY <3>1, <3>2, LevelRaised
    <3> QED BY <2>1, <3>1, <3>3
  <2>2. CASE s # r
    <3>1. b[s] = a[s] /\ s \in Nat /\ r \in Nat
      BY <1>1, <1>7, <1>8, <2>2
    <3>2. (s <= r) <=> (s < r)
      BY <2>2, <3>1
    <3> QED BY <1>5, <1>6, <3>1, <3>2
  <2> QED BY <2>1, <2>2
<1>10. SumFunction(b) < Round + most
  <2>1. SumFunction(a) \in Nat
    BY <1>1, DepositsAddUp
  <2>2. a[r] \in Nat /\ b[r] \in Nat
    BY <1>1, <1>8
  <2> QED BY <1>3, <1>4, <1>5, <1>7, <2>1, <2>2
<1>11. ASSUME NEW s \in R, NEW t \in R, b[s] < desired[s]
       PROVE  b[t] <= b[s] + Round
  <2>1. b[s] >= c /\ b[s] \in Nat
    BY <1>3, <1>8, <1>9, <1>11
  <2>2. b[t] <= c + Round /\ b[t] \in Nat
    BY <1>3, <1>8, <1>9
  <2> QED BY <1>3, <2>1, <2>2
<1>12. SharedOut(R, b, desired)
  BY <1>7, <1>9, <1>10, <1>11 DEF SharedOut, most
<1>13. ASSUME SumFunction(b) < MaxAdjustment
       PROVE  EvenlyRaised(R, y, desired)
  <2>1. SumFunction(b) \in Nat
    BY <1>7, DepositsAddUp
  <2>2. SumFunction(b) < most
    BY <1>3, <1>4, <1>13, <2>1
  <2>3. \E d \in Nat : \A s \in R :
           /\ b[s] <= (IF s < n THEN d + Round ELSE d)
           /\ b[s] < desired[s] => b[s] = (IF s < n THEN d + Round ELSE d)
    <3>0. n \in R /\ n \in Nat /\ r \in Nat
      BY <1>1, NextOne DEF n
    <3>1. CASE /\ r < n
               /\ \A s \in R : s > r <=> s >= n
      <4>1. ASSUME NEW s \in R PROVE (s <= r) <=> (s < n)
        BY <1>8, <3>0, <3>1
      <4> QED BY <1>9, <4>1
    <3>2. CASE /\ \A s \in R : s <= r
               /\ \A s \in R : s >= n
      <4>1. ASSUME NEW s \in R PROVE (s <= r) /\ ~ (s < n)
        BY <1>8, <3>0, <3>2
      <4>2. c + Round \in Nat
        BY <1>3
      <4>3. \A s \in R :
               /\ b[s] <= (IF s < n THEN (c + Round) + Round ELSE c + Round)
               /\ b[s] < desired[s] =>
                     b[s] = (IF s < n THEN (c + Round) + Round ELSE c + Round)
        BY <1>9, <4>1
      <4> QED BY <4>2, <4>3
    <3> QED BY <1>1, <3>1, <3>2, NextOne DEF n
  <2> QED BY <1>2, <1>9, <2>2, <2>3 DEF EvenlyRaised, Level, Lacks, most
<1> QED BY <1>12, <1>13 DEF b

(* What the loop returns: it ends, with deposits that are shared out and   *)
(* reach the cap (main.rs, reduce_adjustments).                            *)
LEMMA ReducedDeposits ==
    ASSUME NEW R, IsFiniteSet(R), \A s \in R : s \in Nat, R # {},
           NEW desired \in [R -> Nat], SumFunction(desired) > MaxAdjustment
    PROVE  /\ SharedOut(R, reduce_adjustments(desired), desired)
           /\ SumFunction(reduce_adjustments(desired)) >= MaxAdjustment
<1> DEFINE X == [adjustments : [R -> Nat], next : R]
           raised(x) == Raise(x.adjustments, desired, x.next)
           nextOf(x) == [adjustments |-> raised(x), next |-> NextReceiver(R, x.next)]
           stop == {x \in X : SumFunction(raised(x)) >= MaxAdjustment}
           out == [x \in X |-> raised(x)]
           next == [x \in X |-> nextOf(x)]
           m == [x \in X |-> TurnsLeft(R, x, desired)]
           reduced == CHOOSE g : g = [x \in X |->
                         IF SumFunction(raised(x)) >= MaxAdjustment THEN raised(x)
                         ELSE g[nextOf(x)]]
           first == CHOOSE r \in R : \A s \in R : r <= s
           start == [adjustments |-> [r \in R |-> MinDeposit], next |-> first]
           bound == MaxAdjustment * (2 * Cardinality(R) + 1) + 2 * Cardinality(R)
           I == {x \in X : EvenlyRaised(R, x, desired)}
<1>1. reduce_adjustments(desired) = reduced[start]
  <2>1. DOMAIN desired = R
    OBVIOUS
  <2> QED BY <2>1 DEF reduce_adjustments
<1>2. X = Turn(R) /\ \A x \in X : raised(x) = Raised(x, desired)
  BY DEF Turn, Raised
<1>3. /\ MinDeposit \in Nat /\ MaxAdjustment \in Nat /\ Round \in Nat
      /\ Cardinality(R) \in Nat /\ R \in SUBSET Nat
  BY PolicyAssumption, FS_CardinalityType
<1>4. \A x \in X : SumFunction(raised(x)) \in Nat
  <2> SUFFICES ASSUME NEW x \in X PROVE SumFunction(raised(x)) \in Nat
    OBVIOUS
  <2>1. x.adjustments \in [R -> Nat] /\ x.next \in R
    OBVIOUS
  <2>2. Raise(x.adjustments, desired, x.next) \in [R -> Nat]
    BY <2>1, RaiseOne
  <2> QED BY <2>2, DepositsAddUp
<1>5. \A x \in X : x \notin stop => /\ nextOf(x) \in X
                                  /\ TurnsLeft(R, nextOf(x), desired) < TurnsLeft(R, x, desired)
  <2> SUFFICES ASSUME NEW x \in X, x \notin stop
               PROVE  /\ nextOf(x) \in X
                      /\ TurnsLeft(R, nextOf(x), desired) < TurnsLeft(R, x, desired)
    OBVIOUS
  <2>1. SumFunction(Raised(x, desired)) < MaxAdjustment
    BY <1>2, <1>3, <1>4
  <2>2. nextOf(x) = [adjustments |-> Raised(x, desired), next |-> NextReceiver(R, x.next)]
    BY <1>2
  <2> HIDE DEF X, stop, raised, nextOf
  <2>3. nextOf(x) \in Turn(R) /\ TurnsLeft(R, nextOf(x), desired) < TurnsLeft(R, x, desired)
    BY <1>2, <2>1, <2>2, TurnsRunOut
  <2> QED BY <1>2, <2>3
<1>6. \A x \in X : nextOf(x) \in X
  <2> SUFFICES ASSUME NEW x \in X PROVE nextOf(x) \in X
    OBVIOUS
  <2>1. x.adjustments \in [R -> Nat] /\ x.next \in R
    OBVIOUS
  <2>2. Raise(x.adjustments, desired, x.next) \in [R -> Nat]
    BY <2>1, RaiseOne
  <2>3. NextReceiver(R, x.next) \in R
    BY <1>3, <2>1, NextOne
  <2> QED BY <2>2, <2>3
<1>7. bound \in Nat /\ \A x \in X : TurnsLeft(R, x, desired) \in 0 .. bound
  <2>1. bound \in Nat
    BY <1>3
  <2>2. ASSUME NEW x \in X PROVE TurnsLeft(R, x, desired) \in 0 .. bound
    <3>1. x.adjustments \in [R -> Nat]
      OBVIOUS
    <3>2. SumFunction(x.adjustments) \in Nat
      BY <3>1, DepositsAddUp
    <3>3. Turns(R, x.adjustments, desired, x.next) \in 0 .. 2 * Cardinality(R)
      BY TurnsAreFew
    <3>4. CASE SumFunction(x.adjustments) >= MaxAdjustment
      BY <2>1, <3>4 DEF TurnsLeft
    <3>5. CASE SumFunction(x.adjustments) < MaxAdjustment
      <4>1. PICK u \in Nat : u = SumFunction(x.adjustments)
        BY <3>2
      <4>2. PICK t \in Nat : t = Turns(R, x.adjustments, desired, x.next)
        BY <3>3, <1>3
      <4>3. PICK K \in Nat : K = 2 * Cardinality(R) + 1
        BY <1>3
      <4>4. TurnsLeft(R, x, desired) = (MaxAdjustment - u) * K + t
        BY <1>3, <3>2, <3>5, <4>1, <4>2, <4>3 DEF TurnsLeft
      <4>5. bound = MaxAdjustment * K + 2 * Cardinality(R)
        BY <4>3
      <4>6. t <= 2 * Cardinality(R) /\ u < MaxAdjustment
        BY <1>3, <3>3, <3>5, <4>1, <4>2
      <4>7. /\ (MaxAdjustment - u) * K = MaxAdjustment * K - u * K
            /\ u * K \in Nat /\ MaxAdjustment * K \in Nat
            /\ (MaxAdjustment - u) * K \in Nat
        <5>1. (MaxAdjustment - u) \in Nat
          BY <1>3, <4>6
        <5> QED BY <1>3, <5>1
      <4> HIDE DEF bound
      <4> QED BY <1>3, <4>4, <4>5, <4>6, <4>7
    <3> QED BY <1>3, <3>2, <3>4, <3>5
  <2> QED BY <2>1, <2>2
<1>8. \A g : Loops(g, next, stop, out, X) <=>
         g = [x \in X |-> IF SumFunction(raised(x)) >= MaxAdjustment THEN raised(x)
                          ELSE g[nextOf(x)]]
  BY DEF Loops
<1>9. \E g : Loops(g, next, stop, out, X)
  <2>1. next \in [X -> X] /\ m \in [X -> 0 .. bound]
    BY <1>6, <1>7
  <2>2. \A x \in X : x \in stop \/ m[next[x]] < m[x] \/ next[x] = x
    <3> SUFFICES ASSUME NEW x \in X, x \notin stop PROVE m[next[x]] < m[x]
      OBVIOUS
    <3> HIDE DEF X, stop, nextOf
    <3> QED BY <1>5, <1>6
  <2> HIDE DEF X, next, stop, out, m, bound
  <2> QED BY <1>7, <2>1, <2>2, LoopExists
<1>10. Loops(reduced, next, stop, out, X)
  <2> HIDE DEF X, next, stop, out, raised, nextOf
  <2>1. \E g : g = [x \in X |-> IF SumFunction(raised(x)) >= MaxAdjustment THEN raised(x)
                                ELSE g[nextOf(x)]]
    BY <1>8, <1>9
  <2>2. reduced = [x \in X |-> IF SumFunction(raised(x)) >= MaxAdjustment THEN raised(x)
                               ELSE reduced[nextOf(x)]]
    BY <2>1
  <2> QED BY <1>8, <2>2
<1>11. start \in I
  <2>1. first \in R /\ \A s \in R : first <= s
    BY <1>3, FirstReceiver
  <2>2. start \in X
    BY <1>3, <2>1
  <2>3. \A s \in R : start.adjustments[s] = MinDeposit /\ s \in Nat
    OBVIOUS
  <2>4. SumFunction(start.adjustments) = MinDeposit * Cardinality(R)
    <3> DEFINE f == [r \in R |-> MinDeposit]
    <3>1. SumFunction(f) = SumOver(f, R) /\ \A s \in R : f[s] = MinDeposit
      BY FunctionSum
    <3> HIDE DEF f
    <3>2. MinDeposit \in Int
      BY <1>3
    <3>3. SumOver(f, R) = MinDeposit * Cardinality(R)
      BY <3>1, <3>2, SumOfConstant
    <3> QED BY <3>1, <3>3 DEF f
  <2>5. start.next = first
    OBVIOUS
  <2>6. MinDeposit * Cardinality(R) \in Nat
    BY <1>3
  <2>7. \A s \in R : desired[s] \in Nat /\ ~ (s < first)
    BY <2>1
  <2> HIDE DEF start, X, first
  <2>8. EvenlyRaised(R, start, desired)
    <3>1. \A s \in R : Level(start, s, MinDeposit) = MinDeposit
      BY <2>5, <2>7 DEF Level
    <3>2. SumFunction(start.adjustments) < Higher(MaxAdjustment, MinDeposit * Cardinality(R) + 1)
      BY <1>3, <2>4, <2>6 DEF Higher
    <3>3. \A s \in R : MinDeposit <= start.adjustments[s]
                       /\ start.adjustments[s] <= Higher(desired[s], MinDeposit)
      BY <1>3, <2>3, <2>7 DEF Higher
    <3>4. \A s \in R : start.adjustments[s] <= Level(start, s, MinDeposit)
             /\ (Lacks(start.adjustments, desired, s)
                    => start.adjustments[s] = Level(start, s, MinDeposit))
      BY <1>3, <2>3, <3>1
    <3> QED BY <1>3, <3>2, <3>3, <3>4 DEF EvenlyRaised
  <2> QED BY <2>2, <2>8
<1>12. \A x \in I : x \in X /\ m[x] \in Nat
  BY <1>7
<1>13. \A x \in I : x \in stop \/ (next[x] \in I /\ m[next[x]] < m[x])
  <2> SUFFICES ASSUME NEW x \in I, x \notin stop
               PROVE  next[x] \in I /\ m[next[x]] < m[x]
    OBVIOUS
  <2>1. x \in X /\ EvenlyRaised(R, x, desired)
    OBVIOUS
  <2>2. SumFunction(Raised(x, desired)) < MaxAdjustment
    BY <1>2, <1>3, <1>4, <2>1
  <2>3. nextOf(x) = [adjustments |-> Raised(x, desired), next |-> NextReceiver(R, x.next)]
    BY <1>2, <2>1
  <2>4. next[x] = nextOf(x)
    BY <2>1
  <2>5. x \in Turn(R)
    BY <1>2, <2>1
  <2> HIDE DEF stop, nextOf, raised
  <2>6. EvenlyRaised(R, nextOf(x), desired)
    BY <2>1, <2>2, <2>3, <2>5, TurnIsEven
  <2>7. nextOf(x) \in X /\ TurnsLeft(R, nextOf(x), desired) < TurnsLeft(R, x, desired)
    BY <1>5, <2>1
  <2>8. m[x] = TurnsLeft(R, x, desired) /\ m[nextOf(x)] = TurnsLeft(R, nextOf(x), desired)
    BY <2>1, <2>7
  <2> HIDE DEF m, next, X
  <2> QED BY <2>4, <2>6, <2>7, <2>8
<1>14. \E x \in I : x \in stop /\ reduced[start] = out[x]
  <2> HIDE DEF X, next, stop, out, m, reduced, start, I
  <2> QED BY <1>10, <1>11, <1>12, <1>13, LoopEnds
<1>15. PICK x \in I : x \in stop /\ reduced[start] = out[x]
  BY <1>14
<1>16. /\ reduced[start] = Raised(x, desired)
       /\ SumFunction(Raised(x, desired)) >= MaxAdjustment
       /\ x \in Turn(R) /\ EvenlyRaised(R, x, desired)
  <2>1. x \in X /\ EvenlyRaised(R, x, desired) /\ SumFunction(raised(x)) >= MaxAdjustment
    BY <1>15
  <2>2. out[x] = raised(x)
    BY <2>1
  <2> HIDE DEF raised, out, X, reduced, start
  <2> QED BY <1>2, <1>15, <2>1, <2>2
<1> HIDE DEF reduced, start
<1>17. SharedOut(R, Raised(x, desired), desired)
  BY <1>16, TurnIsEven
<1> QED BY <1>1, <1>16, <1>17

-----------------------------------------------------------------------------
(* The deposits of a cycle are those it wanted, or the cap shared out      *)
(* (main.rs, the call of reduce_adjustments).                              *)
LEMMA DepositsMade ==
    ASSUME NEW R, IsFiniteSet(R), \A s \in R : s \in Nat, NEW desired \in [R -> Nat]
    PROVE  /\ SumFunction(desired) <= MaxAdjustment => Deposits(desired) = desired
           /\ SumFunction(desired) > MaxAdjustment =>
                 /\ R # {}
                 /\ SharedOut(R, Deposits(desired), desired)
                 /\ SumFunction(Deposits(desired)) >= MaxAdjustment
           /\ Deposits(desired) \in [R -> Nat]
           /\ \A s \in R : desired[s] > 0 => Deposits(desired)[s] > 0
           /\ \A s \in R : Deposits(desired)[s] <= Higher(desired[s], MinDeposit)
<1>1. SumFunction(desired) \in Nat /\ MaxAdjustment \in Nat /\ MinDeposit \in Nat \ {0}
  BY DepositsAddUp, PolicyAssumption
<1>2. CASE SumFunction(desired) <= MaxAdjustment
  <2>1. Deposits(desired) = desired
    BY <1>2 DEF Deposits
  <2>2. \A s \in R : desired[s] \in Nat
    OBVIOUS
  <2> QED BY <1>1, <1>2, <2>1, <2>2 DEF Higher
<1>3. CASE ~ (SumFunction(desired) <= MaxAdjustment)
  <2>1. Deposits(desired) = reduce_adjustments(desired)
    BY <1>3 DEF Deposits
  <2>2. SumFunction(desired) > MaxAdjustment
    BY <1>1, <1>3
  <2>3. R # {}
    <3>1. ASSUME R = {} PROVE FALSE
      <4>1. SumFunction(desired) = SumOver(desired, {})
        BY <3>1, FunctionSum
      <4> QED BY <1>1, <2>2, <4>1, SumEmpty
    <3> QED BY <3>1
  <2>4. SharedOut(R, Deposits(desired), desired)
        /\ SumFunction(Deposits(desired)) >= MaxAdjustment
    BY <2>1, <2>2, <2>3, ReducedDeposits
  <2>5. /\ Deposits(desired) \in [R -> Nat]
        /\ \A s \in R : MinDeposit <= Deposits(desired)[s]
                        /\ Deposits(desired)[s] <= Higher(desired[s], MinDeposit)
    BY <2>4 DEF SharedOut
  <2>6. \A s \in R : Deposits(desired)[s] > 0
    BY <1>1, <2>5
  <2> QED BY <1>3, <2>2, <2>3, <2>4, <2>5, <2>6
<1> QED BY <1>2, <1>3

(* A deposit asks for exactly what the effective balance lacks, a thaw for *)
(* what it exceeds the target and its margin by (escrow.rs, decide).       *)
LEMMA DecideOne ==
    ASSUME NEW account, account.balance \in Nat, account.thawing \in Nat,
           NEW target \in Nat, NEW reclaim \in Reclaims
    PROVE  LET step == decide(account, target, reclaim)
           IN  /\ step.kind \in {"nothing", "withdraw", "deposit", "thaw"}
               /\ step.amount \in Nat
               /\ step.kind = "withdraw" <=> Matured(account, reclaim)
               /\ step.kind = "deposit" =>
                     /\ step.amount > 0 /\ EffectiveBalance(account) < target
                     /\ EffectiveBalance(account) + step.amount = target
               /\ step.kind = "thaw" =>
                     /\ step.amount > 0 /\ account.thawing = 0
                     /\ step.amount + target <= account.balance
               /\ step.kind \in {"nothing", "thaw"} => EffectiveBalance(account) >= target
<1> DEFINE step == decide(account, target, reclaim)
           margin == (target * MarginNum) \div MarginDen
<1>1. margin \in Nat
  <2>1. target * MarginNum \in Nat /\ MarginDen \in Nat \ {0}
    BY PolicyAssumption
  <2> QED BY <2>1
<1> HIDE DEF margin
<1>2. EffectiveBalance(account) \in Nat
  BY DEF EffectiveBalance, Higher
<1>3. /\ Shortfall(account, target) \in Nat
      /\ Shortfall(account, target) > 0 =>
            EffectiveBalance(account) + Shortfall(account, target) = target
      /\ Shortfall(account, target) = 0 => EffectiveBalance(account) >= target
  BY <1>2 DEF Shortfall, Higher
<1>4. /\ Excess(account, target) \in Nat
      /\ Excess(account, target) > 0 => Excess(account, target) + target <= account.balance
  <2>1. Excess(account, target) = Higher(account.balance - (target + margin), 0)
    BY DEF Excess, margin
  <2> QED BY <1>1, <2>1 DEF Higher
<1>5. CASE Matured(account, reclaim)
  <2>1. step = Withdraw
    BY <1>5 DEF decide
  <2> QED BY <1>5, <2>1 DEF Withdraw
<1>6. CASE ~ Matured(account, reclaim) /\ Shortfall(account, target) > 0
  <2>1. step = Deposit(Shortfall(account, target))
    BY <1>3, <1>6 DEF decide
  <2> QED BY <1>2, <1>3, <1>6, <2>1 DEF Deposit
<1>7. CASE /\ ~ Matured(account, reclaim) /\ Shortfall(account, target) = 0
           /\ Reclaimable(account, target, reclaim)
  <2>1. step = Thaw(Excess(account, target))
    BY <1>7 DEF decide
  <2>2. account.thawing = 0 /\ Excess(account, target) > 0
    BY <1>7 DEF Reclaimable
  <2> QED BY <1>3, <1>4, <1>7, <2>1, <2>2 DEF Thaw
<1>8. CASE /\ ~ Matured(account, reclaim) /\ Shortfall(account, target) = 0
           /\ ~ Reclaimable(account, target, reclaim)
  <2>1. step = Nothing
    BY <1>8 DEF decide
  <2> QED BY <1>3, <1>8, <2>1 DEF Nothing
<1> QED BY <1>3, <1>5, <1>6, <1>7, <1>8
=============================================================================
