-------------------------------- MODULE Sums --------------------------------
(***************************************************************************)
(* Facts about sums over finite sets, for the proofs of the other modules. *)
(* The folds of the community modules are recursive functions, so these    *)
(* facts are proved by induction over finite sets.  The induction is used  *)
(* in the form that speaks of sets instead of predicates: a set of         *)
(* counterexamples has a smallest one.                                     *)
(***************************************************************************)
EXTENDS Integers, FiniteSetsExt, FiniteSetTheorems, TLAPS

(* The sum of f[x] over the elements x of S.                               *)
SumOver(f, S) == MapThenSumSet(LAMBDA x : f[x], S)

-----------------------------------------------------------------------------
(* A nonempty set of subsets of a finite set has one that is minimal.      *)
LEMMA SmallestSubset ==
    ASSUME NEW S, IsFiniteSet(S), NEW Bad \in SUBSET SUBSET S, Bad # {}
    PROVE  \E T \in Bad : \A U \in Bad : U \subseteq T => U = T
<1>1. IsWellFoundedOn(StrictSubsetOrdering(S), SUBSET S)
  BY FS_StrictSubsetOrderingWellFounded, FS_FiniteSubsetsOfFinite
<1>2. \E T \in Bad : \A U \in Bad : ~ (<<U, T>> \in StrictSubsetOrdering(S))
  BY <1>1, WFMin
<1> QED BY <1>2 DEF StrictSubsetOrdering

(* A nonempty set of naturals has a least one.                             *)
LEMMA LeastNatural ==
    ASSUME NEW Bad \in SUBSET Nat, Bad # {}
    PROVE  \E n \in Bad : \A m \in Bad : n <= m
<1>1. \E n \in Bad : \A m \in Bad : ~ (<<m, n>> \in OpToRel(<, Nat))
  BY NatLessThanWellFounded, WFMin
<1>2. PICK n \in Bad : \A m \in Bad : ~ (<<m, n>> \in OpToRel(<, Nat))
  BY <1>1
<1>3. ASSUME NEW m \in Bad PROVE n <= m
  <2>1. ~ (<<m, n>> \in OpToRel(<, Nat))
    BY <1>2
  <2>2. ~ (m < n)
    BY <2>1 DEF OpToRel
  <2> QED BY <2>2
<1> QED BY <1>3

(* Min is that one.                                                        *)
LEMMA MinOfNaturals ==
    ASSUME NEW S \in SUBSET Nat, S # {}
    PROVE  Min(S) \in S /\ \A n \in S : Min(S) <= n
<1>1. \E x \in S : \A y \in S : x <= y
  BY LeastNatural
<1> QED BY <1>1 DEF Min

(* A finite set of integers has a largest one.                             *)
LEMMA MaxOfFinite ==
    ASSUME NEW S, IsFiniteSet(S), S # {}, \A n \in S : n \in Int
    PROVE  Max(S) \in S /\ \A n \in S : n <= Max(S)
<1> DEFINE Bad == {T \in SUBSET S : T # {} /\ ~ \E x \in T : \A y \in T : x >= y}
<1> SUFFICES ASSUME S \in Bad PROVE FALSE
  <2>1. \E x \in S : \A y \in S : x >= y
    OBVIOUS
  <2>2. Max(S) \in S /\ \A y \in S : Max(S) >= y
    BY <2>1 DEF Max
  <2> QED BY <2>2
<1>1. PICK T \in Bad : \A U \in Bad : U \subseteq T => U = T
  <2>1. Bad \in SUBSET SUBSET S /\ Bad # {}
    OBVIOUS
  <2> HIDE DEF Bad
  <2> QED BY <2>1, SmallestSubset
<1>2. (\A x \in T : x \in Int) /\ T # {} /\ ~ \E x \in T : \A y \in T : x >= y
  BY <1>1
<1>3. PICK z \in T : TRUE
  BY <1>2
<1>4. T \ {z} \notin Bad
  BY <1>1, <1>3
<1>5. T \ {z} # {}
  BY <1>2, <1>3
<1>6. PICK m \in T \ {z} : \A y \in T \ {z} : m >= y
  BY <1>1, <1>4, <1>5
<1>7. CASE m >= z
  BY <1>2, <1>6, <1>7
<1>8. CASE ~(m >= z)
  <2>1. \A y \in T : z >= y
    BY <1>2, <1>3, <1>6, <1>8
  <2> QED BY <1>2, <1>3, <2>1
<1> QED BY <1>7, <1>8

(* Images of finite sets are finite.                                       *)
LEMMA FiniteImage ==
    ASSUME NEW S, IsFiniteSet(S), NEW h
    PROVE  IsFiniteSet({h[x] : x \in S})
<1> DEFINE g == [x \in S |-> h[x]]
<1>1. g \in Surjection(S, {h[x] : x \in S})
  BY DEF Surjection
<1> HIDE DEF g
<1> QED BY <1>1, FS_Surjection

-----------------------------------------------------------------------------
Pick(s) == CHOOSE x \in s : TRUE

(* What the fold over S is defined to be: a function on the subsets of S.  *)
Folds(g, f, family) ==
    g = [s \in family |-> IF s = {} THEN 0 ELSE f[Pick(s)] + g[s \ {Pick(s)}]]

UpTo(S, n) == {s \in SUBSET S : Cardinality(s) <= n}

(* Taking an element out makes a finite set smaller.                       *)
LEMMA OneLess ==
    ASSUME NEW s, IsFiniteSet(s), s # {}
    PROVE  /\ Pick(s) \in s
           /\ IsFiniteSet(s \ {Pick(s)})
           /\ Cardinality(s) \in Nat
           /\ Cardinality(s \ {Pick(s)}) \in Nat
           /\ Cardinality(s \ {Pick(s)}) = Cardinality(s) - 1
<1>1. Pick(s) \in s
  BY DEF Pick
<1> QED BY <1>1, FS_RemoveElement, FS_CardinalityType

(* There is such a function, first for small subsets, then for all.        *)
LEMMA FoldExists ==
    ASSUME NEW S, IsFiniteSet(S), NEW f
    PROVE  \E g : Folds(g, f, SUBSET S)
<1> DEFINE Bad == {n \in Nat : ~ \E g : Folds(g, f, UpTo(S, n))}
<1>1. \E g : Folds(g, f, UpTo(S, 0))
  <2> DEFINE g == [s \in UpTo(S, 0) |-> 0]
  <2>1. \A s \in UpTo(S, 0) : s = {}
    BY FS_Subset, FS_EmptySet, FS_CardinalityType DEF UpTo
  <2>2. Folds(g, f, UpTo(S, 0))
    BY <2>1 DEF Folds
  <2> QED BY <2>2
<1>2. ASSUME NEW n \in Nat, NEW g, Folds(g, f, UpTo(S, n))
      PROVE  \E h : Folds(h, f, UpTo(S, n + 1))
  <2> DEFINE h == [s \in UpTo(S, n + 1) |->
                     IF s = {} THEN 0 ELSE f[Pick(s)] + g[s \ {Pick(s)}]]
  <2>1. ASSUME NEW s \in UpTo(S, n + 1), s # {}
        PROVE  h[s \ {Pick(s)}] = g[s \ {Pick(s)}]
    <3> DEFINE t == s \ {Pick(s)}
    <3>1. IsFiniteSet(s) /\ s \subseteq S
      BY FS_Subset DEF UpTo
    <3>2. t \in UpTo(S, n) /\ t \in UpTo(S, n + 1)
      <4>1. Cardinality(s) \in Nat /\ Cardinality(t) = Cardinality(s) - 1
        BY <2>1, <3>1, OneLess
      <4>2. Cardinality(s) <= n + 1
        BY DEF UpTo
      <4>3. Cardinality(t) <= n /\ Cardinality(t) <= n + 1
        BY <4>1, <4>2
      <4>4. t \in SUBSET S
        BY <3>1
      <4> QED BY <4>3, <4>4 DEF UpTo
    <3>3. g[t] = IF t = {} THEN 0 ELSE f[Pick(t)] + g[t \ {Pick(t)}]
      BY <1>2, <3>2 DEF Folds
    <3> QED BY <3>2, <3>3
  <2>2. h = [s \in UpTo(S, n + 1) |->
               IF s = {} THEN 0 ELSE f[Pick(s)] + h[s \ {Pick(s)}]]
    BY <2>1
  <2>3. Folds(h, f, UpTo(S, n + 1))
    BY <2>2 DEF Folds
  <2> QED BY <2>3
<1>3. Bad = {}
  <2> SUFFICES ASSUME Bad # {} PROVE FALSE
    OBVIOUS
  <2>1. PICK n \in Bad : \A m \in Bad : n <= m
    BY LeastNatural
  <2>2. n # 0
    BY <1>1
  <2>3. n - 1 \in Nat /\ n - 1 \notin Bad
    BY <2>1, <2>2
  <2>4. PICK g : Folds(g, f, UpTo(S, n - 1))
    BY <2>3
  <2>5. \E h : Folds(h, f, UpTo(S, (n - 1) + 1))
    BY <1>2, <2>3, <2>4
  <2> QED BY <2>5
<1>4. UpTo(S, Cardinality(S)) = SUBSET S /\ Cardinality(S) \in Nat
  BY FS_Subset, FS_CardinalityType DEF UpTo
<1>5. \E g : Folds(g, f, UpTo(S, Cardinality(S)))
  BY <1>3, <1>4
<1> QED BY <1>4, <1>5

(* And there is one value it can give a set.                               *)
LEMMA FoldUnique ==
    ASSUME NEW S, IsFiniteSet(S), NEW T, IsFiniteSet(T), NEW f, NEW g, NEW h,
           Folds(g, f, SUBSET S), Folds(h, f, SUBSET T),
           NEW s, s \subseteq S, s \subseteq T
    PROVE  g[s] = h[s]
<1> DEFINE Bad == {t \in SUBSET S : t \subseteq T /\ g[t] # h[t]}
<1> SUFFICES ASSUME Bad # {} PROVE FALSE
  OBVIOUS
<1>1. PICK t \in Bad : \A u \in Bad : u \subseteq t => u = t
  <2>1. Bad \in SUBSET SUBSET S
    OBVIOUS
  <2> HIDE DEF Bad
  <2> QED BY <2>1, SmallestSubset
<1>2. /\ g[t] = IF t = {} THEN 0 ELSE f[Pick(t)] + g[t \ {Pick(t)}]
      /\ h[t] = IF t = {} THEN 0 ELSE f[Pick(t)] + h[t \ {Pick(t)}]
  BY <1>1 DEF Folds
<1>3. t # {}
  BY <1>1, <1>2
<1>4. t \ {Pick(t)} # t
  BY <1>3 DEF Pick
<1>5. g[t \ {Pick(t)}] = h[t \ {Pick(t)}]
  BY <1>1, <1>4
<1> QED BY <1>1, <1>2, <1>5

(* So the sum is what any such function says.                              *)
LEMMA SumIsFold ==
    ASSUME NEW S, IsFiniteSet(S), NEW f, NEW g, Folds(g, f, SUBSET S)
    PROVE  SumOver(f, S) = g[S]
<1> DEFINE sum == CHOOSE h : h = [s \in SUBSET S |->
                      IF s = {} THEN 0 ELSE f[Pick(s)] + h[s \ {Pick(s)}]]
<1>1. SumOver(f, S) = sum[S]
  BY DEF SumOver, MapThenSumSet, MapThenFoldSet, Pick
<1>2. sum = [s \in SUBSET S |->
                IF s = {} THEN 0 ELSE f[Pick(s)] + sum[s \ {Pick(s)}]]
  <2>1. \E h : h = [s \in SUBSET S |->
                      IF s = {} THEN 0 ELSE f[Pick(s)] + h[s \ {Pick(s)}]]
    BY FoldExists DEF Folds
  <2> QED BY <2>1
<1>3. Folds(sum, f, SUBSET S)
  BY <1>2 DEF Folds
<1> HIDE DEF sum
<1>4. sum[S] = g[S]
  BY <1>3, FoldUnique
<1> QED BY <1>1, <1>4

(* The sum of a set is an element's and that of the others.                *)
LEMMA SumStep ==
    ASSUME NEW S, IsFiniteSet(S), NEW f
    PROVE  SumOver(f, S) = IF S = {} THEN 0
                           ELSE f[Pick(S)] + SumOver(f, S \ {Pick(S)})
<1> DEFINE T == S \ {Pick(S)}
<1>1. PICK g : Folds(g, f, SUBSET S)
  BY FoldExists
<1>2. IsFiniteSet(T)
  BY FS_Subset
<1>3. PICK h : Folds(h, f, SUBSET T)
  BY <1>2, FoldExists
<1>4. SumOver(f, S) = g[S] /\ SumOver(f, T) = h[T]
  BY <1>1, <1>2, <1>3, SumIsFold
<1>5. g[T] = h[T]
  <2>1. T \subseteq S
    OBVIOUS
  <2> HIDE DEF T
  <2> QED BY <1>1, <1>2, <1>3, <2>1, FoldUnique
<1>6. g[S] = IF S = {} THEN 0 ELSE f[Pick(S)] + g[T]
  BY <1>1 DEF Folds
<1> QED BY <1>4, <1>5, <1>6

(* Nothing adds up to zero.                                                *)
LEMMA SumEmpty ==
    ASSUME NEW f
    PROVE  SumOver(f, {}) = 0
BY SumStep, FS_EmptySet

(* Functions that agree on a set have the same sum over it.                *)
LEMMA SumAgree ==
    ASSUME NEW S, IsFiniteSet(S), NEW f, NEW g, \A x \in S : f[x] = g[x]
    PROVE  SumOver(f, S) = SumOver(g, S)
<1> DEFINE Bad == {T \in SUBSET S : SumOver(f, T) # SumOver(g, T)}
<1> SUFFICES ASSUME Bad # {} PROVE FALSE
  OBVIOUS
<1>1. PICK T \in Bad : \A U \in Bad : U \subseteq T => U = T
  <2>1. Bad \in SUBSET SUBSET S
    OBVIOUS
  <2> HIDE DEF Bad
  <2> QED BY <2>1, SmallestSubset
<1>2. IsFiniteSet(T) /\ T \subseteq S
  BY <1>1, FS_Subset
<1> DEFINE U == T \ {Pick(T)}
<1>3. /\ SumOver(f, T) = IF T = {} THEN 0 ELSE f[Pick(T)] + SumOver(f, U)
      /\ SumOver(g, T) = IF T = {} THEN 0 ELSE g[Pick(T)] + SumOver(g, U)
  BY <1>2, SumStep
<1>4. T # {}
  BY <1>1, <1>3
<1>5. Pick(T) \in T
  BY <1>4 DEF Pick
<1>6. SumOver(f, U) = SumOver(g, U)
  BY <1>1, <1>2, <1>5
<1> QED BY <1>1, <1>2, <1>3, <1>4, <1>5, <1>6

(* Sums of integers are integers.                                          *)
LEMMA SumInt ==
    ASSUME NEW S, IsFiniteSet(S), NEW f, \A x \in S : f[x] \in Int
    PROVE  SumOver(f, S) \in Int
<1> DEFINE Bad == {T \in SUBSET S : SumOver(f, T) \notin Int}
<1> SUFFICES ASSUME Bad # {} PROVE FALSE
  OBVIOUS
<1>1. PICK T \in Bad : \A U \in Bad : U \subseteq T => U = T
  <2>1. Bad \in SUBSET SUBSET S
    OBVIOUS
  <2> HIDE DEF Bad
  <2> QED BY <2>1, SmallestSubset
<1>2. IsFiniteSet(T) /\ T \subseteq S
  BY <1>1, FS_Subset
<1> DEFINE U == T \ {Pick(T)}
<1>3. SumOver(f, T) = IF T = {} THEN 0 ELSE f[Pick(T)] + SumOver(f, U)
  BY <1>2, SumStep
<1>4. T # {} /\ SumOver(f, T) \notin Int
  BY <1>1, <1>3
<1>5. Pick(T) \in T /\ f[Pick(T)] \in Int
  BY <1>2, <1>4 DEF Pick
<1>6. SumOver(f, U) \in Int
  BY <1>1, <1>2, <1>5
<1> QED BY <1>3, <1>4, <1>5, <1>6

(* Sums of naturals are naturals.                                          *)
LEMMA SumNat ==
    ASSUME NEW S, IsFiniteSet(S), NEW f, \A x \in S : f[x] \in Nat
    PROVE  SumOver(f, S) \in Nat
<1> DEFINE Bad == {T \in SUBSET S : SumOver(f, T) \notin Nat}
<1> SUFFICES ASSUME Bad # {} PROVE FALSE
  OBVIOUS
<1>1. PICK T \in Bad : \A U \in Bad : U \subseteq T => U = T
  <2>1. Bad \in SUBSET SUBSET S
    OBVIOUS
  <2> HIDE DEF Bad
  <2> QED BY <2>1, SmallestSubset
<1>2. IsFiniteSet(T) /\ T \subseteq S
  BY <1>1, FS_Subset
<1> DEFINE U == T \ {Pick(T)}
<1>3. SumOver(f, T) = IF T = {} THEN 0 ELSE f[Pick(T)] + SumOver(f, U)
  BY <1>2, SumStep
<1>4. T # {} /\ SumOver(f, T) \notin Nat
  BY <1>1, <1>3
<1>5. Pick(T) \in T /\ f[Pick(T)] \in Nat
  BY <1>2, <1>4 DEF Pick
<1>6. SumOver(f, U) \in Nat
  BY <1>1, <1>2, <1>5
<1> QED BY <1>3, <1>4, <1>5, <1>6

(* Any element may be added last.                                          *)
LEMMA SumRemove ==
    ASSUME NEW S, IsFiniteSet(S), NEW f, \A x \in S : f[x] \in Int, NEW z \in S
    PROVE  SumOver(f, S) = f[z] + SumOver(f, S \ {z})
<1> DEFINE Bad == {T \in SUBSET S :
               \E x \in T : SumOver(f, T) # f[x] + SumOver(f, T \ {x})}
<1> SUFFICES ASSUME Bad # {} PROVE FALSE
  OBVIOUS
<1>1. PICK T \in Bad : \A U \in Bad : U \subseteq T => U = T
  <2>1. Bad \in SUBSET SUBSET S
    OBVIOUS
  <2> HIDE DEF Bad
  <2> QED BY <2>1, SmallestSubset
<1>2. PICK x \in T : SumOver(f, T) # f[x] + SumOver(f, T \ {x})
  BY <1>1
<1> DEFINE y == Pick(T)
<1>3. IsFiniteSet(T) /\ T \subseteq S
  BY <1>1, FS_Subset
<1>4. y \in T
  BY <1>2 DEF Pick
<1>5. SumOver(f, T) = f[y] + SumOver(f, T \ {y})
  BY <1>2, <1>3, SumStep
<1>6. y # x
  BY <1>2, <1>5
<1> HIDE DEF y
<1>7. T \ {y} \notin Bad /\ T \ {x} \notin Bad
  BY <1>1, <1>2, <1>4
<1>8. SumOver(f, T \ {y}) = f[x] + SumOver(f, (T \ {y}) \ {x})
  BY <1>2, <1>3, <1>6, <1>7
<1>9. SumOver(f, T \ {x}) = f[y] + SumOver(f, (T \ {x}) \ {y})
  BY <1>3, <1>4, <1>6, <1>7
<1> DEFINE V == (T \ {x}) \ {y}
<1>10. (T \ {y}) \ {x} = V
  OBVIOUS
<1>11. SumOver(f, V) \in Int
  <2>1. IsFiniteSet(V) /\ V \subseteq S
    BY <1>3, FS_Subset
  <2> HIDE DEF V
  <2> QED BY <2>1, SumInt
<1>12. f[x] \in Int /\ f[y] \in Int
  BY <1>2, <1>3, <1>4
<1>13. SumOver(f, T) = f[y] + (f[x] + SumOver(f, V))
  BY <1>5, <1>8, <1>10
<1>14. f[x] + SumOver(f, T \ {x}) = f[x] + (f[y] + SumOver(f, V))
  BY <1>9
<1> HIDE DEF V
<1> QED BY <1>2, <1>11, <1>12, <1>13, <1>14

(* Two sets without a common element.                                      *)
LEMMA SumUnion ==
    ASSUME NEW S, IsFiniteSet(S), NEW R, IsFiniteSet(R), S \cap R = {},
           NEW f, \A x \in S \cup R : f[x] \in Int
    PROVE  SumOver(f, S \cup R) = SumOver(f, S) + SumOver(f, R)
<1> DEFINE Bad == {T \in SUBSET S :
               SumOver(f, T \cup R) # SumOver(f, T) + SumOver(f, R)}
<1> SUFFICES ASSUME Bad # {} PROVE FALSE
  OBVIOUS
<1>1. PICK T \in Bad : \A U \in Bad : U \subseteq T => U = T
  <2>1. Bad \in SUBSET SUBSET S
    OBVIOUS
  <2> HIDE DEF Bad
  <2> QED BY <2>1, SmallestSubset
<1>2. IsFiniteSet(T) /\ T \subseteq S /\ IsFiniteSet(T \cup R)
  BY <1>1, FS_Subset, FS_Union
<1>3. SumOver(f, R) \in Int
  BY SumInt
<1>4. T # {}
  <2> SUFFICES ASSUME T = {} PROVE FALSE
    OBVIOUS
  <2>1. T \cup R = R
    OBVIOUS
  <2> QED BY <1>1, <1>3, <2>1, SumEmpty
<1>5. PICK x \in T : TRUE
  BY <1>4
<1> DEFINE U == T \ {x}
<1>6. SumOver(f, T) = f[x] + SumOver(f, U)
  BY <1>2, <1>5, SumRemove
<1>7. SumOver(f, T \cup R) = f[x] + SumOver(f, (T \cup R) \ {x})
  BY <1>2, <1>5, SumRemove
<1>8. (T \cup R) \ {x} = U \cup R
  BY <1>2, <1>5
<1>9. SumOver(f, U \cup R) = SumOver(f, U) + SumOver(f, R)
  BY <1>1, <1>5
<1>10. SumOver(f, U) \in Int /\ f[x] \in Int
  <2>1. IsFiniteSet(U) /\ U \subseteq S /\ x \in S
    BY <1>2, <1>5, FS_Subset
  <2> HIDE DEF U
  <2> QED BY <2>1, SumInt
<1> QED BY <1>1, <1>3, <1>6, <1>7, <1>8, <1>9, <1>10

(* A larger set of naturals has no smaller sum.                            *)
LEMMA SumSubset ==
    ASSUME NEW S, IsFiniteSet(S), NEW f, \A x \in S : f[x] \in Nat,
           NEW T, T \subseteq S
    PROVE  SumOver(f, T) <= SumOver(f, S)
<1> DEFINE R == S \ T
<1>1. IsFiniteSet(T) /\ IsFiniteSet(R)
  BY FS_Subset
<1>2. T \cup R = S /\ T \cap R = {}
  OBVIOUS
<1>3. \A x \in R : f[x] \in Nat
  OBVIOUS
<1> HIDE DEF R
<1>4. SumOver(f, S) = SumOver(f, T) + SumOver(f, R)
  BY <1>1, <1>2, SumUnion
<1>5. SumOver(f, T) \in Nat /\ SumOver(f, R) \in Nat
  BY <1>1, <1>3, SumNat
<1> QED BY <1>4, <1>5

(* Larger summands make no smaller sum.                                    *)
LEMMA SumMonotone ==
    ASSUME NEW S, IsFiniteSet(S), NEW f, NEW g,
           \A x \in S : f[x] \in Int /\ g[x] \in Int /\ f[x] <= g[x]
    PROVE  SumOver(f, S) <= SumOver(g, S)
<1> DEFINE Bad == {T \in SUBSET S : ~ (SumOver(f, T) <= SumOver(g, T))}
<1> SUFFICES ASSUME Bad # {} PROVE FALSE
  OBVIOUS
<1>1. PICK T \in Bad : \A U \in Bad : U \subseteq T => U = T
  <2>1. Bad \in SUBSET SUBSET S
    OBVIOUS
  <2> HIDE DEF Bad
  <2> QED BY <2>1, SmallestSubset
<1>2. IsFiniteSet(T) /\ T \subseteq S
  BY <1>1, FS_Subset
<1> DEFINE U == T \ {Pick(T)}
<1>3. T # {}
  <2> SUFFICES ASSUME T = {} PROVE FALSE
    OBVIOUS
  <2>1. SumOver(f, T) = 0 /\ SumOver(g, T) = 0
    BY SumEmpty
  <2> QED BY <1>1, <2>1
<1>4. /\ SumOver(f, T) = f[Pick(T)] + SumOver(f, U)
      /\ SumOver(g, T) = g[Pick(T)] + SumOver(g, U)
  BY <1>2, <1>3, SumStep
<1>5. Pick(T) \in T
  BY <1>3 DEF Pick
<1>6. SumOver(f, U) <= SumOver(g, U)
  BY <1>1, <1>5
<1>7. SumOver(f, U) \in Int /\ SumOver(g, U) \in Int
  <2>1. IsFiniteSet(U) /\ U \subseteq S
    BY <1>2, FS_Subset
  <2> HIDE DEF U
  <2> QED BY <2>1, SumInt
<1>8. /\ f[Pick(T)] \in Int /\ g[Pick(T)] \in Int
      /\ f[Pick(T)] <= g[Pick(T)]
  BY <1>2, <1>5
<1> QED BY <1>1, <1>4, <1>6, <1>7, <1>8

(* Summing over the images of distinct elements is summing over them.      *)
LEMMA SumImage ==
    ASSUME NEW S, IsFiniteSet(S), NEW h, NEW f, NEW k,
           \A x, y \in S : h[x] = h[y] => x = y,
           \A x \in S : k[x] \in Int /\ f[h[x]] = k[x]
    PROVE  /\ IsFiniteSet({h[x] : x \in S})
           /\ SumOver(f, {h[x] : x \in S}) = SumOver(k, S)
<1> DEFINE Image(T) == {h[x] : x \in T}
<1>1. ASSUME NEW T \in SUBSET S
      PROVE  IsFiniteSet(Image(T))
  <2> DEFINE g == [x \in T |-> h[x]]
  <2>1. g \in Surjection(T, Image(T))
    BY DEF Surjection
  <2>2. IsFiniteSet(T)
    BY FS_Subset
  <2> HIDE DEF g
  <2> QED BY <2>1, <2>2, FS_Surjection
<1> DEFINE Bad == {T \in SUBSET S : SumOver(f, Image(T)) # SumOver(k, T)}
<1> SUFFICES ASSUME Bad # {} PROVE FALSE
  BY <1>1
<1>2. PICK T \in Bad : \A U \in Bad : U \subseteq T => U = T
  <2>1. Bad \in SUBSET SUBSET S
    OBVIOUS
  <2> HIDE DEF Bad
  <2> QED BY <2>1, SmallestSubset
<1>3. IsFiniteSet(T) /\ T \subseteq S
  BY <1>2, FS_Subset
<1>4. T # {}
  <2> SUFFICES ASSUME T = {} PROVE FALSE
    OBVIOUS
  <2>1. Image(T) = {}
    OBVIOUS
  <2> QED BY <1>2, <2>1, SumEmpty
<1>5. PICK x \in T : TRUE
  BY <1>4
<1> DEFINE U == T \ {x}
<1>6. SumOver(k, T) = k[x] + SumOver(k, U)
  BY <1>3, <1>5, SumRemove
<1>7. SumOver(f, Image(T)) = f[h[x]] + SumOver(f, Image(T) \ {h[x]})
  <2>1. IsFiniteSet(Image(T)) /\ h[x] \in Image(T)
    BY <1>1, <1>3, <1>5
  <2>2. \A z \in Image(T) : f[z] \in Int
    BY <1>3
  <2> HIDE DEF Image
  <2> QED BY <2>1, <2>2, SumRemove
<1>8. Image(T) \ {h[x]} = Image(U)
  BY <1>3, <1>5
<1>9. SumOver(f, Image(U)) = SumOver(k, U)
  BY <1>2, <1>5
<1> QED BY <1>2, <1>3, <1>5, <1>6, <1>7, <1>8, <1>9

(* Adding part by part.                                                    *)
LEMMA SumPartition ==
    ASSUME NEW K, IsFiniteSet(K), NEW part, NEW f,
           \A k \in K : IsFiniteSet(part[k]) /\ \A x \in part[k] : f[x] \in Int,
           \A k, l \in K : k # l => part[k] \cap part[l] = {}
    PROVE  /\ IsFiniteSet(UNION {part[k] : k \in K})
           /\ SumOver([k \in K |-> SumOver(f, part[k])], K)
                 = SumOver(f, UNION {part[k] : k \in K})
<1> DEFINE sums == [k \in K |-> SumOver(f, part[k])]
           All(J) == UNION {part[k] : k \in J}
           Bad == {J \in SUBSET K : ~ (/\ IsFiniteSet(All(J))
                                       /\ SumOver(sums, J) = SumOver(f, All(J)))}
<1> SUFFICES ASSUME Bad # {} PROVE FALSE
  OBVIOUS
<1>1. PICK J \in Bad : \A U \in Bad : U \subseteq J => U = J
  <2>1. Bad \in SUBSET SUBSET K
    OBVIOUS
  <2> HIDE DEF Bad
  <2> QED BY <2>1, SmallestSubset
<1>2. IsFiniteSet(J) /\ J \subseteq K
  BY <1>1, FS_Subset
<1>3. J # {}
  <2> SUFFICES ASSUME J = {} PROVE FALSE
    OBVIOUS
  <2>1. All(J) = {}
    OBVIOUS
  <2>2. SumOver(sums, J) = 0 /\ SumOver(f, All(J)) = 0 /\ IsFiniteSet(All(J))
    BY <2>1, SumEmpty, FS_EmptySet
  <2> QED BY <1>1, <2>2
<1>4. PICK k \in J : TRUE
  BY <1>3
<1> DEFINE U == J \ {k}
<1>5. IsFiniteSet(All(U)) /\ SumOver(sums, U) = SumOver(f, All(U))
  <2>1. U \in SUBSET K /\ U \subseteq J /\ U # J
    BY <1>2, <1>4
  <2>2. U \notin Bad
    BY <1>1, <2>1
  <2> QED BY <2>1, <2>2
<1>6. \A l \in K : sums[l] \in Int
  BY SumInt
<1>7. SumOver(sums, J) = sums[k] + SumOver(sums, U)
  <2> HIDE DEF sums
  <2> QED BY <1>2, <1>4, <1>6, SumRemove
<1>8. sums[k] = SumOver(f, part[k]) /\ IsFiniteSet(part[k])
  BY <1>2, <1>4
<1>9. All(J) = part[k] \cup All(U)
  BY <1>4
<1>10. part[k] \cap All(U) = {}
  BY <1>2, <1>4
<1>11. \A x \in part[k] \cup All(U) : f[x] \in Int
  BY <1>2, <1>4
<1> HIDE DEF All, sums, U
<1>12. SumOver(f, All(J)) = SumOver(f, part[k]) + SumOver(f, All(U))
  BY <1>5, <1>8, <1>9, <1>10, <1>11, SumUnion
<1>13. IsFiniteSet(All(J))
  <2>1. IsFiniteSet(part[k] \cup All(U))
    BY <1>5, <1>8, FS_Union
  <2> QED BY <1>9, <2>1
<1> QED BY <1>1, <1>5, <1>7, <1>8, <1>12, <1>13

(* A constant is added as often as there are elements.                     *)
LEMMA SumOfConstant ==
    ASSUME NEW S, IsFiniteSet(S), NEW c \in Int, NEW f, \A x \in S : f[x] = c
    PROVE  SumOver(f, S) = c * Cardinality(S)
<1> DEFINE Bad == {T \in SUBSET S : SumOver(f, T) # c * Cardinality(T)}
<1> SUFFICES ASSUME Bad # {} PROVE FALSE
  OBVIOUS
<1>1. PICK T \in Bad : \A U \in Bad : U \subseteq T => U = T
  <2>1. Bad \in SUBSET SUBSET S
    OBVIOUS
  <2> HIDE DEF Bad
  <2> QED BY <2>1, SmallestSubset
<1>2. IsFiniteSet(T) /\ T \subseteq S
  BY <1>1, FS_Subset
<1>3. SumOver(f, T) = IF T = {} THEN 0 ELSE f[Pick(T)] + SumOver(f, T \ {Pick(T)})
  BY <1>2, SumStep
<1>4. T # {}
  <2>1. Cardinality({}) = 0 /\ c * 0 = 0
    BY FS_EmptySet
  <2> QED BY <1>1, <1>3, <2>1
<1>5. /\ Pick(T) \in T /\ Cardinality(T) \in Nat
      /\ Cardinality(T \ {Pick(T)}) = Cardinality(T) - 1
  BY <1>2, <1>4, OneLess
<1>6. SumOver(f, T \ {Pick(T)}) = c * Cardinality(T \ {Pick(T)})
  BY <1>1, <1>5
<1>7. f[Pick(T)] = c
  BY <1>2, <1>5
<1>8. c * Cardinality(T) = c + c * (Cardinality(T) - 1)
  BY <1>5
<1>9. SumOver(f, T) = c * Cardinality(T)
  BY <1>3, <1>4, <1>5, <1>6, <1>7, <1>8
<1> QED BY <1>1, <1>9

(* A value that changes changes the sum by as much.                        *)
LEMMA SumUpdate ==
    ASSUME NEW S, IsFiniteSet(S), NEW f, \A x \in S : f[x] \in Int,
           NEW z \in S, NEW g, g[z] \in Int, \A x \in S \ {z} : g[x] = f[x]
    PROVE  SumOver(g, S) = SumOver(f, S) + (g[z] - f[z])
<1> DEFINE rest == S \ {z}
<1>1. IsFiniteSet(rest) /\ \A x \in rest : g[x] = f[x] /\ f[x] \in Int
  BY FS_Subset
<1>2. SumOver(f, S) = f[z] + SumOver(f, rest)
  BY SumRemove
<1>3. \A x \in S : g[x] \in Int
  OBVIOUS
<1>4. SumOver(g, S) = g[z] + SumOver(g, rest)
  BY <1>3, SumRemove
<1> HIDE DEF rest
<1>5. SumOver(g, rest) = SumOver(f, rest) /\ SumOver(f, rest) \in Int
  BY <1>1, SumAgree, SumInt
<1> QED BY <1>2, <1>4, <1>5

-----------------------------------------------------------------------------
(* A sum of values, as a sum of a function.                                *)
LEMMA ValueSum ==
    ASSUME NEW S, IsFiniteSet(S)
    PROVE  MapThenSumSet(LAMBDA r : r.value, S) = SumOver([r \in S |-> r.value], S)
<1> DEFINE f == [r \in S |-> r.value]
           sum == CHOOSE h : h = [s \in SUBSET S |->
                     IF s = {} THEN 0 ELSE Pick(s).value + h[s \ {Pick(s)}]]
<1>1. MapThenSumSet(LAMBDA r : r.value, S) = sum[S]
  BY DEF MapThenSumSet, MapThenFoldSet, Pick
<1>2. ASSUME NEW s \in SUBSET S, s # {}
      PROVE  f[Pick(s)] = Pick(s).value
  BY <1>2 DEF Pick
<1>3. PICK g : Folds(g, f, SUBSET S)
  BY FoldExists
<1>4. g = [s \in SUBSET S |->
             IF s = {} THEN 0 ELSE Pick(s).value + g[s \ {Pick(s)}]]
  BY <1>2, <1>3 DEF Folds
<1>5. sum = [s \in SUBSET S |->
               IF s = {} THEN 0 ELSE Pick(s).value + sum[s \ {Pick(s)}]]
  BY <1>4
<1>6. Folds(sum, f, SUBSET S)
  BY <1>2, <1>5 DEF Folds
<1> HIDE DEF sum, f
<1>7. SumOver(f, S) = sum[S]
  BY <1>6, SumIsFold
<1> QED BY <1>1, <1>7 DEF f

(* So too of the values of entries, which hold receipts.                   *)
LEMMA EntrySum ==
    ASSUME NEW S, IsFiniteSet(S)
    PROVE  MapThenSumSet(LAMBDA e : e.receipt.value, S) = SumOver([e \in S |-> e.receipt.value], S)
<1> DEFINE f == [e \in S |-> e.receipt.value]
           sum == CHOOSE h : h = [s \in SUBSET S |->
                     IF s = {} THEN 0 ELSE Pick(s).receipt.value + h[s \ {Pick(s)}]]
<1>1. MapThenSumSet(LAMBDA e : e.receipt.value, S) = sum[S]
  BY DEF MapThenSumSet, MapThenFoldSet, Pick
<1>2. ASSUME NEW s \in SUBSET S, s # {}
      PROVE  f[Pick(s)] = Pick(s).receipt.value
  BY <1>2 DEF Pick
<1>3. PICK g : Folds(g, f, SUBSET S)
  BY FoldExists
<1>4. g = [s \in SUBSET S |->
             IF s = {} THEN 0 ELSE Pick(s).receipt.value + g[s \ {Pick(s)}]]
  BY <1>2, <1>3 DEF Folds
<1>5. sum = [s \in SUBSET S |->
               IF s = {} THEN 0 ELSE Pick(s).receipt.value + sum[s \ {Pick(s)}]]
  BY <1>4
<1>6. Folds(sum, f, SUBSET S)
  BY <1>2, <1>5 DEF Folds
<1> HIDE DEF sum, f
<1>7. SumOver(f, S) = sum[S]
  BY <1>6, SumIsFold
<1> QED BY <1>1, <1>7 DEF f

(* The entries of a batch that holds no receipt twice are worth what its   *)
(* receipts are worth.                                                     *)
LEMMA DistinctEntries ==
    ASSUME NEW batch, IsFiniteSet(batch),
           \A e \in batch : e.receipt.value \in Int,
           \A e, f \in batch : e.receipt = f.receipt => e = f
    PROVE  /\ IsFiniteSet({e.receipt : e \in batch})
           /\ MapThenSumSet(LAMBDA e : e.receipt.value, batch)
                 = MapThenSumSet(LAMBDA r : r.value, {e.receipt : e \in batch})
<1> DEFINE receipts == {e.receipt : e \in batch}
           h == [e \in batch |-> e.receipt]
           f == [r \in receipts |-> r.value]
           k == [e \in batch |-> e.receipt.value]
<1>1. receipts = {h[e] : e \in batch}
  OBVIOUS
<1>2. \A e, d \in batch : h[e] = h[d] => e = d
  OBVIOUS
<1>3. \A e \in batch : k[e] \in Int /\ f[h[e]] = k[e]
  OBVIOUS
<1>4. MapThenSumSet(LAMBDA e : e.receipt.value, batch) = SumOver(k, batch)
  BY EntrySum
<1> HIDE DEF h, k
<1>5. IsFiniteSet(receipts) /\ SumOver(f, receipts) = SumOver(k, batch)
  <2> HIDE DEF f, receipts
  <2> QED BY <1>1, <1>2, <1>3, SumImage
<1>6. MapThenSumSet(LAMBDA r : r.value, receipts) = SumOver(f, receipts)
  BY <1>5, ValueSum
<1> QED BY <1>4, <1>5, <1>6

(* Sums of values are naturals, of disjoint sets they add up, and a part   *)
(* is worth no more than the whole.                                        *)
LEMMA WorthOfParts ==
    ASSUME NEW S, IsFiniteSet(S), \A r \in S : r.value \in Nat,
           NEW T, T \subseteq S
    PROVE  /\ MapThenSumSet(LAMBDA r : r.value, T) \in Nat
           /\ MapThenSumSet(LAMBDA r : r.value, S) \in Nat
           /\ MapThenSumSet(LAMBDA r : r.value, T)
                 <= MapThenSumSet(LAMBDA r : r.value, S)
           /\ MapThenSumSet(LAMBDA r : r.value, S)
                 = MapThenSumSet(LAMBDA r : r.value, T)
                     + MapThenSumSet(LAMBDA r : r.value, S \ T)
<1> DEFINE f == [r \in S |-> r.value]
           worth(U) == MapThenSumSet(LAMBDA r : r.value, U)
<1>1. ASSUME NEW U, U \subseteq S
      PROVE  /\ IsFiniteSet(U)
             /\ worth(U) = SumOver(f, U)
             /\ SumOver(f, U) \in Nat
  <2> DEFINE g == [r \in U |-> r.value]
  <2>1. IsFiniteSet(U)
    BY <1>1, FS_Subset
  <2>2. worth(U) = SumOver(g, U)
    BY <2>1, ValueSum
  <2>3. \A r \in U : f[r] = g[r] /\ f[r] \in Nat
    BY <1>1
  <2> HIDE DEF f, g, worth
  <2>4. SumOver(f, U) = SumOver(g, U)
    BY <2>1, <2>3, SumAgree
  <2>5. SumOver(f, U) \in Nat
    BY <2>1, <2>3, SumNat
  <2> QED BY <2>1, <2>2, <2>4, <2>5
<1>2. \A r \in S : f[r] \in Nat
  OBVIOUS
<1> HIDE DEF f, worth
<1>3. SumOver(f, T) <= SumOver(f, S)
  BY <1>2, SumSubset
<1>4. SumOver(f, S) = SumOver(f, T) + SumOver(f, S \ T)
  <2> DEFINE R == S \ T
  <2>1. T \cup R = S /\ T \cap R = {} /\ R \subseteq S
    OBVIOUS
  <2> HIDE DEF R
  <2>2. IsFiniteSet(T) /\ IsFiniteSet(R)
    BY <2>1, FS_Subset
  <2>3. \A r \in T \cup R : f[r] \in Int
    BY <1>2, <2>1
  <2>4. SumOver(f, T \cup R) = SumOver(f, T) + SumOver(f, R)
    BY <2>1, <2>2, <2>3, SumUnion
  <2> QED BY <2>1, <2>4 DEF R
<1>5. /\ worth(T) = SumOver(f, T) /\ worth(S) = SumOver(f, S)
      /\ worth(S \ T) = SumOver(f, S \ T)
      /\ SumOver(f, T) \in Nat /\ SumOver(f, S) \in Nat
  BY <1>1
<1>6. /\ worth(T) \in Nat /\ worth(S) \in Nat /\ worth(T) <= worth(S)
      /\ worth(S) = worth(T) + worth(S \ T)
  BY <1>3, <1>4, <1>5
<1> QED BY <1>6 DEF worth
=============================================================================
