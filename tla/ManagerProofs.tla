--------------------------- MODULE ManagerProofs ---------------------------
(***************************************************************************)
(* Proofs about Manager, for every set of receipts, every buffer, limit    *)
(* and delay bound, and about Storage: with a caller that removes receipts *)
(* by id beside it, at any time, the manager keeps what is shown of it.    *)
(***************************************************************************)
EXTENDS Storage, Sums

(***************************************************************************)
(* The pure functions.                                                     *)
(***************************************************************************)

(* The entries are finitely many, so cardinalities in SafeTruncate mean    *)
(* what they say.                                                          *)
LEMMA EntriesFinite == IsFiniteSet(Entries)
<1> DEFINE Pairs == (1 .. Deliveries) \X Receipts
           f == [p \in Pairs |-> [id |-> p[1], receipt |-> p[2]]]
<1>1. IsFiniteSet(Pairs)
  <2>1. IsFiniteSet(1 .. Deliveries)
    BY FS_Interval, BoundsAssumption
  <2> QED BY <2>1, FS_Product, ReceiptsAssumption
<1>2. f \in Surjection(Pairs, Entries)
  <2>1. f \in [Pairs -> Entries]
    BY DEF Entries
  <2>2. \A e \in Entries : \E p \in Pairs : f[p] = e
    <3> TAKE e \in Entries
    <3>1. <<e.id, e.receipt>> \in Pairs
      BY DEF Entries
    <3>2. f[<<e.id, e.receipt>>] = e
      BY <3>1 DEF Entries
    <3> QED BY <3>1, <3>2
  <2> QED BY <2>1, <2>2 DEF Surjection
<1> QED BY <1>1, <1>2, FS_Surjection

(* safe_truncate_receipts never returns an entry and leaves an earlier, or *)
(* equally old, one behind.                                                *)
LEMMA SafeTruncateIsClosed ==
    ASSUME NEW batch \in SUBSET Entries, NEW e \in batch,
           NEW f \in SafeTruncate(batch, Limit),
           e.receipt.timestamp_ns <= f.receipt.timestamp_ns
    PROVE  e \in SafeTruncate(batch, Limit)
<1> DEFINE Upto(g) == {h \in batch : h.receipt.timestamp_ns <= g.receipt.timestamp_ns}
<1>1. f \in batch /\ Cardinality(Upto(f)) <= Limit
  BY DEF SafeTruncate
<1>2. \A g \in batch : g.receipt.timestamp_ns \in Nat
  BY ReceiptsAssumption DEF Entries
<1>3. Upto(e) \in SUBSET Upto(f)
  BY <1>1, <1>2
<1>4. IsFiniteSet(Upto(f))
  BY EntriesFinite, FS_Subset
<1>5. Cardinality(Upto(e)) <= Cardinality(Upto(f))
  BY <1>3, <1>4, FS_Subset
<1>6. IsFiniteSet(Upto(e))
  BY EntriesFinite, FS_Subset
<1>7. Cardinality(Upto(e)) \in Nat /\ Cardinality(Upto(f)) \in Nat
  BY <1>4, <1>6, FS_CardinalityType
<1>8. Cardinality(Upto(e)) <= Limit
  BY <1>1, <1>5, <1>7, BoundsAssumption
<1> QED BY <1>8 DEF SafeTruncate

(* UniqueCheck keeps every receipt of the batch, and keeps it once.        *)
LEMMA UniqueCheckKeepsOne ==
    ASSUME NEW batch
    PROVE  /\ UniqueCheck(batch) \subseteq batch
           /\ ReceiptsOf(UniqueCheck(batch)) = ReceiptsOf(batch)
           /\ LastRav!Distinct(UniqueCheck(batch))
<1> DEFINE kept(r) == CHOOSE f \in batch : f.receipt = r
<1>1. UniqueCheck(batch) = {e \in batch : e = kept(e.receipt)}
  BY DEF UniqueCheck
<1>2. \A e \in batch : kept(e.receipt) \in batch /\ kept(e.receipt).receipt = e.receipt
  OBVIOUS
<1>3. ReceiptsOf(UniqueCheck(batch)) = ReceiptsOf(batch)
  <2>1. \A e \in batch : kept(e.receipt) \in UniqueCheck(batch)
    BY <1>1, <1>2
  <2> QED BY <1>1, <1>2, <2>1 DEF ReceiptsOf
<1>4. LastRav!Distinct(UniqueCheck(batch))
  BY <1>1 DEF LastRav!Distinct
<1> QED BY <1>1, <1>3, <1>4

(* A RAV aggregated from entries is a RAV: its value is a u128, and its    *)
(* timestamp is that of the previous RAV or of a receipt in the batch, and *)
(* the latest of them.                                                     *)
LEMMA AggregateIsRav ==
    ASSUME NEW batch \in SUBSET Entries, NEW previous \in Ravs,
           NEW rav \in Aggregate(batch, previous)
    PROVE  /\ rav \in Ravs
           /\ rav.timestamp_ns \in Nat
           /\ batch # {}
           /\ rav.sources = previous.sources \cup ReceiptsOf(batch)
           /\ previous.timestamp_ns <= rav.timestamp_ns
           /\ \A e \in batch : e.receipt.timestamp_ns <= rav.timestamp_ns
           /\ \/ rav.timestamp_ns = previous.timestamp_ns
              \/ \E e \in batch : rav.timestamp_ns = e.receipt.timestamp_ns
<1> DEFINE value  == previous.value + TotalValue(batch)
           stamps == {previous.timestamp_ns} \cup
                         {r.timestamp_ns : r \in ReceiptsOf(batch)}
<1>1. PICK t \in stamps :
        /\ \A u \in stamps : u <= t
        /\ batch # {}
        /\ value \in Values
        /\ rav = [timestamp_ns |-> t, value |-> value,
                  sources |-> previous.sources \cup ReceiptsOf(batch)]
  BY DEF Aggregate
<1>2. ReceiptsOf(batch) \subseteq Receipts
  BY DEF ReceiptsOf, Entries
<1>3. \A e \in batch : e.receipt \in ReceiptsOf(batch)
  BY DEF ReceiptsOf
<1>4. \A r \in ReceiptsOf(batch) : r.timestamp_ns \in Nat \ {0}
  BY <1>2, ReceiptsAssumption
<1>5. previous.timestamp_ns \in Nat \cup {-1} /\ previous.sources \subseteq Receipts
  BY DEF Ravs
<1>6. t \in Nat
  <2>1. PICK e \in batch : TRUE
    BY <1>1
  <2>2. e.receipt.timestamp_ns <= t /\ e.receipt.timestamp_ns \in Nat \ {0}
    BY <1>1, <1>3, <1>4, <2>1
  <2>3. t \in Nat \cup {-1}
    BY <1>1, <1>4, <1>5
  <2> QED BY <2>2, <2>3
<1>7. rav \in Ravs /\ rav.timestamp_ns \in Nat
  BY <1>1, <1>2, <1>5, <1>6 DEF Ravs
<1>8. \A e \in batch : e.receipt.timestamp_ns <= rav.timestamp_ns
  BY <1>1, <1>3
<1>9. \/ rav.timestamp_ns = previous.timestamp_ns
      \/ \E e \in batch : rav.timestamp_ns = e.receipt.timestamp_ns
  BY <1>1 DEF ReceiptsOf
<1> QED BY <1>1, <1>7, <1>8, <1>9

(***************************************************************************)
(* Type correctness, for any number of requesters.                         *)
(***************************************************************************)

(* No RAV is represented as one that is worth nothing and older than all.  *)
LEMMA NoRavType == NoRav \in Ravs /\ NoRav.timestamp_ns = -1
BY MaxValueAssumption DEF NoRav, Ravs, Values

(* A stored receipt is a receipt, with a time.                             *)
LEMMA EntryType ==
    ASSUME NEW e \in Entries
    PROVE  /\ e.receipt \in Receipts
           /\ e.receipt.timestamp_ns \in Nat \ {0}
BY ReceiptsAssumption DEF Entries

(* An answer that passes the comparison is the expected RAV.               *)
LEMMA VerifiedAnswer ==
    ASSUME NEW rav \in Ravs, NEW signed \in Answers(rav), SameMessage(signed, rav)
    PROVE  signed = rav
<1>1. rav.value \in Nat
  BY MaxValueAssumption DEF Ravs, Values
<1>2. CASE signed = [rav EXCEPT !.value = @ + 1]
  <2>1. signed.value = rav.value + 1
    BY <1>2 DEF Ravs
  <2> QED BY <1>1, <2>1 DEF SameMessage
<1> QED BY <1>2 DEF Answers

(* What CollectReceipts does, whichever buffer it is called with.          *)
LEMMA CollectShape ==
    ASSUME NEW q \in Requesters, CollectReceipts(q)
    PROVE  \E buffer \in Buffers, collected \in SUBSET receipt_storage,
              failed \in SUBSET receipt_storage :
              /\ collected = Collected(q, Retrieved(q, buffer))
              /\ request' = [request EXCEPT ![q].pc = "checking",
                                            ![q].batch = collected,
                                            ![q].failed = failed]
<1>1. PICK buffer \in Buffers :
         request' = [request EXCEPT
             ![q].pc = "checking",
             ![q].batch = Collected(q, Retrieved(q, buffer)),
             ![q].failed = Retrieved(q, buffer) \ Collected(q, Retrieved(q, buffer))]
  BY DEF CollectReceipts
<1>2. Retrieved(q, buffer) \subseteq receipt_storage
  BY DEF Retrieved, SafeTruncate, InRange
<1>3. Collected(q, Retrieved(q, buffer)) \subseteq receipt_storage
  BY <1>2, UniqueCheckKeepsOne DEF Collected, TimestampCheck
<1> QED BY <1>1, <1>2, <1>3

(* What create_rav_request returns as invalid beside its valid receipts    *)
(* (core.rs:139-164, 199-204).                                             *)
Returned(q, valid) ==
    LET invalid == ReceiptsOf(request[q].failed \cup (request[q].batch \ valid))
    IN  /\ reported' = reported \cup invalid
        /\ rejected' = rejected \cup (invalid \ ReceiptsOf(valid))

(* What FinalizeReceipts does, whichever checks fail.                      *)
LEMMA FinalizeShape ==
    ASSUME NEW q \in Requesters, FinalizeReceipts(q)
    PROVE  \E valid \in SUBSET request[q].batch :
              /\ Returned(q, valid)
              /\ \/ request' = [request EXCEPT ![q] = Idle]
                 \/ \E rav \in Aggregate(valid, request[q].previous) :
                       request' = [request EXCEPT ![q].pc = "requesting",
                                                  ![q].batch = valid,
                                                  ![q].failed = {},
                                                  ![q].expected = rav]
<1>1. PICK refused \in SUBSET Flaky :
        LET valid == {e \in request[q].batch :
                         PassesTimestampCheck(e) /\ e.receipt \notin refused}
            ravs  == Aggregate(valid, request[q].previous)
        IN /\ Returned(q, valid)
           /\ \/ /\ ravs = {}
                 /\ request' = [request EXCEPT ![q] = Idle]
              \/ \E rav \in ravs :
                    request' = [request EXCEPT ![q].pc = "requesting",
                                               ![q].batch = valid,
                                               ![q].failed = {},
                                               ![q].expected = rav]
  BY DEF FinalizeReceipts, Returned
<1> DEFINE valid == {e \in request[q].batch :
                        PassesTimestampCheck(e) /\ e.receipt \notin refused}
<1>2. valid \in SUBSET request[q].batch
  OBVIOUS
<1> QED BY <1>1, <1>2

(* The state has its shape at the start ...                                *)
LEMMA TypeInit == Init => TypeInv
<1> SUFFICES ASSUME Init PROVE TypeInv
  OBVIOUS
<1> USE NoRavType, BoundsAssumption
<1>1. TypeOK
  BY DEF Init, TypeOK, Idle
<1>2. ExpectedIsAggregate
  BY DEF Init, Idle, ExpectedIsAggregate
<1> QED BY <1>1, <1>2 DEF TypeInv

(* ... and each operation keeps it; the values of the RAVs stay u128.      *)
LEMMA TypeStep == TypeInv /\ [Next]_vars => TypeInv'
<1> SUFFICES ASSUME TypeInv, [Next]_vars PROVE TypeInv'
  OBVIOUS
<1> USE NoRavType, BoundsAssumption
<1>a. TypeOK /\ ExpectedIsAggregate
  BY DEF TypeInv
<1>b. Idle \in [pc : {"idle", "collecting", "checking", "requesting"},
                previous : Ravs, batch : SUBSET Entries,
                failed : SUBSET Entries, expected : Ravs]
  BY DEF Idle
<1>1. CASE Tick
  BY <1>a, <1>1 DEF TypeInv, TypeOK, ExpectedIsAggregate, Tick
<1>2. ASSUME NEW e \in Entries, VerifyReceipt(e) PROVE TypeInv'
  BY <1>a, <1>2 DEF TypeInv, TypeOK, ExpectedIsAggregate, VerifyReceipt
<1>3. ASSUME NEW e \in Entries, StoreReceipt(e) PROVE TypeInv'
  BY <1>a, <1>3 DEF TypeInv, TypeOK, ExpectedIsAggregate, StoreReceipt
<1>4. ASSUME NEW q \in Requesters, ReadLastRav(q) PROVE TypeInv'
  BY <1>a, <1>b, <1>4 DEF TypeInv, TypeOK, ExpectedIsAggregate, ReadLastRav, Idle
<1>5. ASSUME NEW q \in Requesters, TimestampRangeError(q) PROVE TypeInv'
  BY <1>a, <1>b, <1>5 DEF TypeInv, TypeOK, ExpectedIsAggregate,
                          TimestampRangeError, Idle
<1>6. ASSUME NEW q \in Requesters, CollectReceipts(q) PROVE TypeInv'
  <2>1. PICK c \in SUBSET receipt_storage, d \in SUBSET receipt_storage :
           request' = [request EXCEPT ![q].pc = "checking",
                                      ![q].batch = c, ![q].failed = d]
    BY <1>6, CollectShape
  <2>2. c \subseteq Entries /\ d \subseteq Entries
    BY <1>a DEF TypeOK
  <2>3. UNCHANGED <<now, delivered, verifying, receipt_storage, last_rav,
                    min_timestamp_ns, removing, reported, rejected>>
    BY <1>6 DEF CollectReceipts
  <2> DEFINE R == [pc : {"idle", "collecting", "checking", "requesting"},
                   previous : Ravs, batch : SUBSET Entries, failed : SUBSET Entries,
                   expected : Ravs]
             checking == [request[q] EXCEPT !.pc = "checking", !.batch = c, !.failed = d]
  <2>3a. request \in [Requesters -> R]
    BY <1>a DEF TypeOK
  <2>3b. checking \in R
    BY <2>2, <2>3a
  <2>3c. request' = [request EXCEPT ![q] = checking]
    BY <2>1, <2>3a
  <2>4. request' \in [Requesters -> R]
    <3> HIDE DEF R, checking
    <3> QED BY <2>3a, <2>3b, <2>3c
  <2>5. TypeOK'
    BY <1>a, <2>3, <2>4 DEF TypeOK
  <2>6. ExpectedIsAggregate'
    BY <1>a, <2>1, <2>3 DEF TypeOK, ExpectedIsAggregate
  <2> QED BY <2>5, <2>6 DEF TypeInv
<1>7. ASSUME NEW q \in Requesters, FinalizeReceipts(q) PROVE TypeInv'
  <2>1. PICK valid \in SUBSET request[q].batch :
          /\ Returned(q, valid)
          /\ \/ request' = [request EXCEPT ![q] = Idle]
             \/ \E rav \in Aggregate(valid, request[q].previous) :
                   request' = [request EXCEPT ![q].pc = "requesting",
                                              ![q].batch = valid,
                                              ![q].failed = {},
                                              ![q].expected = rav]
    BY <1>7, FinalizeShape
  <2>2. /\ request[q].batch \subseteq Entries /\ request[q].failed \subseteq Entries
        /\ request[q].previous \in Ravs
    BY <1>a DEF TypeOK
  <2>3. valid \in SUBSET Entries
    BY <2>2
  <2>4. reported' \subseteq Receipts /\ rejected' \subseteq reported'
    BY <1>a, <2>1, <2>2 DEF TypeOK, Returned, ReceiptsOf, Entries
  <2>5. UNCHANGED <<now, delivered, verifying, receipt_storage, last_rav,
                    min_timestamp_ns, removing>>
    BY <1>7 DEF FinalizeReceipts
  <2>6. CASE request' = [request EXCEPT ![q] = Idle]
    BY <1>a, <1>b, <2>4, <2>5, <2>6 DEF TypeInv, TypeOK, ExpectedIsAggregate, Idle
  <2>7. ASSUME NEW rav \in Aggregate(valid, request[q].previous),
               request' = [request EXCEPT ![q].pc = "requesting",
                                          ![q].batch = valid,
                                          ![q].failed = {},
                                          ![q].expected = rav]
        PROVE  TypeInv'
    <3>1. rav \in Ravs
      BY <2>2, <2>3, AggregateIsRav
    <3> DEFINE Kinds == [pc : {"idle", "collecting", "checking", "requesting"},
                         previous : Ravs, batch : SUBSET Entries,
                         failed : SUBSET Entries, expected : Ravs]
    <3>a. \A k \in Kinds :
             [k EXCEPT !.pc = "requesting", !.batch = valid, !.failed = {},
                       !.expected = rav] \in Kinds
      BY <2>3, <3>1
    <3>b. request \in [Requesters -> Kinds]
      BY <1>a DEF TypeOK
    <3>c. request' = [request EXCEPT ![q] =
             [@ EXCEPT !.pc = "requesting", !.batch = valid, !.failed = {},
                       !.expected = rav]]
      BY <2>7
    <3>d. request' \in [Requesters -> Kinds]
      <4> HIDE DEF Kinds
      <4> QED BY <3>a, <3>b, <3>c
    <3>2. TypeOK'
      BY <1>a, <2>4, <2>5, <3>d DEF TypeOK
    <3>3. ExpectedIsAggregate'
      BY <1>a, <1>b, <2>7 DEF TypeOK, ExpectedIsAggregate
    <3> QED BY <3>2, <3>3 DEF TypeInv
  <2> QED BY <2>1, <2>6, <2>7
<1>8. ASSUME NEW q \in Requesters, AnswerArrives(q) PROVE TypeInv'
  <2>1. PICK signed \in Answers(request[q].expected) : VerifyAndStoreRav(q, signed)
    BY <1>8 DEF AnswerArrives
  <2>2. signed = request[q].expected /\ request[q].pc = "requesting"
    BY <1>a, <2>1, VerifiedAnswer DEF VerifyAndStoreRav, TypeOK
  <2>3. signed \in Ravs /\ signed.timestamp_ns \in Nat
    BY <1>a, <2>2, AggregateIsRav DEF TypeOK, ExpectedIsAggregate
  <2> QED BY <1>a, <1>b, <2>1, <2>3
             DEF TypeInv, TypeOK, ExpectedIsAggregate, VerifyAndStoreRav, Idle
<1>9. ASSUME NEW q \in Requesters, RequestFails(q) PROVE TypeInv'
  BY <1>a, <1>b, <1>9 DEF TypeInv, TypeOK, ExpectedIsAggregate, RequestFails, Idle
<1>10. CASE ReadObsoleteBound
  BY <1>a, <1>10 DEF TypeInv, TypeOK, ExpectedIsAggregate, ReadObsoleteBound
<1>11. CASE RemoveObsoleteReceipts
  BY <1>a, <1>11 DEF TypeInv, TypeOK, ExpectedIsAggregate, RemoveObsoleteReceipts,
                     Obsolete
<1>12. CASE UNCHANGED vars
  BY <1>a, <1>12 DEF TypeInv, TypeOK, ExpectedIsAggregate, vars
<1> QED BY <1>1, <1>2, <1>3, <1>4, <1>5, <1>6, <1>7, <1>8, <1>9, <1>10,
           <1>11, <1>12 DEF Next

(* Manager keeps its types: in particular every stored RAV carries a u128, *)
(* because aggregate_receipts stops at AggregateOverflow.                  *)
THEOREM TypeCorrect == Spec => []TypeOK
<1>1. Spec => []TypeInv
  BY TypeInit, TypeStep, PTL DEF Spec
<1>2. TypeInv => TypeOK
  BY DEF TypeInv
<1> QED BY <1>1, <1>2, PTL

(***************************************************************************)
(* Safety, for one requester and a buffer no shorter than the delays.      *)
(***************************************************************************)
SingleRequester == \A p, q \in Requesters : p = q
PromptDelivery  == MaxDelay <= Buffer

(* At the start nothing is checked, collected or requested.                *)
LEMMA SafetyInit == Init => SafetyInv
BY NoRavType DEF Init, Idle, SafetyInv, VerifyingIsRecent, BoundsFollowLastRav,
                 RequestsAreCurrent, HoldsBatch, BatchesAreClosed,
                 NoReceiptStranded

(* The collected batch: distinct receipts of the range, none left behind.  *)
LEMMA CollectedBatch ==
    ASSUME TypeOK, NEW q \in Requesters,
           NEW buffer \in Buffers, NEW collected,
           collected = Collected(q, Retrieved(q, buffer))
    PROVE  /\ LastRav!Distinct(collected)
           /\ \A f \in collected :
                 /\ f \in receipt_storage
                 /\ request[q].previous.timestamp_ns < f.receipt.timestamp_ns
                 /\ f.receipt.timestamp_ns < now - Buffer
           /\ \A f \in collected, e \in receipt_storage :
                 /\ request[q].previous.timestamp_ns < e.receipt.timestamp_ns
                 /\ e.receipt.timestamp_ns <= f.receipt.timestamp_ns
                 => e.receipt \in ReceiptsOf(collected)
<1> DEFINE min == MinTimestamp(q)
           range == InRange(min, MaxTimestamp(buffer))
           kept == SafeTruncate(range, Limit)
           batch == TimestampCheck(kept, min)
<1>1. range \subseteq receipt_storage /\ receipt_storage \subseteq Entries
  BY DEF InRange, TypeOK
<1>2. kept \subseteq range
  BY DEF SafeTruncate
<1>3. batch \subseteq kept
  BY DEF TimestampCheck
<1>4. /\ collected \subseteq batch
      /\ ReceiptsOf(collected) = ReceiptsOf(batch)
      /\ LastRav!Distinct(collected)
  BY UniqueCheckKeepsOne DEF Collected, Retrieved
<1>5. /\ request[q].previous.timestamp_ns \in Int /\ now \in Int
      /\ Buffer \in Int /\ buffer \in Int /\ Buffer <= buffer
  BY BoundsAssumption DEF TypeOK, Ravs, Buffers
<1>6. min = request[q].previous.timestamp_ns + 1
  BY DEF MinTimestamp
<1>7. \A e \in Entries : e.receipt.timestamp_ns \in Int
  BY EntryType
<1>8. \A e \in receipt_storage :
        e \in range <=> /\ request[q].previous.timestamp_ns < e.receipt.timestamp_ns
                        /\ e.receipt.timestamp_ns < now - buffer
  BY <1>1, <1>5, <1>6, <1>7 DEF InRange, MaxTimestamp
<1>9. ASSUME NEW f \in collected, NEW e \in receipt_storage,
             request[q].previous.timestamp_ns < e.receipt.timestamp_ns,
             e.receipt.timestamp_ns <= f.receipt.timestamp_ns
      PROVE  e.receipt \in ReceiptsOf(collected)
  <2>1. f \in kept /\ f \in range /\ f \in receipt_storage
    BY <1>1, <1>2, <1>3, <1>4
  <2>2. e \in range
    BY <1>1, <1>5, <1>7, <1>8, <1>9, <2>1
  <2>3. range \in SUBSET Entries
    BY <1>1
  <2> HIDE DEF range
  <2>4. e \in kept
    BY <1>9, <2>1, <2>2, <2>3, SafeTruncateIsClosed
  <2>5. e \in batch
    BY <1>1, <1>5, <1>6, <1>7, <1>9, <2>4 DEF TimestampCheck
  <2> QED BY <1>4, <2>5 DEF ReceiptsOf
<1>10. ASSUME NEW f \in collected
       PROVE  /\ f \in receipt_storage
              /\ request[q].previous.timestamp_ns < f.receipt.timestamp_ns
              /\ f.receipt.timestamp_ns < now - Buffer
  <2>1. f \in range /\ f \in receipt_storage /\ f \in Entries
    BY <1>1, <1>2, <1>3, <1>4
  <2> HIDE DEF range
  <2>2. f.receipt.timestamp_ns < now - buffer
    BY <1>8, <2>1
  <2> QED BY <1>5, <1>7, <1>8, <2>1, <2>2
<1> HIDE DEF range, kept, batch
<1> QED BY <1>4, <1>9, <1>10

(* RequestsAreCurrent needs only that requests do not overlap.             *)
LEMMA CurrentStep ==
    ASSUME SingleRequester, TypeInv, RequestsAreCurrent, [Next]_vars
    PROVE  RequestsAreCurrent'
<1> USE BoundsAssumption
<1>a. TypeOK
  BY DEF TypeInv
<1>b. /\ now \in Int
      /\ \A e \in Entries : e.receipt.timestamp_ns \in Int
  BY <1>a, EntryType DEF TypeOK
<1>c. \A p, q \in Requesters : p = q
  BY DEF SingleRequester
<1>1. CASE Tick
  BY <1>a, <1>b, <1>1 DEF Tick, RequestsAreCurrent, HoldsBatch, TypeOK
<1>2. ASSUME NEW e \in Entries, VerifyReceipt(e) \/ StoreReceipt(e)
      PROVE  RequestsAreCurrent'
  BY <1>2 DEF VerifyReceipt, StoreReceipt, RequestsAreCurrent, HoldsBatch
<1>3. ASSUME NEW q \in Requesters, ReadLastRav(q) PROVE RequestsAreCurrent'
  BY <1>a, <1>c, <1>3 DEF ReadLastRav, Idle, RequestsAreCurrent, HoldsBatch, TypeOK
<1>4. ASSUME NEW q \in Requesters,
             request' = [request EXCEPT ![q] = Idle]
      PROVE  RequestsAreCurrent'
  <2>1. request'[q] = Idle
    BY <1>a, <1>4 DEF TypeOK
  <2> QED BY <1>c, <2>1 DEF RequestsAreCurrent, HoldsBatch, Idle
<1>5. ASSUME NEW q \in Requesters, CollectReceipts(q) PROVE RequestsAreCurrent'
  <2>1. PICK buffer \in Buffers, c \in SUBSET receipt_storage,
              d \in SUBSET receipt_storage :
           /\ c = Collected(q, Retrieved(q, buffer))
           /\ request' = [request EXCEPT ![q].pc = "checking",
                                         ![q].batch = c, ![q].failed = d]
    BY <1>5, CollectShape
  <2>2. request[q].previous = last_rav
    BY <1>5 DEF CollectReceipts, RequestsAreCurrent
  <2>3. UNCHANGED <<now, last_rav>>
    BY <1>5 DEF CollectReceipts
  <2>4. /\ LastRav!Distinct(c)
        /\ \A f \in c : /\ last_rav.timestamp_ns < f.receipt.timestamp_ns
                        /\ f.receipt.timestamp_ns < now - Buffer
    BY <1>a, <2>1, <2>2, CollectedBatch
  <2>5. request'[q].batch = c /\ request'[q].previous = last_rav
    BY <1>a, <2>1, <2>2 DEF TypeOK
  <2> QED BY <1>c, <2>3, <2>4, <2>5 DEF RequestsAreCurrent, HoldsBatch
<1>6. ASSUME NEW q \in Requesters, FinalizeReceipts(q) PROVE RequestsAreCurrent'
  <2>1. PICK valid \in SUBSET request[q].batch :
          \/ request' = [request EXCEPT ![q] = Idle]
          \/ \E rav : request' = [request EXCEPT ![q].pc = "requesting",
                                                 ![q].batch = valid,
                                                 ![q].failed = {},
                                                 ![q].expected = rav]
    BY <1>6, FinalizeShape
  <2>2. ASSUME NEW rav, request' = [request EXCEPT ![q].pc = "requesting",
                                                   ![q].batch = valid,
                                                   ![q].failed = {},
                                                   ![q].expected = rav]
        PROVE  RequestsAreCurrent'
    <3>1. request[q].pc = "checking" /\ UNCHANGED <<now, last_rav>>
      BY <1>6 DEF FinalizeReceipts
    <3>2. /\ request'[q].batch = valid
          /\ request'[q].previous = request[q].previous
      BY <1>a, <2>2 DEF TypeOK
    <3> QED BY <1>c, <2>1, <3>1, <3>2
               DEF RequestsAreCurrent, HoldsBatch, LastRav!Distinct
  <2> QED BY <1>4, <2>1, <2>2
<1>7. ASSUME NEW q \in Requesters,
             TimestampRangeError(q) \/ AnswerArrives(q) \/ RequestFails(q)
      PROVE  RequestsAreCurrent'
  BY <1>4, <1>7 DEF TimestampRangeError, AnswerArrives, VerifyAndStoreRav,
                    RequestFails
<1>8. CASE ReadObsoleteBound \/ RemoveObsoleteReceipts
  BY <1>8 DEF ReadObsoleteBound, RemoveObsoleteReceipts, RequestsAreCurrent,
              HoldsBatch
<1>9. CASE UNCHANGED vars
  BY <1>9 DEF vars, RequestsAreCurrent, HoldsBatch
<1> QED BY <1>1, <1>2, <1>3, <1>5, <1>6, <1>7, <1>8, <1>9 DEF Next

(* Each step keeps the parts of the invariant, one lemma for each step that*)
(* disturbs it.                                                            *)
LEMMA SafetyStep ==
    ASSUME SingleRequester, PromptDelivery, TypeInv, TypeInv', SafetyInv,
           [Next]_vars
    PROVE  SafetyInv'
<1> USE BoundsAssumption
<1> DEFINE Parts == /\ VerifyingIsRecent /\ BoundsFollowLastRav
                    /\ RequestsAreCurrent /\ BatchesAreClosed
                    /\ NoReceiptStranded
<1>a. TypeOK /\ ExpectedIsAggregate /\ TypeOK'
  BY DEF TypeInv
<1>b. Parts
  BY DEF SafetyInv
<1>c. /\ now \in Int /\ last_rav.timestamp_ns \in Int
      /\ min_timestamp_ns \in Int /\ removing.timestamp_ns \in Int
      /\ \A e \in Entries : e.receipt.timestamp_ns \in Int
  BY <1>a, EntryType DEF TypeOK, Ravs
<1>d. RequestsAreCurrent'
  BY <1>b, CurrentStep
<1>1. CASE Tick
  <2>1. VerifyingIsRecent'
    BY <1>a, <1>b, <1>c, <1>1 DEF Tick, VerifyingIsRecent, Due, TypeOK
  <2> QED BY <1>b, <1>d, <1>1, <2>1
             DEF SafetyInv, Tick, BoundsFollowLastRav, BatchesAreClosed,
                 HoldsBatch, NoReceiptStranded
<1>2. ASSUME NEW e \in Entries, VerifyReceipt(e) PROVE SafetyInv'
  <2>1. VerifyingIsRecent'
    BY <1>a, <1>b, <1>c, <1>2 DEF VerifyReceipt, PassesTimestampCheck,
                              VerifyingIsRecent, BoundsFollowLastRav, Due
  <2> QED BY <1>b, <1>d, <1>2, <2>1
             DEF SafetyInv, VerifyReceipt, BoundsFollowLastRav,
                 BatchesAreClosed, HoldsBatch, NoReceiptStranded
<1>3. ASSUME NEW e \in Entries, StoreReceipt(e) PROVE SafetyInv'
  <2>1. /\ e \in verifying
        /\ last_rav.timestamp_ns < e.receipt.timestamp_ns
        /\ now - Buffer <= e.receipt.timestamp_ns
    BY <1>a, <1>b, <1>c, <1>3 DEF StoreReceipt, VerifyingIsRecent, Due,
                                  PromptDelivery
  <2>2. BatchesAreClosed'
    BY <1>a, <1>b, <1>c, <1>3, <2>1 DEF StoreReceipt, BatchesAreClosed,
                         RequestsAreCurrent, HoldsBatch, TypeOK
  <2>3. NoReceiptStranded'
    BY <1>a, <1>b, <1>c, <1>3, <2>1 DEF StoreReceipt, NoReceiptStranded
  <2> QED BY <1>b, <1>d, <1>3, <2>2, <2>3
             DEF SafetyInv, StoreReceipt, VerifyingIsRecent,
                 BoundsFollowLastRav
<1>4. ASSUME NEW q \in Requesters, ReadLastRav(q) PROVE SafetyInv'
  BY <1>a, <1>b, <1>d, <1>4 DEF SafetyInv, ReadLastRav, Idle, Due, TypeOK,
       VerifyingIsRecent, BoundsFollowLastRav, BatchesAreClosed, HoldsBatch,
       NoReceiptStranded
<1>5. ASSUME NEW q \in Requesters, TimestampRangeError(q) PROVE SafetyInv'
  BY <1>a, <1>b, <1>d, <1>5 DEF SafetyInv, TimestampRangeError, Idle, Due, TypeOK,
       VerifyingIsRecent, BoundsFollowLastRav, BatchesAreClosed, HoldsBatch,
       NoReceiptStranded
<1>6. ASSUME NEW q \in Requesters, CollectReceipts(q) PROVE SafetyInv'
  <2>1. PICK buffer \in Buffers, c \in SUBSET receipt_storage,
              d \in SUBSET receipt_storage :
           /\ c = Collected(q, Retrieved(q, buffer))
           /\ request' = [request EXCEPT ![q].pc = "checking",
                                         ![q].batch = c, ![q].failed = d]
    BY <1>6, CollectShape
  <2>2. UNCHANGED <<now, delivered, verifying, receipt_storage, last_rav,
                    min_timestamp_ns, removing, reported, rejected>>
    BY <1>6 DEF CollectReceipts
  <2>3. request[q].previous = last_rav
    BY <1>b, <1>6 DEF CollectReceipts, RequestsAreCurrent
  <2>5. \A f \in c, e \in receipt_storage :
              /\ last_rav.timestamp_ns < e.receipt.timestamp_ns
              /\ e.receipt.timestamp_ns <= f.receipt.timestamp_ns
              => e.receipt \in ReceiptsOf(c)
    BY <1>a, <2>1, <2>3, CollectedBatch
  <2>6. /\ request'[q].batch = c
        /\ \A p \in Requesters : p = q
    BY <1>a, <2>1, <2>3 DEF TypeOK, SingleRequester
  <2>7. BatchesAreClosed'
    BY <2>2, <2>5, <2>6 DEF BatchesAreClosed, HoldsBatch
  <2> QED BY <1>b, <1>d, <2>2, <2>7
             DEF SafetyInv, VerifyingIsRecent, BoundsFollowLastRav,
                 NoReceiptStranded, Due
<1>7. ASSUME NEW q \in Requesters, FinalizeReceipts(q) PROVE SafetyInv'
  <2>1. PICK valid \in SUBSET request[q].batch :
          /\ Returned(q, valid)
          /\ \/ request' = [request EXCEPT ![q] = Idle]
             \/ \E rav : request' = [request EXCEPT ![q].pc = "requesting",
                                                    ![q].batch = valid,
                                                    ![q].failed = {},
                                                    ![q].expected = rav]
    BY <1>7, FinalizeShape
  <2>2. UNCHANGED <<now, delivered, verifying, receipt_storage, last_rav,
                    min_timestamp_ns, removing>>
    BY <1>7 DEF FinalizeReceipts
  <2>3. request[q].pc = "checking" /\ \A p \in Requesters : p = q
    BY <1>7 DEF FinalizeReceipts, SingleRequester
  <2>4. rejected \subseteq rejected'
    BY <2>1 DEF Returned
  <2>5. ReceiptsOf(request[q].batch) \subseteq ReceiptsOf(valid) \cup rejected'
    BY <2>1 DEF Returned, ReceiptsOf
  <2>6. NoReceiptStranded' /\ VerifyingIsRecent' /\ BoundsFollowLastRav'
    BY <1>b, <2>2, <2>4 DEF NoReceiptStranded, VerifyingIsRecent, Due,
                            BoundsFollowLastRav
  <2>7. CASE request' = [request EXCEPT ![q] = Idle]
    <3>1. request'[q] = Idle
      BY <1>a, <2>7 DEF TypeOK
    <3>2. BatchesAreClosed'
      BY <2>3, <3>1 DEF BatchesAreClosed, HoldsBatch, Idle
    <3> QED BY <1>d, <2>6, <3>2 DEF SafetyInv
  <2>8. ASSUME NEW rav, request' = [request EXCEPT ![q].pc = "requesting",
                                                   ![q].batch = valid,
                                                   ![q].failed = {},
                                                   ![q].expected = rav]
        PROVE  SafetyInv'
    <3>1. request'[q].batch = valid
      BY <1>a, <2>8 DEF TypeOK
    <3>2. BatchesAreClosed'
      <4> SUFFICES ASSUME NEW f \in valid, NEW e \in receipt_storage,
                          last_rav.timestamp_ns < e.receipt.timestamp_ns,
                          e.receipt.timestamp_ns <= f.receipt.timestamp_ns
                   PROVE  e.receipt \in ReceiptsOf(valid) \cup rejected'
        BY <2>2, <2>3, <3>1 DEF BatchesAreClosed
      <4>1. e.receipt \in ReceiptsOf(request[q].batch) \cup rejected
        BY <1>b, <2>1, <2>3 DEF BatchesAreClosed, HoldsBatch
      <4> QED BY <2>4, <2>5, <4>1
    <3> QED BY <1>d, <2>6, <3>2 DEF SafetyInv
  <2> QED BY <2>1, <2>7, <2>8
<1>8. ASSUME NEW q \in Requesters, AnswerArrives(q) PROVE SafetyInv'
  <2>1. PICK signed \in Answers(request[q].expected) : VerifyAndStoreRav(q, signed)
    BY <1>8 DEF AnswerArrives
  <2>2. /\ request[q].pc = "requesting"
        /\ last_rav' = signed
        /\ min_timestamp_ns' = signed.timestamp_ns
        /\ request' = [request EXCEPT ![q] = Idle]
        /\ UNCHANGED <<now, delivered, verifying, receipt_storage, removing,
                       reported, rejected>>
    BY <2>1 DEF VerifyAndStoreRav
  <2>3. signed = request[q].expected
    BY <1>a, <2>1, VerifiedAnswer DEF VerifyAndStoreRav, TypeOK
  <2> DEFINE batch == request[q].batch
  <2>4. /\ request[q].previous = last_rav
        /\ \A f \in batch : f.receipt.timestamp_ns < now - Buffer
    BY <1>b, <2>2 DEF RequestsAreCurrent, HoldsBatch
  <2>5. /\ signed \in Aggregate(batch, last_rav)
        /\ batch \in SUBSET Entries
        /\ last_rav \in Ravs
    BY <1>a, <2>2, <2>3, <2>4 DEF ExpectedIsAggregate, TypeOK
  <2> HIDE DEF batch
  <2>6. /\ signed.timestamp_ns \in Nat
        /\ signed.sources = last_rav.sources \cup ReceiptsOf(batch)
        /\ last_rav.timestamp_ns <= signed.timestamp_ns
        /\ \/ signed.timestamp_ns = last_rav.timestamp_ns
           \/ \E f \in batch : signed.timestamp_ns = f.receipt.timestamp_ns
    BY <2>5, AggregateIsRav
  <2>7. VerifyingIsRecent'
    <3> SUFFICES ASSUME NEW e \in verifying
                 PROVE  now <= Due(e) /\ e.receipt.timestamp_ns > signed.timestamp_ns
      BY <2>2 DEF VerifyingIsRecent, Due
    <3>1. now <= Due(e) /\ e.receipt.timestamp_ns > last_rav.timestamp_ns
      BY <1>b DEF VerifyingIsRecent
    <3>2. e.receipt.timestamp_ns \in Int /\ now - Buffer <= e.receipt.timestamp_ns
      BY <1>a, <1>c, <3>1 DEF TypeOK, Due, PromptDelivery
    <3>3. ASSUME NEW f \in batch, signed.timestamp_ns = f.receipt.timestamp_ns
          PROVE  e.receipt.timestamp_ns > signed.timestamp_ns
      BY <1>c, <2>4, <2>6, <3>2, <3>3
    <3> QED BY <2>6, <3>1, <3>3
  <2>8. BoundsFollowLastRav'
    BY <1>b, <1>c, <2>2, <2>6 DEF BoundsFollowLastRav
  <2>9. BatchesAreClosed'
    <3>1. request'[q] = Idle /\ \A p \in Requesters : p = q
      BY <1>a, <2>2 DEF TypeOK, SingleRequester
    <3> QED BY <3>1 DEF BatchesAreClosed, HoldsBatch, Idle
  <2>10. NoReceiptStranded'
    <3> SUFFICES ASSUME NEW e \in receipt_storage,
                        e.receipt.timestamp_ns <= signed.timestamp_ns
                 PROVE  e.receipt \in signed.sources \cup rejected
      BY <2>2 DEF NoReceiptStranded
    <3>1. e.receipt.timestamp_ns \in Int
      BY <1>a, <1>c DEF TypeOK
    <3>2. CASE e.receipt.timestamp_ns <= last_rav.timestamp_ns
      BY <1>b, <2>6, <3>2 DEF NoReceiptStranded
    <3>3. CASE last_rav.timestamp_ns < e.receipt.timestamp_ns
      <4>1. PICK f \in batch : signed.timestamp_ns = f.receipt.timestamp_ns
        BY <1>c, <2>6, <3>1, <3>3
      <4>2. e.receipt \in ReceiptsOf(batch) \cup rejected
        BY <1>b, <2>2, <3>3, <4>1 DEF BatchesAreClosed, HoldsBatch, batch
      <4> QED BY <2>6, <4>2
    <3> QED BY <1>c, <3>1, <3>2, <3>3
  <2> QED BY <1>d, <2>7, <2>8, <2>9, <2>10 DEF SafetyInv
<1>9. ASSUME NEW q \in Requesters, RequestFails(q) PROVE SafetyInv'
  BY <1>a, <1>b, <1>d, <1>9 DEF SafetyInv, RequestFails, Idle, Due, TypeOK,
       VerifyingIsRecent, BoundsFollowLastRav, BatchesAreClosed, HoldsBatch,
       NoReceiptStranded
<1>10. CASE ReadObsoleteBound
  BY <1>b, <1>c, <1>d, <1>10 DEF SafetyInv, ReadObsoleteBound, Due,
       VerifyingIsRecent, BoundsFollowLastRav, BatchesAreClosed, HoldsBatch,
       NoReceiptStranded
<1>11. CASE RemoveObsoleteReceipts
  <2>1. BoundsFollowLastRav'
    BY <1>a, <1>b, <1>11, NoRavType
       DEF RemoveObsoleteReceipts, BoundsFollowLastRav, TypeOK, Ravs
  <2> QED BY <1>b, <1>d, <1>11, <2>1
             DEF SafetyInv, RemoveObsoleteReceipts, Obsolete, VerifyingIsRecent,
                 BatchesAreClosed, HoldsBatch, NoReceiptStranded, Due
<1>12. CASE UNCHANGED vars
  BY <1>b, <1>d, <1>12 DEF SafetyInv, vars, VerifyingIsRecent, Due,
       BoundsFollowLastRav, BatchesAreClosed, HoldsBatch, NoReceiptStranded
<1> QED BY <1>1, <1>2, <1>3, <1>4, <1>5, <1>6, <1>7, <1>8, <1>9, <1>10,
           <1>11, <1>12 DEF Next

(* With one requester and a buffer that covers the delivery delay, no      *)
(* stored receipt is passed over: what the last RAV has moved past is in   *)
(* it, or was returned to the caller as invalid with no valid copy beside  *)
(* it.  This is what makes remove_obsolete_receipts safe.                  *)
THEOREM NothingStranded ==
    ASSUME SingleRequester, PromptDelivery
    PROVE  Spec => []NoReceiptStranded
<1>1. TypeInv /\ SafetyInv /\ [Next]_vars => (TypeInv /\ SafetyInv)'
  BY TypeStep, SafetyStep
<1>2. SafetyInv => NoReceiptStranded
  BY DEF SafetyInv
<1> QED BY TypeInit, SafetyInit, <1>1, <1>2, PTL DEF Spec

(* What a step of the Manager removes is in the last RAV, or was returned  *)
(* as invalid, by the invariant (core.rs:211).                             *)
LEMMA ManagerRemoval ==
    ASSUME TypeInv, SafetyInv, [Next]_vars
    PROVE  [\A e \in receipt_storage \ receipt_storage' :
               e.receipt \in last_rav.sources \cup rejected]_vars
<1> SUFFICES ASSUME Next, NEW e \in receipt_storage, e \notin receipt_storage'
             PROVE  e.receipt \in last_rav.sources \cup rejected
  OBVIOUS
<1>1. RemoveObsoleteReceipts
  BY DEF Next, Tick, VerifyReceipt, StoreReceipt, ReadLastRav,
         TimestampRangeError, CollectReceipts, FinalizeReceipts,
         AnswerArrives, VerifyAndStoreRav, RequestFails, ReadObsoleteBound
<1>2. /\ e.receipt.timestamp_ns \in Int /\ removing.timestamp_ns \in Int
      /\ last_rav.timestamp_ns \in Int
  BY EntryType DEF TypeInv, TypeOK, Ravs
<1>3. e.receipt.timestamp_ns <= removing.timestamp_ns
  BY <1>1, <1>2 DEF RemoveObsoleteReceipts, Obsolete
<1>4. removing.timestamp_ns <= last_rav.timestamp_ns
  BY DEF SafetyInv, BoundsFollowLastRav
<1> QED BY <1>2, <1>3, <1>4 DEF SafetyInv, NoReceiptStranded

(* Under the same assumptions remove_obsolete_receipts deletes only what   *)
(* was aggregated before, or returned as invalid with no valid copy beside *)
(* it.                                                                     *)
THEOREM RemovalIsSafe ==
    ASSUME SingleRequester, PromptDelivery
    PROVE  Spec => RemovesOnlyAggregated
<1> DEFINE Removed == \A e \in receipt_storage \ receipt_storage' :
                          e.receipt \in last_rav.sources \cup rejected
<1>1. TypeInv /\ SafetyInv /\ [Next]_vars => (TypeInv /\ SafetyInv)'
  BY TypeStep, SafetyStep
<1>2. TypeInv /\ SafetyInv /\ [Next]_vars => [Removed]_vars
  BY ManagerRemoval
<1> QED BY TypeInit, SafetyInit, <1>1, <1>2, PTL DEF Spec, RemovesOnlyAggregated

(* The only step that changes the last RAV stores what was expected of a   *)
(* request, and that grows it as Voucher says.                             *)
LEMMA LastRavGrows ==
    ASSUME TypeInv, RequestsAreCurrent, [Next]_vars
    PROVE  [LastRav!Grow]_last_rav
<1> SUFFICES ASSUME last_rav' # last_rav
             PROVE  LastRav!Grow
  OBVIOUS
<1>1. PICK q \in Requesters : AnswerArrives(q)
  BY DEF Next, vars, Tick, VerifyReceipt, StoreReceipt, ReadLastRav,
         TimestampRangeError, CollectReceipts, FinalizeReceipts,
         RequestFails, ReadObsoleteBound, RemoveObsoleteReceipts
<1>2. PICK signed \in Answers(request[q].expected) : VerifyAndStoreRav(q, signed)
  BY <1>1 DEF AnswerArrives
<1>3. signed = request[q].expected
  BY <1>2, VerifiedAnswer DEF VerifyAndStoreRav, TypeInv, TypeOK
<1>4. request[q].pc = "requesting" /\ last_rav' = signed
  BY <1>2 DEF VerifyAndStoreRav
<1>5. /\ request[q].batch \in SUBSET Entries
      /\ last_rav' \in Aggregate(request[q].batch, last_rav)
  BY <1>3, <1>4 DEF TypeInv, TypeOK, ExpectedIsAggregate, RequestsAreCurrent
<1>6. /\ LastRav!Distinct(request[q].batch)
      /\ LastRav!Newer(request[q].batch)
  <2>1. \A e \in request[q].batch :
            last_rav.timestamp_ns < e.receipt.timestamp_ns
    BY <1>4 DEF RequestsAreCurrent, HoldsBatch
  <2>2. last_rav.timestamp_ns \in Int
    BY DEF TypeInv, TypeOK, Ravs
  <2>3. \A e \in request[q].batch : e.receipt.timestamp_ns \in Int
    BY <1>5, EntryType
  <2> QED BY <1>4, <2>1, <2>2, <2>3
             DEF RequestsAreCurrent, HoldsBatch, LastRav!Newer
<1> QED BY <1>5, <1>6 DEF LastRav!Grow

(* With one requester, however late or often receipts are delivered, the   *)
(* last RAV behaves as a Voucher: it starts empty and each stored RAV adds *)
(* distinct receipts, all newer than those before.                         *)
THEOREM ManagerImplementsVoucher ==
    ASSUME SingleRequester
    PROVE  Spec => LastRavOnlyGrows
<1> DEFINE Inv == TypeInv /\ RequestsAreCurrent
<1>1. Init => Inv /\ LastRav!Init
  BY TypeInit, SafetyInit DEF Init, LastRav!Init, SafetyInv
<1>2. Inv /\ [Next]_vars => Inv'
  BY TypeStep, CurrentStep
<1>3. Inv /\ [Next]_vars => [LastRav!Grow]_last_rav
  BY LastRavGrows
<1> QED BY <1>1, <1>2, <1>3, PTL DEF Spec, LastRavOnlyGrows, LastRav!Spec

(***************************************************************************)
(* What RAVs are worth, for any number of requesters.                      *)
(***************************************************************************)
BackedRav(rav) ==
    /\ WorthItsSources(rav)
    /\ \A r \in rav.sources : r.timestamp_ns <= rav.timestamp_ns

(* A request under way has a previous RAV that was the last one when it    *)
(* began, and distinct receipts newer than that.  Unlike                   *)
(* RequestsAreCurrent this survives other requests that store theirs.      *)
WorthInv ==
    /\ BackedRav(last_rav)
    /\ \A q \in Requesters :
          /\ BackedRav(request[q].previous) /\ BackedRav(request[q].expected)
          /\ HoldsBatch(q) =>
                /\ LastRav!Distinct(request[q].batch)
                /\ \A e \in request[q].batch :
                      request[q].previous.timestamp_ns < e.receipt.timestamp_ns

(* A RAV of nothing is worth nothing.                                      *)
LEMMA NoRavIsBacked == BackedRav(NoRav)
<1>1. MapThenSumSet(LAMBDA r : r.value, {}) = SumOver([r \in {} |-> r.value], {})
  BY ValueSum, FS_EmptySet
<1>2. MapThenSumSet(LAMBDA r : r.value, {}) = 0
  BY <1>1, SumEmpty
<1> QED BY <1>2 DEF BackedRav, WorthItsSources, NoRav

(* aggregate_receipts adds what a batch of distinct receipts is worth, if  *)
(* all of them are newer than the previous RAV, and so not in it.          *)
LEMMA AggregateIsBacked ==
    ASSUME NEW batch \in SUBSET Entries, LastRav!Distinct(batch),
           NEW previous \in Ravs, BackedRav(previous),
           \A e \in batch : previous.timestamp_ns < e.receipt.timestamp_ns,
           NEW rav \in Aggregate(batch, previous)
    PROVE  BackedRav(rav)
<1> DEFINE new == ReceiptsOf(batch)
           old == previous.sources
           worth(S) == MapThenSumSet(LAMBDA r : r.value, S)
<1>1. /\ rav.sources = old \cup new
      /\ rav.value = previous.value + TotalValue(batch)
      /\ rav \in Ravs
      /\ previous.timestamp_ns <= rav.timestamp_ns
      /\ \A e \in batch : e.receipt.timestamp_ns <= rav.timestamp_ns
  BY AggregateIsRav DEF Aggregate
<1>2. new \subseteq Receipts /\ old \subseteq Receipts
  BY DEF ReceiptsOf, Entries, Ravs
<1>3. IsFiniteSet(batch) /\ IsFiniteSet(old \cup new)
  BY <1>2, EntriesFinite, ReceiptsAssumption, FS_Subset
<1>4. \A r \in Receipts : r.timestamp_ns \in Nat /\ r.value \in Nat
  BY ReceiptsAssumption
<1>5. \A r \in old : r.timestamp_ns <= previous.timestamp_ns
  BY DEF BackedRav
<1>6. previous.timestamp_ns \in Int /\ rav.timestamp_ns \in Int
  BY <1>1 DEF Ravs
<1>7. \A r \in new : previous.timestamp_ns < r.timestamp_ns /\ r.timestamp_ns <= rav.timestamp_ns
  BY <1>1 DEF ReceiptsOf
<1>8. old \cap new = {}
  BY <1>2, <1>4, <1>5, <1>6, <1>7
<1>9. TotalValue(batch) = worth(new)
  <2>1. \A e \in batch : e.receipt.value \in Int
    BY <1>4, EntryType
  <2>2. \A e, f \in batch : e.receipt = f.receipt => e = f
    BY DEF LastRav!Distinct
  <2> QED BY <1>3, <2>1, <2>2, DistinctEntries DEF TotalValue, ReceiptsOf
<1>10. worth(old \cup new) = worth(old) + worth(new)
  <2>1. (old \cup new) \ old = new /\ old \subseteq old \cup new
    BY <1>8
  <2>2. \A r \in old \cup new : r.value \in Nat
    BY <1>2, <1>4
  <2> HIDE DEF old, new
  <2> QED BY <1>3, <2>1, <2>2, WorthOfParts
<1>11. WorthItsSources(rav)
  BY <1>1, <1>9, <1>10 DEF BackedRav, WorthItsSources
<1>12. \A r \in rav.sources : r.timestamp_ns <= rav.timestamp_ns
  BY <1>1, <1>2, <1>4, <1>5, <1>6, <1>7
<1> QED BY <1>11, <1>12 DEF BackedRav

(* A step builds a RAV from a batch and the last RAV, or keeps the ones    *)
(* there are.                                                              *)
LEMMA WorthStep ==
    ASSUME TypeInv, WorthInv, [Next]_vars
    PROVE  WorthInv'
<1>a. TypeOK /\ ExpectedIsAggregate
  BY DEF TypeInv
<1>1. CASE UNCHANGED <<last_rav, request>>
  BY <1>1 DEF WorthInv, HoldsBatch
<1>2. ASSUME NEW q \in Requesters, BackedRav(last_rav'),
             request' = [request EXCEPT ![q] = Idle]
      PROVE  WorthInv'
  BY <1>a, <1>2, NoRavIsBacked DEF WorthInv, HoldsBatch, Idle, TypeOK
<1>3. ASSUME NEW q \in Requesters, ReadLastRav(q) PROVE WorthInv'
  <2>1. /\ request' = [request EXCEPT ![q] =
                          [Idle EXCEPT !.pc = "collecting", !.previous = last_rav]]
        /\ last_rav' = last_rav
    BY <1>3 DEF ReadLastRav
  <2> QED BY <1>a, <2>1, NoRavIsBacked DEF WorthInv, HoldsBatch, Idle, TypeOK
<1>4. ASSUME NEW q \in Requesters, CollectReceipts(q) PROVE WorthInv'
  <2>1. PICK buffer \in Buffers, c \in SUBSET receipt_storage,
              d \in SUBSET receipt_storage :
           /\ c = Collected(q, Retrieved(q, buffer))
           /\ request' = [request EXCEPT ![q].pc = "checking",
                                         ![q].batch = c, ![q].failed = d]
    BY <1>4, CollectShape
  <2>3. /\ LastRav!Distinct(c)
        /\ \A f \in c : request[q].previous.timestamp_ns < f.receipt.timestamp_ns
    BY <1>a, <2>1, CollectedBatch
  <2>4. last_rav' = last_rav
    BY <1>4 DEF CollectReceipts
  <2>5. /\ request'[q].batch = c
        /\ request'[q].previous = request[q].previous
        /\ request'[q].expected = request[q].expected
        /\ \A p \in Requesters : p # q => request'[p] = request[p]
    BY <1>a, <2>1 DEF TypeOK
  <2> QED BY <2>3, <2>4, <2>5 DEF WorthInv, HoldsBatch
<1>5. ASSUME NEW q \in Requesters, FinalizeReceipts(q) PROVE WorthInv'
  <2>1. PICK valid \in SUBSET request[q].batch :
           \/ request' = [request EXCEPT ![q] = Idle]
           \/ \E rav \in Aggregate(valid, request[q].previous) :
                 request' = [request EXCEPT ![q].pc = "requesting",
                                            ![q].batch = valid,
                                            ![q].failed = {},
                                            ![q].expected = rav]
    BY <1>5, FinalizeShape
  <2>2. last_rav' = last_rav /\ HoldsBatch(q)
    BY <1>5 DEF FinalizeReceipts, HoldsBatch
  <2>3. ASSUME NEW rav \in Aggregate(valid, request[q].previous),
               request' = [request EXCEPT ![q].pc = "requesting",
                                          ![q].batch = valid,
                                          ![q].failed = {},
                                          ![q].expected = rav]
        PROVE  WorthInv'
    <3>1. /\ LastRav!Distinct(valid)
          /\ \A e \in valid :
                request[q].previous.timestamp_ns < e.receipt.timestamp_ns
      BY <2>2 DEF WorthInv, LastRav!Distinct
    <3>2. valid \in SUBSET Entries /\ request[q].previous \in Ravs
      BY <1>a DEF TypeOK
    <3>3. BackedRav(request[q].previous)
      BY DEF WorthInv
    <3>4. BackedRav(rav)
      BY <2>3, <3>1, <3>2, <3>3, AggregateIsBacked
    <3>5. /\ request'[q].batch = valid
          /\ request'[q].previous = request[q].previous
          /\ request'[q].expected = rav
          /\ \A p \in Requesters : p # q => request'[p] = request[p]
      BY <1>a, <2>3 DEF TypeOK
    <3> QED BY <2>2, <3>1, <3>4, <3>5 DEF WorthInv, HoldsBatch
  <2>4. BackedRav(last_rav')
    BY <2>2 DEF WorthInv
  <2> QED BY <1>2, <2>1, <2>3, <2>4
<1>6. ASSUME NEW q \in Requesters, AnswerArrives(q) PROVE WorthInv'
  <2>1. PICK signed \in Answers(request[q].expected) : VerifyAndStoreRav(q, signed)
    BY <1>6 DEF AnswerArrives
  <2>2. signed = request[q].expected
    BY <1>a, <2>1, VerifiedAnswer DEF VerifyAndStoreRav, TypeOK
  <2>3. BackedRav(last_rav')
    BY <2>1, <2>2 DEF VerifyAndStoreRav, WorthInv
  <2> QED BY <1>2, <2>1, <2>3 DEF VerifyAndStoreRav
<1>7. ASSUME NEW q \in Requesters, TimestampRangeError(q) \/ RequestFails(q)
      PROVE  WorthInv'
  BY <1>2, <1>7 DEF TimestampRangeError, RequestFails, WorthInv
<1>8. CASE UNCHANGED vars
  BY <1>1, <1>8 DEF vars
<1>9. ASSUME NEW e \in Entries, VerifyReceipt(e) \/ StoreReceipt(e)
      PROVE  WorthInv'
  BY <1>1, <1>9 DEF VerifyReceipt, StoreReceipt
<1>10. CASE Tick \/ ReadObsoleteBound \/ RemoveObsoleteReceipts
  BY <1>1, <1>10 DEF Tick, ReadObsoleteBound, RemoveObsoleteReceipts
<1> QED BY <1>3, <1>4, <1>5, <1>6, <1>7, <1>8, <1>9, <1>10 DEF Next

(* Nothing is worth anything at the start.                                 *)
LEMMA WorthInit == Init => WorthInv
BY NoRavIsBacked DEF Init, WorthInv, HoldsBatch, Idle

(* However often receipts are delivered, however requests of any number of *)
(* requesters overlap and fail: the stored RAV, and every RAV a request    *)
(* expects, is worth its distinct receipts (aggregate_receipts).           *)
THEOREM RavsAreWorthTheirSources == Spec => []RavsWorthTheirSources
<1>1. WorthInv => RavsWorthTheirSources
  BY DEF WorthInv, RavsWorthTheirSources, BackedRav
<1>2. TypeInv /\ WorthInv /\ [Next]_vars => (TypeInv /\ WorthInv)'
  BY TypeStep, WorthStep
<1> QED BY TypeInit, WorthInit, <1>1, <1>2, PTL DEF Spec
(***************************************************************************)
(* Storage.                                                                *)
(***************************************************************************)
(* What a caller is removing was returned to it as invalid, with no valid  *)
(* copy beside it.                                                         *)
RemovesInvalid ==
    \A id \in removing_ids : id \in Entries /\ id.receipt \in rejected

StorageInv == TypeInv /\ SafetyInv /\ RemovesInvalid

(* A round of remove_receipts_by_ids takes from the storage and changes    *)
(* nothing else (memory.rs:104-122), which disturbs no part of the         *)
(* invariant: each speaks of all the receipts that are stored.             *)
LEMMA RemovalStep ==
    ASSUME StorageInv, NEW id \in Entries, RemoveReceiptById(id)
    PROVE  /\ StorageInv'
           /\ receipt_storage \ receipt_storage' \subseteq {id}
           /\ id.receipt \in rejected
           /\ last_rav' = last_rav
<1>1. /\ receipt_storage' \subseteq receipt_storage
      /\ receipt_storage \ receipt_storage' \subseteq {id}
      /\ removing_ids' \subseteq removing_ids
      /\ id \in removing_ids
      /\ UNCHANGED <<now, delivered, verifying, last_rav, min_timestamp_ns,
                     request, removing, reported, rejected>>
  BY DEF RemoveReceiptById
<1>2. TypeInv'
  BY <1>1 DEF StorageInv, TypeInv, TypeOK, ExpectedIsAggregate
<1>3. VerifyingIsRecent' /\ BoundsFollowLastRav'
  BY <1>1 DEF StorageInv, SafetyInv, VerifyingIsRecent, BoundsFollowLastRav, Due
<1>4. RequestsAreCurrent'
  BY <1>1 DEF StorageInv, SafetyInv, RequestsAreCurrent, HoldsBatch
<1>5. BatchesAreClosed'
  BY <1>1 DEF StorageInv, SafetyInv, BatchesAreClosed, HoldsBatch
<1>6. NoReceiptStranded'
  BY <1>1 DEF StorageInv, SafetyInv, NoReceiptStranded
<1>7. RemovesInvalid'
  BY <1>1 DEF StorageInv, RemovesInvalid
<1>8. id.receipt \in rejected
  BY <1>1 DEF StorageInv, RemovesInvalid
<1> QED BY <1>1, <1>2, <1>3, <1>4, <1>5, <1>6, <1>7, <1>8 DEF StorageInv, SafetyInv

(* What was returned as invalid stays returned: rejected is history.       *)
LEMMA RejectedGrows == [Next]_vars => rejected \subseteq rejected'
BY DEF Next, vars, Tick, VerifyReceipt, StoreReceipt, ReadLastRav,
       TimestampRangeError, CollectReceipts, FinalizeReceipts, AnswerArrives,
       VerifyAndStoreRav, RequestFails, ReadObsoleteBound, RemoveObsoleteReceipts

(* At the start nothing is stored and nobody removes (memory.rs:46-61).    *)
LEMMA StorageStart == StorageInit => StorageInv
BY TypeInit, SafetyInit DEF StorageInit, StorageInv, RemovesInvalid

(* A step of the manager leaves removing_ids alone, a caller that looks up *)
(* ids leaves the manager alone, and a round of removal is RemovalStep.    *)
LEMMA StorageStep ==
    ASSUME SingleRequester, PromptDelivery, StorageInv, [StorageNext]_storageVars
    PROVE  StorageInv'
<1>1. ASSUME [Next]_vars, UNCHANGED removing_ids
      PROVE  StorageInv'
  <2>1. TypeInv'
    BY <1>1, TypeStep DEF StorageInv
  <2>2. SafetyInv'
    BY <1>1, <2>1, SafetyStep DEF StorageInv
  <2>3. RemovesInvalid'
    BY <1>1, RejectedGrows DEF StorageInv, RemovesInvalid
  <2> QED BY <2>1, <2>2, <2>3 DEF StorageInv
<1>2. ASSUME NEW receipt \in Receipts, StartRemoval(receipt)
      PROVE  StorageInv'
  <2>1. TypeInv' /\ SafetyInv'
    <3>1. [Next]_vars
      BY <1>2 DEF StartRemoval
    <3>2. TypeInv'
      BY <3>1, TypeStep DEF StorageInv
    <3> QED BY <3>1, <3>2, SafetyStep DEF StorageInv
  <2>2. removing_ids' \subseteq {e \in receipt_storage : e.receipt = receipt}
    BY <1>2 DEF StartRemoval, retrieve_receipts_by_timestamp
  <2>3. receipt \in rejected /\ rejected' = rejected
    BY <1>2 DEF StartRemoval, MayRemove, vars
  <2>4. receipt_storage \subseteq Entries
    BY DEF StorageInv, TypeInv, TypeOK
  <2>5. RemovesInvalid'
    BY <2>2, <2>3, <2>4 DEF RemovesInvalid, Entries
  <2> QED BY <2>1, <2>5 DEF StorageInv
<1>3. ASSUME NEW id \in Entries, RemoveReceiptById(id)
      PROVE  StorageInv'
  BY <1>3, RemovalStep
<1>4. CASE UNCHANGED storageVars
  BY <1>1, <1>4 DEF storageVars
<1> QED BY <1>1, <1>2, <1>3, <1>4 DEF StorageNext, ManagerStep

(* Removing invalid receipts by id, whole or half, while requests are      *)
(* under way, strands no receipt (memory.rs:113-121).                      *)
THEOREM RemovalStrandsNothing ==
    ASSUME SingleRequester, PromptDelivery
    PROVE  StorageSpec => []NoReceiptStranded
<1>1. StorageInv /\ [StorageNext]_storageVars => StorageInv'
  BY StorageStep
<1>2. StorageInv => NoReceiptStranded
  BY DEF StorageInv, SafetyInv
<1> QED BY StorageStart, <1>1, <1>2, PTL DEF StorageSpec

(* Whoever removes a receipt, remove_obsolete_receipts or the caller by    *)
(* id: it was aggregated before, or returned as invalid with no valid copy *)
(* beside it.  UniqueCheck's duplicates are returned too, and a lookup by  *)
(* timestamp finds the good copy with them: a caller that leaves receipts  *)
(* alone whose copy is valid never loses one that was not aggregated.      *)
THEOREM EveryRemovalIsSafe ==
    ASSUME SingleRequester, PromptDelivery
    PROVE  StorageSpec => RemovesOnlyAggregated
<1> DEFINE Removed == \A e \in receipt_storage \ receipt_storage' :
                          e.receipt \in last_rav.sources \cup rejected
<1>1. StorageInv /\ [StorageNext]_storageVars => StorageInv'
  BY StorageStep
<1>2. StorageInv /\ [StorageNext]_storageVars => [Removed]_vars
  <2> SUFFICES ASSUME StorageInv, [StorageNext]_storageVars
               PROVE  [Removed]_vars
    OBVIOUS
  <2>1. ASSUME [Next]_vars PROVE [Removed]_vars
    BY <2>1, ManagerRemoval DEF StorageInv
  <2>2. ASSUME NEW receipt \in Receipts, StartRemoval(receipt)
        PROVE  [Removed]_vars
    BY <2>2 DEF StartRemoval
  <2>3. ASSUME NEW id \in Entries, RemoveReceiptById(id)
        PROVE  [Removed]_vars
    BY <2>3, RemovalStep
  <2>4. CASE UNCHANGED storageVars
    BY <2>4 DEF storageVars
  <2> QED BY <2>1, <2>2, <2>3, <2>4 DEF StorageNext, ManagerStep
<1> QED BY StorageStart, <1>1, <1>2, PTL DEF StorageSpec, RemovesOnlyAggregated

-----------------------------------------------------------------------------
(* A caller that removes by id neither changes a RAV nor a request, so     *)
(* what holds of them for any number of requesters still does.             *)
LEMMA RequestsUndisturbed ==
    ASSUME TypeInv, [StorageNext]_storageVars
    PROVE  /\ [Next]_vars \/ UNCHANGED <<now, last_rav, request>>
           /\ TypeInv'
<1>1. CASE [Next]_vars
  BY <1>1, TypeStep
<1>2. ASSUME NEW id \in Entries, RemoveReceiptById(id)
      PROVE  TypeInv' /\ UNCHANGED <<now, last_rav, request>>
  <2>1. /\ receipt_storage' \subseteq receipt_storage
        /\ UNCHANGED <<now, delivered, verifying, last_rav, min_timestamp_ns,
                       request, removing, reported, rejected>>
    BY <1>2 DEF RemoveReceiptById
  <2> QED BY <2>1 DEF TypeInv, TypeOK, ExpectedIsAggregate
<1> QED BY <1>1, <1>2 DEF StorageNext, ManagerStep, StartRemoval, storageVars

(* Manager keeps its types beside the caller.                              *)
THEOREM StorageTypeCorrect == StorageSpec => []TypeOK
<1>1. StorageInit => TypeInv
  BY TypeInit DEF StorageInit
<1>2. TypeInv /\ [StorageNext]_storageVars => TypeInv'
  BY RequestsUndisturbed
<1>3. TypeInv => TypeOK
  BY DEF TypeInv
<1> QED BY <1>1, <1>2, <1>3, PTL DEF StorageSpec

(* Removing receipts by id while requests overlap, fail and are repeated   *)
(* changes what no RAV is worth: each is worth its distinct receipts.      *)
THEOREM StoredRavsAreWorthTheirSources == StorageSpec => []RavsWorthTheirSources
<1>1. StorageInit => TypeInv /\ WorthInv
  BY TypeInit, WorthInit DEF StorageInit
<1>2. TypeInv /\ WorthInv /\ [StorageNext]_storageVars => (TypeInv /\ WorthInv)'
  <2> SUFFICES ASSUME TypeInv, WorthInv, [StorageNext]_storageVars
               PROVE  TypeInv' /\ WorthInv'
    OBVIOUS
  <2>1. CASE UNCHANGED <<now, last_rav, request>>
    BY <2>1, RequestsUndisturbed DEF WorthInv, HoldsBatch
  <2> QED BY <2>1, RequestsUndisturbed, WorthStep
<1>3. WorthInv => RavsWorthTheirSources
  BY DEF WorthInv, RavsWorthTheirSources, BackedRav
<1> QED BY <1>1, <1>2, <1>3, PTL DEF StorageSpec

(* And with one requester the last RAV still behaves as a Voucher.         *)
THEOREM StorageImplementsVoucher ==
    ASSUME SingleRequester
    PROVE  StorageSpec => LastRavOnlyGrows
<1> DEFINE Inv == TypeInv /\ RequestsAreCurrent
<1>1. StorageInit => Inv /\ LastRav!Init
  BY TypeInit, SafetyInit DEF StorageInit, Init, LastRav!Init, SafetyInv
<1>2. Inv /\ [StorageNext]_storageVars => Inv' /\ [LastRav!Grow]_last_rav
  <2> SUFFICES ASSUME Inv, [StorageNext]_storageVars
               PROVE  Inv' /\ [LastRav!Grow]_last_rav
    OBVIOUS
  <2>1. CASE [Next]_vars
    BY <2>1, TypeStep, CurrentStep, LastRavGrows
  <2>2. CASE UNCHANGED <<now, last_rav, request>>
    BY <2>2, RequestsUndisturbed DEF RequestsAreCurrent, HoldsBatch
  <2> QED BY <2>1, <2>2, RequestsUndisturbed
<1> QED BY <1>1, <1>2, PTL DEF StorageSpec, LastRavOnlyGrows, LastRav!Spec

(***************************************************************************)
(* safe_truncate_receipts.                                                 *)
(***************************************************************************)

(* The entries a truncation looks at are finitely many, with timestamps.   *)
LEMMA BatchTimestamps ==
    ASSUME NEW batch \in SUBSET Entries
    PROVE  /\ IsFiniteSet(batch)
           /\ \A e \in batch : e.receipt.timestamp_ns \in Nat
           /\ Timestamps(batch) \in SUBSET Nat
           /\ IsFiniteSet(Timestamps(batch))
           /\ batch # {} => Timestamps(batch) # {}
<1>1. IsFiniteSet(batch)
  BY EntriesFinite, FS_Subset
<1>2. \A e \in batch : e.receipt.timestamp_ns \in Nat
  BY EntryType
<1>3. IsFiniteSet(Timestamps(batch))
  <2> DEFINE stamp == [e \in batch |-> e.receipt.timestamp_ns]
  <2>1. Timestamps(batch) = {stamp[e] : e \in batch}
    BY DEF Timestamps
  <2> HIDE DEF stamp
  <2> QED BY <1>1, <2>1, FiniteImage
<1> QED BY <1>1, <1>2, <1>3 DEF Timestamps

(* A batch sorted by timestamp can be cut off after any number of entries. *)
LEMMA CutExists ==
    ASSUME NEW batch \in SUBSET Entries, NEW limit \in Nat,
           limit <= Cardinality(batch)
    PROVE  truncate(batch, limit) # {}
<1> DEFINE Bad == {k \in Nat : k <= Cardinality(batch) /\ truncate(batch, k) = {}}
<1> SUFFICES ASSUME Bad # {} PROVE FALSE
  OBVIOUS
<1>1. PICK k \in Bad : \A n \in Bad : k <= n
  <2>1. Bad \in SUBSET Nat
    OBVIOUS
  <2> HIDE DEF Bad
  <2> QED BY <2>1, LeastNatural
<1>2. /\ k \in Nat /\ k <= Cardinality(batch) /\ Cardinality(batch) \in Nat
      /\ IsFiniteSet(batch)
  BY <1>1, BatchTimestamps, FS_CardinalityType
<1>3. k # 0
  <2>1. {} \in truncate(batch, 0)
    BY FS_EmptySet DEF truncate, kSubset
  <2> QED BY <1>1, <2>1
<1>4. k - 1 \in Nat /\ k - 1 <= Cardinality(batch) /\ k - 1 \notin Bad
  BY <1>1, <1>2, <1>3
<1>5. PICK kept \in truncate(batch, k - 1) : TRUE
  BY <1>4
<1>6. /\ kept \subseteq batch /\ Cardinality(kept) = k - 1
      /\ \A e \in kept, f \in batch \ kept :
            e.receipt.timestamp_ns <= f.receipt.timestamp_ns
  BY <1>5 DEF truncate, kSubset
<1> DEFINE rest == batch \ kept
<1>7. rest # {}
  BY <1>2, <1>6
<1>8. PICK m \in rest :
         \A f \in rest : m.receipt.timestamp_ns <= f.receipt.timestamp_ns
  <2>1. rest \in SUBSET Entries
    OBVIOUS
  <2>2. Timestamps(rest) \in SUBSET Nat /\ Timestamps(rest) # {}
    BY <1>7, <2>1, BatchTimestamps
  <2>3. /\ Min(Timestamps(rest)) \in Timestamps(rest)
        /\ \A n \in Timestamps(rest) : Min(Timestamps(rest)) <= n
    BY <2>2, MinOfNaturals
  <2> HIDE DEF rest
  <2> QED BY <2>3 DEF Timestamps
<1>9. kept \cup {m} \in truncate(batch, k)
  <2>1. IsFiniteSet(kept) /\ m \notin kept /\ m \in batch
    BY <1>2, <1>6, <1>8, FS_Subset
  <2>2. Cardinality(kept \cup {m}) = k
    <3>1. Cardinality(kept \cup {m}) = Cardinality(kept) + 1
      BY <2>1, FS_AddElement
    <3> QED BY <1>2, <1>6, <3>1
  <2>3. \A e \in kept \cup {m}, f \in batch \ (kept \cup {m}) :
            e.receipt.timestamp_ns <= f.receipt.timestamp_ns
    BY <1>6, <1>8
  <2> QED BY <1>6, <2>1, <2>2, <2>3 DEF truncate, kSubset
<1> QED BY <1>1, <1>9

(* However the batch was sorted: the cut, without a timestamp that it went *)
(* through, is the batch that Manager takes.                               *)
LEMMA CutIsSafe ==
    ASSUME NEW batch \in SUBSET Entries, NEW limit \in Nat,
           0 < limit, limit < Cardinality(batch),
           NEW kept \in truncate(batch, limit)
    PROVE  LET last_timestamp       == Max(Timestamps(kept))
               after_last_timestamp == Min(Timestamps(batch \ kept))
           IN  {e \in kept : last_timestamp = after_last_timestamp
                               => e.receipt.timestamp_ns # last_timestamp}
                  = SafeTruncate(batch, limit)
<1> DEFINE ts(e) == e.receipt.timestamp_ns
           upto(e) == {f \in batch : ts(f) <= ts(e)}
           rest == batch \ kept
           last == Max(Timestamps(kept))
           after == Min(Timestamps(rest))
<1>1. /\ kept \subseteq batch /\ Cardinality(kept) = limit
      /\ \A e \in kept, f \in rest : ts(e) <= ts(f)
  BY DEF truncate, kSubset
<1>2. IsFiniteSet(batch) /\ IsFiniteSet(kept) /\ \A e \in batch : ts(e) \in Nat
  BY <1>1, BatchTimestamps
<1>3. kept # {} /\ rest # {}
  BY <1>1, FS_EmptySet
<1>4. PICK e_last \in kept : ts(e_last) = last /\ \A e \in kept : ts(e) <= last
  <2>1. /\ \A n \in Timestamps(kept) : n \in Int
        /\ IsFiniteSet(Timestamps(kept)) /\ Timestamps(kept) # {}
    BY <1>1, <1>3, BatchTimestamps
  <2>2. last \in Timestamps(kept) /\ \A n \in Timestamps(kept) : n <= last
    BY <2>1, MaxOfFinite
  <2> HIDE DEF last
  <2> QED BY <2>2 DEF Timestamps
<1>5. PICK f_after \in rest : ts(f_after) = after /\ \A f \in rest : after <= ts(f)
  <2>1. rest \in SUBSET Entries
    OBVIOUS
  <2>2. Timestamps(rest) \in SUBSET Nat /\ Timestamps(rest) # {}
    BY <1>3, <2>1, BatchTimestamps
  <2> HIDE DEF rest
  <2>3. after \in Timestamps(rest) /\ \A n \in Timestamps(rest) : after <= n
    BY <2>2, MinOfNaturals
  <2> HIDE DEF after
  <2> QED BY <2>3 DEF Timestamps
<1>6. last <= after /\ last \in Nat /\ after \in Nat
  BY <1>1, <1>2, <1>4, <1>5
<1>7. \A e \in batch : IsFiniteSet(upto(e)) /\ Cardinality(upto(e)) \in Nat
  BY <1>2, FS_Subset, FS_CardinalityType
<1> HIDE DEF last, after
<1>8. ASSUME NEW e \in kept, last = after => ts(e) # last
      PROVE  Cardinality(upto(e)) <= limit
  <2>1. upto(e) \subseteq kept
    <3> SUFFICES ASSUME NEW f \in rest, ts(f) <= ts(e) PROVE FALSE
      BY <1>1
    <3>1. /\ ts(e) <= last /\ after <= ts(f)
          /\ ts(e) \in Nat /\ ts(f) \in Nat
      BY <1>1, <1>2, <1>4, <1>5
    <3>2. ts(e) = last /\ last = after
      BY <1>6, <3>1
    <3> QED BY <1>8, <3>2
  <2> HIDE DEF upto
  <2> QED BY <1>1, <1>2, <2>1, FS_Subset
<1>9. ASSUME NEW e \in batch, NEW f \in rest, kept \cup {f} \subseteq upto(e)
      PROVE  ~ (Cardinality(upto(e)) <= limit)
  <2>1. Cardinality(kept \cup {f}) = limit + 1
    BY <1>1, <1>2, FS_AddElement
  <2>2. IsFiniteSet(upto(e)) /\ Cardinality(upto(e)) \in Nat
    BY <1>7
  <2> HIDE DEF upto
  <2>3. Cardinality(kept \cup {f}) <= Cardinality(upto(e))
    BY <1>9, <2>2, FS_Subset
  <2> QED BY <2>1, <2>2, <2>3
<1>10. ASSUME NEW e \in batch, Cardinality(upto(e)) <= limit
       PROVE  e \in kept /\ (last = after => ts(e) # last)
  <2>1. e \in kept
    <3> SUFFICES ASSUME e \in rest PROVE FALSE
      OBVIOUS
    <3>1. kept \cup {e} \subseteq upto(e)
      BY <1>1, <1>2
    <3> QED BY <1>9, <1>10, <3>1
  <2>2. ASSUME last = after, ts(e) = last PROVE FALSE
    <3>1. kept \cup {f_after} \subseteq upto(e)
      BY <1>1, <1>2, <1>4, <1>5, <2>2
    <3> QED BY <1>9, <1>10, <3>1
  <2> QED BY <2>1, <2>2
<1>11. SafeTruncate(batch, limit) = {e \in batch : Cardinality(upto(e)) <= limit}
  BY DEF SafeTruncate
<1>12. {e \in kept : last = after => ts(e) # last} = SafeTruncate(batch, limit)
  <2> HIDE DEF upto, ts
  <2> QED BY <1>1, <1>8, <1>10, <1>11
<1> QED BY <1>12 DEF last, after

(* So safe_truncate_receipts gives one batch, at any limit.                *)
LEMMA TruncationIsDetermined ==
    ASSUME NEW batch \in SUBSET Entries, NEW limit \in Nat,
           limit <= Cardinality(batch)
    PROVE  safe_truncate_receipts(batch, limit) = {SafeTruncate(batch, limit)}
<1> DEFINE upto(e) == {f \in batch : f.receipt.timestamp_ns <= e.receipt.timestamp_ns}
<1>1. /\ IsFiniteSet(batch) /\ Cardinality(batch) \in Nat
      /\ \A e \in batch : e.receipt.timestamp_ns \in Nat
  BY BatchTimestamps, FS_CardinalityType
<1>2. \A e \in batch : /\ IsFiniteSet(upto(e)) /\ Cardinality(upto(e)) \in Nat
                       /\ Cardinality(upto(e)) <= Cardinality(batch)
  BY <1>1, FS_Subset, FS_CardinalityType
<1>3. SafeTruncate(batch, limit) = {e \in batch : Cardinality(upto(e)) <= limit}
  BY DEF SafeTruncate
<1>4. CASE Cardinality(batch) <= limit
  <2>1. limit = Cardinality(batch)
    BY <1>1, <1>4
  <2> HIDE DEF upto
  <2>2. SafeTruncate(batch, limit) = batch
    BY <1>2, <1>3, <2>1
  <2> QED BY <1>4, <2>2 DEF safe_truncate_receipts
<1>5. CASE limit = 0 /\ ~(Cardinality(batch) <= limit)
  <2>1. \A e \in batch : upto(e) # {}
    BY <1>1
  <2> HIDE DEF upto
  <2>2. \A e \in batch : Cardinality(upto(e)) # 0
    BY <1>2, <2>1, FS_EmptySet
  <2>3. \A e \in batch : ~ (Cardinality(upto(e)) <= limit)
    BY <1>2, <1>5, <2>2
  <2>4. SafeTruncate(batch, limit) = {}
    BY <1>3, <2>3
  <2> QED BY <1>5, <2>4 DEF safe_truncate_receipts
<1>6. CASE 0 < limit /\ limit < Cardinality(batch)
  <2> DEFINE cut(kept) ==
        LET last_timestamp       == Max(Timestamps(kept))
            after_last_timestamp == Min(Timestamps(batch \ kept))
        IN  {e \in kept : last_timestamp = after_last_timestamp
                            => e.receipt.timestamp_ns # last_timestamp}
  <2>1. safe_truncate_receipts(batch, limit) = {cut(kept) : kept \in truncate(batch, limit)}
    <3>1. ~ (Cardinality(batch) <= limit) /\ limit # 0
      BY <1>1, <1>6
    <3>2. safe_truncate_receipts(batch, limit) =
             {LET last_timestamp       == Max(Timestamps(kept))
                  after_last_timestamp == Min(Timestamps(batch \ kept))
              IN  {e \in kept : last_timestamp = after_last_timestamp
                                  => e.receipt.timestamp_ns # last_timestamp} :
                 kept \in truncate(batch, limit)}
      BY <3>1, Zenon DEF safe_truncate_receipts
    <3> QED BY <3>2
  <2>2. \A kept \in truncate(batch, limit) : cut(kept) = SafeTruncate(batch, limit)
    BY <1>6, CutIsSafe
  <2>3. truncate(batch, limit) # {}
    BY CutExists
  <2> HIDE DEF cut
  <2> QED BY <2>1, <2>2, <2>3
<1> QED BY <1>1, <1>4, <1>5, <1>6

(* It keeps nothing only if the oldest timestamp alone is too much.        *)
LEMMA OldestFit ==
    ASSUME NEW batch \in SUBSET Entries, NEW limit \in Nat, limit # 0,
           limit <= Cardinality(batch), SafeTruncate(batch, limit) = {}
    PROVE  limit < Cardinality({e \in batch :
                       e.receipt.timestamp_ns = Min(Timestamps(batch))})
<1> DEFINE first == Min(Timestamps(batch))
           oldest == {e \in batch : e.receipt.timestamp_ns = first}
<1>1. /\ IsFiniteSet(batch) /\ batch # {}
      /\ \A e \in batch : e.receipt.timestamp_ns \in Nat
      /\ Timestamps(batch) \in SUBSET Nat /\ Timestamps(batch) # {}
  BY BatchTimestamps, FS_EmptySet
<1>2. PICK e \in batch : /\ e.receipt.timestamp_ns = first
                         /\ \A f \in batch : first <= f.receipt.timestamp_ns
  <2>1. first \in Timestamps(batch) /\ \A n \in Timestamps(batch) : first <= n
    BY <1>1, MinOfNaturals
  <2> HIDE DEF first
  <2> QED BY <2>1 DEF Timestamps
<1> HIDE DEF first
<1>3. {f \in batch : f.receipt.timestamp_ns <= e.receipt.timestamp_ns} = oldest
  BY <1>1, <1>2
<1>4. ~ (Cardinality(oldest) <= limit)
  BY <1>3 DEF SafeTruncate
<1>5. Cardinality(oldest) \in Nat
  BY <1>1, FS_Subset, FS_CardinalityType
<1>6. limit < Cardinality(oldest)
  BY <1>4, <1>5
<1> QED BY <1>6 DEF first

(* Whatever is stored, and at whatever limit up to its number: cutting the *)
(* sorted Vec leaves no receipt behind for a timestamp it returns          *)
(* (adapters/receipt.rs:72).                                               *)
THEOREM StorageTruncatesSafely == StorageSpec => []TruncationIsSafe
<1>1. TypeOK => TruncationIsSafe
  <2> SUFFICES ASSUME TypeOK, NEW limit \in 0 .. Cardinality(receipt_storage)
               PROVE  /\ safe_truncate_receipts(receipt_storage, limit)
                            = {SafeTruncate(receipt_storage, limit)}
                      /\ SafeTruncate(receipt_storage, limit) = {} =>
                            \/ limit = 0
                            \/ limit < Cardinality({e \in receipt_storage :
                                  e.receipt.timestamp_ns
                                     = Min(Timestamps(receipt_storage))})
    BY DEF TruncationIsSafe
  <2>1. receipt_storage \in SUBSET Entries
    BY DEF TypeOK
  <2>2. Cardinality(receipt_storage) \in Nat
    BY <2>1, BatchTimestamps, FS_CardinalityType
  <2>3. limit \in Nat /\ limit <= Cardinality(receipt_storage)
    BY <2>2
  <2> QED BY <2>1, <2>3, TruncationIsDetermined, OldestFit
<1> QED BY <1>1, StorageTypeCorrect, PTL
=============================================================================
