------------------------------ MODULE Manager ------------------------------
(***************************************************************************)
(* The indexer's side of Graph Tally: Manager of crates/core over the      *)
(* in-memory context, for one payer and one collection.                    *)
(*                                                                         *)
(* Receipts arrive from the network in any order, some more than once, and *)
(* each delivery is a task of its own: it runs the checks, and only after  *)
(* an await stores the receipt.  RAV requests run beside the deliveries:   *)
(* a request reads the last RAV, collects the receipts older than a buffer *)
(* and newer than that RAV, finalizes their checks, asks the aggregator    *)
(* for a RAV, verifies it and stores it.  Obsolete receipts are removed    *)
(* by a further task.  Every await is a step boundary here.                *)
(***************************************************************************)
EXTENDS Tally

CONSTANTS
    Receipts,     \* the receipts the payer issues
    Deliveries,   \* how often the network may deliver one receipt
    Requesters,   \* tasks that may run RAV requests at the same time
    Buffer,       \* the least timestamp_buffer_ns of create_rav_request
    LongestBuffer,\* ... and the largest: each request gives its own
    Limit,        \* receipts_limit of create_rav_request
    MaxDelay,     \* a receipt is stored within this time of its timestamp,
                  \* or never: the bound the buffer is chosen against
    Flaky,        \* receipts a user-defined check may fail at finalization
    MaxNow        \* bound: the clock stops here

ASSUME ReceiptsAssumption ==
    /\ IsFiniteSet(Receipts)
    /\ \A r \in Receipts : r.timestamp_ns \in Nat \ {0} /\ r.value \in Nat

ASSUME BoundsAssumption ==
    /\ Deliveries \in Nat /\ Limit \in Nat /\ MaxDelay \in Nat
    /\ Buffer \in Nat /\ LongestBuffer \in Nat /\ MaxNow \in Nat
    /\ Buffer <= LongestBuffer /\ LongestBuffer <= MaxNow
    /\ Flaky \subseteq Receipts

VARIABLES
    now,              \* the indexer's clock
    delivered,        \* entries whose delivery has started
    verifying,        \* entries that passed the checks, not stored yet
    receipt_storage,  \* entries of InMemoryContext.receipt_storage
    last_rav,         \* InMemoryContext.rav_storage
    min_timestamp_ns, \* StatefulTimestampCheck.min_timestamp_ns
    request,          \* each requester's RAV request
    removing,         \* last RAV read by remove_obsolete_receipts, or NoRav
    reported,         \* history: receipts returned among invalid_receipts
    rejected          \* history: those returned with no valid copy beside

vars == <<now, delivered, verifying, receipt_storage, last_rav,
          min_timestamp_ns, request, removing, reported, rejected>>

Entries == [id : 1 .. Deliveries, receipt : Receipts]

Idle == [pc |-> "idle", previous |-> NoRav, batch |-> {}, failed |-> {},
         expected |-> NoRav]

Init ==
    /\ now = LongestBuffer
    /\ delivered = {}
    /\ verifying = {}
    /\ receipt_storage = {}
    /\ last_rav = NoRav
    /\ min_timestamp_ns = 0
    /\ request = [q \in Requesters |-> Idle]
    /\ removing = NoRav
    /\ reported = {}
    /\ rejected = {}

(***************************************************************************)
(* Time and deliveries.                                                    *)
(***************************************************************************)
Due(e) == e.receipt.timestamp_ns + MaxDelay

Tick ==
    /\ now < MaxNow
    /\ \A e \in verifying : now < Due(e)
    /\ now' = now + 1
    /\ UNCHANGED <<delivered, verifying, receipt_storage, last_rav,
                   min_timestamp_ns, request, removing, reported, rejected>>

(* verify_and_store_receipt up to its second await.  StatefulTimestampCheck*)
(* is the check that reads the manager's state; a receipt that any other   *)
(* check refuses behaves as one that is never delivered.                   *)
PassesTimestampCheck(e) == e.receipt.timestamp_ns > min_timestamp_ns

VerifyReceipt(e) ==
    /\ e \notin delivered
    /\ \A f \in Entries : f.receipt = e.receipt /\ f.id < e.id => f \in delivered
    /\ now <= Due(e)
    /\ delivered' = delivered \cup {e}
    /\ verifying' = IF PassesTimestampCheck(e) THEN verifying \cup {e}
                                               ELSE verifying
    /\ UNCHANGED <<now, receipt_storage, last_rav, min_timestamp_ns,
                   request, removing, reported, rejected>>

StoreReceipt(e) ==
    /\ e \in verifying
    /\ verifying' = verifying \ {e}
    /\ receipt_storage' = receipt_storage \cup {e}
    /\ UNCHANGED <<now, delivered, last_rav, min_timestamp_ns, request,
                   removing, reported, rejected>>

(***************************************************************************)
(* A RAV request: create_rav_request, the aggregator, verify_and_store_rav.*)
(***************************************************************************)
ReadLastRav(q) ==
    /\ request[q].pc = "idle"
    /\ request' = [request EXCEPT ![q] =
                      [Idle EXCEPT !.pc = "collecting", !.previous = last_rav]]
    /\ UNCHANGED <<now, delivered, verifying, receipt_storage, last_rav,
                   min_timestamp_ns, removing, reported, rejected>>

(* Mutants: the buffer is not kept, the lower end of the range is excluded.*)
MaxTimestampNow(buffer) == now
InRangeExclusive(min, max) ==
    {e \in receipt_storage : /\ min < e.receipt.timestamp_ns
                             /\ e.receipt.timestamp_ns < max}

MinTimestamp(q) == request[q].previous.timestamp_ns + 1
MaxTimestamp(buffer) == now - buffer

Buffers == Buffer .. LongestBuffer

TimestampRangeError(q) ==
    /\ request[q].pc = "collecting"
    /\ \E buffer \in Buffers : MinTimestamp(q) > MaxTimestamp(buffer)
    /\ request' = [request EXCEPT ![q] = Idle]
    /\ UNCHANGED <<now, delivered, verifying, receipt_storage, last_rav,
                   min_timestamp_ns, removing, reported, rejected>>

(* retrieve_receipts_in_timestamp_range(min..max, limit)                   *)
InRange(min, max) ==
    {e \in receipt_storage : /\ min <= e.receipt.timestamp_ns
                             /\ e.receipt.timestamp_ns < max}

Retrieved(q, buffer) ==
    SafeTruncate(InRange(MinTimestamp(q), MaxTimestamp(buffer)), Limit)

(* The two checks of the whole batch; the entries they refuse, every       *)
(* further copy of a receipt among them, are its failed_receipts.          *)
Collected(q, retrieved) == UniqueCheck(TimestampCheck(retrieved, MinTimestamp(q)))

CollectReceipts(q) ==
    /\ request[q].pc = "collecting"
    /\ \E buffer \in Buffers :
         LET retrieved == Retrieved(q, buffer)
             collected == Collected(q, retrieved)
         IN /\ MinTimestamp(q) <= MaxTimestamp(buffer)
            /\ request' = [request EXCEPT ![q].pc = "checking",
                                          ![q].batch = collected,
                                          ![q].failed = retrieved \ collected]
    /\ UNCHANGED <<now, delivered, verifying, receipt_storage, last_rav,
                   min_timestamp_ns, removing, reported, rejected>>

(* finalize_receipt_checks on every collected receipt, and the expected    *)
(* RAV.  The checks run a second time, against the state of now.  What the *)
(* batch checks refused is returned beside what fails here; there are no   *)
(* ids, so a receipt stored twice may be both valid and invalid.           *)
FinalizeReceipts(q) ==
    /\ request[q].pc = "checking"
    /\ \E refused \in SUBSET Flaky :
         LET valid   == {e \in request[q].batch :
                            PassesTimestampCheck(e) /\ e.receipt \notin refused}
             invalid == ReceiptsOf(request[q].failed \cup
                                       (request[q].batch \ valid))
             ravs    == Aggregate(valid, request[q].previous)
         IN /\ reported' = reported \cup invalid
            /\ rejected' = rejected \cup (invalid \ ReceiptsOf(valid))
            /\ \/ /\ ravs = {}
                  /\ request' = [request EXCEPT ![q] = Idle]
               \/ \E rav \in ravs :
                     request' = [request EXCEPT ![q].pc = "requesting",
                                                ![q].batch = valid,
                                                ![q].failed = {},
                                                ![q].expected = rav]
    /\ UNCHANGED <<now, delivered, verifying, receipt_storage, last_rav,
                   min_timestamp_ns, removing>>

(* What may come back from the aggregator: the RAV that was expected, or   *)
(* another one.                                                            *)
Answers(rav) == {rav, [rav EXCEPT !.value = @ + 1]}

(* Mutant: the value is not compared.                                      *)
SameTimestamp(signed, expected) == signed.timestamp_ns = expected.timestamp_ns

SameMessage(signed, expected) ==
    /\ signed.timestamp_ns = expected.timestamp_ns
    /\ signed.value = expected.value

(* update_last_rav writes the RAV and the minimum under one lock.          *)
VerifyAndStoreRav(q, signed) ==
    /\ request[q].pc = "requesting"
    /\ signed \in Answers(request[q].expected)
    /\ SameMessage(signed, request[q].expected)
    /\ last_rav' = signed
    /\ min_timestamp_ns' = signed.timestamp_ns
    /\ request' = [request EXCEPT ![q] = Idle]
    /\ UNCHANGED <<now, delivered, verifying, receipt_storage, removing,
                   reported, rejected>>

AnswerArrives(q) == \E signed \in Answers(request[q].expected) :
                        VerifyAndStoreRav(q, signed)

(* A retryable check, an error of the aggregator, a lost answer, or an     *)
(* answer refused with InvalidReceivedRav: the request is given up.        *)
RequestFails(q) ==
    /\ request[q].pc \in {"checking", "requesting"}
    /\ request' = [request EXCEPT ![q] = Idle]
    /\ UNCHANGED <<now, delivered, verifying, receipt_storage, last_rav,
                   min_timestamp_ns, removing, reported, rejected>>

(***************************************************************************)
(* remove_obsolete_receipts                                                *)
(***************************************************************************)
ReadObsoleteBound ==
    /\ removing = NoRav
    /\ last_rav # NoRav
    /\ removing' = last_rav
    /\ UNCHANGED <<now, delivered, verifying, receipt_storage, last_rav,
                   min_timestamp_ns, request, reported, rejected>>

(* Mutant: the receipts of the bound itself are kept.                      *)
OlderThan(timestamp_ns) ==
    {e \in receipt_storage : e.receipt.timestamp_ns < timestamp_ns}

Obsolete(timestamp_ns) ==
    {e \in receipt_storage : e.receipt.timestamp_ns <= timestamp_ns}

RemoveObsoleteReceipts ==
    /\ removing # NoRav
    /\ receipt_storage' = receipt_storage \ Obsolete(removing.timestamp_ns)
    /\ removing' = NoRav
    /\ UNCHANGED <<now, delivered, verifying, last_rav, min_timestamp_ns,
                   request, reported, rejected>>

Next ==
    \/ Tick
    \/ \E e \in Entries : VerifyReceipt(e) \/ StoreReceipt(e)
    \/ \E q \in Requesters :
          \/ ReadLastRav(q)
          \/ TimestampRangeError(q)
          \/ CollectReceipts(q)
          \/ FinalizeReceipts(q)
          \/ AnswerArrives(q)
          \/ RequestFails(q)
    \/ ReadObsoleteBound
    \/ RemoveObsoleteReceipts

Spec == Init /\ [][Next]_vars

-----------------------------------------------------------------------------
Ravs == [timestamp_ns : Nat \cup {-1}, value : Values, sources : SUBSET Receipts]

(* The shape of the state.                                                 *)
TypeOK ==
    /\ now \in LongestBuffer .. MaxNow
    /\ delivered \subseteq Entries
    /\ verifying \subseteq Entries
    /\ receipt_storage \subseteq Entries
    /\ last_rav \in Ravs
    /\ min_timestamp_ns \in Nat
    /\ request \in [Requesters ->
           [pc : {"idle", "collecting", "checking", "requesting"},
            previous : Ravs, batch : SUBSET Entries, failed : SUBSET Entries,
            expected : Ravs]]
    /\ removing \in Ravs
    /\ reported \subseteq Receipts
    /\ rejected \subseteq reported

(* A RAV is worth exactly its receipts, each counted once: the sum of the  *)
(* values of the distinct receipts behind it.  Deliveries are repeated,    *)
(* requests overlap, and aggregate_receipts only ever sees a previous      *)
(* value and a batch, so this rests on UniqueCheck inside a batch, and on  *)
(* the timestamp range between batches.  It holds of the stored RAV and of *)
(* each RAV that verify_and_store_rav is about to expect.                  *)
WorthItsSources(rav) ==
    rav.value = MapThenSumSet(LAMBDA r : r.value, rav.sources)

RavsWorthTheirSources ==
    /\ WorthItsSources(last_rav)
    /\ \A q \in Requesters : WorthItsSources(request[q].expected)

(* Every stored receipt the last RAV has moved past was aggregated into    *)
(* it, or was returned to the caller as invalid with no valid copy beside  *)
(* it.  collect_receipts never looks below the last RAV's timestamp again, *)
(* so a receipt stored under it later, or left out of the batch, would     *)
(* never be paid for.                                                      *)
NoReceiptStranded ==
    \A e \in receipt_storage :
        e.receipt.timestamp_ns <= last_rav.timestamp_ns =>
            e.receipt \in last_rav.sources \cup rejected

(* remove_obsolete_receipts: "Obsolete receipts are receipts that are      *)
(* older than the last RAV, and therefore already aggregated into the RAV" *)
(* (core.rs:211).  What the removal deletes is in the last RAV, or was     *)
(* returned as invalid with no valid copy beside it: a duplicate that      *)
(* UniqueCheck refused never costs the indexer the receipt itself.         *)
RemovesOnlyAggregated ==
    [][\A e \in receipt_storage \ receipt_storage' :
          e.receipt \in last_rav.sources \cup rejected]_vars

(* With a single requester the stored RAV behaves as Voucher says: each    *)
(* verify_and_store_rav adds a batch of distinct receipts newer than all   *)
(* before, and no RAV that was stored is ever replaced by a smaller one.   *)
LastRav == INSTANCE Voucher WITH voucher <- last_rav
LastRavOnlyGrows == LastRav!Spec

(***************************************************************************)
(* Liveness.  The indexer keeps making RAV requests; the aggregator does   *)
(* not fail, and no check stays retryable, on every attempt.               *)
(***************************************************************************)
Fairness ==
    /\ WF_vars(Tick)
    /\ \A e \in Entries : WF_vars(StoreReceipt(e))
    /\ \A q \in Requesters :
          /\ WF_vars(ReadLastRav(q))
          /\ WF_vars(TimestampRangeError(q))
          /\ WF_vars(CollectReceipts(q))
          /\ SF_vars(FinalizeReceipts(q))
          /\ SF_vars(AnswerArrives(q))

FairSpec == Spec /\ Fairness

(* Every receipt in storage ends up in the last RAV, or is returned as     *)
(* invalid with no valid copy beside it, whatever the batch limit cuts off *)
(* and however often a request fails or comes too early.                   *)
StoredIsSettled ==
    \A r \in Receipts :
        (r \in ReceiptsOf(receipt_storage)) ~> (r \in last_rav.sources \cup rejected)

-----------------------------------------------------------------------------
(***************************************************************************)
(* What the proofs in ManagerProofs need beside the properties.            *)
(***************************************************************************)

(* What verify_and_store_rav compares with is what aggregate_receipts made *)
(* of the request's own batch and previous RAV.                            *)
ExpectedIsAggregate ==
    \A q \in Requesters : request[q].pc = "requesting" =>
        request[q].expected \in Aggregate(request[q].batch, request[q].previous)

TypeInv == TypeOK /\ ExpectedIsAggregate

(* A receipt between its checks and its storage is within its deadline,    *)
(* and the last RAV has not reached it.                                    *)
VerifyingIsRecent ==
    \A e \in verifying : /\ now <= Due(e)
                         /\ e.receipt.timestamp_ns > last_rav.timestamp_ns

(* The minimum timestamp and the removal never run ahead of the last RAV.  *)
BoundsFollowLastRav ==
    /\ last_rav.timestamp_ns <= min_timestamp_ns
    /\ removing.timestamp_ns <= last_rav.timestamp_ns

HoldsBatch(q) == request[q].pc \in {"checking", "requesting"}

(* A request under way works on top of the last RAV, on distinct receipts  *)
(* newer than it and older than the buffer.                                *)
RequestsAreCurrent ==
    \A q \in Requesters :
        /\ request[q].pc # "idle" => request[q].previous = last_rav
        /\ HoldsBatch(q) =>
              /\ LastRav!Distinct(request[q].batch)
              /\ \A e \in request[q].batch :
                    /\ last_rav.timestamp_ns < e.receipt.timestamp_ns
                    /\ e.receipt.timestamp_ns < now - Buffer

(* ... and leaves no stored receipt behind that is as old as one of them.  *)
BatchesAreClosed ==
    \A q \in Requesters : HoldsBatch(q) =>
        \A f \in request[q].batch, e \in receipt_storage :
            /\ last_rav.timestamp_ns < e.receipt.timestamp_ns
            /\ e.receipt.timestamp_ns <= f.receipt.timestamp_ns
            => e.receipt \in ReceiptsOf(request[q].batch) \cup rejected

SafetyInv ==
    /\ VerifyingIsRecent
    /\ BoundsFollowLastRav
    /\ RequestsAreCurrent
    /\ BatchesAreClosed
    /\ NoReceiptStranded
=============================================================================
