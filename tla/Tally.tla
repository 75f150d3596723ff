------------------------------- MODULE Tally -------------------------------
(***************************************************************************)
(* Receipts, batches and vouchers (RAVs): the pure functions shared by the *)
(* indexer's Manager (crates/core) and the gateway's aggregator            *)
(* (crates/bin/aggregator).                                                *)
(*                                                                         *)
(* A receipt is a record with at least timestamp_ns and value.  What the   *)
(* code keeps in a Vec or in the receipt storage is an entry               *)
(* [id, receipt]: two entries may hold the same receipt (it was delivered, *)
(* or listed, twice), and their ids tell them apart.  A batch is a set of  *)
(* entries.                                                                *)
(*                                                                         *)
(* A voucher has the timestamp and the value of the RAV, and the history   *)
(* field `sources', the receipts it stands for: no code reads it.          *)
(***************************************************************************)
EXTENDS Integers, FiniteSets, FiniteSetsExt

CONSTANT MaxValue   \* u128::MAX

ASSUME MaxValueAssumption == MaxValue \in Nat

Values == 0 .. MaxValue

(* `None' of Option<SignedRav>.  Timestamp -1 makes "timestamp + 1, or 0   *)
(* without a previous RAV" one expression.                                 *)
NoRav == [timestamp_ns |-> -1, value |-> 0, sources |-> {}]

ReceiptsOf(batch) == {e.receipt : e \in batch}

TotalValue(batch) == MapThenSumSet(LAMBDA e : e.receipt.value, batch)

(* Mutant of Aggregate: the sum is not checked against u128.               *)
AggregateUnchecked(batch, previous) ==
    LET latest == Max({previous.timestamp_ns} \cup
                          {r.timestamp_ns : r \in ReceiptsOf(batch)})
    IN  { [timestamp_ns |-> t, value |-> previous.value + TotalValue(batch),
           sources |-> previous.sources \cup ReceiptsOf(batch)] :
              t \in {u \in {latest} : batch # {}} }

(* The RAVs aggregate_receipts returns for a batch on top of `previous':   *)
(* one, or none where the code returns NoValidReceiptsForRavRequest (an    *)
(* empty batch) or AggregateOverflow (the sum leaves u128).                *)
Aggregate(batch, previous) ==
    LET value  == previous.value + TotalValue(batch)
        stamps == {previous.timestamp_ns} \cup
                      {r.timestamp_ns : r \in ReceiptsOf(batch)}
        latest == {t \in stamps : \A u \in stamps : u <= t}
    IN  { [timestamp_ns |-> t, value |-> value,
           sources |-> previous.sources \cup ReceiptsOf(batch)] :
              t \in {u \in latest : batch # {} /\ value \in Values} }

(* Mutant of SafeTruncate: the batch is cut inside a timestamp.            *)
TruncateAnywhere(batch, limit) ==
    {e \in batch :
        Cardinality({f \in batch :
            \/ f.receipt.timestamp_ns < e.receipt.timestamp_ns
            \/ /\ f.receipt.timestamp_ns = e.receipt.timestamp_ns
               /\ f.receipt = CHOOSE r \in {e.receipt, f.receipt} : TRUE}) <= limit}

(* What ReceiptRead asks of an adapter, and safe_truncate_receipts does:   *)
(* keep a timestamp only if all entries up to and including it fit.        *)
SafeTruncate(batch, limit) ==
    {e \in batch :
        Cardinality({f \in batch :
            f.receipt.timestamp_ns <= e.receipt.timestamp_ns}) <= limit}

(* TimestampCheck: at or after the minimum.                                *)
TimestampCheck(batch, min) == {e \in batch : e.receipt.timestamp_ns >= min}

(* Mutant of UniqueCheck: duplicates are kept.                             *)
KeepDuplicates(batch) == batch

(* UniqueCheck keeps one entry for each receipt; which one depends on the  *)
(* iteration order of the storage, and nothing depends on it.              *)
UniqueCheck(batch) ==
    {e \in batch : e = CHOOSE f \in batch : f.receipt = e.receipt}

=============================================================================
