------------------------------ MODULE Storage ------------------------------
(***************************************************************************)
(* The rest of InMemoryContext, beside what the Manager calls: looking     *)
(* receipts up by timestamp and removing them by id.  create_rav_request   *)
(* returns invalid receipts to its caller and leaves them in the storage,  *)
(* where they take up room in every batch; these are the operations the    *)
(* caller has to get them out.                                             *)
(*                                                                         *)
(* A caller gets receipts back and not ids, so by id it can only remove    *)
(* every copy of one.  The caller here leaves a receipt alone that the     *)
(* same RavRequest lists as valid: its copies go with                      *)
(* remove_obsolete_receipts, once the receipt is aggregated.               *)
(*                                                                         *)
(* unique_id is never reused, so an id is identified with its entry.       *)
(***************************************************************************)
EXTENDS Manager

VARIABLE removing_ids   \* ids remove_receipts_by_ids has not come to yet

storageVars == <<vars, removing_ids>>

StorageInit == Init /\ removing_ids = {}

ManagerStep == Next /\ UNCHANGED removing_ids

(***************************************************************************)
(* retrieve_receipts_in_timestamp_range as it is written: the Vec is       *)
(* sorted by timestamp, receipts of one timestamp in no particular order,  *)
(* and cut off after `limit' of them; a timestamp that was cut through is  *)
(* then dropped whole.                                                     *)
(***************************************************************************)
Timestamps(batch) == {e.receipt.timestamp_ns : e \in batch}

truncate(batch, limit) ==
    {kept \in kSubset(limit, batch) :
        \A e \in kept, f \in batch \ kept :
            e.receipt.timestamp_ns <= f.receipt.timestamp_ns}

(* Mutant: the timestamp that was cut through is kept.                     *)
naive_truncate_receipts(batch, limit) ==
    IF Cardinality(batch) <= limit THEN {batch} ELSE truncate(batch, limit)

safe_truncate_receipts(batch, limit) ==
    IF Cardinality(batch) <= limit THEN {batch}
    ELSE IF limit = 0 THEN {{}}
    ELSE {LET last_timestamp       == Max(Timestamps(kept))
              after_last_timestamp == Min(Timestamps(batch \ kept))
          IN  {e \in kept : last_timestamp = after_last_timestamp
                               => e.receipt.timestamp_ns # last_timestamp} :
              kept \in truncate(batch, limit)}

(***************************************************************************)
(* The caller.                                                             *)
(***************************************************************************)
(* Mutant: the receipts of the timestamp itself are not among them.        *)
retrieve_receipts_before(timestamp_ns) ==
    {e \in receipt_storage : e.receipt.timestamp_ns < timestamp_ns}

retrieve_receipts_by_timestamp(timestamp_ns) ==
    {e \in receipt_storage : e.receipt.timestamp_ns = timestamp_ns}

(* Mutant: it removes whatever invalid_receipts lists, duplicates of valid *)
(* receipts too.                                                           *)
EveryInvalid == reported

MayRemove == rejected

(* It looks up the ids of a receipt that was returned as invalid, and      *)
(* removes them.                                                           *)
StartRemoval(receipt) ==
    /\ removing_ids = {}
    /\ receipt \in MayRemove
    /\ LET ids == {e \in retrieve_receipts_by_timestamp(receipt.timestamp_ns) :
                      e.receipt = receipt}
       IN  ids # {} /\ removing_ids' = ids
    /\ UNCHANGED vars

(* One round of remove_receipts_by_ids, which locks the storage for each   *)
(* id anew.  An id that is not there any more ends the whole call.         *)
RemoveReceiptById(id) ==
    /\ id \in removing_ids
    /\ IF id \in receipt_storage
       THEN /\ receipt_storage' = receipt_storage \ {id}
            /\ removing_ids' = removing_ids \ {id}
       ELSE /\ removing_ids' = {}
            /\ UNCHANGED receipt_storage
    /\ UNCHANGED <<now, delivered, verifying, last_rav, min_timestamp_ns,
                   request, removing, reported, rejected>>

StorageNext ==
    \/ ManagerStep
    \/ \E receipt \in Receipts : StartRemoval(receipt)
    \/ \E id \in Entries : RemoveReceiptById(id)

StorageSpec == StorageInit /\ [][StorageNext]_storageVars

(* The caller removes what was returned to it, sooner or later, and calls  *)
(* remove_obsolete_receipts again and again.                               *)
FairStorageSpec ==
    /\ StorageSpec
    /\ Fairness
    /\ WF_vars(ReadObsoleteBound)
    /\ WF_vars(RemoveObsoleteReceipts)
    /\ \A receipt \in Receipts : WF_storageVars(StartRemoval(receipt))
    /\ WF_storageVars(\E id \in Entries : RemoveReceiptById(id))

-----------------------------------------------------------------------------
(* "the adapter should return at most that many receipts, while making     *)
(* sure that no receipts are left behind for any timestamp that is         *)
(* returned" (adapters/receipt.rs:72): cutting the sorted Vec gives the    *)
(* batch that Manager takes, in whatever order it was sorted.  A request   *)
(* gets no receipt only if those of the oldest timestamp alone exceed the  *)
(* limit.                                                                  *)
TruncationIsSafe ==
    \A limit \in 0 .. Cardinality(receipt_storage) :
        LET batch  == SafeTruncate(receipt_storage, limit)
            oldest == {e \in receipt_storage :
                          e.receipt.timestamp_ns = Min(Timestamps(receipt_storage))}
        IN  /\ safe_truncate_receipts(receipt_storage, limit) = {batch}
            /\ batch = {} => limit = 0 \/ limit < Cardinality(oldest)

(* What was returned as invalid leaves the storage in the end, the copies  *)
(* UniqueCheck refused and the copy that was kept: together with the       *)
(* obsolete receipts once the receipt is aggregated, or by their ids if no *)
(* copy was valid.  A removal by ids gives up at the first id that         *)
(* remove_obsolete_receipts has taken from under it, and leaves the rest   *)
(* behind.                                                                 *)
InvalidAreRemoved ==
    \A receipt \in Receipts :
        (receipt \in reported) ~> (receipt \notin ReceiptsOf(receipt_storage))
=============================================================================
