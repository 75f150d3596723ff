------------------------------ MODULE Voucher ------------------------------
(***************************************************************************)
(* What an indexer is promised of its last RAV: it only grows, and each    *)
(* step adds a batch of distinct receipts that are all newer than          *)
(* everything the voucher already stands for.  So a receipt is paid for at *)
(* most once, and no value enters a voucher without a receipt.             *)
(***************************************************************************)
EXTENDS Integers

CONSTANTS
    Entries,         \* the entries [id, receipt] a batch may be made of
    NoRav,           \* the voucher before the first batch
    Aggregate(_, _)  \* the vouchers a batch on top of a voucher may give

VARIABLE voucher

Init == voucher = NoRav

Distinct(batch) == \A e, f \in batch : e.receipt = f.receipt => e = f

Newer(batch) == \A e \in batch : e.receipt.timestamp_ns > voucher.timestamp_ns

Grow == \E batch \in SUBSET Entries :
            /\ Distinct(batch)
            /\ Newer(batch)
            /\ voucher' \in Aggregate(batch, voucher)

Spec == Init /\ [][Grow]_voucher
=============================================================================
