----------------------------- MODULE MCRavFeed -----------------------------
(* The aggregator serves two payers on the same allocation; the manager is  *)
(* the first payer's.  The receipts of the second overflow together.        *)
EXTENDS RavFeed

CONSTANTS pA, pB, keyA, keyB

Receipt(n, p, t, v, k) ==
    [nonce |-> n, payer |-> p, stream |-> "x", timestamp_ns |-> t,
     value |-> v, signer |-> k]

MCReceipts == {
    Receipt(1, pA, 1, 1, keyA),
    Receipt(2, pA, 2, 4, keyA),
    Receipt(3, pB, 1, 7, keyB),
    Receipt(4, pB, 2, 5, keyB) }
=============================================================================
