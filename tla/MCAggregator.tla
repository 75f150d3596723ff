---------------------------- MODULE MCAggregator ----------------------------
(***************************************************************************)
(* Two payers, two streams of one of them, an old signer of pA that still  *)
(* has receipts and a RAV around, and a signer that nobody may configure.  *)
(***************************************************************************)
EXTENDS Aggregator

CONSTANTS pA, pB, keyA, oldA, keyB

Receipt(n, p, s, t, v, k) ==
    [nonce |-> n, payer |-> p, stream |-> s, timestamp_ns |-> t,
     value |-> v, signer |-> k]

MCReceipts == {
    Receipt(1, pA, "x", 1, 1, oldA),
    Receipt(2, pA, "x", 2, 2, keyA),
    Receipt(3, pA, "x", 2, 4, keyA),
    Receipt(4, pA, "y", 2, 5, keyA),
    Receipt(5, pB, "x", 3, 3, keyB) }

(* Signed by pA's old key before it was rotated.                           *)
MCEarlierRavs == {
    [payer |-> pA, stream |-> "x", timestamp_ns |-> 1, value |-> 1,
     signer |-> oldA, sources |-> {Receipt(1, pA, "x", 1, 1, oldA)}] }
=============================================================================
