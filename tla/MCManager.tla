----------------------------- MODULE MCManager -----------------------------
(***************************************************************************)
(* A small instance of Manager.  Values are powers of two, so that every   *)
(* set of receipts has a total of its own; two receipts share a timestamp. *)
(***************************************************************************)
EXTENDS Storage

Receipt(n, t, v) == [nonce |-> n, timestamp_ns |-> t, value |-> v]

TwoReceipts == {Receipt("a", 2, 1), Receipt("b", 3, 2)}
ThreeReceipts == TwoReceipts \cup {Receipt("c", 3, 4)}
FlakyReceipts == {Receipt("a", 2, 1), Receipt("b", 3, 2)}
=============================================================================
