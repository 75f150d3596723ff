--------------------------- MODULE MCReceiptFeed ---------------------------
(* Instances of ReceiptFeed for TLC: hours of two ticks, a window of two or *)
(* three hours, two partitions of hourly sums.                              *)
EXTENDS ReceiptFeed

TwoPartitions == {1, 2}
=============================================================================
