-------------------------------- MODULE Wire --------------------------------
(***************************************************************************)
(* The gRPC messages of the aggregator (crates/bin/aggregator/src/grpc.rs).*)
(* The services graph_tally and tap_aggregator.v2 convert them alike.      *)
(*                                                                         *)
(* A field that may be missing, and a byte field that may have the wrong   *)
(* length, is a set of at most one value; so is the result of a conversion *)
(* that may fail.  A message that is missing whole is one without fields.  *)
(***************************************************************************)
EXTENDS Integers, Sequences

CONSTANT HalfBase   \* 2^64: a u128 travels as two u64

ASSUME HalfBaseAssumption == HalfBase \in Nat \ {0}

(* Mutant: only the low half of a value is sent.                           *)
SplitLow(value) == [high |-> 0, low |-> value % HalfBase]

(* (value >> 64) as u64 and value as u64                                   *)
Split(value) == [high |-> (value \div HalfBase) % HalfBase,
                 low  |-> value % HalfBase]

(* ((high as u128) << 64) | low                                            *)
Join(uint128) == uint128.high * HalfBase + uint128.low

wire_receipt(receipt) ==
    [collection_id |-> {receipt.stream}, payer |-> {receipt.payer},
     timestamp_ns |-> receipt.timestamp_ns, nonce |-> receipt.nonce,
     value |-> {Split(receipt.value)}, signature |-> {receipt.signer}]

receipt_of(message) ==
    {[payer |-> payer, stream |-> collection_id,
      timestamp_ns |-> message.timestamp_ns, value |-> Join(value),
      signer |-> signature, nonce |-> message.nonce] :
        collection_id \in message.collection_id, payer \in message.payer,
        value \in message.value, signature \in message.signature}

(* `sources' is the history field of a RAV: it is carried along.           *)
wire_rav(rav) ==
    [collection_id |-> {rav.stream}, payer |-> {rav.payer},
     timestamp_ns |-> rav.timestamp_ns, value_aggregate |-> {Split(rav.value)},
     signature |-> {rav.signer}, sources |-> rav.sources]

(* Mutant: a missing half of the value is read as zero.                    *)
rav_of_low(message) ==
    {[payer |-> payer, stream |-> collection_id,
      timestamp_ns |-> message.timestamp_ns, value |-> value.low,
      signer |-> signature, sources |-> message.sources] :
        collection_id \in message.collection_id, payer \in message.payer,
        value \in message.value_aggregate, signature \in message.signature}

rav_of(message) ==
    {[payer |-> payer, stream |-> collection_id,
      timestamp_ns |-> message.timestamp_ns, value |-> Join(value),
      signer |-> signature, sources |-> message.sources] :
        collection_id \in message.collection_id, payer \in message.payer,
        value \in message.value_aggregate, signature \in message.signature}

(* RavRequest::new; `previous' is a set of at most one RAV.                *)
RavRequest(receipts, previous) ==
    [receipts |-> [i \in DOMAIN receipts |-> wire_receipt(receipts[i])],
     previous_rav |-> {wire_rav(rav) : rav \in previous}]

(* The receipts of a request, or nothing if one of them does not convert.  *)
receipts_of(request) ==
    LET converted == [i \in DOMAIN request.receipts |->
                         receipt_of(request.receipts[i])]
    IN  IF \E i \in DOMAIN converted : converted[i] = {} THEN {}
        ELSE {[i \in DOMAIN converted |-> CHOOSE r \in converted[i] : TRUE]}

RavResponse(rav) == [rav |-> {wire_rav(rav)}]

(* RavResponse::signed_rav, at the client.                                 *)
signed_rav(response) == UNION {rav_of(message) : message \in response.rav}
=============================================================================
