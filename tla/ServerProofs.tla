----------------------------- MODULE ServerProofs -----------------------------
(***************************************************************************)
(* Proofs about Server: for any receipts, configuration, bounds and base   *)
(* of the halves it answers with the RAV it signed, counts what it signed, *)
(* and does what Aggregator says.  And about RavFeed, the consumer of its  *)
(* topic: the manager's table holds the largest record of each allocation  *)
(* that it has processed, and no record but one of its signers.            *)
(***************************************************************************)
EXTENDS RavFeed, AggregatorProofs

(***************************************************************************)
(* Server.                                                                 *)
(***************************************************************************)
(* A u128 is put together again from its halves (grpc.rs:9-21).            *)
LEMMA HalvesJoin ==
    ASSUME NEW value \in Values
    PROVE  Join(Split(value)) = value
<1> DEFINE high == value \div HalfBase
           low  == value % HalfBase
<1>1. HalfBase \in Nat /\ HalfBase > 0 /\ value \in Nat
  BY HalfBaseAssumption, MaxValueAssumption DEF Values
<1>2. value = high * HalfBase + low /\ high \in Nat /\ low \in 0 .. HalfBase - 1
  BY <1>1
<1>3. high < HalfBase
  <2>1. SUFFICES ASSUME high >= HalfBase PROVE FALSE
    BY <1>1, <1>2
  <2>2. high * HalfBase >= HalfBase * HalfBase
    BY <1>1, <1>2, <2>1
  <2>3. value < HalfBase * HalfBase
    BY <1>1, ServerAssumption DEF Values
  <2>4. high * HalfBase \in Nat /\ HalfBase * HalfBase \in Nat
    BY <1>1, <1>2
  <2> QED BY <1>1, <1>2, <2>2, <2>3, <2>4
<1>4. high % HalfBase = high
  BY <1>1, <1>2, <1>3
<1>5. Split(value) = [high |-> high, low |-> low]
  BY <1>4 DEF Split
<1> QED BY <1>2, <1>5 DEF Join

(* What was converted to a message is converted back to itself             *)
(* (grpc.rs:23-126).                                                       *)
LEMMA ReceiptReturns ==
    ASSUME NEW r, IsReceipt(r)
    PROVE  receipt_of(wire_receipt(r)) = {r}
<1>1. Join(Split(r.value)) = r.value
  BY HalvesJoin DEF IsReceipt
<1>2. receipt_of(wire_receipt(r)) =
        {[payer |-> r.payer, stream |-> r.stream,
          timestamp_ns |-> r.timestamp_ns, value |-> Join(Split(r.value)),
          signer |-> r.signer, nonce |-> r.nonce]}
  BY DEF receipt_of, wire_receipt
<1> QED BY <1>1, <1>2 DEF IsReceipt

(* As ReceiptReturns, for a RAV (grpc.rs:74-126).                          *)
LEMMA RavReturns ==
    ASSUME NEW r, IsRav(r)
    PROVE  rav_of(wire_rav(r)) = {r}
<1>1. Join(Split(r.value)) = r.value
  BY HalvesJoin DEF IsRav
<1>2. rav_of(wire_rav(r)) =
        {[payer |-> r.payer, stream |-> r.stream,
          timestamp_ns |-> r.timestamp_ns, value |-> Join(Split(r.value)),
          signer |-> r.signer, sources |-> r.sources]}
  BY DEF rav_of, wire_rav
<1> QED BY <1>1, <1>2 DEF IsRav

(* So a handler sees the receipts and the previous RAV of the client       *)
(* (grpc.rs:128-138, server.rs:261-273).                                   *)
LEMMA RequestReturns ==
    ASSUME NEW receipts \in Requests, NEW previous
    PROVE  receipts_of(RavRequest(receipts, previous)) \subseteq {receipts}
<1> DEFINE request == RavRequest(receipts, previous)
           converted == [i \in DOMAIN request.receipts |->
                            receipt_of(request.receipts[i])]
<1>1. PICK n \in 0 .. MaxBatch : receipts \in [1 .. n -> Receipts]
  BY DEF Requests
<1>2. request.receipts = [i \in 1 .. n |-> wire_receipt(receipts[i])]
  BY <1>1 DEF RavRequest
<1>3. ASSUME NEW i \in 1 .. n
      PROVE  receipt_of(wire_receipt(receipts[i])) = {receipts[i]}
  <2>1. IsReceipt(receipts[i])
    BY <1>1, MessageAssumption
  <2> QED BY <2>1, ReceiptReturns
<1>4. converted = [i \in 1 .. n |-> {receipts[i]}]
  BY <1>2, <1>3
<1>5. [i \in DOMAIN converted |-> CHOOSE r \in converted[i] : TRUE] = receipts
  <2>1. \A i \in 1 .. n : (CHOOSE r \in converted[i] : TRUE) = receipts[i]
    BY <1>4
  <2>2. DOMAIN converted = 1 .. n
    BY <1>4
  <2>3. [i \in DOMAIN converted |-> CHOOSE r \in converted[i] : TRUE]
          = [i \in 1 .. n |-> receipts[i]]
    BY <2>1, <2>2
  <2> QED BY <2>3, <1>1
<1> QED BY <1>5 DEF receipts_of

(* The previous RAV of the request, or none (server.rs:269-273).           *)
LEMMA PreviousReturns ==
    ASSUME NEW receipts, NEW previous,
           previous = {} \/ \E rav : previous = {rav} /\ IsRav(rav)
    PROVE  previous_rav_of(RavRequest(receipts, previous))
               = IF previous = {} THEN {NoRav} ELSE previous
<1> DEFINE request == RavRequest(receipts, previous)
<1>1. request.previous_rav = {wire_rav(rav) : rav \in previous}
  BY DEF RavRequest
<1>2. CASE previous = {}
  BY <1>1, <1>2 DEF previous_rav_of
<1>3. ASSUME NEW rav, previous = {rav}, IsRav(rav)
      PROVE  previous_rav_of(request) = {rav}
  <2>1. request.previous_rav = {wire_rav(rav)}
    BY <1>1, <1>3
  <2>2. previous_rav_of(request) = rav_of(wire_rav(rav))
    BY <2>1 DEF previous_rav_of
  <2> QED BY <2>2, <1>3, RavReturns
<1> QED BY <1>2, <1>3

(* The RAV of a request is a message (aggregator.rs:109-121).              *)
LEMMA MadeIsRav ==
    ASSUME NEW receipts, NEW previous,
           NEW rav \in check_and_aggregate_receipts(receipts, previous)
    PROVE  IsRav(rav)
<1>1. PICK made \in Aggregate(Entries(receipts), previous) :
          rav = SignedRav(made, receipts[1])
  BY DEF check_and_aggregate_receipts
<1>2. made.value \in Values
  BY <1>1 DEF Aggregate
<1> QED BY <1>1, <1>2 DEF SignedRav, IsRav

(* The client reads the RAV that the handler made (grpc.rs:140-149).       *)
LEMMA AnswerReturns ==
    ASSUME NEW rav, IsRav(rav)
    PROVE  signed_rav(RavResponse(rav)) = {rav}
<1>1. signed_rav(RavResponse(rav)) = rav_of(wire_rav(rav))
  BY DEF signed_rav, RavResponse
<1> QED BY <1>1, RavReturns

-----------------------------------------------------------------------------
(* What was signed or answered is a message; clients hold only what was    *)
(* signed; the producer holds only records of what was signed.             *)
ServerInv ==
    /\ \A rav \in ravs : IsRav(rav)
    /\ EarlierRavs \subseteq ravs
    /\ AnswersAreSigned
    /\ producer \subseteq {KafkaRecord(rav) : rav \in ravs}

(* A handler that succeeds, seen from the Aggregator.                      *)
LEMMA SucceedStep ==
    ASSUME ServerInv, Running,
           NEW receipts \in Requests, NEW previous \in PreviousRavs,
           NEW rav \in check_and_aggregate_receipts(receipts, previous),
           Succeed(receipts, previous, rav, {rav})
    PROVE  ServerInv' /\ AggregateReceipts(receipts, previous)
<1>1. /\ ravs' = ravs \cup {rav}
      /\ answers' = answers \cup {rav}
      /\ producer' \subseteq producer \cup {KafkaRecord(rav)}
      /\ UNCHANGED <<registryVars, gateway_ravs>>
  BY DEF Succeed, produce_kafka_records
<1>2. IsRav(rav)
  BY MadeIsRav
<1>3. ServerInv'
  BY <1>1, <1>2 DEF ServerInv, AnswersAreSigned
<1>4. AggregateReceipts(receipts, previous)
  BY <1>1 DEF AggregateReceipts, Running
<1> QED BY <1>3, <1>4

(* A step that leaves what the Aggregator has, and only drops records.     *)
LEMMA QuietStep ==
    ASSUME ServerInv, UNCHANGED <<vars, answers>>, producer' \subseteq producer
    PROVE  ServerInv'
BY DEF ServerInv, AnswersAreSigned, vars

(* Each step of the server keeps ServerInv and is a step of Aggregator, or *)
(* changes nothing there.                                                  *)
LEMMA ServerStep ==
    ASSUME ServerInv, [ServerNext]_serverVars
    PROVE  ServerInv' /\ [Next]_vars
<1>1. CASE Startup
  <2>1. UNCHANGED <<ravs, gateway_ravs, producer, answers>> /\ Build
    BY <1>1 DEF Startup, Build
  <2> QED BY <2>1 DEF Next, ServerInv, AnswersAreSigned
<1>2. ASSUME NEW receipts \in Requests,
             NEW previous \in {{rav} : rav \in HeldRavs} \cup {{}},
             AggregateGrpc(RavRequest(receipts, previous))
      PROVE  ServerInv' /\ [Next]_vars
  <2> DEFINE request == RavRequest(receipts, previous)
  <2>1. previous = {} \/ \E rav \in ravs : previous = {rav} /\ IsRav(rav)
    BY <1>2 DEF HeldRavs, ServerInv, AnswersAreSigned
  <2>2. receipts_of(request) \subseteq {receipts}
    BY RequestReturns
  <2>3. previous_rav_of(request) = IF previous = {} THEN {NoRav} ELSE previous
    BY <2>1, PreviousReturns
  <2>4. previous_rav_of(request) \subseteq PreviousRavs
    BY <2>1, <2>3 DEF PreviousRavs
  <2>5. Running
    BY <1>2 DEF AggregateGrpc
  <2>6. PICK held \in PreviousRavs :
          \/ \E rav \in check_and_aggregate_receipts(receipts, held) :
                Succeed(receipts, held, rav, signed_rav(RavResponse(rav)))
          \/ Refuse(receipts)
    BY <1>2, <2>2, <2>4 DEF AggregateGrpc
  <2>7. CASE Refuse(receipts)
    BY <2>7, QuietStep DEF Refuse
  <2>8. ASSUME NEW rav \in check_and_aggregate_receipts(receipts, held),
               Succeed(receipts, held, rav, signed_rav(RavResponse(rav)))
        PROVE  ServerInv' /\ [Next]_vars
    <3>1. signed_rav(RavResponse(rav)) = {rav}
      BY MadeIsRav, AnswerReturns
    <3>2. Succeed(receipts, held, rav, {rav})
      BY <2>8, <3>1
    <3>3. ServerInv' /\ AggregateReceipts(receipts, held)
      BY <2>5, <3>2, SucceedStep
    <3> QED BY <3>3 DEF Next
  <2> QED BY <2>6, <2>7, <2>8
<1>3. ASSUME NEW api_version \in Versions, NEW receipts \in Requests,
             NEW previous \in HeldRavs \cup {NoRav},
             AggregateJson(api_version, receipts, previous)
      PROVE  ServerInv' /\ [Next]_vars
  <2>1. previous \in PreviousRavs
    BY DEF HeldRavs, PreviousRavs, ServerInv, AnswersAreSigned
  <2>2. Running
    BY <1>3 DEF AggregateJson
  <2>3. \/ \E rav \in check_and_aggregate_receipts(receipts, previous) :
              Succeed(receipts, previous, rav, {rav})
        \/ UNCHANGED <<vars, producer, answers>>
    BY <1>3 DEF AggregateJson, Refuse
  <2>4. CASE UNCHANGED <<vars, producer, answers>>
    BY <2>4, QuietStep
  <2>5. ASSUME NEW rav \in check_and_aggregate_receipts(receipts, previous),
               Succeed(receipts, previous, rav, {rav})
        PROVE  ServerInv' /\ [Next]_vars
    <3>1. ServerInv' /\ AggregateReceipts(receipts, previous)
      BY <2>1, <2>2, <2>5, SucceedStep
    <3> QED BY <2>1, <3>1 DEF Next
  <2> QED BY <2>3, <2>4, <2>5
<1>4. ASSUME NEW record \in producer, Deliver(record)
      PROVE  ServerInv' /\ [Next]_vars
  <2>1. PICK rav \in ravs : record = KafkaRecord(rav)
    BY DEF ServerInv
  <2>2. /\ producer' \subseteq producer
        /\ UNCHANGED <<registryVars, ravs, answers>>
    BY <1>4 DEF Deliver
  <2>3. ServerInv'
    BY <2>2 DEF ServerInv, AnswersAreSigned
  <2>4. Publish(rav) \/ UNCHANGED vars
    BY <1>4, <2>1, <2>2 DEF Deliver, Publish, vars
  <2> QED BY <2>3, <2>4 DEF Next
<1>5. CASE Restart
  BY <1>5, QuietStep DEF Restart
<1>6. CASE UNCHANGED serverVars
  BY <1>6, QuietStep DEF serverVars
<1> QED BY <1>1, <1>2, <1>3, <1>4, <1>5, <1>6 DEF ServerNext

(* The server starts as Aggregator does, with nothing queued or answered.  *)
LEMMA ServerStart == ServerInit => ServerInv /\ Init
BY MessageAssumption DEF ServerInit, Init, ServerInv, AnswersAreSigned

(* Whichever endpoint a request comes through, the client gets a RAV that  *)
(* was signed (grpc.rs, server.rs:284-301).                                *)
THEOREM ClientsGetSignedRavs == ServerSpec => []AnswersAreSigned
<1>1. ServerInv /\ [ServerNext]_serverVars => ServerInv'
  BY ServerStep
<1>2. ServerInv => AnswersAreSigned
  BY DEF ServerInv
<1> QED BY <1>1, <1>2, ServerStart, PTL DEF ServerSpec

(* The server implements the Aggregator (server.rs:199-356, 509-535): each *)
(* handler is a request of the Aggregator or a refusal, and the producer   *)
(* publishes records of signed RAVs only.                                  *)
THEOREM ServerImplementsAggregator == ServerSpec => ImplementsAggregator
<1>1. ServerInv /\ [ServerNext]_serverVars => ServerInv' /\ [Next]_vars
  BY ServerStep
<1> QED BY <1>1, ServerStart, PTL DEF ServerSpec, ImplementsAggregator, Spec

-----------------------------------------------------------------------------
(* So what is proved of the Aggregator holds of the server.                *)
LEMMA ServerKeepsBacked == ServerSpec => [](RegistryTypeOK /\ RavsAreBacked)
<1>1. ServerSpec => Spec
  BY ServerImplementsAggregator DEF ImplementsAggregator
<1> QED BY <1>1, AlwaysBacked, PTL

Counters == [DOMAIN NoMetrics -> Nat]

(* The counters are counts, and they match the history.                    *)
MetricsInv ==
    /\ metrics \in Counters
    /\ promised = [value |-> promised.value, receipts |-> promised.receipts]
    /\ MetricsMatchVouchers
    /\ IsFiniteSet(producer)
    /\ Cardinality(producer) <= QueueLimit
    /\ handled \in 0 .. MaxHandled

(* The counters by name (server.rs:40-100).                                *)
LEMMA CounterNames ==
    DOMAIN NoMetrics = {"success", "failure", "version_error", "receipts", "grt",
                        "published", "unpublished"}
BY DEF NoMetrics

(* The sum taken before the checks is the one the RAV adds: had it wrapped *)
(* around, aggregate_receipts would have refused.                          *)
LEMMA AnswerIsCounted ==
    ASSUME NEW receipts \in Requests, NEW previous,
           previous = NoRav \/ (previous \in Rav /\ Backed(previous)),
           RegistryTypeOK,
           NEW rav \in check_and_aggregate_receipts(receipts, previous)
    PROVE  /\ receipts_grt(receipts) \in Nat
           /\ rav.value - previous.value = receipts_grt(receipts)
           /\ Len(receipts) \in Nat
           /\ Cardinality(rav.sources \ previous.sources) = Len(receipts)
<1> DEFINE total == TotalValue(Entries(receipts))
           named == {receipts[i] : i \in DOMAIN receipts}
<1>1. Accepts(receipts, previous)
  BY DEF check_and_aggregate_receipts
<1>2. /\ rav \in Rav
      /\ rav.sources = previous.sources \cup named
      /\ previous.sources \cap named = {}
      /\ rav.value = previous.value + total
      /\ total \in Nat
  BY <1>1, AnswerIsBacked
<1>3. previous.value \in Nat
  BY MaxValueAssumption DEF NoRav, Rav, Values
<1>4. rav.value <= MaxValue /\ rav.value \in Nat
  BY <1>2, MaxValueAssumption DEF Rav, Values
<1>5. total <= MaxValue
  BY <1>2, <1>3, <1>4, MaxValueAssumption
<1>6. total % (MaxValue + 1) = total
  BY <1>2, <1>5, MaxValueAssumption
<1>7. rav.sources \ previous.sources = named
  BY <1>2
<1>8. Cardinality(named) = Len(receipts) /\ Len(receipts) \in Nat
  BY <1>1, RequestBatch DEF Accepts
<1>9. receipts_grt(receipts) = total
  BY <1>6 DEF receipts_grt
<1>10. Cardinality(rav.sources \ previous.sources) = Len(receipts)
  BY <1>7, <1>8
<1> HIDE DEF total, named
<1>11. rav.value - previous.value = total
  BY <1>2, <1>3
<1> QED BY <1>2, <1>8, <1>9, <1>10, <1>11

(* A record is queued while there is room.                                 *)
LEMMA QueueStays ==
    ASSUME IsFiniteSet(producer), Cardinality(producer) <= QueueLimit,
           NEW rav, produce_kafka_records(rav)
    PROVE  IsFiniteSet(producer') /\ Cardinality(producer') <= QueueLimit
<1>1. Cardinality(producer) \in Nat /\ QueueLimit \in Nat
  BY FS_CardinalityType, ServerAssumption
<1>2. CASE Queued
  <2>1. producer' = producer \cup {KafkaRecord(rav)}
    BY <1>2 DEF produce_kafka_records
  <2>2. IsFiniteSet(producer') /\ Cardinality(producer') <= Cardinality(producer) + 1
    BY <1>1, <2>1, FS_AddElement
  <2>3. Cardinality(producer') \in Nat
    BY <2>2, FS_CardinalityType
  <2> QED BY <1>1, <1>2, <2>2, <2>3 DEF Queued
<1>3. CASE ~Queued
  BY <1>3 DEF produce_kafka_records
<1> QED BY <1>2, <1>3

(* A request that is answered with a RAV counts what it adds.              *)
LEMMA SucceedCounts ==
    ASSUME MetricsInv, RegistryTypeOK, Running,
           NEW receipts \in Requests, NEW previous,
           previous = NoRav \/ (previous \in Rav /\ Backed(previous)),
           NEW rav \in check_and_aggregate_receipts(receipts, previous), NEW read,
           Succeed(receipts, previous, rav, read)
    PROVE  MetricsInv'
<1> DEFINE grt == receipts_grt(receipts)
<1>1. /\ grt \in Nat /\ rav.value - previous.value = grt
      /\ Len(receipts) \in Nat
      /\ Cardinality(rav.sources \ previous.sources) = Len(receipts)
  BY AnswerIsCounted
<1>2. /\ metrics' = CountSuccess(receipts, grt, metrics)
      /\ promised' = [value |-> promised.value + grt,
                      receipts |-> promised.receipts + Len(receipts)]
      /\ produce_kafka_records(rav)
      /\ handled' = handled + 1
  BY <1>1 DEF Succeed
<1>a. grt \in Nat /\ Len(receipts) \in Nat
  BY <1>1
<1> HIDE DEF grt
<1>3. /\ metrics' \in Counters
      /\ metrics'.grt = metrics.grt + grt
      /\ metrics'.receipts = metrics.receipts + Len(receipts)
      /\ metrics'.success = metrics.success + 1
      /\ metrics'.failure = metrics.failure
      /\ metrics'.version_error = metrics.version_error
      /\ \/ /\ metrics'.published = metrics.published + 1
            /\ metrics'.unpublished = metrics.unpublished
         \/ /\ metrics'.published = metrics.published
            /\ metrics'.unpublished = metrics.unpublished + 1
  <2>1. metrics \in Counters
    BY DEF MetricsInv
  <2>2. \A name \in DOMAIN NoMetrics : metrics[name] \in Nat
    BY <2>1 DEF Counters
  <2>3. CASE Queued
    <3>1. metrics' = [metrics EXCEPT !.success = @ + 1,
                         !.receipts = @ + Len(receipts), !.grt = @ + grt,
                         !.published = @ + 1, !.unpublished = @]
      BY <1>2, <2>3 DEF CountSuccess
    <3>2. /\ metrics'.grt = metrics.grt + grt
          /\ metrics'.receipts = metrics.receipts + Len(receipts)
          /\ metrics'.success = metrics.success + 1
          /\ metrics'.failure = metrics.failure
          /\ metrics'.version_error = metrics.version_error
          /\ metrics'.published = metrics.published + 1
          /\ metrics'.unpublished = metrics.unpublished
      BY <2>1, <3>1, CounterNames DEF Counters
    <3>3. metrics' \in Counters
      <4>1. metrics' = [name \in DOMAIN NoMetrics |-> metrics'[name]]
        BY <2>1, <3>1 DEF Counters
      <4>2. \A name \in DOMAIN NoMetrics : metrics'[name] \in Nat
        <5>1. /\ metrics.success \in Nat /\ metrics.failure \in Nat
              /\ metrics.version_error \in Nat /\ metrics.receipts \in Nat
              /\ metrics.grt \in Nat /\ metrics.published \in Nat
              /\ metrics.unpublished \in Nat
          BY <2>2, CounterNames
        <5>2. /\ metrics'.success \in Nat /\ metrics'.failure \in Nat
              /\ metrics'.version_error \in Nat /\ metrics'.receipts \in Nat
              /\ metrics'.grt \in Nat /\ metrics'.published \in Nat
              /\ metrics'.unpublished \in Nat
          <6>1. metrics'.success \in Nat
            BY <3>2, <5>1
          <6>2. metrics'.grt \in Nat /\ metrics'.receipts \in Nat
            BY <1>a, <3>2, <5>1
          <6> QED BY <3>2, <5>1, <6>1, <6>2
        <5> QED BY <5>2, CounterNames
      <4> QED BY <4>1, <4>2 DEF Counters
    <3> QED BY <3>2, <3>3
  <2>4. CASE ~Queued
    <3>1. metrics' = [metrics EXCEPT !.success = @ + 1,
                         !.receipts = @ + Len(receipts), !.grt = @ + grt,
                         !.published = @, !.unpublished = @ + 1]
      BY <1>2, <2>4 DEF CountSuccess
    <3>2. /\ metrics'.grt = metrics.grt + grt
          /\ metrics'.receipts = metrics.receipts + Len(receipts)
          /\ metrics'.success = metrics.success + 1
          /\ metrics'.failure = metrics.failure
          /\ metrics'.version_error = metrics.version_error
          /\ metrics'.published = metrics.published
          /\ metrics'.unpublished = metrics.unpublished + 1
      BY <2>1, <3>1, CounterNames DEF Counters
    <3>3. metrics' \in Counters
      <4>1. metrics' = [name \in DOMAIN NoMetrics |-> metrics'[name]]
        BY <2>1, <3>1 DEF Counters
      <4>2. \A name \in DOMAIN NoMetrics : metrics'[name] \in Nat
        <5>1. /\ metrics.success \in Nat /\ metrics.failure \in Nat
              /\ metrics.version_error \in Nat /\ metrics.receipts \in Nat
              /\ metrics.grt \in Nat /\ metrics.published \in Nat
              /\ metrics.unpublished \in Nat
          BY <2>2, CounterNames
        <5>2. /\ metrics'.success \in Nat /\ metrics'.failure \in Nat
              /\ metrics'.version_error \in Nat /\ metrics'.receipts \in Nat
              /\ metrics'.grt \in Nat /\ metrics'.published \in Nat
              /\ metrics'.unpublished \in Nat
          <6>1. metrics'.success \in Nat
            BY <3>2, <5>1
          <6>2. metrics'.grt \in Nat /\ metrics'.receipts \in Nat
            BY <1>a, <3>2, <5>1
          <6> QED BY <3>2, <5>1, <6>1, <6>2
        <5> QED BY <5>2, CounterNames
      <4> QED BY <4>1, <4>2 DEF Counters
    <3> QED BY <3>2, <3>3
  <2> QED BY <2>3, <2>4
<1>4. /\ promised'.value = promised.value + grt
      /\ promised'.receipts = promised.receipts + Len(receipts)
      /\ promised' = [value |-> promised'.value, receipts |-> promised'.receipts]
  BY <1>2
<1>5. MetricsMatchVouchers'
  <2>1. /\ metrics.grt \in Nat /\ metrics.receipts \in Nat /\ metrics.success \in Nat
        /\ metrics.published \in Nat /\ metrics.unpublished \in Nat
    <3>1. \A name \in DOMAIN NoMetrics : metrics[name] \in Nat
      BY DEF MetricsInv, Counters
    <3> QED BY <3>1, CounterNames
  <2>2. /\ metrics.grt = promised.value /\ metrics.receipts = promised.receipts
        /\ metrics.published + metrics.unpublished = metrics.success
        /\ metrics.version_error <= metrics.failure
    BY DEF MetricsInv, MetricsMatchVouchers
  <2>3. metrics'.grt = promised'.value /\ metrics'.receipts = promised'.receipts
    BY <1>3, <1>4, <2>2
  <2>4. metrics'.published + metrics'.unpublished = metrics'.success
    <3>1. CASE /\ metrics'.published = metrics.published + 1
               /\ metrics'.unpublished = metrics.unpublished
      BY <1>3, <2>1, <2>2, <3>1
    <3>2. CASE /\ metrics'.published = metrics.published
               /\ metrics'.unpublished = metrics.unpublished + 1
      BY <1>3, <2>1, <2>2, <3>2
    <3> QED BY <1>3, <3>1, <3>2
  <2>5. metrics'.version_error <= metrics'.failure
    BY <1>3, <2>2
  <2> QED BY <2>3, <2>4, <2>5 DEF MetricsMatchVouchers
<1>6. IsFiniteSet(producer') /\ Cardinality(producer') <= QueueLimit
  BY <1>2, QueueStays DEF MetricsInv
<1>7. handled' \in 0 .. MaxHandled
  BY <1>2, ServerAssumption DEF Running, MetricsInv
<1> QED BY <1>3, <1>4, <1>5, <1>6, <1>7 DEF MetricsInv

(* A request that is not: a failure, for its version or otherwise.         *)
LEMMA FailureCounts ==
    ASSUME MetricsInv, Running, UNCHANGED <<producer, promised>>,
           handled' = handled + 1,
           \/ metrics' = [metrics EXCEPT !.failure = @ + 1]
           \/ metrics' = [metrics EXCEPT !.failure = @ + 1, !.version_error = @ + 1]
    PROVE  MetricsInv'
<1>1. metrics \in Counters
  BY DEF MetricsInv
<1>2. \A name \in DOMAIN NoMetrics : metrics[name] \in Nat
  BY <1>1 DEF Counters
<1>3. /\ metrics' \in Counters
      /\ \A name \in DOMAIN NoMetrics \ {"failure", "version_error"} :
            metrics'[name] = metrics[name]
      /\ metrics'.failure = metrics.failure + 1
      /\ \/ metrics'.version_error = metrics.version_error
         \/ metrics'.version_error = metrics.version_error + 1
  <2>1. CASE metrics' = [metrics EXCEPT !.failure = @ + 1]
    BY <1>1, <1>2, <2>1, CounterNames DEF Counters
  <2>2. CASE metrics' = [metrics EXCEPT !.failure = @ + 1, !.version_error = @ + 1]
    <3>1. /\ metrics'.failure = metrics.failure + 1
          /\ metrics'.version_error = metrics.version_error + 1
          /\ \A name \in DOMAIN NoMetrics \ {"failure", "version_error"} :
                metrics'[name] = metrics[name]
      BY <1>1, <2>2, CounterNames DEF Counters
    <3>2. metrics' = [name \in DOMAIN NoMetrics |-> metrics'[name]]
      BY <1>1, <2>2 DEF Counters
    <3>3. \A name \in DOMAIN NoMetrics : metrics'[name] \in Nat
      BY <1>2, <3>1, CounterNames
    <3> QED BY <3>1, <3>2, <3>3 DEF Counters
  <2> QED BY <2>1, <2>2
<1>4. MetricsMatchVouchers'
  BY <1>2, <1>3, CounterNames DEF MetricsInv, MetricsMatchVouchers
<1>5. handled' \in 0 .. MaxHandled
  BY ServerAssumption DEF Running, MetricsInv
<1> QED BY <1>3, <1>4, <1>5 DEF MetricsInv

(* A new process has counted and promised nothing.                         *)
LEMMA MetricsStart ==
    ASSUME NEW m, m = NoMetrics, NEW p, p = NothingPromised
    PROVE  /\ m \in Counters
           /\ p = [value |-> p.value, receipts |-> p.receipts]
           /\ m.grt = p.value /\ m.receipts = p.receipts
           /\ m.published + m.unpublished = m.success
           /\ m.version_error <= m.failure
           /\ IsFiniteSet({}) /\ Cardinality({}) <= QueueLimit
           /\ 0 \in 0 .. MaxHandled
<1>1. NoMetrics \in Counters
  BY DEF Counters, NoMetrics
<1>2. IsFiniteSet({}) /\ Cardinality({}) <= QueueLimit
  BY FS_EmptySet, ServerAssumption
<1> QED BY <1>1, <1>2, ServerAssumption DEF NoMetrics, NothingPromised

(* Every step of the server's counts what it did.                          *)
LEMMA MetricsStep ==
    ASSUME ServerInv, RegistryTypeOK, RavsAreBacked, MetricsInv,
           [ServerNext]_serverVars
    PROVE  MetricsInv'
<1>1. CASE UNCHANGED <<metrics, producer, promised, handled>>
  BY <1>1 DEF MetricsInv, MetricsMatchVouchers
<1>2. \A previous \in PreviousRavs :
         previous = NoRav \/ (previous \in Rav /\ Backed(previous))
  <2>1. ravs \subseteq Rav /\ \A rav \in ravs : Backed(rav)
    BY DEF RavsAreBacked
  <2> QED BY <2>1 DEF PreviousRavs
<1>3. ASSUME NEW receipts \in Requests, NEW previous \in PreviousRavs, Running,
             NEW rav \in check_and_aggregate_receipts(receipts, previous), NEW read,
             Succeed(receipts, previous, rav, read)
      PROVE  MetricsInv'
  BY <1>2, <1>3, SucceedCounts
<1>4. ASSUME NEW receipts, Running, Refuse(receipts)
      PROVE  MetricsInv'
  BY <1>4, FailureCounts DEF Refuse, CountFailure
<1>5. ASSUME NEW receipts \in Requests,
             NEW previous \in {{rav} : rav \in HeldRavs} \cup {{}},
             AggregateGrpc(RavRequest(receipts, previous))
      PROVE  MetricsInv'
  <2> DEFINE request == RavRequest(receipts, previous)
  <2>1. previous = {} \/ \E rav \in ravs : previous = {rav} /\ IsRav(rav)
    BY <1>5 DEF HeldRavs, ServerInv, AnswersAreSigned
  <2>2. receipts_of(request) \subseteq {receipts}
    BY RequestReturns
  <2>3. previous_rav_of(request) = IF previous = {} THEN {NoRav} ELSE previous
    BY <2>1, PreviousReturns
  <2>4. previous_rav_of(request) \subseteq PreviousRavs
    BY <2>1, <2>3 DEF PreviousRavs
  <2>5. Running
    BY <1>5 DEF AggregateGrpc
  <2>6. PICK held \in PreviousRavs :
          \/ \E rav \in check_and_aggregate_receipts(receipts, held) :
                Succeed(receipts, held, rav, signed_rav(RavResponse(rav)))
          \/ Refuse(receipts)
    BY <1>5, <2>2, <2>4 DEF AggregateGrpc
  <2> QED BY <1>3, <1>4, <2>5, <2>6
<1>6. ASSUME NEW api_version \in Versions, NEW receipts \in Requests,
             NEW previous \in HeldRavs \cup {NoRav},
             AggregateJson(api_version, receipts, previous)
      PROVE  MetricsInv'
  <2>1. previous \in PreviousRavs /\ Running
    BY <1>6 DEF HeldRavs, PreviousRavs, ServerInv, AnswersAreSigned, AggregateJson
  <2>2. \/ \E rav \in check_and_aggregate_receipts(receipts, previous) :
              Succeed(receipts, previous, rav, {rav})
        \/ Refuse(receipts)
        \/ /\ metrics' = [metrics EXCEPT !.failure = @ + 1, !.version_error = @ + 1]
           /\ handled' = handled + 1
           /\ UNCHANGED <<producer, promised>>
    BY <1>6 DEF AggregateJson
  <2> QED BY <1>3, <1>4, <2>1, <2>2, FailureCounts
<1>7. ASSUME NEW record \in producer, Deliver(record)
      PROVE  MetricsInv'
  <2>1. /\ producer' = producer \ {record}
        /\ UNCHANGED <<metrics, promised, handled>>
    BY <1>7 DEF Deliver
  <2>2. IsFiniteSet(producer) /\ Cardinality(producer) <= QueueLimit
    BY DEF MetricsInv
  <2>3. /\ IsFiniteSet(producer') /\ Cardinality(producer') <= Cardinality(producer)
        /\ Cardinality(producer) \in Nat /\ Cardinality(producer') \in Nat
    BY <2>1, <2>2, FS_Subset, FS_CardinalityType
  <2>4. IsFiniteSet(producer') /\ Cardinality(producer') <= QueueLimit
    BY <2>2, <2>3, ServerAssumption
  <2> QED BY <2>1, <2>4 DEF MetricsInv, MetricsMatchVouchers
<1>8. CASE Restart
  <2>1. /\ metrics' = NoMetrics /\ promised' = NothingPromised /\ producer' = {}
        /\ handled' = handled
    BY <1>8 DEF Restart
  <2> QED BY <2>1, MetricsStart DEF MetricsInv, MetricsMatchVouchers
<1> QED BY <1>1, <1>5, <1>6, <1>7, <1>8 DEF ServerNext, Startup, serverVars

(* The metrics count what the RAVs of the process promised, no more and no *)
(* less, whatever requests are refused, retried or lost, and however their *)
(* unchecked sum wraps around (server.rs:57).                              *)
THEOREM MetricsAreTrue == ServerSpec => []MetricsMatchVouchers
<1>1. ServerInit => MetricsInv
  BY MetricsStart DEF ServerInit, MetricsInv, MetricsMatchVouchers
<1>2. ServerInv /\ RegistryTypeOK /\ RavsAreBacked /\ MetricsInv
      /\ [ServerNext]_serverVars => (ServerInv /\ MetricsInv)'
  BY MetricsStep, ServerStep
<1>3. MetricsInv => MetricsMatchVouchers
  BY DEF MetricsInv
<1> QED BY <1>1, <1>2, <1>3, ServerStart, ServerKeepsBacked, PTL DEF ServerSpec

(* The server keeps its shape; the producer never holds more than it may.  *)
THEOREM ServerTypeCorrect == ServerSpec => []ServerTypeOK
<1>1. ServerInit => MetricsInv
  BY MetricsStart DEF ServerInit, MetricsInv, MetricsMatchVouchers
<1>2. ServerInv /\ RegistryTypeOK /\ RavsAreBacked /\ MetricsInv
      /\ [ServerNext]_serverVars => (ServerInv /\ MetricsInv)'
  BY MetricsStep, ServerStep
<1>3. TypeOK /\ RavsAreBacked /\ MetricsInv /\ ServerInv => ServerTypeOK
  BY DEF ServerTypeOK, MetricsInv, Counters, ServerInv, RavsAreBacked, AnswersAreSigned
<1>4. ServerSpec => []TypeOK
  <2>1. ServerSpec => Spec
    BY ServerImplementsAggregator DEF ImplementsAggregator
  <2> QED BY <2>1, TypeCorrect, PTL
<1> QED BY <1>1, <1>2, <1>3, <1>4, ServerStart, ServerKeepsBacked, PTL DEF ServerSpec

(***************************************************************************)
(* RavFeed.                                                                *)
(***************************************************************************)
(* Every entry of the table is a record of the topic, signed by one of our *)
(* signers, and it is no less than any such record processed.              *)
TableMatchesTopic ==
    /\ consumed \subseteq gateway_ravs
    /\ \A s \in DOMAIN allocation_ravs :
          \E record \in gateway_ravs :
             /\ record.payer \in FeedSigners
             /\ record.stream = s
             /\ record.value = allocation_ravs[s]
    /\ \A record \in consumed :
          record.payer \in FeedSigners =>
             /\ record.stream \in DOMAIN allocation_ravs
             /\ record.value <= allocation_ravs[record.stream]

(* The server runs on, whatever the manager does with the topic.           *)
LEMMA ServerRuns == FeedSpec => ServerSpec
<1>1. FeedInit => ServerInit
  BY DEF FeedInit
<1>2. [FeedNext]_feedVars => [ServerNext]_serverVars
  BY DEF FeedNext, Serve, ProcessRecord, RestartManager, feedVars
<1> QED BY <1>1, <1>2, PTL DEF FeedSpec, ServerSpec

(* A record of the topic is the record of a signed RAV.                    *)
LEMMA RecordOfRav ==
    ASSUME RavsAreBacked, NEW record \in gateway_ravs
    PROVE  \E rav \in ravs :
              /\ record = KafkaRecord(rav)
              /\ rav \in Rav /\ Backed(rav)
              /\ record.payer = rav.payer /\ record.stream = rav.stream
              /\ record.value = rav.value
<1>1. PICK rav \in ravs : record = KafkaRecord(rav)
  BY DEF RavsAreBacked
<1>2. rav \in Rav /\ Backed(rav)
  BY DEF RavsAreBacked
<1> QED BY <1>1, <1>2 DEF KafkaRecord

(* The fields of such a record.                                            *)
LEMMA RecordFields ==
    ASSUME RavsAreBacked, NEW record \in gateway_ravs
    PROVE  /\ record.payer \in Payers
           /\ record.stream \in {r.stream : r \in Receipts}
           /\ record.value \in Values
BY RecordOfRav DEF Rav

(* The topic only grows.                                                   *)
LEMMA TopicGrows ==
    ASSUME ServerInv, [ServerNext]_serverVars
    PROVE  gateway_ravs \subseteq gateway_ravs'
<1>1. [Next]_vars
  BY ServerStep
<1> QED BY <1>1 DEF Next, Build, AggregateReceipts, Publish, vars

(* One record more is counted: an entry is replaced only by a larger one.  *)
LEMMA RecordIsCounted ==
    ASSUME TableMatchesTopic, RavsAreBacked,
           NEW message \in gateway_ravs, ProcessRecord(message)
    PROVE  TableMatchesTopic'
<1> DEFINE record == parse_record(message)
<1>1. /\ record.signer = message.payer
      /\ record.allocation = message.stream
      /\ record.value = message.value
  BY DEF parse_record
<1>2. /\ consumed' = consumed \cup {message}
      /\ allocation_ravs' = IF IsOurs(record) /\ IsLarger(record)
                            THEN Insert(allocation_ravs, record.allocation, record.value)
                            ELSE allocation_ravs
      /\ gateway_ravs' = gateway_ravs
  <2>1. serverVars' = serverVars
    BY DEF ProcessRecord
  <2> QED BY <2>1 DEF ProcessRecord, serverVars, vars
<1>3. \A k \in gateway_ravs : k.value \in Int
  BY RecordFields, MaxValueAssumption DEF Values
<1>4. \A s \in DOMAIN allocation_ravs : allocation_ravs[s] \in Int
  BY <1>3 DEF TableMatchesTopic
<1>5. \A k \in consumed : k \in gateway_ravs
  BY DEF TableMatchesTopic
<1> HIDE DEF record
<1>6. CASE ~ IsOurs(record)
  BY <1>1, <1>2, <1>6 DEF TableMatchesTopic, IsOurs
<1>7. CASE IsOurs(record) /\ ~ IsLarger(record)
  <2>1. /\ allocation_ravs' = allocation_ravs
        /\ message.stream \in DOMAIN allocation_ravs
        /\ message.value <= allocation_ravs[message.stream]
    BY <1>1, <1>2, <1>3, <1>4, <1>7 DEF IsLarger
  <2> QED BY <1>2, <2>1 DEF TableMatchesTopic
<1>8. CASE IsOurs(record) /\ IsLarger(record)
  <2>1. allocation_ravs' = Insert(allocation_ravs, message.stream, message.value)
    BY <1>1, <1>2, <1>8
  <2>2. /\ DOMAIN allocation_ravs' = DOMAIN allocation_ravs \cup {message.stream}
        /\ allocation_ravs'[message.stream] = message.value
        /\ \A s \in DOMAIN allocation_ravs :
              s # message.stream => allocation_ravs'[s] = allocation_ravs[s]
    BY <2>1 DEF Insert
  <2>3. message.stream \in DOMAIN allocation_ravs =>
           allocation_ravs[message.stream] < message.value
    BY <1>1, <1>8 DEF IsLarger
  <2>4. message.payer \in FeedSigners
    BY <1>1, <1>8 DEF IsOurs
  <2>5. \A s \in DOMAIN allocation_ravs' :
           \E k \in gateway_ravs' :
              k.payer \in FeedSigners /\ k.stream = s /\ k.value = allocation_ravs'[s]
    BY <1>2, <2>2, <2>4 DEF TableMatchesTopic
  <2>6. ASSUME NEW k \in consumed', k.payer \in FeedSigners
        PROVE  /\ k.stream \in DOMAIN allocation_ravs'
               /\ k.value <= allocation_ravs'[k.stream]
    <3>1. CASE k = message
      BY <1>3, <2>2, <3>1
    <3>2. CASE k \in consumed /\ k.stream # message.stream
      BY <2>2, <2>6, <3>2 DEF TableMatchesTopic
    <3>3. CASE k \in consumed /\ k.stream = message.stream
      <4>1. /\ message.stream \in DOMAIN allocation_ravs
            /\ k.value <= allocation_ravs[message.stream]
        BY <2>6, <3>3 DEF TableMatchesTopic
      <4>2. k.value \in Int /\ message.value \in Int
        BY <1>3, <1>5, <3>3
      <4> QED BY <1>4, <2>2, <2>3, <3>3, <4>1, <4>2
    <3> QED BY <1>2, <3>1, <3>2, <3>3
  <2>7. consumed' \subseteq gateway_ravs'
    BY <1>2 DEF TableMatchesTopic
  <2> QED BY <2>5, <2>6, <2>7 DEF TableMatchesTopic
<1> QED BY <1>6, <1>7, <1>8

(* So does every step of the server, the consumer and the process.         *)
LEMMA TableStep ==
    ASSUME TableMatchesTopic, RavsAreBacked, ServerInv, [FeedNext]_feedVars
    PROVE  TableMatchesTopic'
<1>1. CASE Serve
  <2>1. gateway_ravs \subseteq gateway_ravs' /\ UNCHANGED <<allocation_ravs, consumed>>
    BY <1>1, TopicGrows DEF Serve
  <2> QED BY <2>1 DEF TableMatchesTopic
<1>2. ASSUME NEW message \in gateway_ravs, ProcessRecord(message)
      PROVE  TableMatchesTopic'
  BY <1>2, RecordIsCounted
<1>3. CASE RestartManager
  <2>1. consumed' = {} /\ DOMAIN allocation_ravs' = {}
    BY <1>3 DEF RestartManager, Nothing
  <2> QED BY <2>1 DEF TableMatchesTopic
<1>4. CASE UNCHANGED feedVars
  BY <1>4 DEF TableMatchesTopic, feedVars, serverVars, vars
<1> QED BY <1>1, <1>2, <1>3, <1>4 DEF FeedNext

(* From an empty table on, however often the manager is restarted.         *)
LEMMA AlwaysMatches == FeedSpec => [](RavsAreBacked /\ TableMatchesTopic)
<1>1. FeedInit => TableMatchesTopic
  BY DEF FeedInit, ServerInit, Init, TableMatchesTopic, Nothing
<1>2. ServerInv /\ [ServerNext]_serverVars => ServerInv'
  BY ServerStep
<1>3. TableMatchesTopic /\ RavsAreBacked /\ ServerInv /\ [FeedNext]_feedVars
      => TableMatchesTopic'
  BY TableStep
<1> QED BY <1>1, <1>2, <1>3, ServerRuns, ServerStart, ServerKeepsBacked, PTL
        DEF FeedSpec, ServerSpec

-----------------------------------------------------------------------------
(* The table of the manager keeps its shape next to the server's state.    *)
THEOREM FeedTypeCorrect == FeedSpec => []FeedTypeOK
<1>1. ServerTypeOK /\ RavsAreBacked /\ TableMatchesTopic => FeedTypeOK
  BY RecordFields DEF FeedTypeOK, TableMatchesTopic
<1> QED BY <1>1, ServerRuns, ServerTypeCorrect, AlwaysMatches, PTL

(* The largest processed record of an allocation that charges the payer is *)
(* its debt at least, if the payer is one of the signers the manager is    *)
(* configured with (kafka.rs, module ravs; README.md:26).                  *)
LEMMA ProcessedIsCovered ==
    ASSUME ManagerPayer \in FeedSigners, TableMatchesTopic, RavsAreBacked
    PROVE  RavsCountAsDebt /\ LaterRavsCover
<1>1. RavsCountAsDebt
  BY DEF RavsCountAsDebt, TableMatchesTopic, RavDebt
<1>2. ASSUME NEW rav \in ravs, NEW later \in ravs, rav.payer = ManagerPayer,
             SameIds(rav, later), rav.sources \subseteq later.sources,
             KafkaRecord(later) \in consumed
      PROVE  RavDebt(rav.stream) >= rav.value
  <2>1. /\ KafkaRecord(later).payer = ManagerPayer
        /\ KafkaRecord(later).stream = rav.stream
        /\ KafkaRecord(later).value = later.value
    BY <1>2 DEF KafkaRecord, SameIds
  <2>2. RavDebt(rav.stream) >= later.value
    BY <1>1, <1>2, <2>1 DEF RavsCountAsDebt
  <2>3. rav \in Rav /\ Backed(rav) /\ later \in Rav /\ Backed(later)
    BY DEF RavsAreBacked
  <2>4. IsFiniteSet(later.sources) /\ \A r \in later.sources : r.value \in Nat
    BY <2>3, AggregatorAssumption, FS_Subset DEF Rav
  <2>5. rav.value <= later.value
    BY <1>2, <2>3, <2>4, WorthOfParts DEF Backed
  <2>6. RavDebt(rav.stream) \in Int
    <3>1. \A s \in DOMAIN allocation_ravs : allocation_ravs[s] \in Int
      BY RecordFields, MaxValueAssumption DEF TableMatchesTopic, Values
    <3> QED BY <3>1 DEF RavDebt
  <2>7. rav.value \in Int /\ later.value \in Int
    BY <2>3, MaxValueAssumption DEF Rav, Values
  <2> QED BY <2>2, <2>5, <2>6, <2>7
<1> QED BY <1>1, <1>2 DEF LaterRavsCover

(* Every processed RAV counts as debt, in whatever order the records come, *)
(* and however often the manager is restarted.                             *)
THEOREM ProcessedRavsCount ==
    ASSUME ManagerPayer \in FeedSigners
    PROVE  FeedSpec => []RavsCountAsDebt
<1>1. TableMatchesTopic /\ RavsAreBacked => RavsCountAsDebt
  BY ProcessedIsCovered
<1> QED BY <1>1, AlwaysMatches, PTL

(* A lost record is covered by the record of any RAV on top of its RAV.    *)
THEOREM LostRecordsHeal ==
    ASSUME ManagerPayer \in FeedSigners
    PROVE  FeedSpec => []LaterRavsCover
<1>1. TableMatchesTopic /\ RavsAreBacked => LaterRavsCover
  BY ProcessedIsCovered
<1> QED BY <1>1, AlwaysMatches, PTL

(* The manager never puts aside more for a RAV than the receipts of its    *)
(* payer are worth, if no other payer is among its signers.                *)
THEOREM DebtIsOwed ==
    ASSUME FeedSigners \cap Payers \subseteq {ManagerPayer}
    PROVE  FeedSpec => []RavDebtIsOwed
<1>1. ASSUME TableMatchesTopic, RavsAreBacked, NEW s \in DOMAIN allocation_ravs
      PROVE  allocation_ravs[s] <= MapThenSumSet(LAMBDA r : r.value,
                {r \in Receipts : r.payer = ManagerPayer /\ r.stream = s})
  <2> DEFINE owed == {r \in Receipts : r.payer = ManagerPayer /\ r.stream = s}
  <2>1. PICK record \in gateway_ravs :
           /\ record.payer \in FeedSigners /\ record.stream = s
           /\ record.value = allocation_ravs[s]
    BY <1>1 DEF TableMatchesTopic
  <2>2. PICK rav \in ravs :
           /\ rav \in Rav /\ Backed(rav)
           /\ record.payer = rav.payer /\ record.stream = rav.stream
           /\ record.value = rav.value
    BY <1>1, RecordOfRav
  <2>3. rav.payer = ManagerPayer /\ rav.stream = s
    BY <2>1, <2>2 DEF Rav
  <2>4. rav.sources \subseteq owed
    BY <2>2, <2>3 DEF Rav, Backed, SameIds
  <2>5. IsFiniteSet(owed) /\ \A r \in owed : r.value \in Nat
    BY AggregatorAssumption, FS_Subset
  <2> HIDE DEF owed
  <2>6. rav.value <= MapThenSumSet(LAMBDA r : r.value, owed)
    BY <2>2, <2>4, <2>5, WorthOfParts DEF Backed
  <2> QED BY <2>1, <2>2, <2>6 DEF owed
<1>2. TableMatchesTopic /\ RavsAreBacked => RavDebtIsOwed
  BY <1>1 DEF RavDebtIsOwed
<1> QED BY <1>2, AlwaysMatches, PTL
=============================================================================
