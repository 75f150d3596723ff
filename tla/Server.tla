------------------------------- MODULE Server -------------------------------
(***************************************************************************)
(* The aggregator as a running server (crates/bin/aggregator/src/server.rs)*)
(* around the Aggregator's checks: a JSON-RPC endpoint and two gRPC        *)
(* services that share one implementation, the metrics, and the producer   *)
(* that carries the records to Kafka.                                      *)
(*                                                                         *)
(* A handler has no await, and what it shares with others are counters and *)
(* a queue, so a request is one step.  The answer may get lost, the client *)
(* may retry, and the process may exit at any time: it then loses its      *)
(* metrics and what the producer had queued.                               *)
(***************************************************************************)
EXTENDS Aggregator, Wire

CONSTANTS
    Versions,      \* api_version strings a JSON-RPC client may send
    QueueLimit,    \* records the producer may have queued
    MaxHandled     \* bound: requests handled, over all restarts

ASSUME ServerAssumption ==
    /\ MaxValue = HalfBase * HalfBase - 1
    /\ QueueLimit \in Nat /\ MaxHandled \in Nat

(* The fields of a signed message; a RAV has no nonce.  Sources is history.*)
IsReceipt(r) ==
    /\ r = [payer |-> r.payer, stream |-> r.stream,
            timestamp_ns |-> r.timestamp_ns, value |-> r.value,
            signer |-> r.signer, nonce |-> r.nonce]
    /\ r.value \in Values

IsRav(r) ==
    /\ r = [payer |-> r.payer, stream |-> r.stream,
            timestamp_ns |-> r.timestamp_ns, value |-> r.value,
            signer |-> r.signer, sources |-> r.sources]
    /\ r.value \in Values

ASSUME MessageAssumption ==
    /\ \A r \in Receipts : IsReceipt(r)
    /\ \A r \in EarlierRavs : IsRav(r)

VARIABLES
    metrics,    \* the Prometheus counters
    producer,   \* records queued by the ThreadedProducer
    answers,    \* history: the RAVs as the clients read them
    promised,   \* history: value and receipts that the RAVs of this process
                \*   added to their previous RAVs
    handled     \* requests handled

serverVars == <<vars, metrics, producer, answers, promised, handled>>

NoMetrics == [success |-> 0, failure |-> 0, version_error |-> 0,
              receipts |-> 0, grt |-> 0, published |-> 0, unpublished |-> 0]

NothingPromised == [value |-> 0, receipts |-> 0]

ServerInit ==
    /\ Init
    /\ metrics = NoMetrics
    /\ producer = {}
    /\ answers = {}
    /\ promised = NothingPromised
    /\ handled = 0

(* SignerRegistry::build before the server starts.                         *)
Startup == Build /\ UNCHANGED <<metrics, producer, answers, promised, handled>>

Running == status = "built" /\ handled < MaxHandled

(***************************************************************************)
(* The handlers.                                                           *)
(***************************************************************************)

(* The sum for total_aggregated_grt, over u128 and before any check: it    *)
(* wraps in a release build, where a debug build ends the request.         *)
receipts_grt(receipts) == TotalValue(Entries(receipts)) % (MaxValue + 1)

(* Mutant: every request counts, answered or not.                          *)
CountsAlways(receipts, grt, m) ==
    [m EXCEPT !.failure = @ + 1, !.grt = @ + grt, !.receipts = @ + Len(receipts)]

(* What an error leaves of a request.                                      *)
CountFailure(receipts, grt, m) == [m EXCEPT !.failure = @ + 1]

Queued == Cardinality(producer) < QueueLimit

CountSuccess(receipts, grt, m) ==
    [m EXCEPT !.success = @ + 1, !.receipts = @ + Len(receipts), !.grt = @ + grt,
              !.published   = IF Queued THEN @ + 1 ELSE @,
              !.unpublished = IF Queued THEN @ ELSE @ + 1]

(* produce_kafka_records: queued, or counted as failed.                    *)
produce_kafka_records(rav) ==
    producer' = IF Queued THEN producer \cup {KafkaRecord(rav)} ELSE producer

(* check_and_aggregate_receipts refused the request.                       *)
Refuse(receipts) ==
    /\ metrics' = CountFailure(receipts, receipts_grt(receipts), metrics)
    /\ handled' = handled + 1
    /\ UNCHANGED <<vars, producer, answers, promised>>

(* It made a RAV; read is what the client reads in the answer, a set of at *)
(* most one RAV.                                                           *)
Succeed(receipts, previous, rav, read) ==
    /\ metrics' = CountSuccess(receipts, receipts_grt(receipts), metrics)
    /\ produce_kafka_records(rav)
    /\ ravs' = ravs \cup {rav}
    /\ answers' = answers \cup read
    /\ promised' = [value |-> promised.value + (rav.value - previous.value),
                    receipts |-> promised.receipts +
                        Cardinality(rav.sources \ previous.sources)]
    /\ handled' = handled + 1
    /\ UNCHANGED <<registryVars, gateway_ravs>>

previous_rav_of(request) ==
    IF request.previous_rav = {} THEN {NoRav}
    ELSE UNION {rav_of(message) : message \in request.previous_rav}

(* Both gRPC services.  A request that does not convert is refused before  *)
(* anything is counted.                                                    *)
AggregateGrpc(request) ==
    /\ Running
    /\ \E receipts \in receipts_of(request), previous \in previous_rav_of(request) :
          LET made == check_and_aggregate_receipts(receipts, previous)
          IN  \/ \E rav \in made :
                    Succeed(receipts, previous, rav, signed_rav(RavResponse(rav)))
              \/ made = {} /\ Refuse(receipts)

(* JSON-RPC: one version is supported, and none is deprecated.             *)
Supported(api_version) == api_version = "0.0"

AggregateJson(api_version, receipts, previous) ==
    /\ Running
    /\ LET made == check_and_aggregate_receipts(receipts, previous)
       IN  \/ /\ Supported(api_version)
              /\ \/ \E rav \in made : Succeed(receipts, previous, rav, {rav})
                 \/ made = {} /\ Refuse(receipts)
           \/ /\ ~Supported(api_version)
              /\ metrics' = [metrics EXCEPT !.failure = @ + 1,
                                            !.version_error = @ + 1]
              /\ handled' = handled + 1
              /\ UNCHANGED <<vars, producer, answers, promised>>

(***************************************************************************)
(* The producer and the process.                                           *)
(***************************************************************************)

(* A queued record is delivered, or given up: nobody asks which.           *)
Deliver(record) ==
    /\ record \in producer
    /\ producer' = producer \ {record}
    /\ \/ gateway_ravs' = gateway_ravs \cup {record}
       \/ UNCHANGED gateway_ravs
    /\ UNCHANGED <<registryVars, ravs, metrics, answers, promised, handled>>

(* The process exits, by a signal or a crash, and is started again with    *)
(* the same configuration.  main does not wait for the producer.           *)
Restart ==
    /\ status = "built"
    /\ metrics # NoMetrics
    /\ metrics' = NoMetrics
    /\ promised' = NothingPromised
    /\ producer' = {}
    /\ UNCHANGED <<vars, answers, handled>>

(* The previous RAVs a client may hold.                                    *)
HeldRavs == EarlierRavs \cup answers

ServerNext ==
    \/ Startup
    \/ \E receipts \in Requests, previous \in {{rav} : rav \in HeldRavs} \cup {{}} :
          AggregateGrpc(RavRequest(receipts, previous))
    \/ \E api_version \in Versions, receipts \in Requests,
          previous \in HeldRavs \cup {NoRav} :
             AggregateJson(api_version, receipts, previous)
    \/ \E record \in producer : Deliver(record)
    \/ Restart

ServerSpec == ServerInit /\ [][ServerNext]_serverVars

-----------------------------------------------------------------------------
(* The shape of the server's state.                                        *)
ServerTypeOK ==
    /\ TypeOK
    /\ metrics \in [DOMAIN NoMetrics -> Nat]
    /\ producer \subseteq {KafkaRecord(rav) : rav \in ravs}
    /\ Cardinality(producer) <= QueueLimit
    /\ answers \subseteq Rav
    /\ handled \in 0 .. MaxHandled

(* The server does what the Aggregator promises: whichever endpoint a      *)
(* request comes through, in whichever halves its values travel, and       *)
(* however late the producer delivers a record, or loses it at an exit.    *)
ImplementsAggregator == Spec

(* A client gets the RAV that was signed, value for value, from each of    *)
(* the endpoints (grpc.rs, "impl From<u128> for Uint128" and back).        *)
AnswersAreSigned == answers \subseteq ravs

(* total_aggregated_grt, "Total successfully aggregated GRT value (wei)",  *)
(* and total_aggregated_receipts (server.rs:57) are what the RAVs of this  *)
(* process added to their previous RAVs, though the sum is taken before    *)
(* the request is checked and may have wrapped around.  Every request is a *)
(* success or a failure, and a RAV a record that was queued or was not.    *)
MetricsMatchVouchers ==
    /\ metrics.grt = promised.value
    /\ metrics.receipts = promised.receipts
    /\ metrics.published + metrics.unpublished = metrics.success
    /\ metrics.version_error <= metrics.failure
=============================================================================
