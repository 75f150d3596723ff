----------------------------- MODULE Aggregator -----------------------------
(***************************************************************************)
(* The gateway's aggregator: it builds its SignerRegistry at startup, then *)
(* answers RAV requests.  It keeps no state between requests, so whatever  *)
(* it signed before may come back as a previous RAV, any number of times,  *)
(* in any order, with any list of receipts: concurrent requests, retries   *)
(* and stale previous RAVs are all requests of that kind.                  *)
(*                                                                         *)
(* The collection id, data service and service provider of a message are   *)
(* one field, `stream'; the payer decides about keys and is kept apart.    *)
(***************************************************************************)
EXTENDS SignerRegistry, Tally

CONSTANTS
    Receipts,      \* the receipts that were ever signed:
                   \*   [payer, stream, timestamp_ns, value, signer, nonce]
    EarlierRavs,   \* RAVs signed before this aggregator was started
    MaxBatch       \* bound: receipts in one request

ASSUME AggregatorAssumption ==
    /\ IsFiniteSet(Receipts)
    /\ \A r \in Receipts : r.timestamp_ns \in Nat \ {0} /\ r.value \in Nat
    /\ MaxBatch \in Nat

VARIABLES
    ravs,          \* every RAV signed so far
    gateway_ravs   \* the Kafka topic: its records [payer, stream, value]

vars == <<registryVars, ravs, gateway_ravs>>

Init ==
    /\ RegistryInit
    /\ ravs = EarlierRavs
    /\ gateway_ravs = {}

Build == RegistryNext /\ UNCHANGED <<ravs, gateway_ravs>>

(* `None', or a RAV that somebody has signed.                              *)
PreviousRavs == ravs \cup {NoRav}

(* The requests: lists of receipts that may name one receipt twice.        *)
Requests == UNION {[1 .. n -> Receipts] : n \in 0 .. MaxBatch}
Entries(receipts) == {[id |-> i, receipt |-> receipts[i]] : i \in DOMAIN receipts}

(***************************************************************************)
(* check_and_aggregate_receipts, check by check.                           *)
(***************************************************************************)
NothingIsUnique(receipts) == TRUE   \* mutant

check_signatures_unique(receipts) ==
    \A i, j \in DOMAIN receipts : receipts[i] = receipts[j] => i = j

(* Mutant: the signers of every payer are accepted.                        *)
AnyKnownSigner(receipts, previous) ==
    /\ \A i \in DOMAIN receipts : receipts[i].signer \in DOMAIN signer_payer
    /\ previous # NoRav => previous.signer \in DOMAIN signer_payer

check_signatures(receipts, previous) ==
    LET accepted_addresses == AcceptedSigners(receipts[1].payer)
    IN  /\ \A i \in DOMAIN receipts : receipts[i].signer \in accepted_addresses
        /\ previous # NoRav => previous.signer \in accepted_addresses

(* Mutant: receipts as old as the previous RAV are accepted.               *)
AtOrAfterPrevious(receipts, previous) ==
    \A i \in DOMAIN receipts : receipts[i].timestamp_ns >= previous.timestamp_ns

check_receipt_timestamps(receipts, previous) ==
    \A i \in DOMAIN receipts : receipts[i].timestamp_ns > previous.timestamp_ns

SameIds(a, b) == a.payer = b.payer /\ a.stream = b.stream

check_collection_id(receipts) ==
    \A i \in DOMAIN receipts : SameIds(receipts[i], receipts[1])

check_previous_rav(receipts, previous) ==
    previous # NoRav => SameIds(previous, receipts[1])

Accepts(receipts, previous) ==
    /\ check_signatures_unique(receipts)
    /\ receipts # << >>
    /\ Serves(receipts[1].payer)
    /\ check_signatures(receipts, previous)
    /\ check_receipt_timestamps(receipts, previous)
    /\ check_collection_id(receipts)
    /\ check_previous_rav(receipts, previous)

(* The RAV carries the ids of the first receipt and is signed with the key *)
(* of their payer.                                                         *)
SignedRav(rav, first) ==
    [payer |-> first.payer, stream |-> first.stream,
     timestamp_ns |-> rav.timestamp_ns, value |-> rav.value,
     signer |-> SigningKey(first.payer), sources |-> rav.sources]

KafkaRecord(rav) == [payer |-> rav.payer, stream |-> rav.stream,
                     value |-> rav.value]

(* The RAV a request is answered with, or none if it is refused.           *)
check_and_aggregate_receipts(receipts, previous) ==
    IF Accepts(receipts, previous)
    THEN {SignedRav(rav, receipts[1]) : rav \in Aggregate(Entries(receipts), previous)}
    ELSE {}

(* One request answered with a RAV.  A refused request changes nothing.    *)
AggregateReceipts(receipts, previous) ==
    /\ status = "built"
    /\ \E rav \in check_and_aggregate_receipts(receipts, previous) :
          ravs' = ravs \cup {rav}
    /\ UNCHANGED <<registryVars, gateway_ravs>>

(* The record of a RAV reaches the topic: later than the answer, more than *)
(* once, or never.                                                         *)
Publish(rav) ==
    /\ gateway_ravs' = gateway_ravs \cup {KafkaRecord(rav)}
    /\ UNCHANGED <<registryVars, ravs>>

Next ==
    \/ Build
    \/ \E receipts \in Requests, previous \in PreviousRavs :
          AggregateReceipts(receipts, previous)
    \/ \E rav \in ravs : Publish(rav)

Spec == Init /\ [][Next]_vars

-----------------------------------------------------------------------------
Rav == [payer : Payers, stream : {r.stream : r \in Receipts},
        timestamp_ns : Nat, value : Values, signer : Signers,
        sources : SUBSET Receipts]

(* A RAV an aggregator can have signed: worth its receipts, which carry    *)
(* its ids and are no later than it.                                       *)
Backed(rav) ==
    /\ rav.value = MapThenSumSet(LAMBDA r : r.value, rav.sources)
    /\ \A r \in rav.sources :
          SameIds(r, rav) /\ r.timestamp_ns <= rav.timestamp_ns

ASSUME EarlierAssumption == EarlierRavs \subseteq Rav /\ \A rav \in EarlierRavs : Backed(rav)

(* The shape of the state.                                                 *)
TypeOK ==
    /\ RegistryTypeOK
    /\ ravs \subseteq Rav
    /\ gateway_ravs \subseteq [payer : Payers, value : Values,
                               stream : {r.stream : r \in Receipts}]

(* The payer never promises more than the receipts behind a RAV, whatever  *)
(* was asked for and in whatever order: each RAV is worth the sum of its   *)
(* distinct receipts, and every one of them names the RAV's payer and      *)
(* stream.  A receipt listed twice in a request, presented again on top of *)
(* a RAV that holds it, or of another stream, would break it, and so would *)
(* a previous RAV of another stream.                                       *)
NeverOverPromised ==
    \A rav \in ravs :
        /\ rav.value = MapThenSumSet(LAMBDA r : r.value, rav.sources)
        /\ \A r \in rav.sources : SameIds(r, rav)

EarlierSources == UNION {rav.sources : rav \in EarlierRavs}

ConfiguredFor(payer) ==
    {p.signer : p \in {q \in Listed(signing_keys) \cup Listed(accepted) :
                          q.payer = payer}}

(* A signer vouches for its own payer only (README "Accepted signers are   *)
(* scoped per payer", aggregator.rs:44): every receipt in a RAV was signed *)
(* by a signer configured for the payer that RAV charges, and so was the   *)
(* RAV itself.  Of a RAV from before the start only its signer is known.   *)
SignersVouchForTheirPayer ==
    \A rav \in ravs \ EarlierRavs :
        /\ rav.signer \in ConfiguredFor(rav.payer)
        /\ \A r \in rav.sources \ EarlierSources :
              r.signer \in ConfiguredFor(rav.payer)

StreamsOf(payer) == {r.stream : r \in {q \in Receipts : q.payer = payer}}

LargestRecord(payer, stream) ==
    Max({0} \cup {rec.value : rec \in
            {k \in gateway_ravs : k.payer = payer /\ k.stream = stream}})

(* The escrow manager takes the largest record of each stream as the debt  *)
(* of its payer.  Summed over the streams this debt never exceeds what the *)
(* receipts of the payer are worth, although records get lost, and RAVs on *)
(* top of the same previous RAV are published in any order.                *)
PublishedDebtIsBacked ==
    \A payer \in Payers :
        MapThenSumSet(LAMBDA s : LargestRecord(payer, s), StreamsOf(payer))
          <= MapThenSumSet(LAMBDA r : r.value, {r \in Receipts : r.payer = payer})
=============================================================================
