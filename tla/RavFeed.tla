------------------------------ MODULE RavFeed ------------------------------
(***************************************************************************)
(* From the aggregator to the escrow manager: the Kafka topic gateway_ravs.*)
(* The aggregator publishes a record for each RAV it signs; the manager's  *)
(* consumer (crates/bin/escrow_manager/src/kafka.rs, module ravs) reads    *)
(* the topic from its beginning, up to sixteen records at a time in any    *)
(* order, and keeps the largest value of each allocation.  The collection  *)
(* id in a record's key ends in the allocation id.                         *)
(***************************************************************************)
EXTENDS Server

CONSTANTS
    FeedSigners,    \* Config.signers of the escrow manager
    ManagerPayer    \* the payer whose escrow it manages

VARIABLES
    allocation_ravs,   \* the watch channel: allocation -> largest value
    consumed           \* history: records that were processed

feedVars == <<serverVars, allocation_ravs, consumed>>

FeedInit ==
    /\ ServerInit
    /\ allocation_ravs = Nothing
    /\ consumed = {}

Serve == ServerNext /\ UNCHANGED <<allocation_ravs, consumed>>

(* Mutant: the wrong part of the key is read as the allocation.            *)
parse_record_first(record) ==
    [signer |-> record.payer, allocation |-> record.payer, value |-> record.value]

(* "{sender:?}:{key_fragment:?}" read as signer and collection id.         *)
parse_record(record) == [signer |-> record.payer, allocation |-> record.stream,
                         value |-> record.value]

AnybodysRecord(record) == TRUE   \* mutant
IsOurs(record) == record.signer \in FeedSigners

IsLast(record) == TRUE   \* mutant: the last record wins

(* Mutant: a first record has nothing to be larger than.                   *)
IsLargerOccupied(record) ==
    /\ record.allocation \in DOMAIN allocation_ravs
    /\ allocation_ravs[record.allocation] < record.value

(* Vacant, or occupied by less.                                            *)
IsLarger(record) ==
    \/ record.allocation \notin DOMAIN allocation_ravs
    \/ allocation_ravs[record.allocation] < record.value

ProcessRecord(message) ==
    /\ message \in gateway_ravs \ consumed
    /\ consumed' = consumed \cup {message}
    /\ LET record == parse_record(message)
       IN  allocation_ravs' =
              IF IsOurs(record) /\ IsLarger(record)
              THEN Insert(allocation_ravs, record.allocation, record.value)
              ELSE allocation_ravs
    /\ UNCHANGED serverVars

(* The manager is restarted: its table starts empty, and the consumer at   *)
(* the beginning of the topic.                                             *)
RestartManager ==
    /\ consumed # {}
    /\ allocation_ravs' = Nothing
    /\ consumed' = {}
    /\ UNCHANGED serverVars

FeedNext ==
    \/ Serve
    \/ \E message \in gateway_ravs : ProcessRecord(message)
    \/ RestartManager

FeedSpec == FeedInit /\ [][FeedNext]_feedVars

(* The consumer keeps reading; the process restarts as often as it likes.  *)
FairFeedSpec ==
    /\ FeedSpec
    /\ \A message \in [payer : Payers, value : Values,
                       stream : {r.stream : r \in Receipts}] :
          WF_feedVars(ProcessRecord(message))

-----------------------------------------------------------------------------
(* The shape of the manager's table.                                       *)
FeedTypeOK ==
    /\ ServerTypeOK
    /\ DOMAIN allocation_ravs \subseteq {r.stream : r \in Receipts}
    /\ \A s \in DOMAIN allocation_ravs : allocation_ravs[s] \in Values
    /\ consumed \subseteq gateway_ravs

RavDebt(allocation) ==
    IF allocation \in DOMAIN allocation_ravs THEN allocation_ravs[allocation] ELSE 0

(* "every receiver's debt is taken as the maximum of: receipts over the    *)
(* last 28 days, RAVs on active allocations" (escrow_manager/README.md:26):*)
(* once the records are processed, in whatever order, the table covers     *)
(* each RAV that charges the manager's payer.                              *)
RavsCountAsDebt ==
    \A record \in consumed :
        record.payer = ManagerPayer => RavDebt(record.stream) >= record.value

(* A lost record heals.  The record of a RAV may be purged when the server *)
(* exits, or given up by the producer: once the record of a later RAV on   *)
(* top of it has come through, the table covers the lost one as well.      *)
LaterRavsCover ==
    \A rav, later \in ravs :
        /\ rav.payer = ManagerPayer
        /\ SameIds(rav, later)
        /\ rav.sources \subseteq later.sources
        /\ KafkaRecord(later) \in consumed
        => RavDebt(rav.stream) >= rav.value

(* What is in the topic counts in the end, and again after every restart   *)
(* of the manager, which begins with an empty table.                       *)
RecordsAreCounted ==
    \A record \in [payer : {ManagerPayer}, value : Values,
                    stream : {r.stream : r \in Receipts}] :
        (record \in gateway_ravs) ~> (RavDebt(record.stream) >= record.value)

(* And the table holds nothing but that payer's debt: it never exceeds     *)
(* what the receipts of the allocation are worth, though the topic carries *)
(* the records of every payer the aggregator serves.                       *)
RavDebtIsOwed ==
    \A s \in DOMAIN allocation_ravs :
        allocation_ravs[s] <= MapThenSumSet(LAMBDA r : r.value,
            {r \in Receipts : r.payer = ManagerPayer /\ r.stream = s})
=============================================================================
