---------------------------- MODULE ReceiptFeed ----------------------------
(***************************************************************************)
(* The escrow manager's picture of what a receiver is owed for receipts    *)
(* (crates/bin/escrow_manager/src/kafka.rs, module receipts), for one      *)
(* signer and one receiver, every query worth one unit.                    *)
(*                                                                         *)
(* At startup the consumer replays a topic of hourly sums up to the        *)
(* offsets that were the last ones when it looked, and then follows the    *)
(* realtime topic from the hour after the latest sum it has seen.  All     *)
(* updates go through a channel to a task that keeps a sum for each hour,  *)
(* drops the hours that leave the window, and publishes the total.  It     *)
(* publishes only after it has received something, at most once a second   *)
(* (here: once a tick).                                                    *)
(***************************************************************************)
EXTENDS Integers, Sequences, FiniteSets, Functions, FiniteSetsExt

CONSTANTS
    Partitions,    \* partitions of the aggregated topic: numbers from 1 on
    HourLength,    \* ticks in an hour
    WindowHours,   \* the window, 28 days, in hours
    Cutoff,        \* aggregated_cutoff_timestamp, or 0 for none
    MaxNow,        \* bound: the clock stops here
    MaxQueries     \* bound: queries served

ASSUME FeedAssumption ==
    /\ IsFiniteSet(Partitions) /\ Partitions \subseteq Nat \ {0}
    /\ HourLength \in Nat \ {0}
    /\ {WindowHours, Cutoff, MaxNow, MaxQueries} \subseteq Nat

VARIABLES
    now,
    queries,      \* the realtime topic: the time of each query
    hourly,       \* the aggregated topic: [timestamp, fee] for each hour
    next_hour,    \* the first hour not in the aggregated topic yet
    phase,        \* of the consumer: down, replay, realtime or panicked
    awaited,      \* latest_aggregated_offsets
    offset,       \* how far each partition was consumed
    latest,       \* latest_aggregated_timestamp
    read,         \* queries read from the realtime topic
    updates,      \* updates in the channel: [id, timestamp, fee]
    data,         \* DB.data: hour -> sum
    last_snapshot,\* time of the last publication
    published     \* the watch channel: the total the loop reads

topics   == <<queries, hourly, next_hour>>
consumer == <<phase, awaited, offset, latest, read>>
db       == <<data, last_snapshot, published>>
vars     == <<now, topics, consumer, updates, db>>

Window == WindowHours * HourLength
AsIs(t) == t   \* mutant of hourly_timestamp
hourly_timestamp(t) == t - (t % HourLength)

Empty == [x \in {} |-> 0]

Init ==
    /\ now = 0
    /\ queries = << >>
    /\ hourly = [p \in Partitions |-> << >>]
    /\ next_hour = 0
    /\ phase = "down"
    /\ awaited = Empty
    /\ offset = [p \in Partitions |-> 0]
    /\ latest = 0
    /\ read = {}
    /\ updates = {}
    /\ data = Empty
    /\ last_snapshot = 0
    /\ published = 0

Tick ==
    /\ now < MaxNow
    /\ now' = now + 1
    /\ UNCHANGED <<topics, consumer, updates, db>>

(***************************************************************************)
(* The producers: the gateway, and the service that writes the hourly sums.*)
(***************************************************************************)
Query ==
    /\ Len(queries) < MaxQueries
    /\ queries' = Append(queries, now)
    /\ UNCHANGED <<now, hourly, next_hour, consumer, updates, db>>

Served(from, to) == {i \in DOMAIN queries : from <= queries[i] /\ queries[i] < to}

AggregateHour(p) ==
    /\ next_hour + HourLength <= now
    /\ hourly' = [hourly EXCEPT ![p] = Append(@,
          [timestamp |-> next_hour,
           fee |-> Cardinality(Served(next_hour, next_hour + HourLength))])]
    /\ next_hour' = next_hour + HourLength
    /\ UNCHANGED <<now, queries, consumer, updates, db>>

(***************************************************************************)
(* The consumer.                                                           *)
(***************************************************************************)

(* latest_messages and assign_partitions.  start_timestamp is in seconds   *)
(* where milliseconds are expected, and every message is later than that.  *)
Start ==
    /\ phase = "down"
    /\ phase' = "replay"
    /\ awaited' = [p \in {q \in Partitions : hourly[q] # << >>} |-> Len(hourly[p])]
    /\ last_snapshot' = now
    /\ UNCHANGED <<now, topics, offset, latest, read, updates, data, published>>

(* No aggregated_topic is configured: nothing is replayed, the realtime    *)
(* topic is read from its first message on.  The code has no latest hour   *)
(* then; the one before all others makes realtime_start that message.      *)
StartWithoutSums ==
    /\ phase = "down"
    /\ phase' = "realtime"
    /\ latest' = 0 - HourLength
    /\ last_snapshot' = now
    /\ UNCHANGED <<now, topics, awaited, offset, read, updates, data, published>>

Later(a, b) == IF a >= b THEN a ELSE b

(* Mutants: the replay ends with the first partition; it waits for one     *)
(* message more than there was.                                            *)
CompleteFirst(p, position) ==
    IF p \notin DOMAIN awaited
    THEN phase' = "panicked" /\ UNCHANGED awaited
    ELSE /\ UNCHANGED awaited
         /\ phase' = IF awaited[p] = position THEN "realtime" ELSE "replay"
CompleteNext(p, position) == UNCHANGED <<awaited, phase>>

(* The bookkeeping after a message: `unwrap' of a partition that is not    *)
(* awaited any more, and the end of the replay.  The panic is main's: it   *)
(* ends the process, consumer and database task alike.                     *)
CompleteOffset(p, position) ==
    IF p \notin DOMAIN awaited
    THEN phase' = "panicked" /\ UNCHANGED awaited
    ELSE LET left == IF awaited[p] = position THEN DOMAIN awaited \ {p}
                                             ELSE DOMAIN awaited
         IN  /\ awaited' = [q \in left |-> awaited[q]]
             /\ phase' = IF left = {} THEN "realtime" ELSE "replay"

ConsumeHour(p) ==
    /\ phase = "replay"
    /\ offset[p] < Len(hourly[p])
    /\ offset' = [offset EXCEPT ![p] = @ + 1]
    /\ LET position == offset[p] + 1
           msg      == hourly[p][position]
       IN  /\ latest' = Later(latest, msg.timestamp)
           /\ IF msg.timestamp < Cutoff
              THEN UNCHANGED <<phase, awaited, updates>>
              ELSE /\ updates' = updates \cup
                         {[id |-> <<p, position>>, timestamp |-> msg.timestamp,
                           fee |-> msg.fee]}
                   /\ CompleteOffset(p, position)
    /\ UNCHANGED <<now, topics, read, db>>

start_at_latest == latest   \* mutant of realtime_start
realtime_start == latest + HourLength

(* Up to sixteen messages are processed at a time, in any order.           *)
ReadQuery(i) ==
    /\ phase = "realtime"
    /\ i \in DOMAIN queries \ read
    /\ queries[i] >= realtime_start
    /\ read' = read \cup {i}
    /\ updates' = updates \cup
          {[id |-> <<0, i>>, timestamp |-> queries[i], fee |-> 1]}
    /\ UNCHANGED <<now, topics, phase, awaited, offset, latest, db>>

(***************************************************************************)
(* The database task.                                                      *)
(***************************************************************************)
InWindow(u) == u.timestamp >= now - Window

Updated(batch) ==
    LET kept == {u \in batch : InWindow(u)}
        added(h) == MapThenSumSet(LAMBDA u : u.fee,
                        {u \in kept : hourly_timestamp(u.timestamp) = h})
    IN  [h \in DOMAIN data \cup {hourly_timestamp(u.timestamp) : u \in kept} |->
            (IF h \in DOMAIN data THEN data[h] ELSE 0) + added(h)]

Pruned(entries) ==
    [h \in {t \in DOMAIN entries : t > hourly_timestamp(now - Window)} |-> entries[h]]

(* recv_many returns some of the updates, all are applied, and a snapshot  *)
(* is published if the last one is old enough.                             *)
ReceiveMany(batch) ==
    /\ phase # "panicked"
    /\ batch # {}
    /\ updates' = updates \ batch
    /\ IF now - last_snapshot >= 1
       THEN /\ data' = Pruned(Updated(batch))
            /\ published' = SumFunction(data')
            /\ last_snapshot' = now
       ELSE /\ data' = Updated(batch)
            /\ UNCHANGED <<published, last_snapshot>>
    /\ UNCHANGED <<now, topics, consumer>>

Next ==
    \/ Tick
    \/ Query
    \/ \E p \in Partitions : AggregateHour(p)
    \/ Start
    \/ StartWithoutSums
    \/ \E p \in Partitions : ConsumeHour(p)
    \/ \E i \in 1 .. MaxQueries : ReadQuery(i)
    \/ \E batch \in SUBSET updates : ReceiveMany(batch)

Spec == Init /\ [][Next]_vars

(* The broker delivers what is in a topic, and tasks are scheduled.        *)
Fairness ==
    /\ WF_vars(Tick)
    /\ \A p \in Partitions : WF_vars(ConsumeHour(p))
    /\ \A i \in 1 .. MaxQueries : WF_vars(ReadQuery(i))
    /\ WF_vars(\E batch \in SUBSET updates : ReceiveMany(batch))

FairSpec == Spec /\ Fairness

-----------------------------------------------------------------------------
(* The shape of the state.                                                 *)
TypeOK ==
    /\ now \in 0 .. MaxNow
    /\ \A i \in DOMAIN queries : queries[i] \in 0 .. now
    /\ phase \in {"down", "replay", "realtime", "panicked"}
    /\ DOMAIN awaited \subseteq Partitions
    /\ \A p \in Partitions : offset[p] \in 0 .. Len(hourly[p])
    /\ read \subseteq DOMAIN queries
    /\ \A u \in updates : u.timestamp \in 0 .. now /\ u.fee \in Nat
    /\ \A h \in DOMAIN data : h % HourLength = 0 /\ data[h] \in Nat
    /\ last_snapshot \in 0 .. now
    /\ published \in Nat

(* No query is counted twice, though its hour may be in the aggregated     *)
(* topic and the query itself in the realtime one, and the topics grow     *)
(* while they are read: a published total is at most the number of queries *)
(* in the window at the time of the publication.                           *)
CountedOnce ==
    published <= Cardinality({i \in DOMAIN queries : queries[i] > last_snapshot - Window})

CaughtUp ==
    /\ phase = "realtime"
    /\ updates = {}
    /\ \A i \in DOMAIN queries : queries[i] >= realtime_start => i \in read

(* No query falls between the two topics either.  Once everything was read *)
(* the database holds every query of the window, short of the hour in      *)
(* which the window starts and of the hours that the cutoff leaves out.    *)
NothingLost ==
    CaughtUp =>
        SumFunction(data) >= Cardinality({i \in DOMAIN queries :
            /\ queries[i] >= now - Window + HourLength
            /\ hourly_timestamp(queries[i]) >= Cutoff})

(* The replay stops: every partition is consumed up to its awaited offset. *)
(* "Aggregated records older than this are ignored" (config.rs:94) says    *)
(* the same of a configuration with a cutoff.  A panic ends the replay too *)
(* and is a matter of NoPanic.                                             *)
ReplayStops == (phase = "replay" /\ DOMAIN awaited # {}) ~> (phase # "replay")

(* `unwrap()' at kafka.rs:87: a message of the replay belongs to a         *)
(* partition that is still awaited.                                        *)
NoPanic == phase # "panicked"

(* "Debt comes from Kafka consumers that publish an eventually consistent  *)
(* snapshot over a watch channel" (main.rs:544): once the consumer follows *)
(* the realtime topic, the loop does not work with a total that stays      *)
(* different from the database's.  The bound on the clock is not to blame: *)
(* what is published when it stops counts.                                 *)
EventuallyConsistent ==
    (phase = "realtime") ~> (published = SumFunction(data) \/ last_snapshot = now)
=============================================================================
