# A verification of Graph Tally

TLA+ modules that model Graph Tally (the Rust workspace in `src/`), TLC
configurations that check them on small instances, and TLAPS proofs about each
component. The [source map](PROJECT.json) gives the lines behind every definition.

Graph Tally pays indexers for queries. A payer's gateway attaches a signed
*receipt* to each query; the indexer collects receipts and asks the payer's
*aggregator* to replace them with one signed *RAV* (receipt aggregate voucher),
which grows with each aggregation; the indexer redeems the RAV against the
payer's *escrow*, which an *escrow manager* keeps filled.

    gateway --receipts--> Manager (indexer) --RAV requests--> aggregator
       |                                                          |
       | realtime topic, hourly topic                             | topic gateway_ravs
       v                                                          v
    receipts consumer + DB ----------> escrow manager <-------- RAV consumer
                                            |  ^
                                transactions|  |accounts (lagging)
                                            v  |
                                     PaymentsEscrow, subgraph

## Inventory

| Component | State | Operations | What is hard |
|---|---|---|---|
| `core` Manager, `InMemoryContext` | receipt storage, last RAV, minimum timestamp | verify and store a receipt; create a RAV request; verify and store a RAV; remove obsolete receipts; look up and remove by id | all are async, take `&self`, and interleave at every await; late and repeated deliveries; a batch limit |
| `receipt`, `graph` | none | aggregate, truncate a batch safely, batch checks | limits within a timestamp, duplicates, `u128` |
| aggregator: `signers.rs` | keys and accepted signers of each payer | build at startup, resolve | one signer for one payer, whichever list and order |
| aggregator: `aggregator.rs` | none between requests | check and aggregate | stale, retried and concurrent requests; key rotation |
| aggregator: `server.rs`, `grpc.rs` | counters, the producer's queue; a Kafka topic | JSON-RPC and gRPC handlers, conversions, publish, exit | what is counted when; a full queue; records lost when the process exits; `u128` in halves |
| escrow manager: RAV consumer | largest value of each allocation | process a record | records of all payers, sixteen at a time |
| escrow manager: receipts consumer and DB | offsets awaited, hourly sums, published total | replay, follow, receive, prune, publish | the seam between two topics, topics that grow, the edge of the window, publication only on traffic |
| escrow manager: policy | none | `next_balance`, `decide`, `reduce_adjustments` | thresholds, order of the branches, the cap |
| escrow manager: startup | none | authorize signers, check the allowance, approve | transactions that land after the wait for them, exits and restarts |
| escrow manager: loop | subgraph pin | read, plan, send three batches, pin | lagging reads, timeouts that land later, multicalls that revert, restarts |

What makes them correct:

- *Manager*: nothing is paid twice and nothing that was stored is passed over,
  removed unpaid, or left behind for ever.
- *Aggregator*: no sequence of requests makes it sign more than the receipts are
  worth, and a signer vouches for its own payer only. The server around it adds
  nothing to that: each endpoint answers with the RAV that was signed, and the
  counters tell what the RAVs are worth.
- *Consumers*: the debt the loop sees is what was published, once.
- *Policy, startup and loop*: the loop is reached, with the approval in force; escrow reaches the target of each debt and stays there, is
  not deposited or thawed twice for the same reason, and what is thawed comes
  back.

## Modules

| Module | Models |
|---|---|
| `Tally` | receipts, batches, RAVs: the pure functions, shared by both sides |
| `Voucher` | abstract: a voucher that only grows, by distinct and newer receipts |
| `Manager` | the indexer's manager |
| `Storage`, `MCManager`, `ManagerProofs` | extends `Manager`: the removal of invalid receipts by their caller, and `safe_truncate_receipts` as written; instance; proofs about both |
| `SignerRegistry` | `SignerRegistry::build`, one pair a step |
| `Aggregator`, `MCAggregator`, `AggregatorProofs` | extends the registry and `Tally`: requests and the Kafka topic, abstractly; instance; proofs about both |
| `Wire` | the gRPC messages and their conversions, pure |
| `Server` | extends `Aggregator` and `Wire`, and implements `Aggregator`: endpoints, counters, producer, exits |
| `RavFeed`, `MCRavFeed`, `ServerProofs` | composes `Server` with the escrow manager's RAV consumer; instance; proofs about both |
| `ReceiptFeed`, `MCReceiptFeed`, `ReceiptFeedProofs` | the receipts consumer and its database task; instance; proofs |
| `EscrowPolicy`, `EscrowPolicyProofs` | the decisions of a cycle, pure; proofs |
| `EscrowManager`, `MCEscrow`, `EscrowManagerProofs` | startup and loop with the contracts, the mempool, the subgraph, restarts; instance; proofs |
| `Sums` | lemmas: sums over finite sets and over the values of a function, greatest and least elements |

Operators marked as mutants next to a definition are its plausible wrong
versions; the project checks that each breaks the property it is listed with.

### Manager

`VerifyReceipt` and `StoreReceipt` are the two halves of
`verify_and_store_receipt` around the await between checks and storage. A RAV
request is `ReadLastRav`, then `CollectReceipts` (or `TimestampRangeError`), then
`FinalizeReceipts`, then `AnswerArrives` with `verify_and_store_rav`, or
`RequestFails`. The buffer is a parameter of each request, between `Buffer` and
`LongestBuffer`; a longer one than the last request's is how the range becomes
empty. `ReadObsoleteBound` and `RemoveObsoleteReceipts` are
`remove_obsolete_receipts`. A stored receipt is an entry `[id, receipt]`, because
the storage holds what was delivered twice twice. `Flaky` receipts may fail a
user-defined check at finalization (they passed it at delivery); a check that stays
retryable makes the request fail. What the two batch checks refuse, every further copy of
a receipt among it, is the request's `failed` (`failed_receipts` in the code), and comes
back in `invalid_receipts` with what fails at finalization. Three variables are history:
`sources` in a RAV, `reported`, all receipts that came back as invalid, and `rejected`,
those of them that had no valid copy in the same answer. A duplicate is reported and not
rejected: it is valid and invalid at once, which is why the properties about payment
(`NoReceiptStranded`, `RemovesOnlyAggregated`, `StoredIsSettled`) excuse `rejected`
receipts only. The loop over the receipts in `finalize` is one step: the only
state that its checks read is the minimum timestamp, which moves only when
another requester stores a RAV. `MaxDelay` is the time within which the network
and the indexer get a receipt stored; the code has only its counterpart, the
buffer.

### Storage

`Storage` runs beside every step of `Manager` the operations of `InMemoryContext`
that the manager does not call. `create_rav_request` gives the invalid receipts
back and leaves them in the storage, where they take up room in each batch;
`StartRemoval` is a caller that looks their ids up
(`retrieve_receipts_by_timestamp`), and `RemoveReceiptById` one round of
`remove_receipts_by_ids`, which takes the lock anew for each id and ends at the
first that is gone. The caller is not in the repository, and the API leaves it a trap: it
is given receipts and not ids, so looking up a duplicate finds the good copy too, and
removing that before the RAV is stored loses the receipt. `MayRemove` is the
policy that is assumed of it, to spare receipts that the same answer lists as valid; the
mutant `EveryInvalid` is a caller that removes all that came back, and TLC finds the
receipt it deletes unpaid. The copies it spares go with `remove_obsolete_receipts` once
the receipt is aggregated (`InvalidAreRemoved`). `safe_truncate_receipts` is the code's algorithm on the sorted
`Vec`; sorting receipts of one timestamp in any order makes it a set of outcomes,
and `TruncationIsSafe` says that this set is the one batch `Tally!SafeTruncate`
defines.

### Aggregator, registry, server and RAV feed

The registry's steps are the iterations of the two loops of `build`. The
aggregator keeps nothing between requests, so `AggregateReceipts` may be
called at any time with any list of receipts that were signed (repetitions
included) and any RAV that was signed, as previous RAV: retries, concurrent
requests and stale RAVs are all of that form, and a step for a request is exact.
The collection id, data service and service provider of a message are one field,
`stream`. `EarlierRavs` were signed before the start by keys that may have been
rotated since. In `Aggregator` the record of a RAV reaches the topic at any later
time, or never (`Publish`).

`Server` is what happens in the process. A handler has no await, so a request is a
step: `AggregateGrpc` converts the message (`Wire`), `AggregateJson` looks at the
API version, and both call `check_and_aggregate_receipts`, then `Succeed` or
`Refuse`, which count, and queue the record. The queue of the producer has a limit;
`Deliver` delivers a record or gives it up; `Restart` is an exit of the process,
which loses counters and queue, as `main` neither flushes nor waits. The sum for
`total_aggregated_grt` is taken before any check and wraps around at `u128`, as a
release build does. The two gRPC services, `graph_tally` and the older
`tap_aggregator.v2`, have the same code twice. `answers` and `promised` are
history. `ImplementsAggregator` says that `Server` refines `Aggregator`: with its own
variables hidden, each step is one of `Aggregator` or changes nothing there.

`RavFeed` adds the consumer: any record not processed yet may be next, which
includes every order of sixteen concurrent handlers, and a restart reads the
topic again from the beginning.

### Receipt feed

One signer and one receiver, and a query is worth one unit; the database treats
receivers independently. `Start` may happen at any time on topics with any
content, so a restart is a behaviour that starts later. `StartWithoutSums` is a start
without an `aggregated_topic`, which goes straight to the realtime topic. `ConsumeHour` is
an iteration of the replay loop, with the offset bookkeeping and its `unwrap`, whose panic
is `main`'s and ends the database task with the process;
`ReadQuery` one message of the realtime topic; `ReceiveMany` one turn of the
database task. Updates in the channel may be received in any order and in any
groups; the channel is first in first out, and no property depends on that. The
time between publications, a second in the code, is a tick. `start_timestamp` is
given in seconds where the consumer expects milliseconds, so every message is
after it, and the model reads the topic from its beginning.

### Escrow policy and loop

Amounts are in a unit of choice and the two floating point factors are fractions.
`decide` is the four branches in order, with the guard of each. The margin is the
code's `(target / 10_000) * bps`, which is exact because a target is a multiple of
10^18. A thaw's end is kept relative to the latest block, the only way the code
uses it; a thaw of more than nothing always has an end.
`EscrowManager` begins with the startup. `ReadSigners` is the query for the
authorized signers, which a lagging subgraph may answer without some;
`SendAtStartup` sends an authorization or the approval; `SignerDone` goes on
whatever became of an authorization, which is only logged; `ReadAllowance` compares
the allowance; `Approved` enters the loop, and `ExitAtStartup` is an error that
`main` returns, after which a supervisor starts the process again. The deadline in
the proof of a signer is not modelled: an authorization that lands after it does
nothing, as one that reverts. The consumers start after the approval, so no debt is
published before.
`EscrowManager` splits a cycle at its awaits: `ReadAccounts(age)` (the two
subgraph queries and the debts), `ReadClock`, and for each of the three batches
`SendBatch` or `BatchRefused`, then `ReceiptArrives` or `ReceiptTimesOut`, then
`EndCycle`, which moves the pin. Blocks are named by their age; the subgraph
answers with any block no older than the pin. `mempool` holds what was sent and
may land later, or revert: a receipt is taken for success whatever its status, as
in the code. The contract, the mempool, the blocks and collections are external,
modelled from how `contracts.rs` uses them and what its comments say of them.

## Runs

Passing runs.

| Run | Shows | Bounds, and why they are enough |
|---|---|---|
| `manager_prompt` | with one requester, a buffer that covers the delay and a caller that spares receipts with a valid copy, each RAV is worth its distinct receipts, nothing is stranded or removed unpaid, the stored RAV refines `Voucher`, every stored receipt is settled, what came back as invalid leaves the storage, duplicates included, and truncation as written is the one the manager relies on | three receipts, two of one timestamp, each delivered up to twice, so up to six entries meet a limit of 4, which may fall inside a timestamp; two receipts may flunk a check, one alone in its timestamp and one not; requests fail at will; the clock runs past every deadline and buffer |
| `aggregator` | startup accepts exactly the consistent configurations, each signer vouches for one payer, no RAV is over-promised, published debt is backed | all lists of up to two keys and two accepted signers over two payers and three signers: every pair of conflicting entries, in each list and across; two streams, a rotated key with a receipt and a RAV of its own, batches of up to two (repetition included), overflow at 7 |
| `rav_feed` | the server implements `Aggregator`, answers with the RAV it signed, and counts what its RAVs are worth; the consumer's table is the debt of its payer, in any order, over restarts of both; a lost record heals with the next; what is in the topic counts in the end | two payers on one allocation; three requests, enough for a RAV on a RAV and a third request; values up to 8, which is two halves of base 3, so that each half of a value and a sum that wraps occur; a queue of one; a supported and an unsupported version |
| `escrow_pinned` | receipts in time: no cycle plans on stale data, deposits stop at the target, nobody who needs escrow is passed over, thaws start from nothing, withdrawals are mature; targets are tight, and a capped cycle spends the cap, exceeds it by a bounded amount, and shares it | two receivers whose deposits together exceed the cap, a round that does not divide it, a debt exactly at the fill factor of a step, two signers to authorize, lag of one block, a collection, debts that come and go, an allowance that is used up |
| `escrow_live` | RPC failures, late receipts, exits at startup, a restart, a collection: the loop is reached with the approval in force, a debt that stays gets covered, a thaw ends | one receiver, whose target is below the cap, and no signer to authorize, so capped cycles, debts that come back one at a time, and authorizations are not in it; lag of one block is what makes a read stale; any number of exits at startup, before or after the approval lands |
| `receipt_feed` | with and without an hourly topic, each query counted once, none lost at the seam, the replay ends | two partitions, hours of two ticks, a window of three hours, more time than the window, two queries: every pair of places around the seam and the edge of the window |

Runs that refute what a comment or document says (the texts are quoted with the
findings in `PROJECT.json`).

| Run | What the code does |
|---|---|
| `escrow_cap` | the raise that reaches the cap is not clipped, so the deposits of a cycle exceed the 10,000 GRT that the README promises |
| `rav_feed_signer` | records are published under the payer and filtered by signer: with keys that are not the payer's own, all are dropped |
| `escrow_stale` | a transaction that lands after its timeout is not pinned, and the next cycle plans on accounts from before it (and so may send a thaw again, which restarts it) |
| `receipt_feed_cutoff` | the cutoff skips the offset bookkeeping: the replay may never end |
| `receipt_feed_idle` | in a running consumer that follows the realtime topic, the last updates before a pause are not published |
| `receipt_feed_unwrap` | a message on a partition that is not awaited panics at startup |

What the assumptions of the passing runs keep out, and what the models show when
they are dropped: with `MaxDelay > Buffer` a receipt that is stored beside a request that
could not see it is deleted unpaid;
of two overlapping requests on one previous RAV the RAV stored last may hold fewer
receipts, and the others may be deleted; a caller that removes all receipts it was given as
invalid deletes the good copy of a duplicate; a capped cycle may exceed `MAX_ADJUSTMENT` by
less than a round, or by many minimal deposits (`escrow_cap`); the hour in which the
window starts is dropped whole, so the published total covers up to an hour less than the
window.

Deadlock is checked for the manager and the loop, which never stop: in
`Manager` time ends, and a request can always start again. The other systems may
stop when their bounded inputs are used up (`CHECK_DEADLOCK FALSE`): a startup that is
refused, an aggregator whose receipts are all in RAVs or whose requests are used up, a
feed whose clock stopped.

### Fairness

- `Manager`: tasks are scheduled (`WF`); the aggregator answers, and checks are
  not retryable, infinitely often (`SF`), since a request is repeated until it
  succeeds. Nothing makes the network deliver.
- `Storage`: the caller removes what it was given as invalid without a valid copy, a
  removal that began goes on, and `remove_obsolete_receipts` is called again and again, as
  its comment asks for after each RAV (`WF`).
- `RavFeed`: a record of the topic is processed (`WF`), which is the broker's and the
  runtime's part; nothing makes the server answer, the producer deliver, or either
  process restart or stop restarting.
- `EscrowManager`: the loop runs (`WF` on its own steps); blocks are mined and a
  transaction in the mempool is mined (`WF`); the clock can be read, and a batch
  can be sent, if tried again and again (`SF`), and so can the queries of the startup
  and the approval. Receipts may be late every time
  and the subgraph may always answer with its oldest block. Collections, debts
  and restarts are never forced.
- `ReceiptFeed`: the broker delivers and tasks run (`WF`). The producers, and the
  start, are not forced.

## Proofs

Each module of proofs is about any values of the constants that the assumptions of
its component allow. These say that timestamps, values and bounds are numbers, that
sets of receipts and receivers are finite, and what else is named below.

### Sums and loops

The induction schemas of the library take an operator as a parameter, which the
provers at hand cannot instantiate. `Sums` does without: a statement about all subsets
of a finite set that failed would fail of a smallest one (`SmallestSubset`), and one
about all numbers of a least one (`LeastNatural`), which a first-order prover can lead
to a contradiction. So the recursion behind `MapThenSumSet` and `SumFunction` has a
solution (`FoldExists`), only one (`FoldUnique`), and it is additive, monotone and
invariant under bijections. `EscrowPolicyProofs` treats the two loops of the policy the
same way: a bounded measure shows that a loop returns something from each state
(`LoopExists`), and an invariant with a measure that decreases shows that it ends, and
with what (`LoopEnds`).

### Manager and storage

`ManagerProofs` rests on `ReceiptsAssumption`, `BoundsAssumption` and
`MaxValueAssumption`.

- `TypeCorrect`: `Spec => []TypeOK`, for any number of requesters. `TypeOK` is not
  inductive: that a stored RAV is within `u128` needs that a request waiting for
  its answer expects an outcome of `Aggregate` (`ExpectedIsAggregate`); the two
  together are `TypeInv`.
- `NothingStranded` and `RemovalIsSafe`: with `SingleRequester` and
  `PromptDelivery` (`MaxDelay <= Buffer`), nothing stored is passed over, and the
  removal deletes only what was aggregated or rejected. The inductive invariant is
  `SafetyInv`. A receipt in a batch is older than `now - Buffer`; a receipt on its
  way to the storage is within its deadline and so not older
  (`VerifyingIsRecent`). So a batch that was collected stays complete: no stored
  receipt between the last RAV and the youngest of the batch is outside it
  (`BatchesAreClosed`), which rests on `SafeTruncateIsClosed` for the limit and on
  `UniqueCheckKeepsOne` for duplicates. When the RAV is stored, completeness of
  the batch becomes completeness of the RAV. `RequestsAreCurrent` needs a single
  requester: nobody else moves the last RAV. The two assumptions are
  needed: see what happens without them above.
- `RavsAreWorthTheirSources`, for any number of requesters: a RAV is worth exactly the
  distinct receipts in it. Requests may overlap, so a previous RAV need not be the last
  one; what survives is that it is worth its receipts and that the batch on top of it
  holds distinct receipts newer than all of them (`WorthInv`), and the sum over two
  disjoint sets is the sum of the sums.
- `ManagerImplementsVoucher`: with `SingleRequester` alone, the stored RAV
  implements `Voucher`: batches of distinct receipts, newer than the voucher, and
  none without them.

Its second part carries all of these over to `Storage`, with a caller that removes
receipts by id at any time (`StorageTypeCorrect`, `RemovalStrandsNothing`,
`EveryRemovalIsSafe`, `StoredRavsAreWorthTheirSources`, `StorageImplementsVoucher`).
`StorageInv` adds to the manager's invariants that the ids a caller is removing are of
receipts that were returned to it (`RemovesInvalid`); then a removal only shrinks the
storage, and each part of `SafetyInv` speaks of all receipts that are stored, so it
survives. What makes `EveryRemovalIsSafe` more than the manager's own case is the lookup:
it finds every copy of a receipt, those included that are valid, and stays safe only as
`rejected` leaves out the duplicates of valid receipts. That set only grows
(`RejectedGrows`), so what a caller looked up under it may be removed at any later time.
`StorageTruncatesSafely` is the equivalence of `safe_truncate_receipts` as
written with `Tally!SafeTruncate`: however a sort places equal timestamps, what the
algorithm keeps is the same set.

### Registry and aggregator

`AggregatorProofs` rests on `RegistryAssumption`, `AggregatorAssumption` and
`EarlierAssumption`. The last says of the RAVs signed before the start what
`NothingIsOverPromised` says of those signed since, so it is what an earlier run of the
aggregator leaves behind, and holds trivially of none.

- `RegistryTypeCorrect`, `OneSignerOnePayer`: no signer is accepted for two payers. The
  inductive invariant is `AcceptedAreRecorded`, that what a payer accepts is recorded in
  `signer_payer` as that payer's; the first loop only adds fresh keys, and the second
  never moves a signer, which is `SignerIsFree`.
- `RegistryIsTheConfig`, `KeysAreAccepted`: a registry that was built accepts exactly what
  was configured, and one that was not has a conflict to blame. The invariant is
  `BuiltFromRead`: after each pair the registry is the one that the pairs read so far
  configure, and they do not contradict each other.
- `TypeCorrect`, `NothingIsOverPromised`, `SignersVouch`: the invariant `RavsAreBacked`
  says that each RAV is worth the sum of its distinct receipts, all of its payer and
  stream, and that each record is of a RAV. A batch that passes the checks repeats no
  receipt and is newer than the previous RAV, so its sum is that of a disjoint set.
- `DebtIsAlwaysBacked`: per payer, the largest records of all streams add up to no more
  than the payer's receipts, since the receipts of different streams are disjoint.

### Server and RAV feed

`ServerProofs` assumes what types give in the code: a value fits in two halves
(`ServerAssumption`), and receipts and RAVs have the fields of their messages
(`MessageAssumption`).

- `ClientsGetSignedRavs` and `ServerImplementsAggregator`. The core is the round trip of
  `Wire`: the halves of a value join to the value (`HalvesJoin`), so a request reaches the
  handler as the client made it (`RequestReturns`, `PreviousReturns`), and the answer
  reaches the client as it was signed. `ServerInv` says that signed RAVs are messages,
  that clients hold signed ones only (so a previous RAV is one that `Aggregator` allows),
  and that the producer holds records of signed ones only (so a delivery is a `Publish`).
- `ServerTypeCorrect`, `MetricsAreTrue`: the counters add up to what the RAVs of the
  process promised (`MetricsInv`), although the sum is taken before the checks and may
  wrap around: then `aggregate_receipts` refuses (`AnswerIsCounted`), and nothing is counted.
- `FeedTypeCorrect`, `ProcessedRavsCount`, `LostRecordsHeal`, `DebtIsOwed`. The invariant
  `TableMatchesTopic` relates the table to the topic in both directions: an entry is the
  record of some RAV of one of the manager's signers, and is no less than any such record
  processed. `ProcessedRavsCount` and `LostRecordsHeal` assume that the manager's payer is
  among its signers, which is what `rav_feed_signer` refutes the configuration's words
  without; `DebtIsOwed` assumes that no *other* payer is among them.

### Receipt feed

`ReceiptFeedProofs` rests on `FeedAssumption`: any finite set of partitions, any length of
an hour, window and cutoff. `CountedOnce` and `NothingLost` speak of totals; the invariant
speaks of each hour. `Held` is what the database and the updates on the way to it say of
an hour, `Credit` the number of its queries that were read, be it from the hourly topic
(`Consumed`, then all of them) or from the realtime topic.

- `FeedTypes`: no update is dated in the future, since an hour is only summed up when it
  is over.
- `NoQueryCountsTwice`: no hour is held more often than it was read (`UpperInv`). An hour is
  summed up once and gets no more queries (`TopicInv`), and the realtime topic is only read
  from the hour after all that was consumed (`ReadInv`), so no step adds to an hour what
  it has already. A total is the sum over hours that begin inside the window,
  and by `CountByHour` these hold at most the queries of the window.
- `NoQueryFallsBetween`: an hour in the window and not before the cutoff is held as often as
  it was read (`LowerInv`). What remains is that all was read, which is about the
  partitions: a replay that ends has read each of them up to the same hour (`ReplayInv`,
  `SameHour`), though each has its own number of sums and more arrive meanwhile. The
  invariant has to admit replays that never end (`Endless`): when there was no sum to
  wait for, or when the awaited one is skipped by the cutoff.

The proof corrected the property: with a cutoff inside an hour, the sum of that hour is
left out as a whole, so `NothingLost` excepts hours that begin before the cutoff, and not
only queries before it. TLC shows the difference for a cutoff of 3 with hours of 2. The
invariant was checked by TLC on the instance of `receipt_feed`, with cutoffs on the hour
and within it, before it was proved.

### Policy

`EscrowPolicyProofs` rests on `PolicyAssumption` (amounts are positive; both factors
are fractions; the fill factor is positive, without which `next_balance` would not end).
The theorems about the state of a cycle are in `EscrowManagerProofs`, and follow from
`TypeInv`, whatever fails, is late or is restarted.

- `NextBalanceIsTight` and `TargetTightness`: `next_balance` ends, and returns the first
  step that the debt does not fill: it is enough and the step before it is not.
- `DepositsMade`, `CapSpending`, `CapSharing`: `reduce_adjustments` ends for any number of
  receivers. The cap is spent, and less than a round more unless the minimal deposits
  reach it already (so the excess that `escrow_cap` finds is bounded); no deposit is cut
  while another is more than a round above it; none exceeds what the receiver lacks or
  the minimal deposit. The measure is what all receivers still lack, with the place in
  the round.
- `DecideOne`: what each branch of `decide` implies for the account and the target.

### Loop

`EscrowManagerProofs` rests on `EscrowAssumption` and `PolicyAssumption`, for any
receivers, debts, thawing period and lag of the subgraph. Two more results hold
whatever fails, is late or is restarted.

- `EscrowTypeCorrect`: the inductive shape is `TypeInv`: each recent block has thaws within
  balances, a transaction is a batch that is not empty or one of the startup, and a cycle
  in a batch has something to send there.
- `LoopIsApproved`: the loop runs with the allowance in force. `AllowanceInv` adds that
  while an approval is waited for, it is the last transaction in the mempool, so that
  when the mempool is empty it has landed. It is about `Unlimited` allowances, as the
  property: deposits do not use them up.

The others are about a process that is not restarted and whose RPC calls are answered in
time (`Prompt`, which is how `escrow_pinned` is configured). `escrow_stale` is
the same system without it, and refutes the first of them: a transaction that lands after
its wait is over is not pinned. Nothing is assumed of collections, time, lag, or
of which transactions revert. The inductive invariant is `PromptInv`, which TLC found to
hold on the instance of `escrow_pinned` before it was proved:

- `OneAtATime`: what is in the mempool is the one transaction the process waits for.
- `PinFollows`: the pin, or the pin that the cycle will leave, is no older than the payer's
  last multicall, but for the moment between its landing and its receipt.
- `PictureInv`: since any block no older than that multicall, and so since the cycle read
  its accounts, nothing but collections and time happened to an account (`Shrunk`).
- `PlanInv`: what made a planned step right when it was decided stays true of the latest
  accounts until the step is taken: a withdrawal is mature, a receiver to thaw has nothing
  thawing, a deposit does not take its receiver over the target, and, if nobody
  collected, the others are covered.

From it follow `PinIsEnough` (`NeverPlansOnStaleData`), `WithdrawalsAreMature`,
`EverybodyIsCovered`, `ThawsAreNotRestarted` and `DepositsAreBounded`, the last with
`DepositsMade` for cycles that are capped: a deposit may be as large as the minimal one
though less is lacking.

### Model-checked only

- Liveness (`StoredIsSettled`, `InvalidAreRemoved`, `RecordsAreCounted`, `DebtIsCovered`,
  `ThawEnds`, `StartupEnds`, `ReplayStops`): the provers have no rules for fairness and
  ENABLED.
- The loop without `Prompt`, beyond the shape of its state and its allowance: what holds
  then is eventual (`DebtIsCovered`, `ThawEnds`).

## Not modelled

- Configuration parsing, and EIP-712 hashing and signatures: a message carries its
  signer in the models.
- Of the transport: error codes, body and connection limits, compression, the request
  timeout, routing. None changes state. Reading them showed that the layers given to the
  gRPC router do not reach the routes that are merged into it, and that a gRPC request
  that does not convert is not counted by `aggregation_failure_count`, which is
  described as counting failures "for any reason" (server.rs:44).
- Of the metrics: the endpoints that show them, and the gauges of the escrow manager,
  which are copies of values the loop has.
- `dry_run`, which skips each transaction: the loop then plans and does nothing.
- The sender escrow of `InMemoryContext`, used by tests only.
- Active allocations: a receiver's RAV debt in the loop is the sum over its active
  allocations, so the RAV of a closed allocation stops being debt before it is
  collected. It is listed as a hazard; the loop takes any published debt, which
  includes the drop.
- `start_timestamp` in seconds (kafka.rs:49) for a position in milliseconds costs time
  only, and a full channel between the consumers and the database only delays them.

## Plan

Done: all modules of the table above and the proofs above.

Next: a model of active allocations in front of the loop's debts, and an abstract escrow
account that `EscrowManager` implements.
