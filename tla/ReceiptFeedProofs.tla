------------------------- MODULE ReceiptFeedProofs -------------------------
(***************************************************************************)
(* Proofs about ReceiptFeed: for any partitions, length of an hour, window *)
(* and cutoff, and any number of queries at any times, no query is counted *)
(* twice, and none falls between the two topics.                           *)
(***************************************************************************)
EXTENDS ReceiptFeed, Sums

(* The beginnings of the hours, before the first one too: the window       *)
(* reaches back there.                                                     *)
HourStarts == {h \in Int : h % HourLength = 0}
Hours == HourStarts \cap Nat

(* Hours follow each other without a gap, and a time is in one of them.    *)
LEMMA HourOf ==
    ASSUME NEW t \in Int
    PROVE  /\ hourly_timestamp(t) \in HourStarts
           /\ hourly_timestamp(t) <= t /\ t < hourly_timestamp(t) + HourLength
           /\ t \in Nat => hourly_timestamp(t) \in Hours
<1>1. HourLength \in Nat /\ HourLength > 0
  BY FeedAssumption
<1> DEFINE q == t \div HourLength
           r == t % HourLength
<1>2. q \in Int /\ r \in 0 .. HourLength - 1 /\ t = q * HourLength + r
  BY <1>1
<1>3. hourly_timestamp(t) = q * HourLength
  <2>1. hourly_timestamp(t) = t - r
    BY DEF hourly_timestamp
  <2> HIDE DEF q, r
  <2> QED BY <1>1, <1>2, <2>1
<1>4. (q * HourLength) % HourLength = 0 /\ q * HourLength \in Int
  <2> HIDE DEF q, r
  <2> QED BY <1>1, <1>2
<1>5. t \in Nat => q * HourLength >= 0
  <2>1. t \in Nat => q >= 0
    BY <1>1
  <2> HIDE DEF q
  <2> QED BY <1>1, <1>2, <2>1
<1> HIDE DEF q, r
<1> QED BY <1>1, <1>2, <1>3, <1>4, <1>5 DEF HourStarts, Hours

(* Two hours are at least an hour apart.                                   *)
LEMMA HoursApart ==
    ASSUME NEW a \in HourStarts, NEW b \in HourStarts, a < b
    PROVE  a + HourLength <= b
<1>1. HourLength \in Nat /\ HourLength > 0 /\ a \in Int /\ b \in Int
  BY FeedAssumption DEF HourStarts
<1> DEFINE k == a \div HourLength
           l == b \div HourLength
<1>2. k \in Int /\ l \in Int /\ a = k * HourLength /\ b = l * HourLength
  BY <1>1 DEF HourStarts
<1> HIDE DEF k, l
<1>3. k < l
  <2> SUFFICES ASSUME l <= k PROVE FALSE
    BY <1>2
  <2>1. l * HourLength <= k * HourLength
    BY <1>1, <1>2
  <2> QED BY <1>1, <1>2, <2>1
<1>4. (k + 1) * HourLength <= l * HourLength
  BY <1>1, <1>2, <1>3
<1>5. (k + 1) * HourLength = k * HourLength + HourLength
  BY <1>1, <1>2
<1> QED BY <1>1, <1>2, <1>4, <1>5

(* A time belongs to the hour that begins before it and ends after it.     *)
LEMMA HourIs ==
    ASSUME NEW t \in Int, NEW h \in HourStarts
    PROVE  hourly_timestamp(t) = h <=> (h <= t /\ t < h + HourLength)
<1>1. /\ hourly_timestamp(t) \in HourStarts
      /\ hourly_timestamp(t) <= t /\ t < hourly_timestamp(t) + HourLength
  BY HourOf
<1>2. HourLength \in Nat /\ h \in Int /\ hourly_timestamp(t) \in Int
  BY <1>1, FeedAssumption DEF HourStarts
<1>3. h < hourly_timestamp(t) => h + HourLength <= hourly_timestamp(t)
  BY <1>1, HoursApart
<1>4. hourly_timestamp(t) < h => hourly_timestamp(t) + HourLength <= h
  BY <1>1, HoursApart
<1> QED BY <1>1, <1>2, <1>3, <1>4

(* The next hour begins an hour later.                                     *)
LEMMA NextHour ==
    /\ 0 \in Hours
    /\ \A h \in Hours : h + HourLength \in Hours
    /\ \A h \in HourStarts : hourly_timestamp(h) = h /\ h \in Int
    /\ HourLength \in Nat /\ HourLength > 0
<1>1. HourLength \in Nat /\ HourLength > 0
  BY FeedAssumption
<1>2. 0 % HourLength = 0
  BY <1>1
<1>3. ASSUME NEW h \in Hours PROVE h + HourLength \in Hours
  <2> DEFINE k == h \div HourLength
  <2>1. h \in Nat /\ k \in Int /\ h = k * HourLength
    BY <1>1 DEF Hours, HourStarts
  <2> HIDE DEF k
  <2>2. h + HourLength = (k + 1) * HourLength
    BY <1>1, <2>1
  <2>3. ((k + 1) * HourLength) % HourLength = 0
    <3>1. k + 1 \in Int
      BY <2>1
    <3> QED BY <1>1, <3>1
  <2> QED BY <1>1, <2>1, <2>2, <2>3 DEF Hours, HourStarts
<1>4. \A h \in HourStarts : hourly_timestamp(h) = h /\ h \in Int
  BY <1>1 DEF HourStarts, hourly_timestamp
<1> QED BY <1>1, <1>2, <1>3, <1>4 DEF Hours, HourStarts

-----------------------------------------------------------------------------
(* What a set of updates says of an hour.                                  *)
OfHour(S, h) == {u \in S : hourly_timestamp(u.timestamp) = h}
Fees(S, h) == MapThenSumSet(LAMBDA u : u.fee, OfHour(S, h))

(* A sum of fees, as a sum of a function.                                  *)
LEMMA FeeSum ==
    ASSUME NEW S, IsFiniteSet(S)
    PROVE  MapThenSumSet(LAMBDA u : u.fee, S) = SumOver([u \in S |-> u.fee], S)
<1> DEFINE f == [u \in S |-> u.fee]
           sum == CHOOSE h : h = [s \in SUBSET S |->
                     IF s = {} THEN 0 ELSE Pick(s).fee + h[s \ {Pick(s)}]]
<1>1. MapThenSumSet(LAMBDA u : u.fee, S) = sum[S]
  BY DEF MapThenSumSet, MapThenFoldSet, Pick
<1>2. ASSUME NEW s \in SUBSET S, s # {}
      PROVE  f[Pick(s)] = Pick(s).fee
  BY <1>2 DEF Pick
<1>3. PICK g : Folds(g, f, SUBSET S)
  BY FoldExists
<1>4. g = [s \in SUBSET S |->
             IF s = {} THEN 0 ELSE Pick(s).fee + g[s \ {Pick(s)}]]
  BY <1>2, <1>3 DEF Folds
<1>5. sum = [s \in SUBSET S |->
               IF s = {} THEN 0 ELSE Pick(s).fee + sum[s \ {Pick(s)}]]
  BY <1>4
<1>6. Folds(sum, f, SUBSET S)
  BY <1>2, <1>5 DEF Folds
<1> HIDE DEF sum, f
<1>7. SumOver(f, S) = sum[S]
  BY <1>6, SumIsFold
<1> QED BY <1>1, <1>7 DEF f

(* Fees of separate updates add up.                                        *)
LEMMA FeesAdd ==
    ASSUME NEW S, IsFiniteSet(S), NEW T, IsFiniteSet(T), S \cap T = {},
           \A u \in S \cup T : u.fee \in Nat, NEW h
    PROVE  /\ Fees(S, h) \in Nat /\ Fees(T, h) \in Nat
           /\ Fees(S \cup T, h) = Fees(S, h) + Fees(T, h)
<1> DEFINE A == OfHour(S, h)
           B == OfHour(T, h)
           f == [u \in A \cup B |-> u.fee]
<1>1. A \subseteq S /\ B \subseteq T /\ OfHour(S \cup T, h) = A \cup B /\ A \cap B = {}
  BY DEF OfHour
<1>2. IsFiniteSet(A) /\ IsFiniteSet(B) /\ IsFiniteSet(A \cup B)
  BY <1>1, FS_Subset, FS_Union
<1>3. \A u \in A \cup B : f[u] = u.fee /\ u.fee \in Nat
  BY <1>1
<1> HIDE DEF A, B
<1>4. SumOver([u \in A |-> u.fee], A) = SumOver(f, A)
  <2>1. \A u \in A : [v \in A |-> v.fee][u] = f[u]
    OBVIOUS
  <2> HIDE DEF f
  <2> QED BY <1>2, <2>1, SumAgree
<1>5. SumOver([u \in B |-> u.fee], B) = SumOver(f, B)
  <2>1. \A u \in B : [v \in B |-> v.fee][u] = f[u]
    OBVIOUS
  <2> HIDE DEF f
  <2> QED BY <1>2, <2>1, SumAgree
<1>6. Fees(S, h) = SumOver(f, A)
  BY <1>2, <1>4, FeeSum DEF Fees, A
<1>7. Fees(T, h) = SumOver(f, B)
  BY <1>2, <1>5, FeeSum DEF Fees, B
<1>8. Fees(S \cup T, h) = SumOver(f, A \cup B)
  BY <1>1, <1>2, FeeSum DEF Fees
<1> HIDE DEF f
<1>9. \A u \in A \cup B : f[u] \in Nat /\ f[u] \in Int
  BY <1>3
<1>10. SumOver(f, A) \in Nat /\ SumOver(f, B) \in Nat
  BY <1>2, <1>9, SumNat
<1>11. SumOver(f, A \cup B) = SumOver(f, A) + SumOver(f, B)
  BY <1>1, <1>2, <1>9, SumUnion
<1> QED BY <1>6, <1>7, <1>8, <1>10, <1>11

(* The fee of one update, and of none.                                     *)
LEMMA FeeOfOne ==
    ASSUME NEW u, u.fee \in Nat, NEW h
    PROVE  /\ Fees({u}, h) = IF hourly_timestamp(u.timestamp) = h THEN u.fee ELSE 0
           /\ Fees({}, h) = 0
<1>1. IsFiniteSet({u}) /\ IsFiniteSet({})
  BY FS_Singleton, FS_EmptySet
<1> DEFINE f == [v \in {u} |-> v.fee]
<1>2. SumOver(f, {u}) = u.fee
  <2>1. f[u] = u.fee /\ \A x \in {u} : f[x] \in Int
    OBVIOUS
  <2>2. {u} \ {u} = {}
    OBVIOUS
  <2> HIDE DEF f
  <2>3. SumOver(f, {u}) = f[u] + SumOver(f, {u} \ {u})
    BY <1>1, <2>1, SumRemove
  <2> QED BY <2>1, <2>2, <2>3, SumEmpty
<1>3. MapThenSumSet(LAMBDA v : v.fee, {u}) = u.fee
  BY <1>1, <1>2, FeeSum
<1>4. MapThenSumSet(LAMBDA v : v.fee, {}) = 0
  BY <1>1, FeeSum, SumEmpty
<1>5. OfHour({}, h) = {}
      /\ OfHour({u}, h) = IF hourly_timestamp(u.timestamp) = h THEN {u} ELSE {}
  BY DEF OfHour
<1> QED BY <1>3, <1>4, <1>5 DEF Fees

(* The published total, as a sum over the hours.                           *)
LEMMA TotalIsSum ==
    ASSUME NEW f
    PROVE  SumFunction(f) = SumOver(f, DOMAIN f)
BY DEF SumFunction, SumFunctionOnSet, FoldFunctionOnSet, SumOver, MapThenSumSet,
       MapThenFoldSet

(* Hour by hour, queries are counted once.                                 *)
LEMMA CountByHour ==
    ASSUME NEW Q, IsFiniteSet(Q), NEW hour, NEW D, IsFiniteSet(D)
    PROVE  SumOver([h \in D |-> Cardinality({i \in Q : hour[i] = h})], D)
              = Cardinality({i \in Q : hour[i] \in D})
<1> DEFINE part == [h \in D |-> {i \in Q : hour[i] = h}]
           one == [i \in Q |-> 1]
           counts == [h \in D |-> Cardinality({i \in Q : hour[i] = h})]
           All == {i \in Q : hour[i] \in D}
<1>1. \A h \in D : part[h] \subseteq Q /\ part[h] = {i \in Q : hour[i] = h}
  OBVIOUS
<1>2. \A h \in D : IsFiniteSet(part[h])
  BY <1>1, FS_Subset
<1>3. \A h \in D : \A x \in part[h] : one[x] = 1 /\ one[x] \in Int
  OBVIOUS
<1>4. \A h, k \in D : h # k => part[h] \cap part[k] = {}
  OBVIOUS
<1>5. UNION {part[h] : h \in D} = All
  OBVIOUS
<1>6. All \subseteq Q /\ IsFiniteSet(All) /\ \A i \in All : one[i] = 1
  BY FS_Subset
<1>7. \A h \in D : SumOver(one, part[h]) = Cardinality(part[h])
  <2> SUFFICES ASSUME NEW h \in D PROVE SumOver(one, part[h]) = Cardinality(part[h])
    OBVIOUS
  <2> DEFINE P == part[h]
  <2>1. IsFiniteSet(P) /\ \A x \in P : one[x] = 1
    BY <1>2
  <2> HIDE DEF P, one
  <2>2. SumOver(one, P) = 1 * Cardinality(P) /\ Cardinality(P) \in Nat
    BY <2>1, SumOfConstant, FS_CardinalityType
  <2> QED BY <2>2 DEF P
<1>8. [h \in D |-> SumOver(one, part[h])] = counts
  BY <1>7
<1> HIDE DEF part, one, counts, All
<1>9. SumOver([h \in D |-> SumOver(one, part[h])], D) = SumOver(one, UNION {part[h] : h \in D})
  BY <1>2, <1>3, <1>4, SumPartition
<1>10. SumOver(one, All) = 1 * Cardinality(All) /\ Cardinality(All) \in Nat
  BY <1>6, SumOfConstant, FS_CardinalityType
<1>11. SumOver(one, All) = Cardinality(All)
  BY <1>10
<1>12. SumOver(counts, D) = Cardinality(All)
  BY <1>5, <1>8, <1>9, <1>11
<1> QED BY <1>12 DEF counts, All

-----------------------------------------------------------------------------
(* The invariant.  First the types, and the bounds that go with them.      *)
HourSum == [timestamp : Hours, fee : Nat]
NoHour  == 0 - HourLength   \* latest of a consumer without aggregated topic
Update  == [id : Nat \X Nat, timestamp : Nat, fee : Nat]

TopicTypes ==
    /\ now \in 0 .. MaxNow
    /\ queries \in Seq(Nat)
    /\ \A i \in DOMAIN queries : queries[i] <= now
    /\ hourly \in [Partitions -> Seq(HourSum)]
    /\ next_hour \in Hours /\ next_hour <= now

ConsumerTypes ==
    /\ phase \in {"down", "replay", "realtime", "panicked"}
    /\ DOMAIN awaited \subseteq Partitions
    /\ \A p \in DOMAIN awaited : awaited[p] \in 1 .. Len(hourly[p])
    /\ offset \in [Partitions -> Nat]
    /\ \A p \in Partitions : offset[p] <= Len(hourly[p])
    /\ latest \in Hours \cup {NoHour}
    /\ read \subseteq DOMAIN queries

DatabaseTypes ==
    /\ IsFiniteSet(updates) /\ updates \subseteq Update
    /\ \A u \in updates : u.timestamp <= now
    /\ IsFiniteSet(DOMAIN data) /\ DOMAIN data \subseteq Hours
    /\ \A h \in DOMAIN data : data[h] \in Nat
    /\ last_snapshot \in 0 .. now
    /\ published \in Nat

TypeInv == TopicTypes /\ ConsumerTypes /\ DatabaseTypes

(* The aggregated topic holds each hour that has passed, up to next_hour,  *)
(* once, with the number of its queries.                                   *)
QueriesOf(h) == {i \in DOMAIN queries : hourly_timestamp(queries[i]) = h}

SumIsRight(p, k) ==
    /\ hourly[p][k].timestamp + HourLength <= next_hour
    /\ hourly[p][k].fee = Cardinality(QueriesOf(hourly[p][k].timestamp))
SumsAreRight  == \A p \in Partitions : \A k \in 1 .. Len(hourly[p]) : SumIsRight(p, k)
HoursAreSummed ==
    \A h \in Hours : h < next_hour =>
       \E p \in Partitions : \E k \in 1 .. Len(hourly[p]) : hourly[p][k].timestamp = h
SumsAreDistinct ==
    \A p, q \in Partitions : \A k \in 1 .. Len(hourly[p]), l \in 1 .. Len(hourly[q]) :
       hourly[p][k].timestamp = hourly[q][l].timestamp => p = q /\ k = l

TopicInv == SumsAreRight /\ HoursAreSummed /\ SumsAreDistinct

(* The consumer has read a beginning of each partition, then queries of    *)
(* later hours only; the updates in the channel come from what it read.    *)
Consumed(h) ==
    \E p \in Partitions : \E k \in 1 .. offset[p] : hourly[p][k].timestamp = h

FromQuery(u) == \E i \in read : u.id = <<0, i>>
FromSum(u)   == \E p \in Partitions : \E k \in 1 .. offset[p] : u.id = <<p, k>>

NothingReadYet ==
    /\ phase \in {"down", "replay"} => read = {}
    /\ phase = "down" =>
          /\ \A p \in Partitions : offset[p] = 0
          /\ DOMAIN awaited = {} /\ updates = {} /\ DOMAIN data = {}
          /\ published = 0
LatestIsConsumed ==
    /\ \A h \in Hours : Consumed(h) => h <= latest
    /\ latest \in {0, NoHour} \/ Consumed(latest)
ReadIsLater    == \A i \in read : queries[i] >= latest + HourLength
UpdatesAreRead == \A u \in updates : FromQuery(u) \/ FromSum(u)

ReadInv == NothingReadYet /\ LatestIsConsumed /\ ReadIsLater /\ UpdatesAreRead

(* An hour is held, in the database or on the way to it, no more often     *)
(* than it was read; and just as often while it matters.                   *)
Stored(h) == IF h \in DOMAIN data THEN data[h] ELSE 0
Held(h)   == Stored(h) + Fees(updates, h)
Credit(h) == IF Consumed(h) THEN Cardinality(QueriesOf(h))
                            ELSE Cardinality(QueriesOf(h) \cap read)

UpperInv == \A h \in Hours : Held(h) <= Credit(h)
LowerInv == \A h \in Hours : (h > now - Window /\ h >= Cutoff) => Held(h) >= Credit(h)
BalanceInv == UpperInv /\ LowerInv

(* The replay goes on until the partitions were read up to the same hour,  *)
(* or for ever: when it started without a sum to wait for, or when the sum *)
(* it waits for is one the cutoff leaves out.                              *)
Goal(p) == IF p \in DOMAIN awaited THEN awaited[p] ELSE offset[p]

Endless ==
    /\ phase = "replay"
    /\ \/ DOMAIN awaited = {}
       \/ \E p \in DOMAIN awaited :
             awaited[p] <= offset[p] \/ hourly[p][awaited[p]].timestamp < Cutoff

SameHour(N) ==
    /\ N <= next_hour
    /\ \A p \in Partitions :
          /\ p \in DOMAIN awaited => offset[p] < awaited[p]
          /\ \A k \in 1 .. Len(hourly[p]) : k <= Goal(p) <=> hourly[p][k].timestamp < N

ReplayInv ==
    /\ phase = "replay" => (Endless \/ \E N \in Hours : SameHour(N))
    /\ phase = "realtime" =>
          /\ DOMAIN awaited = {}
          /\ \E N \in Hours : SameHour(N)
          /\ latest = NoHour \/ \E h \in Hours : Consumed(h)

Inv == TypeInv /\ TopicInv /\ ReadInv /\ BalanceInv /\ ReplayInv /\ CountedOnce

-----------------------------------------------------------------------------
(* Queries are finitely many.                                              *)
LEMMA QueriesFinite ==
    ASSUME queries \in Seq(Nat), NEW S
    PROVE  /\ IsFiniteSet(DOMAIN queries)
           /\ IsFiniteSet(S \cap DOMAIN queries)
           /\ Cardinality(S \cap DOMAIN queries) \in Nat
<1>1. DOMAIN queries = 1 .. Len(queries) /\ Len(queries) \in Nat
  OBVIOUS
<1>2. IsFiniteSet(DOMAIN queries)
  BY <1>1, FS_Interval
<1> QED BY <1>2, FS_Subset, FS_CardinalityType

(* An hour that was served whole holds the queries that began in it.       *)
LEMMA QueriesOfHour ==
    ASSUME queries \in Seq(Nat), NEW h \in Hours
    PROVE  /\ Served(h, h + HourLength) = QueriesOf(h)
           /\ IsFiniteSet(QueriesOf(h)) /\ Cardinality(QueriesOf(h)) \in Nat
           /\ IsFiniteSet(QueriesOf(h) \cap read)
           /\ Cardinality(QueriesOf(h) \cap read) \in Nat
           /\ Cardinality(QueriesOf(h) \cap read) <= Cardinality(QueriesOf(h))
<1>1. h \in HourStarts
  BY DEF Hours
<1>2. ASSUME NEW i \in DOMAIN queries
      PROVE  hourly_timestamp(queries[i]) = h
                <=> (h <= queries[i] /\ queries[i] < h + HourLength)
  <2>1. queries[i] \in Int
    OBVIOUS
  <2> QED BY <1>1, <2>1, HourIs
<1>3. Served(h, h + HourLength) = QueriesOf(h)
  BY <1>2 DEF Served, QueriesOf
<1>4. QueriesOf(h) \subseteq DOMAIN queries /\ QueriesOf(h) \cap DOMAIN queries = QueriesOf(h)
  BY DEF QueriesOf
<1>5. IsFiniteSet(QueriesOf(h)) /\ Cardinality(QueriesOf(h)) \in Nat
  BY <1>4, QueriesFinite
<1> QED BY <1>3, <1>5, FS_Subset, FS_CardinalityType

(* What the database makes of a batch of updates.                          *)
Kept(batch) == {u \in batch : InWindow(u)}
SumAt(f, h) == IF h \in DOMAIN f THEN f[h] ELSE 0

(* Fees of finitely many updates are a natural.                            *)
LEMMA FeesNat ==
    ASSUME NEW S, IsFiniteSet(S), \A u \in S : u.fee \in Nat, NEW h
    PROVE  Fees(S, h) \in Nat
BY FeesAdd, FS_EmptySet

(* A batch adds, to each hour, the fees of its updates in the window.      *)
LEMMA UpdatedIs ==
    ASSUME DatabaseTypes, NEW batch, batch \subseteq updates
    PROVE  /\ IsFiniteSet(batch) /\ IsFiniteSet(Kept(batch))
           /\ IsFiniteSet(DOMAIN Updated(batch)) /\ DOMAIN Updated(batch) \subseteq Hours
           /\ \A h \in DOMAIN Updated(batch) : Updated(batch)[h] \in Nat
           /\ \A h \in Hours : SumAt(Updated(batch), h) = Stored(h) + Fees(Kept(batch), h)
<1> DEFINE kept == Kept(batch)
           hours == {hourly_timestamp(u.timestamp) : u \in kept}
<1>1. IsFiniteSet(batch) /\ IsFiniteSet(kept) /\ kept \subseteq batch
  BY FS_Subset DEF DatabaseTypes, Kept
<1>2. \A u \in batch : u.fee \in Nat /\ u.timestamp \in Nat /\ u.timestamp \in Int
  BY DEF DatabaseTypes, Update
<1>3. Updated(batch) = [h \in DOMAIN data \cup hours |-> Stored(h) + Fees(kept, h)]
  BY DEF Updated, Fees, OfHour, Kept, Stored
<1>4. IsFiniteSet(hours)
  <2> DEFINE hour == [u \in kept |-> hourly_timestamp(u.timestamp)]
  <2>1. hours = {hour[u] : u \in kept}
    OBVIOUS
  <2> HIDE DEF hour, hours, kept
  <2> QED BY <1>1, <2>1, FiniteImage
<1>5. hours \subseteq Hours
  BY <1>1, <1>2, HourOf
<1>6. IsFiniteSet(DOMAIN data) /\ DOMAIN data \subseteq Hours
  BY DEF DatabaseTypes
<1>7. \A h : Stored(h) \in Nat
  BY DEF DatabaseTypes, Stored
<1>8. \A h : Fees(kept, h) \in Nat
  <2> HIDE DEF kept
  <2> QED BY <1>1, <1>2, FeesNat
<1>9. ASSUME NEW h, h \notin hours PROVE Fees(kept, h) = 0
  <2>1. OfHour(kept, h) = {} /\ OfHour({}, h) = {}
    BY <1>9 DEF OfHour
  <2>2. Fees(kept, h) = Fees({}, h)
    BY <2>1 DEF Fees
  <2>3. Fees({}, h) = 0
    <3> DEFINE z == [fee |-> 0, timestamp |-> 0]
    <3>1. z.fee \in Nat
      OBVIOUS
    <3> HIDE DEF z
    <3> QED BY <3>1, FeeOfOne
  <2> QED BY <2>2, <2>3
<1>10. ASSUME NEW h \in Hours, h \notin DOMAIN data \cup hours
       PROVE  Stored(h) + Fees(kept, h) = 0
  BY <1>9, <1>10 DEF Stored
<1> HIDE DEF hours, kept
<1>11. DOMAIN Updated(batch) = DOMAIN data \cup hours
  BY <1>3
<1>12. IsFiniteSet(DOMAIN data \cup hours)
  BY <1>4, <1>6, FS_Union
<1>13. \A h \in DOMAIN Updated(batch) : Updated(batch)[h] = Stored(h) + Fees(kept, h)
  BY <1>3
<1>14. \A h \in Hours : SumAt(Updated(batch), h) = Stored(h) + Fees(kept, h)
  BY <1>10, <1>11, <1>13 DEF SumAt
<1>15. \A h \in DOMAIN Updated(batch) : Updated(batch)[h] \in Nat
  BY <1>7, <1>8, <1>13
<1> QED BY <1>1, <1>5, <1>6, <1>11, <1>12, <1>14, <1>15 DEF kept

-----------------------------------------------------------------------------
(* Types.                                                                  *)
LEMMA Pruning ==
    ASSUME NEW f, IsFiniteSet(DOMAIN f), DOMAIN f \subseteq Hours, now \in Int
    PROVE  /\ IsFiniteSet(DOMAIN Pruned(f)) /\ DOMAIN Pruned(f) \subseteq DOMAIN f
           /\ \A h \in DOMAIN Pruned(f) : Pruned(f)[h] = f[h] /\ h > now - Window
           /\ \A h \in DOMAIN f : h > now - Window => h \in DOMAIN Pruned(f)
<1> DEFINE start == hourly_timestamp(now - Window)
<1>1. HourLength \in Nat /\ WindowHours \in Nat /\ Window \in Int /\ now - Window \in Int
  BY FeedAssumption DEF Window
<1>2. /\ start \in HourStarts /\ start \in Int
      /\ start <= now - Window /\ now - Window < start + HourLength
  BY <1>1, HourOf DEF HourStarts
<1>3. ASSUME NEW h \in DOMAIN f
      PROVE  /\ h \in HourStarts /\ h \in Int
             /\ h > start => h > now - Window
             /\ h > now - Window => h > start
  <2>1. h \in HourStarts /\ h \in Int
    BY DEF Hours, HourStarts
  <2>2. start < h => start + HourLength <= h
    BY <1>2, <2>1, HoursApart
  <2> QED BY <1>1, <1>2, <2>1, <2>2
<1>4. Pruned(f) = [h \in {t \in DOMAIN f : t > start} |-> f[h]]
  BY DEF Pruned
<1> HIDE DEF start
<1>5. DOMAIN Pruned(f) = {t \in DOMAIN f : t > start}
  BY <1>4
<1>6. IsFiniteSet(DOMAIN Pruned(f))
  BY <1>5, FS_Subset
<1> QED BY <1>3, <1>4, <1>5, <1>6

(* The types hold at first.                                                *)
LEMMA TypeInit == Init => TypeInv
<1> SUFFICES ASSUME Init PROVE TypeInv
  OBVIOUS
<1>1. 0 \in Hours /\ MaxNow \in Nat
  BY NextHour, FeedAssumption
<1>2. TopicTypes
  <2>1. hourly \in [Partitions -> Seq(HourSum)] /\ queries \in Seq(Nat) /\ DOMAIN queries = {}
    BY DEF Init
  <2> QED BY <1>1, <2>1 DEF Init, TopicTypes
<1>3. DOMAIN awaited = {} /\ DOMAIN data = {}
  BY DEF Init, Empty
<1>4. ConsumerTypes
  <2>1. \A p \in Partitions : offset[p] = 0 /\ Len(hourly[p]) = 0
    BY DEF Init
  <2>2. offset \in [Partitions -> Nat]
    BY DEF Init
  <2> QED BY <1>1, <1>3, <2>1, <2>2 DEF Init, ConsumerTypes
<1>5. DatabaseTypes
  BY <1>3, FS_EmptySet DEF Init, DatabaseTypes
<1> QED BY <1>2, <1>4, <1>5 DEF TypeInv

(* And they are kept; a sum is dated no later than now because of          *)
(* TopicInv.                                                               *)
LEMMA TypeStep == TypeInv /\ TopicInv /\ [Next]_vars => TypeInv'
<1> SUFFICES ASSUME TypeInv, TopicInv, [Next]_vars PROVE TypeInv'
  OBVIOUS
<1> USE DEF TypeInv
<1>a. HourLength \in Nat /\ MaxNow \in Nat /\ \A p \in Partitions : p \in Nat
  BY FeedAssumption
<1>b. now \in Nat /\ now <= MaxNow
  BY <1>a DEF TopicTypes
<1>1. CASE Tick
  <2>1. TopicTypes'
    BY <1>1, <1>a, <1>b DEF Tick, TopicTypes, topics, Hours
  <2>2. ConsumerTypes'
    BY <1>1 DEF Tick, ConsumerTypes, topics, consumer
  <2>3. DatabaseTypes'
    BY <1>1, <1>b DEF Tick, DatabaseTypes, db, Update
  <2> QED BY <2>1, <2>2, <2>3
<1>2. CASE Query
  <2>1. /\ queries' \in Seq(Nat) /\ DOMAIN queries \subseteq DOMAIN queries'
        /\ \A i \in DOMAIN queries' : queries'[i] <= now
    <3>1. queries \in Seq(Nat) /\ \A i \in DOMAIN queries : queries[i] <= now
      BY DEF TopicTypes
    <3>2. queries' = Append(queries, now)
      BY <1>2 DEF Query
    <3> QED BY <3>1, <3>2, <1>b
  <2>2. TopicTypes'
    BY <1>2, <2>1 DEF Query, TopicTypes
  <2>3. ConsumerTypes'
    BY <1>2, <2>1 DEF Query, ConsumerTypes, consumer
  <2>4. DatabaseTypes'
    BY <1>2 DEF Query, DatabaseTypes, db
  <2> QED BY <2>2, <2>3, <2>4
<1>3. ASSUME NEW p \in Partitions, AggregateHour(p) PROVE TypeInv'
  <2> DEFINE msg == [timestamp |-> next_hour,
                     fee |-> Cardinality(Served(next_hour, next_hour + HourLength))]
  <2>1. msg \in HourSum
    BY QueriesOfHour DEF TopicTypes, HourSum
  <2>2. hourly' = [hourly EXCEPT ![p] = Append(@, msg)] /\ hourly[p] \in Seq(HourSum)
    BY <1>3 DEF AggregateHour, TopicTypes
  <2> HIDE DEF msg
  <2>3. Append(hourly[p], msg) \in Seq(HourSum) /\ Len(Append(hourly[p], msg)) = Len(hourly[p]) + 1
    BY <2>1, <2>2
  <2>4. /\ hourly' \in [Partitions -> Seq(HourSum)]
        /\ \A q \in Partitions : Len(hourly'[q]) \in Nat /\ Len(hourly[q]) \in Nat
                                 /\ Len(hourly[q]) <= Len(hourly'[q])
    BY <2>2, <2>3 DEF TopicTypes
  <2>5. TopicTypes'
    BY <1>3, <1>a, <2>4, NextHour DEF AggregateHour, TopicTypes
  <2>6. ConsumerTypes'
    BY <1>3, <2>4 DEF AggregateHour, ConsumerTypes, consumer
  <2>7. DatabaseTypes'
    BY <1>3 DEF AggregateHour, DatabaseTypes, db
  <2> QED BY <2>5, <2>6, <2>7
<1>4. CASE Start
  <2>1. TopicTypes'
    BY <1>4 DEF Start, TopicTypes, topics
  <2>2. \A p \in Partitions : hourly[p] # << >> => Len(hourly[p]) \in 1 .. Len(hourly[p])
    BY DEF TopicTypes
  <2>3. awaited' = [p \in {q \in Partitions : hourly[q] # << >>} |-> Len(hourly[p])]
        /\ hourly' = hourly
    BY <1>4 DEF Start, topics
  <2>4. /\ DOMAIN awaited' \subseteq Partitions
        /\ \A p \in DOMAIN awaited' : awaited'[p] \in 1 .. Len(hourly'[p])
    BY <2>2, <2>3
  <2>5. ConsumerTypes'
    BY <1>4, <2>4 DEF Start, ConsumerTypes, topics
  <2>6. DatabaseTypes'
    BY <1>4, <1>b DEF Start, DatabaseTypes
  <2> QED BY <2>1, <2>5, <2>6
<1>9. CASE StartWithoutSums
  <2>1. TopicTypes'
    BY <1>9 DEF StartWithoutSums, TopicTypes, topics
  <2>2. ConsumerTypes'
    BY <1>9 DEF StartWithoutSums, ConsumerTypes, NoHour, topics
  <2>3. DatabaseTypes'
    BY <1>9, <1>b DEF StartWithoutSums, DatabaseTypes
  <2> QED BY <2>1, <2>2, <2>3
<1>5. ASSUME NEW p \in Partitions, ConsumeHour(p) PROVE TypeInv'
  <2> DEFINE position == offset[p] + 1
             msg == hourly[p][position]
             u == [id |-> <<p, position>>, timestamp |-> msg.timestamp, fee |-> msg.fee]
  <2>1. /\ offset \in [Partitions -> Nat] /\ offset[p] \in Nat
        /\ hourly[p] \in Seq(HourSum) /\ offset[p] < Len(hourly[p])
    BY <1>5 DEF ConsumeHour, TopicTypes, ConsumerTypes
  <2>2. msg \in HourSum /\ position \in Nat /\ position \in 1 .. Len(hourly[p])
    BY <2>1
  <2>3. msg.timestamp \in Hours /\ msg.timestamp \in Nat /\ msg.fee \in Nat
    BY <2>2 DEF HourSum, Hours
  <2>4. TopicTypes'
    BY <1>5 DEF ConsumeHour, TopicTypes, topics
  <2>5. /\ offset' = [offset EXCEPT ![p] = position]
        /\ latest' = Later(latest, msg.timestamp)
        /\ \/ UNCHANGED <<phase, awaited, updates>>
           \/ updates' = updates \cup {u} /\ CompleteOffset(p, position)
        /\ UNCHANGED <<topics, read, db, now>>
    BY <1>5 DEF ConsumeHour
  <2> HIDE DEF position, msg
  <2>6. offset' \in [Partitions -> Nat]
        /\ \A q \in Partitions : offset'[q] <= Len(hourly[q])
    BY <2>1, <2>2, <2>5 DEF ConsumerTypes
  <2>7. latest' \in Hours \cup {NoHour}
    BY <2>3, <2>5 DEF ConsumerTypes, Later
  <2>8. /\ phase' \in {"down", "replay", "realtime", "panicked"}
        /\ DOMAIN awaited' \subseteq DOMAIN awaited
        /\ \A q \in DOMAIN awaited' : awaited'[q] = awaited[q]
    BY <2>5 DEF CompleteOffset, ConsumerTypes
  <2>9. ConsumerTypes'
    BY <2>5, <2>6, <2>7, <2>8 DEF ConsumerTypes, topics
  <2>10. updates' \subseteq updates \cup {u}
    BY <2>5
  <2>11. u \in Update /\ u.timestamp <= now
    <3>1. u \in Update
      BY <1>a, <2>2, <2>3 DEF Update
    <3>2. u.timestamp <= now
      <4>1. msg.timestamp + HourLength <= next_hour
        BY <2>1, <2>2 DEF TopicInv, SumsAreRight, SumIsRight, msg
      <4> QED BY <1>a, <1>b, <2>3, <4>1 DEF TopicTypes, Hours
    <3> QED BY <3>1, <3>2
  <2> HIDE DEF u
  <2>12. IsFiniteSet(updates')
    <3>1. IsFiniteSet(updates \cup {u})
      BY FS_AddElement DEF DatabaseTypes
    <3> QED BY <3>1, <2>10, FS_Subset
  <2>13. DatabaseTypes'
    BY <2>5, <2>10, <2>11, <2>12 DEF DatabaseTypes, db
  <2> QED BY <2>4, <2>9, <2>13
<1>6. ASSUME NEW i \in 1 .. MaxQueries, ReadQuery(i) PROVE TypeInv'
  <2> DEFINE u == [id |-> <<0, i>>, timestamp |-> queries[i], fee |-> 1]
  <2>1. /\ i \in DOMAIN queries /\ read' = read \cup {i} /\ updates' = updates \cup {u}
        /\ UNCHANGED <<now, topics, phase, awaited, offset, latest, db>>
    BY <1>6 DEF ReadQuery
  <2>2. TopicTypes'
    BY <2>1 DEF TopicTypes, topics
  <2>3. ConsumerTypes'
    BY <2>1 DEF ConsumerTypes, topics
  <2>4. u \in Update /\ u.timestamp <= now
    BY <2>1 DEF Update, TopicTypes
  <2> HIDE DEF u
  <2>5. IsFiniteSet(updates')
    BY <2>1, FS_AddElement DEF DatabaseTypes
  <2>6. DatabaseTypes'
    BY <2>1, <2>4, <2>5 DEF DatabaseTypes, db
  <2> QED BY <2>2, <2>3, <2>6
<1>7. ASSUME NEW batch \in SUBSET updates, ReceiveMany(batch) PROVE TypeInv'
  <2> DEFINE f == Updated(batch)
  <2>1. TopicTypes'
    BY <1>7 DEF ReceiveMany, TopicTypes, topics
  <2>2. ConsumerTypes'
    BY <1>7 DEF ReceiveMany, ConsumerTypes, topics, consumer
  <2>3. /\ IsFiniteSet(DOMAIN f) /\ DOMAIN f \subseteq Hours
        /\ \A h \in DOMAIN f : f[h] \in Nat
    BY UpdatedIs
  <2> HIDE DEF f
  <2>4. /\ IsFiniteSet(DOMAIN Pruned(f)) /\ DOMAIN Pruned(f) \subseteq DOMAIN f
        /\ \A h \in DOMAIN Pruned(f) : Pruned(f)[h] = f[h]
    BY <1>b, <2>3, Pruning
  <2>5. /\ updates' = updates \ batch /\ now' = now
        /\ \/ /\ data' = Pruned(f) /\ published' = SumFunction(data') /\ last_snapshot' = now
           \/ data' = f /\ UNCHANGED <<published, last_snapshot>>
    BY <1>7 DEF ReceiveMany, f
  <2>6. /\ IsFiniteSet(DOMAIN data') /\ DOMAIN data' \subseteq Hours
        /\ \A h \in DOMAIN data' : data'[h] \in Nat
    BY <2>3, <2>4, <2>5
  <2>7. published' \in Nat
    <3>1. SumOver(data', DOMAIN data') \in Nat
      BY <2>6, SumNat
    <3>2. SumFunction(data') \in Nat
      BY <3>1, TotalIsSum
    <3> QED BY <2>5, <3>2 DEF DatabaseTypes
  <2>8. IsFiniteSet(updates')
    BY <2>5, FS_Subset DEF DatabaseTypes
  <2>9. DatabaseTypes'
    BY <1>b, <2>5, <2>6, <2>7, <2>8 DEF DatabaseTypes
  <2> QED BY <2>1, <2>2, <2>9
<1>8. CASE UNCHANGED vars
  BY <1>8 DEF vars, topics, consumer, db, TopicTypes, ConsumerTypes, DatabaseTypes
<1> QED BY <1>1, <1>2, <1>3, <1>4, <1>5, <1>6, <1>7, <1>8, <1>9 DEF Next

-----------------------------------------------------------------------------
(* The topics.  A query is never of an hour that was summed up already.    *)
LEMMA SumsAreHours ==
    ASSUME TopicTypes, NEW p \in Partitions, NEW k \in 1 .. Len(hourly[p])
    PROVE  /\ hourly[p][k] \in HourSum
           /\ hourly[p][k].timestamp \in Hours /\ hourly[p][k].timestamp \in HourStarts
           /\ hourly[p][k].timestamp \in Nat /\ hourly[p][k].fee \in Nat
<1>1. hourly[p] \in Seq(HourSum)
  BY DEF TopicTypes
<1>2. hourly[p][k] \in HourSum
  BY <1>1
<1> QED BY <1>2 DEF HourSum, Hours

(* A new query is of no hour that was summed up, and changes no earlier    *)
(* one.                                                                    *)
LEMMA QueryIsRecent ==
    ASSUME TopicTypes, Query
    PROVE  /\ \A h \in Hours : h + HourLength <= next_hour => QueriesOf(h)' = QueriesOf(h)
           /\ \A h : QueriesOf(h) \subseteq QueriesOf(h)'
           /\ \A h : QueriesOf(h)' \cap DOMAIN queries = QueriesOf(h)
           /\ DOMAIN queries \subseteq DOMAIN queries'
           /\ \A i \in DOMAIN queries : queries'[i] = queries[i]
<1>1. /\ queries \in Seq(Nat) /\ now \in Nat /\ next_hour \in Nat /\ next_hour <= now
      /\ queries' = Append(queries, now)
      /\ HourLength \in Nat
  BY FeedAssumption DEF TopicTypes, Query, Hours
<1>2. /\ DOMAIN queries' = DOMAIN queries \cup {Len(queries) + 1}
      /\ \A i \in DOMAIN queries : queries'[i] = queries[i]
      /\ Len(queries) + 1 \notin DOMAIN queries
      /\ queries'[Len(queries) + 1] = now
  BY <1>1
<1>3. ASSUME NEW h \in Hours, h + HourLength <= next_hour
      PROVE  hourly_timestamp(now) # h
  <2>1. h \in HourStarts /\ h \in Nat
    BY DEF Hours
  <2>2. hourly_timestamp(now) = h <=> (h <= now /\ now < h + HourLength)
    BY <1>1, <2>1, HourIs
  <2> QED BY <1>1, <1>3, <2>1, <2>2
<1>4. \A h : QueriesOf(h)' = {i \in DOMAIN queries' : hourly_timestamp(queries'[i]) = h}
  BY DEF QueriesOf, hourly_timestamp
<1>5. \A h \in Hours : h + HourLength <= next_hour => QueriesOf(h)' = QueriesOf(h)
  BY <1>2, <1>3, <1>4 DEF QueriesOf
<1>6. \A h : /\ QueriesOf(h) \subseteq QueriesOf(h)'
             /\ QueriesOf(h)' \cap DOMAIN queries = QueriesOf(h)
  BY <1>2, <1>4 DEF QueriesOf
<1> QED BY <1>2, <1>5, <1>6

(* A new sum is appended to its partition, and the others stay.            *)
LEMMA HourlyGrows ==
    ASSUME TopicTypes, NEW p \in Partitions, AggregateHour(p)
    PROVE  LET n == Len(hourly[p]) + 1 IN
           /\ n \in Nat /\ Len(hourly'[p]) = n
           /\ \A q \in Partitions : q # p => hourly'[q] = hourly[q]
           /\ \A k \in 1 .. Len(hourly[p]) : hourly'[p][k] = hourly[p][k]
           /\ hourly'[p][n].timestamp = next_hour
           /\ hourly'[p][n].fee = Cardinality(QueriesOf(next_hour))
<1> DEFINE msg == [timestamp |-> next_hour,
                   fee |-> Cardinality(Served(next_hour, next_hour + HourLength))]
<1>1. msg \in HourSum /\ msg.timestamp = next_hour /\ msg.fee = Cardinality(QueriesOf(next_hour))
  BY QueriesOfHour DEF TopicTypes, HourSum
<1>2. /\ hourly' = [hourly EXCEPT ![p] = Append(@, msg)] /\ hourly[p] \in Seq(HourSum)
      /\ hourly \in [Partitions -> Seq(HourSum)]
  BY DEF AggregateHour, TopicTypes
<1> HIDE DEF msg
<1>3. /\ Len(Append(hourly[p], msg)) = Len(hourly[p]) + 1
      /\ Append(hourly[p], msg)[Len(hourly[p]) + 1] = msg
      /\ \A k \in 1 .. Len(hourly[p]) : Append(hourly[p], msg)[k] = hourly[p][k]
      /\ Len(hourly[p]) \in Nat
  BY <1>1, <1>2
<1>4. hourly'[p] = Append(hourly[p], msg) /\ \A q \in Partitions : q # p => hourly'[q] = hourly[q]
  BY <1>2
<1> QED BY <1>1, <1>3, <1>4

(* At first nothing is summed up.                                          *)
LEMMA TopicInit == Init => TopicInv
<1> SUFFICES ASSUME Init PROVE TopicInv
  OBVIOUS
<1>1. \A p \in Partitions : Len(hourly[p]) = 0
  BY DEF Init
<1>2. next_hour = 0
  BY DEF Init
<1> QED BY <1>1, <1>2 DEF TopicInv, SumsAreRight, HoursAreSummed, SumsAreDistinct, Hours

(* Each hour is summed up once, and its queries do not change any more.    *)
LEMMA TopicStep == TypeInv /\ TopicInv /\ [Next]_vars => TopicInv'
<1> SUFFICES ASSUME TypeInv, TopicInv, [Next]_vars PROVE TopicInv'
  OBVIOUS
<1>a. TopicTypes
  BY DEF TypeInv
<1>b. HourLength \in Nat /\ HourLength > 0 /\ next_hour \in Hours /\ next_hour \in HourStarts
      /\ next_hour \in Nat
  BY <1>a, NextHour DEF TopicTypes, Hours
<1>1. CASE UNCHANGED topics
  <2>1. UNCHANGED <<queries, hourly, next_hour>>
    BY <1>1 DEF topics
  <2>2. SumsAreRight'
    BY <2>1 DEF TopicInv, SumsAreRight, SumIsRight, QueriesOf, hourly_timestamp
  <2>3. HoursAreSummed' /\ SumsAreDistinct'
    BY <2>1 DEF TopicInv, HoursAreSummed, SumsAreDistinct
  <2> QED BY <2>2, <2>3 DEF TopicInv
<1>2. CASE Query
  <2>1. hourly' = hourly /\ next_hour' = next_hour
    BY <1>2 DEF Query
  <2>2. \A h \in Hours : h + HourLength <= next_hour => QueriesOf(h)' = QueriesOf(h)
    BY <1>2, <1>a, QueryIsRecent
  <2>3. ASSUME NEW p \in Partitions, NEW k \in 1 .. Len(hourly[p])
        PROVE  SumIsRight(p, k)'
    <3>1. PICK t \in Hours : t = hourly[p][k].timestamp
      BY <1>a, SumsAreHours
    <3>2. t + HourLength <= next_hour /\ hourly[p][k].fee = Cardinality(QueriesOf(t))
      BY <3>1 DEF TopicInv, SumsAreRight, SumIsRight
    <3>3. hourly[p][k].fee = Cardinality(QueriesOf(t)')
      BY <2>2, <3>2
    <3> QED BY <2>1, <3>1, <3>2, <3>3 DEF SumIsRight, QueriesOf, hourly_timestamp
  <2>4. SumsAreRight'
    BY <2>1, <2>3 DEF SumsAreRight
  <2> QED BY <2>1, <2>4 DEF TopicInv, HoursAreSummed, SumsAreDistinct
<1>3. ASSUME NEW p \in Partitions, AggregateHour(p) PROVE TopicInv'
  <2> DEFINE n == Len(hourly[p]) + 1
  <2>1. /\ n \in Nat /\ Len(hourly'[p]) = n
        /\ \A q \in Partitions : q # p => hourly'[q] = hourly[q]
        /\ \A k \in 1 .. Len(hourly[p]) : hourly'[p][k] = hourly[p][k]
        /\ hourly'[p][n].timestamp = next_hour
        /\ hourly'[p][n].fee = Cardinality(QueriesOf(next_hour))
    BY <1>3, <1>a, HourlyGrows
  <2>2. \A q \in Partitions : Len(hourly[q]) \in Nat
    BY <1>a DEF TopicTypes
  <2>3. n \in 1 .. Len(hourly'[p]) /\ \A k \in 1 .. Len(hourly'[p]) : k = n \/ k \in 1 .. Len(hourly[p])
    BY <2>1, <2>2
  <2>4. queries' = queries /\ next_hour' = next_hour + HourLength
    BY <1>3 DEF AggregateHour
  <2> HIDE DEF n
  <2>5. ASSUME NEW q \in Partitions, NEW k \in 1 .. Len(hourly'[q])
        PROVE  \/ q = p /\ k = n /\ hourly'[q][k].timestamp = next_hour
                  /\ hourly'[q][k].fee = Cardinality(QueriesOf(next_hour))
               \/ /\ k \in 1 .. Len(hourly[q]) /\ hourly'[q][k] = hourly[q][k]
                  /\ hourly'[q][k].timestamp \in Nat
                  /\ hourly'[q][k].timestamp + HourLength <= next_hour
                  /\ hourly'[q][k].fee = Cardinality(QueriesOf(hourly'[q][k].timestamp))
    <3>1. CASE q = p /\ k = n
      BY <2>1, <3>1
    <3>2. CASE q # p \/ k # n
      <4>1. k \in 1 .. Len(hourly[q]) /\ hourly'[q][k] = hourly[q][k]
        BY <2>1, <2>3, <3>2
      <4>2. /\ hourly[q][k].timestamp + HourLength <= next_hour
            /\ hourly[q][k].fee = Cardinality(QueriesOf(hourly[q][k].timestamp))
            /\ hourly[q][k].timestamp \in Nat
        BY <1>a, <4>1, SumsAreHours DEF TopicInv, SumsAreRight, SumIsRight
      <4> QED BY <4>1, <4>2
    <3> QED BY <3>1, <3>2
  <2>6. \A q \in Partitions : \A k \in 1 .. Len(hourly[q]) :
           k \in 1 .. Len(hourly'[q]) /\ hourly'[q][k] = hourly[q][k]
    <3>1. ASSUME NEW q \in Partitions, NEW k \in 1 .. Len(hourly[q])
          PROVE  k \in 1 .. Len(hourly'[q]) /\ hourly'[q][k] = hourly[q][k]
      BY <2>1, <2>2 DEF n
    <3> QED BY <3>1
  <2>7. SumsAreRight'
    <3>1. ASSUME NEW q \in Partitions, NEW k \in 1 .. Len(hourly'[q])
          PROVE  SumIsRight(q, k)'
      <4>1. /\ hourly'[q][k].timestamp + HourLength <= next_hour'
            /\ hourly'[q][k].fee = Cardinality(QueriesOf(hourly'[q][k].timestamp))
        BY <1>b, <2>4, <2>5
      <4> QED BY <2>4, <4>1 DEF SumIsRight, QueriesOf, hourly_timestamp
    <3> QED BY <3>1 DEF SumsAreRight
  <2>8. ASSUME NEW h \in Hours, h < next_hour'
        PROVE  \E q \in Partitions : \E k \in 1 .. Len(hourly'[q]) : hourly'[q][k].timestamp = h
    <3>1. h \in HourStarts /\ h \in Nat
      BY DEF Hours
    <3>2. next_hour < h => next_hour + HourLength <= h
      BY <1>b, <3>1, HoursApart
    <3>3. h = next_hour \/ h < next_hour
      BY <1>b, <2>4, <2>8, <3>1, <3>2
    <3>4. CASE h = next_hour
      BY <2>1, <2>3, <3>4
    <3>5. CASE h < next_hour
      BY <2>6, <3>5 DEF TopicInv, HoursAreSummed
    <3> QED BY <3>3, <3>4, <3>5
  <2>9. ASSUME NEW q \in Partitions, NEW r \in Partitions,
               NEW k \in 1 .. Len(hourly'[q]), NEW l \in 1 .. Len(hourly'[r]),
               hourly'[q][k].timestamp = hourly'[r][l].timestamp
        PROVE  q = r /\ k = l
    <3>1. \/ q = p /\ k = n /\ hourly'[q][k].timestamp = next_hour
          \/ /\ k \in 1 .. Len(hourly[q]) /\ hourly'[q][k] = hourly[q][k]
             /\ hourly'[q][k].timestamp \in Nat
             /\ hourly'[q][k].timestamp + HourLength <= next_hour
      BY <2>5
    <3>2. \/ r = p /\ l = n /\ hourly'[r][l].timestamp = next_hour
          \/ /\ l \in 1 .. Len(hourly[r]) /\ hourly'[r][l] = hourly[r][l]
             /\ hourly'[r][l].timestamp \in Nat
             /\ hourly'[r][l].timestamp + HourLength <= next_hour
      BY <2>5
    <3>3. (k \in 1 .. Len(hourly[q]) /\ l \in 1 .. Len(hourly[r])
            /\ hourly[q][k].timestamp = hourly[r][l].timestamp) => (q = r /\ k = l)
      BY DEF TopicInv, SumsAreDistinct
    <3>4. HourLength \in Nat /\ HourLength > 0 /\ next_hour \in Nat
      BY <1>b
    <3>5. CASE hourly'[q][k].timestamp = next_hour
      BY <2>9, <3>1, <3>2, <3>4, <3>5
    <3>6. CASE hourly'[q][k].timestamp # next_hour
      BY <2>9, <3>1, <3>2, <3>3, <3>6
    <3> QED BY <3>5, <3>6
  <2>10. HoursAreSummed'
    BY <2>8 DEF HoursAreSummed
  <2>11. SumsAreDistinct'
    BY <2>9 DEF SumsAreDistinct
  <2> QED BY <2>7, <2>10, <2>11 DEF TopicInv
<1> QED BY <1>1, <1>2, <1>3
    DEF Next, vars, Tick, Start, StartWithoutSums, ConsumeHour, ReadQuery,
        ReceiveMany

-----------------------------------------------------------------------------
(* What was consumed only changes when a sum is consumed, and a sum is     *)
(* consumed once.                                                          *)
LEMMA ConsumedSame ==
    ASSUME TypeInv, UNCHANGED offset,
           \/ UNCHANGED hourly
           \/ \E p \in Partitions : AggregateHour(p)
    PROVE  \A h : Consumed(h)' <=> Consumed(h)
<1>1. CASE UNCHANGED hourly
  BY <1>1 DEF Consumed
<1>2. ASSUME NEW p \in Partitions, AggregateHour(p)
      PROVE  \A h : Consumed(h)' <=> Consumed(h)
  <2>1. ASSUME NEW q \in Partitions, NEW k \in 1 .. offset[q]
        PROVE  hourly'[q][k] = hourly[q][k]
    <3>1. k \in 1 .. Len(hourly[q])
      BY DEF TypeInv, ConsumerTypes, TopicTypes
    <3>2. TopicTypes
      BY DEF TypeInv
    <3> QED BY <1>2, <3>1, <3>2, HourlyGrows
  <2> QED BY <2>1 DEF Consumed
<1> QED BY <1>1, <1>2

(* The sum that is consumed next.                                          *)
NextSum(p) == hourly[p][offset[p] + 1]

(* It was not consumed before, and is afterwards.                          *)
LEMMA ConsumedNext ==
    ASSUME TypeInv, TopicInv, NEW p \in Partitions, ConsumeHour(p)
    PROVE  /\ offset[p] \in Nat /\ offset[p] + 1 \in 1 .. Len(hourly[p])
           /\ offset'[p] = offset[p] + 1
           /\ \A q \in Partitions : q # p => offset'[q] = offset[q]
           /\ NextSum(p).timestamp \in Hours /\ NextSum(p).timestamp \in Nat
           /\ NextSum(p).fee = Cardinality(QueriesOf(NextSum(p).timestamp))
           /\ NextSum(p).timestamp + HourLength <= next_hour
           /\ ~ Consumed(NextSum(p).timestamp)
           /\ \A h : Consumed(h)' <=> (Consumed(h) \/ h = NextSum(p).timestamp)
<1> DEFINE n == offset[p] + 1
           t == NextSum(p).timestamp
<1>1. /\ offset \in [Partitions -> Nat] /\ offset[p] < Len(hourly[p]) /\ offset[p] \in Nat
      /\ offset' = [offset EXCEPT ![p] = n] /\ hourly' = hourly
      /\ \A q \in Partitions : Len(hourly[q]) \in Nat /\ offset[q] <= Len(hourly[q])
  BY DEF TypeInv, ConsumerTypes, TopicTypes, ConsumeHour, topics
<1>2. n \in 1 .. Len(hourly[p]) /\ hourly[p][n] = NextSum(p)
  BY <1>1 DEF NextSum
<1>3. /\ t \in Hours /\ t \in Nat
      /\ NextSum(p).fee = Cardinality(QueriesOf(t)) /\ t + HourLength <= next_hour
  <2> HIDE DEF n
  <2>1. TopicTypes /\ SumsAreRight
    BY DEF TypeInv, TopicInv
  <2> QED BY <1>2, <2>1, SumsAreHours DEF SumsAreRight, SumIsRight
<1>4. ~ Consumed(t)
  <2> SUFFICES ASSUME NEW q \in Partitions, NEW k \in 1 .. offset[q], hourly[q][k].timestamp = t
               PROVE  FALSE
    BY DEF Consumed
  <2>1. k \in 1 .. Len(hourly[q])
    BY <1>1
  <2>2. q = p /\ k = n
    BY <1>2, <2>1 DEF TopicInv, SumsAreDistinct
  <2> QED BY <1>1, <2>2
<1>5. ASSUME NEW h PROVE Consumed(h)' <=> (Consumed(h) \/ h = t)
  <2>1. \A q \in Partitions : offset'[q] = IF q = p THEN n ELSE offset[q]
    BY <1>1
  <2>2. \A q \in Partitions : \A k : k \in 1 .. offset'[q]
                                       <=> (k \in 1 .. offset[q] \/ (q = p /\ k = n))
    BY <1>1, <2>1
  <2>3. Consumed(h)' <=> \E q \in Partitions : \E k \in 1 .. offset'[q] : hourly[q][k].timestamp = h
    BY <1>1 DEF Consumed
  <2> HIDE DEF n, t
  <2> QED BY <1>2, <2>2, <2>3 DEF Consumed, t
<1> QED BY <1>1, <1>2, <1>3, <1>4, <1>5

(* At first nothing is read.                                               *)
LEMMA ReadInit == Init => ReadInv
<1> SUFFICES ASSUME Init PROVE ReadInv
  OBVIOUS
<1>1. \A p \in Partitions : offset[p] = 0
  BY DEF Init
<1>2. \A h : ~ Consumed(h)
  BY <1>1 DEF Consumed
<1> QED BY <1>1, <1>2 DEF Init, Empty, ReadInv, NothingReadYet, LatestIsConsumed, ReadIsLater, UpdatesAreRead

(* Every step keeps what was read, and the updates, in order.              *)
LEMMA ReadStep == TypeInv /\ TopicInv /\ ReadInv /\ [Next]_vars => ReadInv'
<1> SUFFICES ASSUME TypeInv, TopicInv, ReadInv, [Next]_vars PROVE ReadInv'
  OBVIOUS
<1> USE DEF ReadInv
<1>a. /\ TopicTypes /\ ConsumerTypes
      /\ HourLength \in Nat /\ latest \in Int /\ NoHour \in Int
  BY FeedAssumption DEF TypeInv, ConsumerTypes, Hours, NoHour
<1>1. ASSUME UNCHANGED <<phase, awaited, offset, latest, read, updates, db>>,
             \/ UNCHANGED topics
             \/ Query
             \/ \E p \in Partitions : AggregateHour(p)
      PROVE  ReadInv'
  <2>1. \A h : Consumed(h)' <=> Consumed(h)
    BY <1>1, ConsumedSame DEF topics, Query
  <2>2. LatestIsConsumed'
    BY <1>1, <2>1 DEF LatestIsConsumed
  <2>3. \A i \in read : queries'[i] = queries[i]
    BY <1>1, <1>a, QueryIsRecent DEF topics, AggregateHour, ConsumerTypes
  <2>4. ReadIsLater'
    BY <1>1, <2>3 DEF ReadIsLater
  <2> QED BY <1>1, <2>2, <2>4 DEF NothingReadYet, UpdatesAreRead, FromQuery, FromSum, db
<1>2. CASE Start
  <2>1. \A h : Consumed(h)' <=> Consumed(h)
    BY <1>2 DEF Start, topics, Consumed
  <2>2. LatestIsConsumed'
    BY <1>2, <2>1 DEF LatestIsConsumed, Start
  <2> QED BY <1>2, <2>2 DEF Start, topics, NothingReadYet, ReadIsLater, UpdatesAreRead, FromQuery, FromSum
<1>10. CASE StartWithoutSums
  <2>1. \A p \in Partitions : offset'[p] = 0
    BY <1>10 DEF StartWithoutSums, NothingReadYet
  <2>2. latest' = NoHour /\ phase' = "realtime" /\ read' = {} /\ updates' = {}
    BY <1>10 DEF StartWithoutSums, NothingReadYet, NoHour
  <2>3. \A h : ~ Consumed(h)'
    BY <2>1 DEF Consumed
  <2>4. LatestIsConsumed'
    BY <2>2, <2>3 DEF LatestIsConsumed, NoHour
  <2> QED BY <2>2, <2>4 DEF NothingReadYet, ReadIsLater, UpdatesAreRead
<1>3. ASSUME NEW p \in Partitions, ConsumeHour(p) PROVE ReadInv'
  <2> DEFINE n == offset[p] + 1
             t == NextSum(p).timestamp
             u == [id |-> <<p, n>>, timestamp |-> t, fee |-> NextSum(p).fee]
  <2>1. /\ offset[p] \in Nat /\ offset'[p] = n
        /\ \A q \in Partitions : q # p => offset'[q] = offset[q]
        /\ t \in Hours /\ t \in Nat
        /\ \A h : Consumed(h)' <=> (Consumed(h) \/ h = t)
    BY <1>3, ConsumedNext
  <2>2. /\ phase = "replay" /\ read = {} /\ read' = {} /\ latest' = Later(latest, t)
        /\ updates' \subseteq updates \cup {u}
        /\ phase' # "down"
    BY <1>3 DEF ConsumeHour, CompleteOffset, NextSum, NothingReadYet
  <2> HIDE DEF t, u
  <2>3. latest' >= t /\ latest' >= latest /\ (latest' = t \/ latest' = latest)
    BY <1>a, <2>1, <2>2 DEF Later
  <2>4. LatestIsConsumed'
    <3>1. ASSUME NEW h \in Hours, Consumed(h)' PROVE h <= latest'
      <4>1. h \in Nat /\ latest' \in Int
        BY <1>a, <2>1, <2>3 DEF Hours
      <4> QED BY <1>a, <2>1, <2>3, <3>1, <4>1 DEF LatestIsConsumed
    <3>2. PICK x : x = latest'
      OBVIOUS
    <3>3. x \in {0, NoHour} \/ Consumed(x)'
      BY <2>1, <2>3, <3>2 DEF LatestIsConsumed
    <3>4. (latest \in {0, NoHour} \/ Consumed(latest))'
      BY <3>2, <3>3 DEF Consumed, NoHour
    <3> QED BY <3>1, <3>4 DEF LatestIsConsumed
  <2>5. UpdatesAreRead'
    <3>1. ASSUME NEW q \in Partitions, NEW k \in 1 .. offset[q] PROVE k \in 1 .. offset'[q]
      BY <1>a, <2>1 DEF ConsumerTypes
    <3>2. \A w : FromSum(w) => FromSum(w)'
      BY <3>1 DEF FromSum
    <3>3. u.id = <<p, n>> /\ n \in 1 .. offset'[p]
      BY <2>1 DEF u
    <3> HIDE DEF n
    <3>4. \A w \in updates : FromSum(w)
      BY <2>2 DEF UpdatesAreRead, FromQuery
    <3>5. ASSUME NEW w \in updates' PROVE FromSum(w)'
      <4>1. w \in updates \/ w = u
        BY <2>2
      <4>2. CASE w = u
        BY <3>3, <4>2 DEF FromSum
      <4> QED BY <3>2, <3>4, <4>1, <4>2
    <3> QED BY <3>5 DEF UpdatesAreRead
  <2> QED BY <2>2, <2>4, <2>5 DEF NothingReadYet, ReadIsLater
<1>4. ASSUME NEW i \in 1 .. MaxQueries, ReadQuery(i) PROVE ReadInv'
  <2> DEFINE u == [id |-> <<0, i>>, timestamp |-> queries[i], fee |-> 1]
  <2>1. /\ phase = "realtime" /\ queries[i] >= latest + HourLength
        /\ read' = read \cup {i} /\ updates' = updates \cup {u}
        /\ UNCHANGED <<now, topics, phase, awaited, offset, latest, db>>
    BY <1>4 DEF ReadQuery, realtime_start
  <2>2. \A h : Consumed(h)' <=> Consumed(h)
    BY <2>1 DEF Consumed, topics
  <2>3. LatestIsConsumed'
    BY <2>1, <2>2 DEF LatestIsConsumed
  <2>4. u.id = <<0, i>>
    OBVIOUS
  <2> HIDE DEF u
  <2> QED BY <2>1, <2>3, <2>4 DEF NothingReadYet, ReadIsLater, UpdatesAreRead, FromQuery, FromSum, topics
<1>5. ASSUME NEW batch \in SUBSET updates, ReceiveMany(batch) PROVE ReadInv'
  <2>1. /\ UNCHANGED <<now, topics, consumer>> /\ updates' \subseteq updates
        /\ updates # {}
    BY <1>5 DEF ReceiveMany
  <2>2. phase # "down"
    BY <2>1 DEF NothingReadYet
  <2>3. \A h : Consumed(h)' <=> Consumed(h)
    BY <2>1 DEF Consumed, topics, consumer
  <2>4. LatestIsConsumed'
    BY <2>1, <2>3 DEF LatestIsConsumed, consumer
  <2> QED BY <2>1, <2>2, <2>4 DEF NothingReadYet, ReadIsLater, UpdatesAreRead, FromQuery, FromSum,
             topics, consumer
<1>6. CASE UNCHANGED vars
  BY <1>1, <1>6 DEF vars, consumer
<1>7. CASE Tick
  BY <1>1, <1>7 DEF Tick, consumer
<1>8. CASE Query
  BY <1>1, <1>8 DEF Query, consumer
<1>9. ASSUME NEW p \in Partitions, AggregateHour(p) PROVE ReadInv'
  BY <1>1, <1>9 DEF AggregateHour, consumer
<1> QED BY <1>2, <1>3, <1>4, <1>5, <1>6, <1>7, <1>8, <1>9,
           <1>10 DEF Next

-----------------------------------------------------------------------------
(* What is held of an hour, and what was read of it, are numbers.          *)
LEMMA Amounts ==
    ASSUME TypeInv, NEW h \in Hours
    PROVE  /\ Stored(h) \in Nat /\ Fees(updates, h) \in Nat
           /\ Held(h) \in Nat /\ Credit(h) \in Nat
           /\ Credit(h) <= Cardinality(QueriesOf(h)) /\ Cardinality(QueriesOf(h)) \in Nat
           /\ now \in Nat /\ Window \in Nat /\ h \in Nat /\ Cutoff \in Nat
<1>1. queries \in Seq(Nat) /\ now \in Nat /\ h \in Nat
  BY DEF TypeInv, TopicTypes, Hours
<1>2. Stored(h) \in Nat
  BY DEF TypeInv, DatabaseTypes, Stored
<1>3. IsFiniteSet(updates) /\ \A u \in updates : u.fee \in Nat
  BY DEF TypeInv, DatabaseTypes, Update
<1>4. Fees(updates, h) \in Nat
  BY <1>3, FeesNat
<1>5. Credit(h) \in Nat /\ Credit(h) <= Cardinality(QueriesOf(h))
      /\ Cardinality(QueriesOf(h)) \in Nat
  <2>1. /\ Cardinality(QueriesOf(h)) \in Nat /\ Cardinality(QueriesOf(h) \cap read) \in Nat
        /\ Cardinality(QueriesOf(h) \cap read) <= Cardinality(QueriesOf(h))
    BY <1>1, QueriesOfHour
  <2>2. Credit(h) = Cardinality(QueriesOf(h)) \/ Credit(h) = Cardinality(QueriesOf(h) \cap read)
    BY DEF Credit
  <2> QED BY <2>1, <2>2
<1>6. Window \in Nat /\ Cutoff \in Nat
  BY FeedAssumption DEF Window
<1> QED BY <1>1, <1>2, <1>4, <1>5, <1>6 DEF Held

(* A new update adds its fee to its hour.                                  *)
LEMMA HeldAfterUpdate ==
    ASSUME TypeInv, UNCHANGED db,
           NEW u, u \notin updates, u.fee \in Nat, updates' = updates \cup {u},
           NEW h \in Hours
    PROVE  Held(h)' = Held(h) + (IF hourly_timestamp(u.timestamp) = h THEN u.fee ELSE 0)
<1>1. IsFiniteSet(updates) /\ \A v \in updates \cup {u} : v.fee \in Nat
  BY DEF TypeInv, DatabaseTypes, Update
<1>2. IsFiniteSet({u}) /\ updates \cap {u} = {}
  BY FS_Singleton
<1>3. Fees(updates \cup {u}, h) = Fees(updates, h) + Fees({u}, h)
      /\ Fees(updates, h) \in Nat /\ Fees({u}, h) \in Nat
  BY <1>1, <1>2, FeesAdd
<1>4. Fees({u}, h) = IF hourly_timestamp(u.timestamp) = h THEN u.fee ELSE 0
  BY FeeOfOne
<1>5. Stored(h)' = Stored(h) /\ Stored(h) \in Nat
  BY Amounts DEF Stored, db
<1>6. Held(h)' = Stored(h) + Fees(updates \cup {u}, h)
  BY <1>5 DEF Held
<1> QED BY <1>3, <1>4, <1>5, <1>6 DEF Held

(* A step of the producers or of the clock changes neither.                *)
LEMMA QuietStep ==
    ASSUME TypeInv, TopicInv, ReadInv, NEW h \in Hours,
           UNCHANGED <<offset, read, updates, data>>,
           \/ UNCHANGED topics
           \/ Query
           \/ \E p \in Partitions : AggregateHour(p)
    PROVE  Held(h)' = Held(h) /\ Credit(h)' = Credit(h)
<1>1. Held(h)' = Held(h)
  BY DEF Held, Stored
<1>2. Consumed(h)' <=> Consumed(h)
  BY ConsumedSame DEF topics, Query
<1>3. CASE UNCHANGED queries
  <2>1. QueriesOf(h)' = QueriesOf(h)
    BY <1>3 DEF QueriesOf, hourly_timestamp
  <2> QED BY <1>1, <1>2, <2>1 DEF Credit
<1>4. CASE Query
  <2>1. TopicTypes /\ SumsAreRight
    BY DEF TypeInv, TopicInv
  <2>2. Consumed(h) => h + HourLength <= next_hour
    <3> SUFFICES ASSUME NEW p \in Partitions, NEW k \in 1 .. offset[p], hourly[p][k].timestamp = h
                 PROVE  h + HourLength <= next_hour
      BY DEF Consumed
    <3>1. k \in 1 .. Len(hourly[p])
      BY DEF TypeInv, ConsumerTypes, TopicTypes
    <3> QED BY <2>1, <3>1 DEF SumsAreRight, SumIsRight
  <2>3. Consumed(h) => QueriesOf(h)' = QueriesOf(h)
    BY <1>4, <2>1, <2>2, QueryIsRecent
  <2>4. QueriesOf(h)' \cap read = QueriesOf(h) \cap read
    <3>1. read \subseteq DOMAIN queries
      BY DEF TypeInv, ConsumerTypes
    <3>2. QueriesOf(h)' \cap DOMAIN queries = QueriesOf(h)
      BY <1>4, <2>1, QueryIsRecent
    <3> QED BY <3>1, <3>2
  <2> QED BY <1>1, <1>2, <2>3, <2>4 DEF Credit
<1> QED BY <1>3, <1>4 DEF topics, AggregateHour

(* When the sum of an hour is consumed, none of its queries was read; now *)
(* they all are, and their fees are on the way unless the cutoff applies.  *)
LEMMA ConsumeStep ==
    ASSUME TypeInv, TopicInv, ReadInv, NEW h \in Hours,
           NEW p \in Partitions, ConsumeHour(p)
    PROVE  /\ h # NextSum(p).timestamp => Held(h)' = Held(h) /\ Credit(h)' = Credit(h)
           /\ h = NextSum(p).timestamp =>
                 /\ Credit(h) = 0 /\ Credit(h)' \in Nat
                 /\ Held(h)' = Held(h) \/ Held(h)' = Held(h) + Credit(h)'
                 /\ h >= Cutoff => Held(h)' = Held(h) + Credit(h)'
<1> DEFINE n == offset[p] + 1
           t == NextSum(p).timestamp
           u == [id |-> <<p, n>>, timestamp |-> t, fee |-> NextSum(p).fee]
<1>1. /\ offset[p] \in Nat /\ t \in Hours /\ t \in HourStarts
      /\ NextSum(p).fee = Cardinality(QueriesOf(t))
      /\ ~ Consumed(t)
      /\ \A g : Consumed(g)' <=> (Consumed(g) \/ g = t)
  BY ConsumedNext DEF Hours
<1>2. /\ phase = "replay" /\ UNCHANGED <<topics, read, db>>
      /\ \/ t < Cutoff /\ updates' = updates
         \/ ~ (t < Cutoff) /\ updates' = updates \cup {u}
  BY DEF ConsumeHour, NextSum
<1>3. read = {}
  BY <1>2 DEF ReadInv, NothingReadYet
<1>4. \A g : QueriesOf(g)' = QueriesOf(g)
  BY <1>2 DEF QueriesOf, hourly_timestamp, topics
<1>5. u \notin updates
  <2> SUFFICES ASSUME u \in updates PROVE FALSE
    OBVIOUS
  <2>1. PICK q \in Partitions : \E k \in 1 .. offset[q] : <<p, n>> = <<q, k>>
    BY <1>3 DEF ReadInv, UpdatesAreRead, FromQuery, FromSum
  <2>2. q = p /\ n \in 1 .. offset[p]
    BY <2>1
  <2> QED BY <1>1, <2>2
<1>6. u.fee = Cardinality(QueriesOf(t)) /\ u.fee \in Nat /\ hourly_timestamp(u.timestamp) = t
  BY <1>1, Amounts, NextHour
<1> HIDE DEF u, n, t
<1>7. t < Cutoff => Held(h)' = Held(h)
  BY <1>2, Amounts DEF Held, Stored, db
<1>8. ~ (t < Cutoff) => Held(h)' = Held(h) + (IF t = h THEN u.fee ELSE 0)
  BY <1>2, <1>5, <1>6, HeldAfterUpdate
<1>9. h # t => Credit(h)' = Credit(h)
  BY <1>1, <1>2, <1>4 DEF Credit
<1>10. h = t => Credit(h) = 0 /\ Credit(h)' = Cardinality(QueriesOf(h))
  <2>1. Cardinality(QueriesOf(t) \cap read) = 0
    BY <1>3, FS_EmptySet
  <2>2. h = t => Credit(h) = Cardinality(QueriesOf(h) \cap read)
    BY <1>1 DEF Credit
  <2>3. h = t => Credit(h)' = Cardinality(QueriesOf(h)')
    BY <1>1 DEF Credit
  <2> QED BY <1>4, <2>1, <2>2, <2>3
<1>11. Held(h) \in Nat /\ h \in Nat /\ Cutoff \in Nat
  BY Amounts
<1>12. h # t => Held(h)' = Held(h)
  BY <1>7, <1>8, <1>11
<1>13. h = t => /\ Held(h)' = Held(h) \/ Held(h)' = Held(h) + Cardinality(QueriesOf(h))
                /\ h >= Cutoff => Held(h)' = Held(h) + Cardinality(QueriesOf(h))
  <2>1. CASE h >= Cutoff
    BY <1>6, <1>8, <1>11, <2>1
  <2>2. CASE ~ (h >= Cutoff)
    BY <1>7, <1>11, <2>2
  <2> QED BY <2>1, <2>2
<1> QED BY <1>9, <1>10, <1>12, <1>13, Amounts DEF t

(* A query that is read is one of an hour whose sum was not consumed, and  *)
(* so adds one to both.                                                    *)
LEMMA ReadQueryStep ==
    ASSUME TypeInv, TopicInv, ReadInv, NEW h \in Hours, NEW i, ReadQuery(i)
    PROVE  \E d \in {0, 1} : Held(h)' = Held(h) + d /\ Credit(h)' = Credit(h) + d
<1> DEFINE u == [id |-> <<0, i>>, timestamp |-> queries[i], fee |-> 1]
           d == IF hourly_timestamp(queries[i]) = h THEN 1 ELSE 0
<1>1. /\ i \in DOMAIN queries /\ i \notin read /\ queries[i] >= latest + HourLength
      /\ read' = read \cup {i} /\ updates' = updates \cup {u}
      /\ UNCHANGED <<now, topics, phase, awaited, offset, latest, db>>
  BY DEF ReadQuery, realtime_start
<1>2. queries \in Seq(Nat) /\ queries[i] \in Int /\ queries[i] \in Nat
  BY <1>1 DEF TypeInv, TopicTypes
<1>3. u \notin updates
  <2> SUFFICES ASSUME u \in updates PROVE FALSE
    OBVIOUS
  <2>1. u.id = <<0, i>>
    OBVIOUS
  <2>2. \A p \in Partitions : p # 0
    BY FeedAssumption
  <2> HIDE DEF u
  <2>3. FromQuery(u) \/ FromSum(u)
    BY DEF ReadInv, UpdatesAreRead
  <2>4. ~ FromQuery(u)
    BY <1>1, <2>1 DEF FromQuery
  <2>5. ~ FromSum(u)
    BY <2>1, <2>2 DEF FromSum
  <2> QED BY <2>3, <2>4, <2>5
<1>4. u.fee = 1 /\ u.timestamp = queries[i]
  OBVIOUS
<1> HIDE DEF u
<1>5. Held(h)' = Held(h) + d
  BY <1>1, <1>3, <1>4, HeldAfterUpdate
<1>6. Consumed(h)' <=> Consumed(h)
  BY <1>1 DEF Consumed, topics
<1>7. QueriesOf(h)' = QueriesOf(h)
  BY <1>1 DEF QueriesOf, hourly_timestamp, topics
<1>8. hourly_timestamp(queries[i]) = h => ~ Consumed(h)
  <2> SUFFICES ASSUME hourly_timestamp(queries[i]) = h, Consumed(h) PROVE FALSE
    OBVIOUS
  <2>1. h <= latest /\ latest \in Int /\ h \in Nat
    BY FeedAssumption
       DEF ReadInv, LatestIsConsumed, TypeInv, ConsumerTypes, Hours, NoHour
  <2>2. queries[i] < h + HourLength
    BY <1>2, HourOf
  <2>3. HourLength \in Nat
    BY FeedAssumption
  <2> QED BY <1>1, <1>2, <2>1, <2>2, <2>3
<1>9. Credit(h)' = Credit(h) + d
  <2>1. CASE hourly_timestamp(queries[i]) = h
    <3> DEFINE R == QueriesOf(h) \cap read
    <3>1. QueriesOf(h) \cap (read \cup {i}) = R \cup {i} /\ i \notin R
      BY <1>1, <2>1 DEF QueriesOf
    <3>2. IsFiniteSet(R) /\ Cardinality(R) \in Nat
      BY <1>2, QueriesOfHour
    <3> HIDE DEF R
    <3>3. Cardinality(R \cup {i}) = Cardinality(R) + 1
      BY <3>1, <3>2, FS_AddElement
    <3>4. Credit(h) = Cardinality(R) /\ Credit(h)' = Cardinality(R \cup {i})
      BY <1>1, <1>6, <1>7, <1>8, <2>1, <3>1 DEF Credit, R
    <3> QED BY <2>1, <3>2, <3>3, <3>4
  <2>2. CASE hourly_timestamp(queries[i]) # h
    <3>1. QueriesOf(h) \cap (read \cup {i}) = QueriesOf(h) \cap read
      BY <2>2 DEF QueriesOf
    <3>2. Credit(h)' = Credit(h)
      BY <1>1, <1>6, <1>7, <3>1 DEF Credit
    <3> QED BY <2>2, <3>2, Amounts
  <2> QED BY <2>1, <2>2
<1> QED BY <1>5, <1>9

(* The database keeps what belongs to the window, and may drop the rest.   *)
LEMMA ReceiveStep ==
    ASSUME TypeInv, NEW h \in Hours, NEW batch \in SUBSET updates, ReceiveMany(batch)
    PROVE  /\ Credit(h)' = Credit(h) /\ Held(h)' <= Held(h) /\ Held(h)' \in Nat
           /\ h > now - Window => Held(h)' = Held(h)
<1> DEFINE f == Updated(batch)
           kept == Kept(batch)
           late == batch \ kept
           rest == updates \ batch
<1>1. /\ UNCHANGED <<now, topics, consumer>> /\ updates' = rest
      /\ data' = Pruned(f) \/ data' = f
  BY DEF ReceiveMany
<1>2. Credit(h)' = Credit(h)
  <2>1. (Consumed(h)' <=> Consumed(h)) /\ QueriesOf(h)' = QueriesOf(h) /\ read' = read
    BY <1>1 DEF Consumed, QueriesOf, hourly_timestamp, topics, consumer
  <2> QED BY <2>1 DEF Credit
<1>3. /\ IsFiniteSet(batch) /\ IsFiniteSet(kept)
      /\ IsFiniteSet(DOMAIN f) /\ DOMAIN f \subseteq Hours
      /\ \A g \in DOMAIN f : f[g] \in Nat
      /\ SumAt(f, h) = Stored(h) + Fees(kept, h)
  BY UpdatedIs DEF TypeInv
<1>4. IsFiniteSet(updates) /\ \A u \in updates : u.fee \in Nat /\ u.timestamp \in Nat
  BY DEF TypeInv, DatabaseTypes, Update
<1>5. /\ IsFiniteSet(late) /\ IsFiniteSet(rest)
      /\ kept \cup late = batch /\ kept \cap late = {}
      /\ batch \cup rest = updates /\ batch \cap rest = {}
      /\ \A u \in batch : u.fee \in Nat
  BY <1>3, <1>4, FS_Subset DEF Kept
<1>6. /\ Stored(h) \in Nat /\ now \in Nat /\ Window \in Nat /\ h \in Nat
      /\ now - Window \in Int
  BY Amounts
<1>7. h > now - Window => Fees(late, h) = 0
  <2> SUFFICES ASSUME h > now - Window PROVE Fees(late, h) = 0
    OBVIOUS
  <2>1. ASSUME NEW u \in late, hourly_timestamp(u.timestamp) = h PROVE FALSE
    <3>1. u.timestamp \in Nat /\ ~ (u.timestamp >= now - Window)
      BY <1>4 DEF Kept, InWindow
    <3>2. h <= u.timestamp
      BY <2>1, <3>1, HourOf
    <3> QED BY <1>6, <3>1, <3>2
  <2>2. OfHour(late, h) = {} /\ OfHour({}, h) = {}
    BY <2>1 DEF OfHour
  <2>3. Fees(late, h) = Fees({}, h)
    BY <2>2 DEF Fees
  <2>4. Fees({}, h) = 0
    <3> DEFINE z == [fee |-> 0, timestamp |-> 0]
    <3>1. z.fee \in Nat
      OBVIOUS
    <3> HIDE DEF z
    <3> QED BY <3>1, FeeOfOne
  <2> QED BY <2>3, <2>4
<1> HIDE DEF f, kept, late, rest
<1>8. /\ Fees(batch, h) = Fees(kept, h) + Fees(late, h)
      /\ Fees(kept, h) \in Nat /\ Fees(late, h) \in Nat
  BY <1>3, <1>5, FeesAdd
<1>9. /\ Fees(updates, h) = Fees(batch, h) + Fees(rest, h)
      /\ Fees(batch, h) \in Nat /\ Fees(rest, h) \in Nat
  <2>1. IsFiniteSet(batch) /\ IsFiniteSet(rest) /\ batch \cap rest = {}
    BY <1>3, <1>5
  <2>2. \A u \in batch \cup rest : u.fee \in Nat
    BY <1>4, <1>5
  <2>3. /\ Fees(batch \cup rest, h) = Fees(batch, h) + Fees(rest, h)
        /\ Fees(batch, h) \in Nat /\ Fees(rest, h) \in Nat
    BY <2>1, <2>2, FeesAdd
  <2> QED BY <1>5, <2>3
<1>10. Held(h)' = SumAt(data', h) + Fees(rest, h)
  BY <1>1 DEF Held, Stored, SumAt
<1>11. /\ SumAt(data', h) <= SumAt(f, h)
       /\ h > now - Window => SumAt(data', h) = SumAt(f, h)
       /\ SumAt(data', h) \in Nat /\ SumAt(f, h) \in Nat
  <2>1. /\ DOMAIN Pruned(f) \subseteq DOMAIN f
        /\ \A g \in DOMAIN Pruned(f) : Pruned(f)[g] = f[g]
        /\ \A g \in DOMAIN f : g > now - Window => g \in DOMAIN Pruned(f)
    BY <1>3, <1>6, Pruning
  <2>2. SumAt(f, h) \in Nat
    BY <1>3 DEF SumAt
  <2> QED BY <1>1, <2>1, <2>2 DEF SumAt
<1>12. Held(h) = Stored(h) + Fees(kept, h) + Fees(late, h) + Fees(rest, h)
  BY <1>6, <1>8, <1>9 DEF Held
<1>13. Held(h)' <= Held(h) /\ Held(h)' \in Nat
  BY <1>3, <1>6, <1>8, <1>9, <1>10, <1>11, <1>12
<1>14. h > now - Window => Held(h)' = Held(h)
  BY <1>3, <1>6, <1>7, <1>8, <1>9, <1>10, <1>11, <1>12
<1> QED BY <1>2, <1>13, <1>14

(* The window moves forward with the clock.                                *)
LEMMA WindowMoves ==
    ASSUME NEW h \in Nat, NEW w \in Nat, NEW then \in Nat, NEW later \in Nat, later >= then
    PROVE  h > later - w => h > then - w
OBVIOUS

(* At first nothing is held and nothing was read.                          *)
LEMMA BalanceInit == Init => BalanceInv
<1> SUFFICES ASSUME Init, NEW h \in Hours PROVE Held(h) = 0 /\ Credit(h) = 0
  BY DEF BalanceInv, UpperInv, LowerInv
<1>1. ~ Consumed(h)
  BY DEF Init, Consumed
<1>2. Cardinality(QueriesOf(h) \cap read) = 0
  BY FS_EmptySet DEF Init
<1>3. Fees({}, h) = 0
  <2> DEFINE z == [fee |-> 0, timestamp |-> 0]
  <2>1. z.fee \in Nat
    OBVIOUS
  <2> HIDE DEF z
  <2> QED BY <2>1, FeeOfOne
<1> QED BY <1>1, <1>2, <1>3 DEF Init, Empty, Held, Stored, Credit

(* So no hour is held more often than it was read, and none that matters   *)
(* less often.                                                             *)
LEMMA BalanceStep ==
    TypeInv /\ TopicInv /\ ReadInv /\ BalanceInv /\ [Next]_vars => BalanceInv'
<1> SUFFICES ASSUME TypeInv, TopicInv, ReadInv, BalanceInv, [Next]_vars, NEW h \in Hours
             PROVE  /\ Held(h)' <= Credit(h)'
                    /\ (h > now' - Window /\ h >= Cutoff) => Held(h)' >= Credit(h)'
  BY DEF BalanceInv, UpperInv, LowerInv, Window
<1>a. /\ Held(h) \in Nat /\ Credit(h) \in Nat /\ h \in Nat
      /\ now \in Nat /\ Window \in Nat /\ Cutoff \in Nat
      /\ Credit(h) <= Cardinality(QueriesOf(h)) /\ Cardinality(QueriesOf(h)) \in Nat
  BY Amounts
<1>c. /\ Held(h) <= Credit(h)
      /\ (h > now - Window /\ h >= Cutoff) => Held(h) >= Credit(h)
  BY DEF BalanceInv, UpperInv, LowerInv
<1>d. now' \in Nat /\ now' >= now
  BY <1>a DEF Next, vars, Tick, Query, AggregateHour, Start, StartWithoutSums,
              ConsumeHour, ReadQuery, ReceiveMany
<1>e. h > now' - Window => h > now - Window
  BY <1>a, <1>d, WindowMoves
<1>1. ASSUME Held(h)' = Held(h), Credit(h)' = Credit(h)
      PROVE  /\ Held(h)' <= Credit(h)'
             /\ (h > now' - Window /\ h >= Cutoff) => Held(h)' >= Credit(h)'
  BY <1>1, <1>a, <1>c, <1>e
<1>2. CASE \/ UNCHANGED vars \/ Tick \/ Query \/ Start \/ StartWithoutSums
           \/ \E p \in Partitions : AggregateHour(p)
  <2>1. /\ UNCHANGED <<offset, read, updates, data>>
        /\ UNCHANGED topics \/ Query \/ \E p \in Partitions : AggregateHour(p)
    BY <1>2 DEF vars, Tick, Query, Start, StartWithoutSums, AggregateHour,
                consumer, db
  <2> QED BY <1>1, <2>1, QuietStep
<1>3. ASSUME NEW p \in Partitions, ConsumeHour(p)
      PROVE  /\ Held(h)' <= Credit(h)'
             /\ (h > now' - Window /\ h >= Cutoff) => Held(h)' >= Credit(h)'
  <2>1. CASE h # NextSum(p).timestamp
    BY <1>1, <1>3, <2>1, ConsumeStep
  <2>2. CASE h = NextSum(p).timestamp
    <3>1. /\ Credit(h) = 0
          /\ Credit(h)' \in Nat
          /\ Held(h)' = Held(h) \/ Held(h)' = Held(h) + Credit(h)'
          /\ h >= Cutoff => Held(h)' = Held(h) + Credit(h)'
      BY <1>3, <2>2, ConsumeStep
    <3> QED BY <1>a, <1>c, <3>1
  <2> QED BY <2>1, <2>2
<1>4. ASSUME NEW i \in 1 .. MaxQueries, ReadQuery(i)
      PROVE  /\ Held(h)' <= Credit(h)'
             /\ (h > now' - Window /\ h >= Cutoff) => Held(h)' >= Credit(h)'
  <2>1. PICK d \in {0, 1} : Held(h)' = Held(h) + d /\ Credit(h)' = Credit(h) + d
    BY <1>4, ReadQueryStep
  <2> QED BY <1>a, <1>c, <1>e, <2>1
<1>5. ASSUME NEW batch \in SUBSET updates, ReceiveMany(batch)
      PROVE  /\ Held(h)' <= Credit(h)'
             /\ (h > now' - Window /\ h >= Cutoff) => Held(h)' >= Credit(h)'
  <2>1. /\ Credit(h)' = Credit(h) /\ Held(h)' <= Held(h) /\ Held(h)' \in Nat
        /\ h > now - Window => Held(h)' = Held(h)
    BY <1>5, ReceiveStep
  <2> QED BY <1>a, <1>c, <1>e, <2>1
<1> QED BY <1>2, <1>3, <1>4, <1>5 DEF Next

-----------------------------------------------------------------------------
(* What the database holds of some hours is at most what was served then,  *)
(* and at least if it holds as much of each.                               *)
LEMMA ServedThen ==
    ASSUME queries \in Seq(Nat), NEW D, IsFiniteSet(D), D \subseteq Hours
    PROVE  LET count == [h \in D |-> Cardinality(QueriesOf(h))]
               then  == {i \in DOMAIN queries : hourly_timestamp(queries[i]) \in D}
           IN  /\ SumOver(count, D) = Cardinality(then)
               /\ IsFiniteSet(then) /\ Cardinality(then) \in Nat
               /\ \A h \in D : count[h] = Cardinality(QueriesOf(h)) /\ count[h] \in Nat
<1> DEFINE hour == [i \in DOMAIN queries |-> hourly_timestamp(queries[i])]
           count == [h \in D |-> Cardinality(QueriesOf(h))]
           then == {i \in DOMAIN queries : hourly_timestamp(queries[i]) \in D}
           Q == DOMAIN queries
<1>1. IsFiniteSet(Q)
  BY QueriesFinite
<1>2. \A h : QueriesOf(h) = {i \in Q : hour[i] = h}
  BY DEF QueriesOf
<1>3. then = {i \in Q : hour[i] \in D}
  OBVIOUS
<1>4. count = [h \in D |-> Cardinality({i \in Q : hour[i] = h})]
  BY <1>2
<1>5. \A h \in D : count[h] = Cardinality(QueriesOf(h)) /\ count[h] \in Nat
  BY QueriesOfHour
<1>6. IsFiniteSet(then) /\ Cardinality(then) \in Nat
  BY <1>1, FS_Subset, FS_CardinalityType
<1> HIDE DEF hour, count, then, Q
<1>7. SumOver(count, D) = Cardinality(then)
  BY <1>1, <1>3, <1>4, CountByHour
<1> QED BY <1>5, <1>6, <1>7 DEF count, then

-----------------------------------------------------------------------------
(* The replay.                                                             *)
LEMMA ReplayInit == Init => ReplayInv
BY DEF Init, ReplayInv

(* The goal of a replay is the hour at which it starts.                    *)
LEMMA StartStep ==
    ASSUME TypeInv, TopicInv, ReadInv, Start
    PROVE  ReplayInv'
<1>1. /\ phase = "down" /\ phase' = "replay"
      /\ awaited' = [p \in {q \in Partitions : hourly[q] # << >>} |-> Len(hourly[p])]
      /\ UNCHANGED <<topics, offset>>
  BY DEF Start
<1>2. \A p \in Partitions : offset'[p] = 0
  BY <1>1 DEF ReadInv, NothingReadYet
<1>3. \A p \in Partitions : /\ Len(hourly[p]) \in Nat
                            /\ hourly[p] # << >> => Len(hourly[p]) > 0
                            /\ hourly[p] = << >> => Len(hourly[p]) = 0
  BY DEF TypeInv, TopicTypes
<1>4. next_hour \in Hours /\ next_hour \in Nat /\ HourLength \in Nat /\ HourLength > 0
  BY FeedAssumption DEF TypeInv, TopicTypes, Hours
<1>5. \A p \in Partitions : \A k \in 1 .. Len(hourly[p]) : hourly[p][k].timestamp < next_hour
  <2> SUFFICES ASSUME NEW p \in Partitions, NEW k \in 1 .. Len(hourly[p])
               PROVE  hourly[p][k].timestamp < next_hour
    OBVIOUS
  <2>1. hourly[p][k].timestamp \in Nat /\ hourly[p][k].timestamp + HourLength <= next_hour
    BY SumsAreHours DEF TypeInv, TopicInv, SumsAreRight, SumIsRight
  <2> QED BY <1>4, <2>1
<1>6. PICK N \in Hours : N = next_hour
  BY <1>4
<1>7. SameHour(N)'
  <2>1. hourly' = hourly /\ next_hour' = next_hour
    BY <1>1 DEF topics
  <2>2. ASSUME NEW p \in Partitions PROVE Goal(p)' = Len(hourly[p])
    BY <1>1, <1>2, <1>3 DEF Goal
  <2>3. ASSUME NEW p \in Partitions, p \in DOMAIN awaited' PROVE offset'[p] < awaited'[p]
    BY <1>1, <1>2, <1>3, <2>3
  <2>4. ASSUME NEW p \in Partitions, NEW k \in 1 .. Len(hourly[p])
        PROVE  k <= Goal(p)' /\ hourly[p][k].timestamp < N
    BY <1>3, <1>5, <1>6, <2>2
  <2> QED BY <1>4, <1>6, <2>1, <2>3, <2>4 DEF SameHour
<1> QED BY <1>1, <1>6, <1>7 DEF ReplayInv

(* Without an aggregated topic nothing was consumed, as at hour 0.         *)
LEMMA RealtimeStart ==
    ASSUME TypeInv, ReadInv, StartWithoutSums
    PROVE  ReplayInv'
<1>1. /\ phase = "down" /\ phase' = "realtime" /\ latest' = NoHour
      /\ UNCHANGED <<topics, awaited, offset>>
  BY DEF StartWithoutSums, NoHour
<1>2. DOMAIN awaited' = {} /\ \A p \in Partitions : offset'[p] = 0
  BY <1>1 DEF ReadInv, NothingReadYet
<1>3. /\ 0 \in Hours /\ next_hour \in Nat
      /\ hourly' = hourly /\ next_hour' = next_hour
  BY <1>1, NextHour DEF TypeInv, TopicTypes, Hours, topics
<1>4. ASSUME NEW p \in Partitions, NEW k \in 1 .. Len(hourly[p])
      PROVE  hourly[p][k].timestamp \in Nat
  BY SumsAreHours DEF TypeInv
<1>5. \A p \in Partitions : Goal(p)' = 0
  BY <1>2 DEF Goal
<1>6. PICK N \in Hours : N = 0
  BY <1>3
<1>7. SameHour(N)'
  <2>1. ASSUME NEW p \in Partitions, NEW k \in 1 .. Len(hourly[p])
        PROVE  ~ (k <= 0) /\ ~ (hourly[p][k].timestamp < N)
    BY <1>4, <1>6
  <2> QED BY <1>2, <1>3, <1>5, <1>6, <2>1 DEF SameHour
<1>8. (latest = NoHour)'
  BY <1>1 DEF NoHour
<1> QED BY <1>1, <1>2, <1>7, <1>8 DEF ReplayInv

(* Sums that come later are beyond the goal.                               *)
LEMMA AggregateStep ==
    ASSUME TypeInv, TopicInv, ReplayInv, NEW p \in Partitions, AggregateHour(p)
    PROVE  ReplayInv'
<1> DEFINE n == Len(hourly[p]) + 1
<1>1. /\ n \in Nat /\ Len(hourly'[p]) = n
      /\ \A q \in Partitions : q # p => hourly'[q] = hourly[q]
      /\ \A k \in 1 .. Len(hourly[p]) : hourly'[p][k] = hourly[p][k]
      /\ hourly'[p][n].timestamp = next_hour
  BY HourlyGrows DEF TypeInv
<1>2. UNCHANGED <<phase, awaited, offset, latest>> /\ next_hour' = next_hour + HourLength
  BY DEF AggregateHour, consumer
<1>3. /\ \A q \in Partitions : Len(hourly[q]) \in Nat /\ offset[q] \in Nat /\ offset[q] <= Len(hourly[q])
      /\ DOMAIN awaited \subseteq Partitions
      /\ \A q \in DOMAIN awaited : awaited[q] \in 1 .. Len(hourly[q])
      /\ next_hour \in Nat /\ HourLength \in Nat
  BY FeedAssumption DEF TypeInv, TopicTypes, ConsumerTypes, Hours
<1>4. ASSUME NEW q \in Partitions, NEW k \in 1 .. Len(hourly'[q])
      PROVE  \/ k \in 1 .. Len(hourly[q]) /\ hourly'[q][k] = hourly[q][k]
             \/ q = p /\ k = n
  BY <1>1, <1>3
<1>5. \A q \in Partitions : Goal(q)' = Goal(q) /\ Goal(q) \in Nat /\ Goal(q) <= Len(hourly[q])
  BY <1>2, <1>3 DEF Goal
<1>6. ASSUME NEW N \in Hours, SameHour(N) PROVE SameHour(N)'
  <2>1. N \in Nat /\ N <= next_hour /\ N <= next_hour'
    BY <1>2, <1>3, <1>6 DEF SameHour, Hours
  <2>2. ASSUME NEW q \in Partitions, NEW k \in 1 .. Len(hourly'[q])
        PROVE  k <= Goal(q)' <=> hourly'[q][k].timestamp < N
    <3>1. CASE k \in 1 .. Len(hourly[q]) /\ hourly'[q][k] = hourly[q][k]
      BY <1>5, <1>6, <3>1 DEF SameHour
    <3>2. CASE q = p /\ k = n
      BY <1>1, <1>3, <1>5, <2>1, <3>2
    <3> QED BY <1>4, <3>1, <3>2
  <2>3. \A q \in Partitions : q \in DOMAIN awaited' => offset'[q] < awaited'[q]
    BY <1>2, <1>6 DEF SameHour
  <2> QED BY <2>1, <2>2, <2>3 DEF SameHour
<1>7. Endless => Endless'
  <2>1. \A q \in DOMAIN awaited : hourly'[q][awaited[q]] = hourly[q][awaited[q]]
    BY <1>1, <1>3
  <2> QED BY <1>2, <2>1 DEF Endless
<1>8. \A h : Consumed(h)' <=> Consumed(h)
  BY <1>2, ConsumedSame
<1>9. (latest = NoHour)' <=> latest = NoHour
  BY <1>2 DEF NoHour
<1> QED BY <1>2, <1>6, <1>7, <1>8, <1>9 DEF ReplayInv

(* Consuming a sum brings the replay nearer to its goal, or makes it       *)
(* endless.                                                                *)
LEMMA ReplayConsumes ==
    ASSUME TypeInv, TopicInv, ReplayInv, NEW p \in Partitions, ConsumeHour(p)
    PROVE  ReplayInv'
<1> DEFINE n == offset[p] + 1
           t == NextSum(p).timestamp
           D == DOMAIN awaited
<1>1. /\ offset[p] \in Nat /\ n \in 1 .. Len(hourly[p])
      /\ offset'[p] = n /\ \A q \in Partitions : q # p => offset'[q] = offset[q]
      /\ t \in Hours /\ t \in Nat /\ t = hourly[p][n].timestamp
      /\ \E h \in Hours : Consumed(h)'
  BY ConsumedNext DEF NextSum
<1>2. /\ phase = "replay" /\ UNCHANGED topics /\ UNCHANGED hourly /\ UNCHANGED next_hour
      /\ \/ t < Cutoff /\ UNCHANGED <<phase, awaited>>
         \/ ~ (t < Cutoff) /\ CompleteOffset(p, n)
  BY DEF ConsumeHour, NextSum, topics
<1>3. /\ \A q \in Partitions : Len(hourly[q]) \in Nat /\ offset[q] \in Nat
      /\ D \subseteq Partitions
      /\ \A q \in D : awaited[q] \in 1 .. Len(hourly[q]) /\ awaited[q] \in Nat
      /\ Cutoff \in Nat
  <2>1. \A q \in Partitions : Len(hourly[q]) \in Nat
    BY DEF TypeInv, TopicTypes
  <2>2. Cutoff \in Nat
    BY FeedAssumption
  <2> QED BY <2>1, <2>2 DEF TypeInv, ConsumerTypes
<1>4. \A q \in D : hourly[q][awaited[q]].timestamp \in Nat
  BY <1>3, SumsAreHours DEF TypeInv
<1>5. Endless \/ \E N \in Hours : SameHour(N)
  BY <1>2 DEF ReplayInv
<1>6. \A h \in Hours : h \in Nat
  BY DEF Hours
<1>7. \A q \in D : awaited[q] <= offset[q] => awaited[q] <= offset'[q]
  BY <1>1, <1>3
<1> HIDE DEF n, t, D
<1>8. CASE t < Cutoff
  <2>1. phase' = "replay" /\ awaited' = awaited
    BY <1>2, <1>8
  <2>2. Endless => Endless'
    BY <1>2, <1>7, <2>1 DEF Endless, D
  <2>3. ASSUME NEW N \in Hours, SameHour(N), ~ Endless
        PROVE  SameHour(N)'
    <3>1. D # {} /\ \A q \in D : ~ (hourly[q][awaited[q]].timestamp < Cutoff)
      BY <1>2, <2>3 DEF Endless, D
    <3>2. p \in D
      <4> SUFFICES ASSUME p \notin D PROVE FALSE
        OBVIOUS
      <4>1. ~ (n <= Goal(p))
        BY <1>1 DEF Goal, D, n
      <4>2. ~ (t < N)
        BY <1>1, <2>3, <4>1 DEF SameHour
      <4>3. PICK q \in D : TRUE
        BY <3>1
      <4>4. awaited[q] <= Goal(q) /\ awaited[q] \in 1 .. Len(hourly[q]) /\ q \in Partitions
        BY <1>3, <4>3 DEF Goal, D
      <4>5. hourly[q][awaited[q]].timestamp < N
        BY <2>3, <4>4 DEF SameHour
      <4>6. /\ hourly[q][awaited[q]].timestamp \in Nat
            /\ ~ (hourly[q][awaited[q]].timestamp < Cutoff)
        BY <1>4, <3>1, <4>3
      <4>7. N \in Nat /\ t \in Nat /\ Cutoff \in Nat
        BY <1>1, <1>3, <1>6
      <4> QED BY <1>8, <4>2, <4>5, <4>6, <4>7
    <3>3. n # awaited[p]
      BY <1>1, <1>8, <3>1, <3>2
    <3>4. offset[p] < awaited[p]
      BY <2>3, <3>2 DEF SameHour, D
    <3>5. n < awaited[p]
      BY <1>1, <1>3, <3>2, <3>3, <3>4 DEF n
    <3>6. \A q \in Partitions : Goal(q)' = Goal(q)
      BY <1>1, <2>1, <3>2 DEF Goal, D
    <3>7. \A q \in Partitions : q \in DOMAIN awaited' => offset'[q] < awaited'[q]
      BY <1>1, <2>1, <2>3, <3>5 DEF SameHour
    <3> QED BY <1>2, <2>3, <3>6, <3>7 DEF SameHour
  <2> QED BY <1>5, <2>1, <2>2, <2>3 DEF ReplayInv
<1>9. CASE ~ (t < Cutoff)
  <2> USE <1>9
  <2>1. CompleteOffset(p, n)
    BY <1>2
  <2>2. CASE p \notin D
    BY <2>1, <2>2 DEF CompleteOffset, ReplayInv, D
  <2>3. CASE p \in D /\ awaited[p] = n
    <3>1. /\ DOMAIN awaited' = D \ {p}
          /\ \A q \in D \ {p} : awaited'[q] = awaited[q]
          /\ phase' = IF D \ {p} = {} THEN "realtime" ELSE "replay"
      BY <2>1, <2>3 DEF CompleteOffset, D
    <3>2. Endless => Endless'
      <4> SUFFICES ASSUME Endless PROVE Endless'
        OBVIOUS
      <4>1. PICK q \in D : awaited[q] <= offset[q] \/ hourly[q][awaited[q]].timestamp < Cutoff
        BY <2>3 DEF Endless, D
      <4>2. q # p
        BY <1>1, <1>3, <2>3, <4>1 DEF n
      <4>3. offset'[q] = offset[q] /\ awaited'[q] = awaited[q] /\ q \in DOMAIN awaited' /\ phase' = "replay"
        BY <1>1, <1>3, <3>1, <4>1, <4>2
      <4> QED BY <1>2, <4>1, <4>3 DEF Endless
    <3>3. ASSUME NEW N \in Hours, SameHour(N) PROVE SameHour(N)'
      <4>1. \A q \in Partitions : Goal(q)' = Goal(q)
        BY <1>1, <2>3, <3>1 DEF Goal, D
      <4>2. \A q \in Partitions : q \in DOMAIN awaited' => offset'[q] < awaited'[q]
        BY <1>1, <3>1, <3>3 DEF SameHour, D
      <4> QED BY <1>2, <3>3, <4>1, <4>2 DEF SameHour
    <3>4. phase' = "realtime" => DOMAIN awaited' = {} /\ ~ Endless
      BY <3>1, <3>2 DEF Endless
    <3> QED BY <1>1, <1>5, <3>1, <3>2, <3>3, <3>4 DEF ReplayInv
  <2>4. CASE p \in D /\ awaited[p] # n
    <3>1. /\ DOMAIN awaited' = D /\ \A q \in D : awaited'[q] = awaited[q]
          /\ phase' = "replay"
      BY <2>1, <2>4 DEF CompleteOffset, D
    <3>2. Endless => Endless'
      <4> SUFFICES ASSUME Endless PROVE Endless'
        OBVIOUS
      <4>1. PICK q \in D : awaited[q] <= offset[q] \/ hourly[q][awaited[q]].timestamp < Cutoff
        BY <2>4 DEF Endless, D
      <4>2. awaited'[q] = awaited[q] /\ q \in DOMAIN awaited'
        BY <3>1, <4>1
      <4>3. awaited'[q] <= offset'[q] \/ hourly'[q][awaited'[q]].timestamp < Cutoff
        BY <1>2, <1>7, <4>1, <4>2
      <4> QED BY <3>1, <4>2, <4>3 DEF Endless
    <3>3. ASSUME NEW N \in Hours, SameHour(N) PROVE SameHour(N)'
      <4>1. \A q \in Partitions : Goal(q)' = Goal(q)
        BY <1>1, <2>4, <3>1 DEF Goal, D
      <4>2. offset[p] < awaited[p]
        BY <2>4, <3>3 DEF SameHour, D
      <4>3. n < awaited[p]
        BY <1>1, <1>3, <2>4, <4>2 DEF n
      <4>4. \A q \in Partitions : q \in DOMAIN awaited' => offset'[q] < awaited'[q]
        BY <1>1, <3>1, <3>3, <4>3 DEF SameHour, D
      <4> QED BY <1>2, <3>3, <4>1, <4>4 DEF SameHour
    <3> QED BY <1>5, <3>1, <3>2, <3>3 DEF ReplayInv
  <2> QED BY <2>2, <2>3, <2>4
<1> QED BY <1>8, <1>9

(* Every step keeps the goal of the replay.                                *)
LEMMA ReplayStep == TypeInv /\ TopicInv /\ ReadInv /\ ReplayInv /\ [Next]_vars => ReplayInv'
<1> SUFFICES ASSUME TypeInv, TopicInv, ReadInv, ReplayInv, [Next]_vars PROVE ReplayInv'
  OBVIOUS
<1>1. CASE UNCHANGED <<phase, awaited, offset, latest, hourly, next_hour>>
  <2>1. \A h : Consumed(h)' <=> Consumed(h)
    BY <1>1 DEF Consumed
  <2>2. \A N : SameHour(N)' <=> SameHour(N)
    BY <1>1 DEF SameHour, Goal
  <2>3. Endless' <=> Endless
    BY <1>1 DEF Endless
  <2> QED BY <1>1, <2>1, <2>2, <2>3 DEF ReplayInv
<1>2. CASE Start
  BY <1>2, StartStep
<1>5. CASE StartWithoutSums
  BY <1>5, RealtimeStart
<1>3. ASSUME NEW p \in Partitions, AggregateHour(p) PROVE ReplayInv'
  BY <1>3, AggregateStep
<1>4. ASSUME NEW p \in Partitions, ConsumeHour(p) PROVE ReplayInv'
  BY <1>4, ReplayConsumes
<1> QED BY <1>1, <1>2, <1>3, <1>4, <1>5
    DEF Next, vars, topics, consumer, Tick, Query, ReadQuery, ReceiveMany

-----------------------------------------------------------------------------
(* The published total, and the queries that were in the window then.      *)
InWindowThen == {i \in DOMAIN queries : queries[i] > last_snapshot - Window}

(* At first nothing is published.                                          *)
LEMMA CountedInit == Init => CountedOnce
<1> SUFFICES ASSUME Init PROVE CountedOnce
  OBVIOUS
<1>1. queries \in Seq(Nat) /\ published = 0
  BY DEF Init
<1>2. InWindowThen \cap DOMAIN queries = InWindowThen
  BY DEF InWindowThen
<1>3. Cardinality(InWindowThen) \in Nat
  BY <1>1, <1>2, QueriesFinite
<1> QED BY <1>1, <1>3 DEF CountedOnce, InWindowThen

(* What is published is a sum over hours of the window, and no hour is     *)
(* held more often than it was served.                                     *)
LEMMA PublishedIsServed ==
    ASSUME TypeInv, TypeInv', BalanceInv, NEW batch \in SUBSET updates, ReceiveMany(batch),
           data' = Pruned(Updated(batch)), published' = SumFunction(data')
    PROVE  published' <= Cardinality({i \in DOMAIN queries : queries[i] > now - Window})
<1> DEFINE D == DOMAIN data'
           count == [h \in D |-> Cardinality(QueriesOf(h))]
           then == {i \in DOMAIN queries : hourly_timestamp(queries[i]) \in D}
           recent == {i \in DOMAIN queries : queries[i] > now - Window}
<1>1. queries \in Seq(Nat) /\ now \in Nat /\ Window \in Nat
  BY FeedAssumption DEF TypeInv, TopicTypes, Window
<1>2. IsFiniteSet(D) /\ D \subseteq Hours /\ \A h \in D : data'[h] \in Nat
  BY DEF TypeInv, DatabaseTypes
<1>3. \A h \in D : h > now - Window
  <2> DEFINE f == Updated(batch)
  <2>1. IsFiniteSet(DOMAIN f) /\ DOMAIN f \subseteq Hours
    BY UpdatedIs DEF TypeInv
  <2> HIDE DEF f
  <2>2. \A h \in DOMAIN Pruned(f) : h > now - Window
    BY <1>1, <2>1, Pruning
  <2> QED BY <2>2 DEF f
<1>4. ASSUME NEW h \in D PROVE data'[h] <= Cardinality(QueriesOf(h))
  <2>1. h \in Hours
    BY <1>2
  <2>2. Held(h) <= Credit(h) /\ Held(h) \in Nat /\ Credit(h) \in Nat
        /\ Credit(h) <= Cardinality(QueriesOf(h)) /\ Cardinality(QueriesOf(h)) \in Nat
    BY <2>1, Amounts DEF BalanceInv, UpperInv
  <2>3. Held(h)' <= Held(h) /\ Held(h)' \in Nat
    BY <2>1, ReceiveStep
  <2>4. IsFiniteSet(updates \ batch) /\ \A u \in updates \ batch : u.fee \in Nat
    BY FS_Subset DEF TypeInv, DatabaseTypes, Update
  <2>5. Fees(updates \ batch, h) \in Nat
    BY <2>4, FeesNat
  <2>6. Held(h)' = data'[h] + Fees(updates \ batch, h)
    BY DEF ReceiveMany, Held, Stored
  <2> QED BY <1>2, <2>2, <2>3, <2>5, <2>6
<1>5. /\ SumOver(count, D) = Cardinality(then)
      /\ IsFiniteSet(then) /\ Cardinality(then) \in Nat
      /\ \A h \in D : count[h] = Cardinality(QueriesOf(h)) /\ count[h] \in Nat
  BY <1>1, <1>2, ServedThen
<1>6. then \subseteq recent /\ IsFiniteSet(recent)
  <2>1. ASSUME NEW i \in DOMAIN queries, hourly_timestamp(queries[i]) \in D
        PROVE  queries[i] > now - Window
    <3>1. queries[i] \in Nat /\ queries[i] \in Int
      BY <1>1
    <3>2. hourly_timestamp(queries[i]) <= queries[i] /\ hourly_timestamp(queries[i]) \in Nat
      BY <1>2, <2>1, <3>1, HourOf DEF Hours
    <3> QED BY <1>1, <1>3, <2>1, <3>1, <3>2
  <2>2. IsFiniteSet(recent)
    BY <1>1, QueriesFinite, FS_Subset
  <2> QED BY <2>1, <2>2
<1> HIDE DEF D, count, then, recent
<1>7. published' = SumOver(data', D)
  BY TotalIsSum DEF D
<1>8. SumOver(data', D) <= SumOver(count, D)
  <2>1. \A h \in D : data'[h] \in Int /\ count[h] \in Int /\ data'[h] <= count[h]
    BY <1>2, <1>4, <1>5
  <2> QED BY <1>2, <2>1, SumMonotone
<1>9. SumOver(data', D) \in Nat
  BY <1>2, SumNat
<1>10. Cardinality(then) <= Cardinality(recent) /\ Cardinality(recent) \in Nat
  BY <1>6, FS_Subset, FS_CardinalityType
<1> QED BY <1>5, <1>7, <1>8, <1>9, <1>10 DEF recent

(* A total is published that counts no query twice, and more queries later *)
(* do not change that.                                                     *)
LEMMA CountedStep ==
    TypeInv /\ TypeInv' /\ BalanceInv /\ ReadInv /\ CountedOnce /\ [Next]_vars => CountedOnce'
<1> SUFFICES ASSUME TypeInv, TypeInv', BalanceInv, ReadInv, CountedOnce, [Next]_vars
             PROVE  CountedOnce'
  OBVIOUS
<1>1. queries \in Seq(Nat) /\ published \in Nat
  BY DEF TypeInv, TopicTypes, DatabaseTypes
<1>2. IsFiniteSet(InWindowThen') /\ Cardinality(InWindowThen') \in Nat
  <2>1. DOMAIN queries' = 1 .. Len(queries') /\ Len(queries') \in Nat
    BY DEF TypeInv, TopicTypes
  <2>2. IsFiniteSet(DOMAIN queries')
    BY <2>1, FS_Interval
  <2>3. InWindowThen' \subseteq DOMAIN queries'
    BY DEF InWindowThen
  <2> QED BY <2>2, <2>3, FS_Subset, FS_CardinalityType
<1>3. CASE UNCHANGED <<queries, last_snapshot, published>>
  BY <1>3 DEF CountedOnce, Window
<1>4. CASE Query
  <2>1. UNCHANGED <<last_snapshot, published>>
    BY <1>4 DEF Query, db
  <2>2. DOMAIN queries \subseteq DOMAIN queries' /\ \A i \in DOMAIN queries : queries'[i] = queries[i]
    BY <1>4, QueryIsRecent DEF TypeInv
  <2>3. InWindowThen \subseteq InWindowThen'
    BY <2>1, <2>2 DEF InWindowThen, Window
  <2>4. /\ Cardinality(InWindowThen) <= Cardinality(InWindowThen')
        /\ Cardinality(InWindowThen) \in Nat
    BY <1>2, <2>3, FS_Subset, FS_CardinalityType
  <2>5. published <= Cardinality(InWindowThen)
    BY DEF CountedOnce, InWindowThen
  <2>6. published' <= Cardinality(InWindowThen')
    BY <1>1, <1>2, <2>1, <2>4, <2>5
  <2> QED BY <2>6 DEF CountedOnce, InWindowThen
<1>5. CASE Start
  <2>1. published' = 0
    BY <1>5 DEF Start, ReadInv, NothingReadYet
  <2>2. published' <= Cardinality(InWindowThen')
    BY <1>2, <2>1
  <2> QED BY <2>2 DEF CountedOnce, InWindowThen
<1>7. CASE StartWithoutSums
  <2>1. published' = 0
    BY <1>7 DEF StartWithoutSums, ReadInv, NothingReadYet
  <2>2. published' <= Cardinality(InWindowThen')
    BY <1>2, <2>1
  <2> QED BY <2>2 DEF CountedOnce, InWindowThen
<1>6. ASSUME NEW batch \in SUBSET updates, ReceiveMany(batch) PROVE CountedOnce'
  <2>1. UNCHANGED <<now, topics>>
    BY <1>6 DEF ReceiveMany
  <2>2. CASE UNCHANGED <<published, last_snapshot>>
    BY <1>3, <2>1, <2>2 DEF topics
  <2>3. CASE /\ data' = Pruned(Updated(batch)) /\ published' = SumFunction(data')
             /\ last_snapshot' = now
    <3>1. published' <= Cardinality({i \in DOMAIN queries : queries[i] > now - Window})
      BY <1>6, <2>3, PublishedIsServed
    <3> QED BY <2>1, <2>3, <3>1 DEF CountedOnce, topics, Window
  <2> QED BY <1>6, <2>2, <2>3 DEF ReceiveMany
<1> QED BY <1>3, <1>4, <1>5, <1>6, <1>7
    DEF Next, vars, topics, db, Tick, AggregateHour, ConsumeHour, ReadQuery

-----------------------------------------------------------------------------
(* A consumer that has caught up has read every query, in one topic or the *)
(* other.                                                                  *)
LEMMA AllRead ==
    ASSUME TypeInv, TopicInv, ReadInv, ReplayInv, CaughtUp, NEW h \in Hours
    PROVE  Credit(h) = Cardinality(QueriesOf(h))
<1>1. CASE Consumed(h)
  BY <1>1 DEF Credit
<1>3. CASE latest = NoHour
  <2>1. ASSUME NEW i \in QueriesOf(h) PROVE i \in read
    <3>1. i \in DOMAIN queries /\ queries[i] \in Nat
      BY DEF QueriesOf, TypeInv, TopicTypes
    <3>2. realtime_start = 0
      BY <1>3, FeedAssumption DEF realtime_start, NoHour
    <3> QED BY <3>1, <3>2 DEF CaughtUp
  <2>2. QueriesOf(h) \cap read = QueriesOf(h)
    BY <2>1
  <2> QED BY <1>1, <2>2 DEF Credit
<1>2. CASE ~ Consumed(h) /\ latest # NoHour
  <2>1. PICK N \in Hours : SameHour(N)
    BY DEF CaughtUp, ReplayInv
  <2>2. DOMAIN awaited = {} /\ \E g \in Hours : Consumed(g)
    BY <1>2 DEF CaughtUp, ReplayInv
  <2>3. /\ latest \in Nat /\ latest \in HourStarts /\ N \in Nat /\ h \in Nat /\ h \in HourStarts
        /\ next_hour \in Nat /\ HourLength \in Nat
        /\ \A p \in Partitions : offset[p] \in Nat /\ Len(hourly[p]) \in Nat /\ offset[p] <= Len(hourly[p])
    BY <1>2, FeedAssumption DEF TypeInv, TopicTypes, ConsumerTypes, Hours
  <2>4. Consumed(latest)
    <3>1. PICK g \in Hours : Consumed(g)
      BY <2>2
    <3>2. g \in Nat /\ g <= latest
      BY <3>1 DEF ReadInv, LatestIsConsumed, Hours
    <3>3. latest = 0 => g = latest
      BY <2>3, <3>2
    <3> QED BY <1>2, <3>1, <3>3 DEF ReadInv, LatestIsConsumed
  <2>5. latest < N
    <3>1. PICK p \in Partitions : \E k \in 1 .. offset[p] : hourly[p][k].timestamp = latest
      BY <2>4 DEF Consumed
    <3>2. PICK k \in 1 .. offset[p] : hourly[p][k].timestamp = latest
      BY <3>1
    <3>3. k \in 1 .. Len(hourly[p]) /\ k <= Goal(p)
      BY <2>2, <2>3 DEF Goal
    <3> QED BY <2>1, <3>2, <3>3 DEF SameHour
  <2>6. ASSUME NEW i \in QueriesOf(h) PROVE i \in read
    <3> SUFFICES ASSUME i \notin read PROVE FALSE
      OBVIOUS
    <3>1. i \in DOMAIN queries /\ hourly_timestamp(queries[i]) = h
      BY DEF QueriesOf
    <3>2. queries[i] \in Nat /\ queries[i] \in Int
      BY <3>1 DEF TypeInv, TopicTypes
    <3>3. ~ (queries[i] >= latest + HourLength)
      BY <3>1 DEF CaughtUp, realtime_start
    <3>4. h <= queries[i]
      BY <3>1, <3>2, HourOf
    <3>5. latest < h => latest + HourLength <= h
      BY <2>3, HoursApart
    <3>6. h <= latest
      BY <2>3, <3>2, <3>3, <3>4, <3>5
    <3>7. h < N /\ h < next_hour
      BY <2>1, <2>3, <2>5, <3>6 DEF SameHour
    <3>8. PICK q \in Partitions : \E l \in 1 .. Len(hourly[q]) : hourly[q][l].timestamp = h
      BY <3>7 DEF TopicInv, HoursAreSummed
    <3>9. PICK l \in 1 .. Len(hourly[q]) : hourly[q][l].timestamp = h
      BY <3>8
    <3>10. l <= Goal(q)
      BY <2>1, <3>7, <3>9 DEF SameHour
    <3>11. l \in 1 .. offset[q]
      BY <2>2, <2>3, <3>9, <3>10 DEF Goal
    <3> QED BY <1>2, <3>9, <3>11 DEF Consumed
  <2>7. QueriesOf(h) \cap read = QueriesOf(h)
    BY <2>6
  <2> QED BY <1>2, <2>7 DEF Credit
<1> QED BY <1>1, <1>2, <1>3

(* What has been read in full is held in full.                             *)
LEMMA CaughtUpHasAll ==
    ASSUME TypeInv, TopicInv, ReadInv, BalanceInv, ReplayInv
    PROVE  NothingLost
<1> SUFFICES ASSUME CaughtUp
             PROVE  SumFunction(data) >= Cardinality({i \in DOMAIN queries :
                       /\ queries[i] >= now - Window + HourLength
                       /\ hourly_timestamp(queries[i]) >= Cutoff})
  BY DEF NothingLost
<1> DEFINE due == {i \in DOMAIN queries : /\ queries[i] >= now - Window + HourLength
                                          /\ hourly_timestamp(queries[i]) >= Cutoff}
           hour == [i \in due |-> hourly_timestamp(queries[i])]
           E == {hour[i] : i \in due}
           count == [h \in E |-> Cardinality(QueriesOf(h))]
           then == {i \in DOMAIN queries : hourly_timestamp(queries[i]) \in E}
           D == DOMAIN data
<1>1. /\ queries \in Seq(Nat) /\ now \in Nat /\ Window \in Nat /\ HourLength \in Nat
      /\ \A i \in DOMAIN queries : queries[i] \in Nat /\ queries[i] \in Int
  BY FeedAssumption DEF TypeInv, TopicTypes, Window
<1>2. IsFiniteSet(due)
  BY <1>1, QueriesFinite, FS_Subset
<1>3. IsFiniteSet(E)
  <2> HIDE DEF due, hour
  <2> QED BY <1>2, FiniteImage
<1>4. E \subseteq Hours
  BY <1>1, HourOf
<1>5. ASSUME NEW h \in E
      PROVE  h \in D /\ data[h] >= Cardinality(QueriesOf(h))
  <2>1. PICK i \in due : h = hourly_timestamp(queries[i])
    OBVIOUS
  <2>2. /\ i \in DOMAIN queries /\ queries[i] \in Nat /\ queries[i] \in Int
        /\ queries[i] >= now - Window + HourLength /\ h >= Cutoff
    BY <1>1, <2>1
  <2>3. h \in Hours /\ h \in Nat
    BY <1>4 DEF Hours
  <2>4. queries[i] < h + HourLength
    BY <2>1, <2>2, HourOf
  <2>5. h > now - Window
    BY <1>1, <2>2, <2>3, <2>4
  <2>6. Held(h) >= Credit(h)
    BY <2>2, <2>3, <2>5 DEF BalanceInv, LowerInv
  <2>7. Credit(h) = Cardinality(QueriesOf(h)) /\ Cardinality(QueriesOf(h)) \in Nat
    BY <2>3, AllRead, Amounts
  <2>8. Held(h) = Stored(h) /\ Stored(h) \in Nat
    <3> DEFINE z == [fee |-> 0, timestamp |-> 0]
    <3>1. z.fee \in Nat
      OBVIOUS
    <3> HIDE DEF z
    <3>2. Fees({}, h) = 0
      BY <3>1, FeeOfOne
    <3>3. Stored(h) \in Nat
      BY <2>3, Amounts
    <3> QED BY <3>2, <3>3 DEF Held, CaughtUp
  <2>9. Cardinality(QueriesOf(h)) > 0
    <3>1. i \in QueriesOf(h)
      BY <2>1, <2>2 DEF QueriesOf
    <3>2. IsFiniteSet(QueriesOf(h))
      BY <1>1, <2>3, QueriesOfHour
    <3>3. Cardinality(QueriesOf(h)) # 0
      BY <3>1, <3>2, FS_EmptySet
    <3> QED BY <2>7, <3>3
  <2> HIDE DEF E, due, hour
  <2> QED BY <2>6, <2>7, <2>8, <2>9 DEF Stored
<1>6. /\ SumOver(count, E) = Cardinality(then)
      /\ IsFiniteSet(then) /\ Cardinality(then) \in Nat
      /\ \A h \in E : count[h] = Cardinality(QueriesOf(h)) /\ count[h] \in Nat
  <2> HIDE DEF E
  <2> QED BY <1>1, <1>3, <1>4, ServedThen
<1>7. due \subseteq then
  OBVIOUS
<1>8. IsFiniteSet(D) /\ \A h \in D : data[h] \in Nat
  BY DEF TypeInv, DatabaseTypes
<1> HIDE DEF due, hour, E, count, then, D
<1>9. Cardinality(due) <= Cardinality(then) /\ Cardinality(due) \in Nat
  BY <1>2, <1>6, <1>7, FS_Subset, FS_CardinalityType
<1>10. SumOver(count, E) <= SumOver(data, E)
  <2>1. \A h \in E : count[h] \in Int /\ data[h] \in Int /\ count[h] <= data[h]
    BY <1>5, <1>6, <1>8
  <2> QED BY <1>3, <2>1, SumMonotone
<1>11. E \subseteq D
  BY <1>5
<1>12. SumOver(data, E) <= SumOver(data, D) /\ SumOver(data, D) \in Nat
  BY <1>8, <1>11, SumSubset, SumNat
<1>13. SumOver(data, E) \in Nat
  BY <1>3, <1>5, <1>8, SumNat
<1>14. SumFunction(data) = SumOver(data, D)
  BY TotalIsSum DEF D
<1>15. SumFunction(data) >= Cardinality(due)
  BY <1>6, <1>9, <1>10, <1>12, <1>13, <1>14
<1> QED BY <1>15 DEF due

-----------------------------------------------------------------------------
(* The invariant holds in every reachable state.                           *)
THEOREM FeedInvariant == Spec => []Inv
<1>1. Init => Inv
  BY TypeInit, TopicInit, ReadInit, BalanceInit, ReplayInit, CountedInit DEF Inv, BalanceInv
<1>2. Inv /\ [Next]_vars => Inv'
  <2> SUFFICES ASSUME Inv, [Next]_vars PROVE Inv'
    OBVIOUS
  <2>1. TypeInv /\ TopicInv /\ ReadInv /\ BalanceInv /\ ReplayInv /\ CountedOnce
    BY DEF Inv, BalanceInv
  <2>2. TypeInv' /\ TopicInv' /\ ReadInv' /\ BalanceInv' /\ ReplayInv'
    BY <2>1, TypeStep, TopicStep, ReadStep, BalanceStep, ReplayStep
  <2>3. CountedOnce'
    BY <2>1, <2>2, CountedStep
  <2> QED BY <2>2, <2>3 DEF Inv, BalanceInv
<1> QED BY <1>1, <1>2, PTL DEF Spec

(* The consumer and the database task keep the shape of their state, as    *)
(* TypeOK says.                                                            *)
THEOREM FeedTypes == Spec => []TypeOK
<1>1. Inv => TypeOK
  <2> SUFFICES ASSUME TypeInv PROVE TypeOK
    BY DEF Inv
  <2>1. HourLength \in Nat /\ MaxNow \in Nat
    BY FeedAssumption
  <2>2. \A i \in DOMAIN queries : queries[i] \in 0 .. now
    BY DEF TypeInv, TopicTypes
  <2>3. \A p \in Partitions : offset[p] \in 0 .. Len(hourly[p])
    BY DEF TypeInv, TopicTypes, ConsumerTypes
  <2>4. \A u \in updates : u.timestamp \in 0 .. now /\ u.fee \in Nat
    BY DEF TypeInv, TopicTypes, DatabaseTypes, Update
  <2>5. \A h \in DOMAIN data : h % HourLength = 0 /\ data[h] \in Nat
    BY DEF TypeInv, DatabaseTypes, Hours, HourStarts
  <2> QED BY <2>2, <2>3, <2>4, <2>5 DEF TypeOK, TypeInv, TopicTypes, ConsumerTypes, DatabaseTypes
<1> QED BY <1>1, FeedInvariant, PTL

(* No query is counted twice: a total that was published is at most the    *)
(* number of queries in the window at that time, however the two topics    *)
(* grew while they were read.                                              *)
THEOREM NoQueryCountsTwice == Spec => []CountedOnce
<1>1. Inv => CountedOnce
  BY DEF Inv
<1> QED BY <1>1, FeedInvariant, PTL

(* No query falls between the topics: a consumer that has caught up has    *)
(* handed the database every query of the window, short of the hour in     *)
(* which the window starts and of the hours the cutoff leaves out.         *)
THEOREM NoQueryFallsBetween == Spec => []NothingLost
<1>1. Inv => NothingLost
  BY CaughtUpHasAll DEF Inv, BalanceInv
<1> QED BY <1>1, FeedInvariant, PTL
=============================================================================
