------------------------- MODULE RemoteWriterProofs -------------------------
(***************************************************************************)
(* What holds of RemoteWriter for any finite set of series of any lengths, *)
(* and any number of failures. The argument: a batch is one timestamp, as  *)
(* the samples taken before it end where a timestamp ends (TakenToTheEnd,  *)
(* BatchIsLast); its tries and waits are over before the next timestamp,   *)
(* so the clock of the goroutine is at the timestamp when it takes the     *)
(* batch (ClockFollows); and who is not ingested when its batch is over    *)
(* has left an error in the channel (GapsAreKnown).                        *)
(***************************************************************************)
EXTENDS RemoteWriter, FiniteSetTheorems, FunctionTheorems, SequenceTheorems, TLAPS

(* The samples: timestamps are an interval apart, and a sorted flattening  *)
(* has each of the samples.                                                *)

LEMMA SamplesAreFinite == IsFiniteSet(Samples)
<1> DEFINE Of(s) == {[series |-> s, ts |-> Interval * i] : i \in 0..(NumSamples[s] - 1)}
<1>1. ASSUME NEW s \in Series PROVE IsFiniteSet(Of(s))
  <2> DEFINE f == [i \in 0..(NumSamples[s] - 1) |-> [series |-> s, ts |-> Interval * i]]
  <2>1. f \in Surjection(0..(NumSamples[s] - 1), Of(s))
    <3>1. f \in [0..(NumSamples[s] - 1) -> Of(s)]
      OBVIOUS
    <3>2. \A x \in Of(s) : \E i \in 0..(NumSamples[s] - 1) : f[i] = x
      OBVIOUS
    <3> HIDE DEF f, Of
    <3> QED
      BY <3>1, <3>2, Fun_IsSurj
  <2>2. IsFiniteSet(0..(NumSamples[s] - 1))
    BY SamplesAssumption, FS_Interval
  <2> HIDE DEF f, Of
  <2> QED
    BY <2>1, <2>2, FS_Surjection
<1> DEFINE All == {Of(s) : s \in Series}
<1>2. IsFiniteSet(All)
  <2> DEFINE g == [s \in Series |-> Of(s)]
  <2>1. g \in Surjection(Series, All)
    <3> HIDE DEF Of
    <3>1. g \in [Series -> All]
      OBVIOUS
    <3>2. \A x \in All : \E s \in Series : g[s] = x
      OBVIOUS
    <3> HIDE DEF g, All
    <3> QED
      BY <3>1, <3>2, Fun_IsSurj
  <2> HIDE DEF g, All
  <2> QED
    BY <2>1, SeriesAssumption, FS_Surjection
<1>3. \A T \in All : IsFiniteSet(T)
  BY <1>1
<1>4. Samples = UNION All
  BY DEF Samples
<1> QED
  <2> HIDE DEF All
  <2> QED
    BY <1>2, <1>3, <1>4, FS_UNION

LEMMA TimestampsAreApart ==
    /\ \A s \in Samples : s.ts \in Nat
    /\ \A a, b \in Samples : a.ts < b.ts => a.ts + Interval <= b.ts
<1>1. ASSUME NEW s \in Samples PROVE \E i \in Nat : s.ts = 30 * i
  BY SamplesAssumption DEF Samples, Interval
<1>2. \A s \in Samples : s.ts \in Nat
  BY <1>1
<1>3. ASSUME NEW a \in Samples, NEW b \in Samples, a.ts < b.ts PROVE a.ts + Interval <= b.ts
  <2>1. PICK i \in Nat : a.ts = 30 * i
    BY <1>1
  <2>2. PICK j \in Nat : b.ts = 30 * j
    BY <1>1
  <2> QED
    BY <1>3, <2>1, <2>2 DEF Interval
<1> QED
  BY <1>2, <1>3

LEMMA Flattened ==
    ASSUME NEW f \in SortedFlattenings
    PROVE  /\ f \in Seq(Samples)
           /\ Len(f) \in Nat /\ DOMAIN f = 1..Len(f)
           /\ \A i \in 1..Len(f) : f[i] \in Samples
           /\ \A i, j \in 1..Len(f) : i <= j => f[i].ts <= f[j].ts
           /\ \A s \in Samples : \E i \in 1..Len(f) : f[i] = s
<1> DEFINE N == Cardinality(Samples)
<1>1. N \in Nat
  BY SamplesAreFinite, FS_CardinalityType
<1>2. f \in [1..N -> Samples]
  BY DEF SortedFlattenings, Flattenings
<1>3. f \in Injection(1..N, Samples)
  <2>1. \A a, b \in 1..N : f[a] = f[b] => a = b
    BY <1>2 DEF SortedFlattenings, Flattenings
  <2> QED
    BY <1>2, <2>1, Fun_IsInj
<1>4. Cardinality(1..N) = N
  BY <1>1, FS_Interval
<1>5. f \in Surjection(1..N, Samples)
  BY <1>3, <1>4, SamplesAreFinite, FS_Injection
<1>6. \A s \in Samples : \E i \in 1..N : f[i] = s
  BY <1>5, Zenon DEF Surjection
<1>7. f \in Seq(Samples) /\ Len(f) = N
  BY <1>1, <1>2
<1>8. \A i, j \in 1..N : i <= j => f[i].ts <= f[j].ts
  <2> SUFFICES ASSUME NEW i \in 1..N, NEW j \in 1..N, i <= j PROVE f[i].ts <= f[j].ts
    OBVIOUS
  <2>1. CASE i < j
    BY <2>1, <1>2 DEF SortedFlattenings
  <2>2. CASE i = j
    BY <2>2, <1>2, TimestampsAreApart
  <2> QED
    BY <1>1, <2>1, <2>2
<1> QED
  BY <1>1, <1>2, <1>6, <1>7, <1>8

-----------------------------------------------------------------------------
(* TakeBatch takes a sample at least, all of them of one timestamp, and    *)
(* all samples of that timestamp.                                          *)
LEMMA BatchIsATimestamp ==
    ASSUME TypeOK, TakenToTheEnd, idx < Len(allSamples)
    PROVE  /\ Cardinality(SameTs) \in Nat \ {0}
           /\ idx + Cardinality(SameTs) <= Len(allSamples)
           /\ \A i \in 1..Len(allSamples) : i \in SameTs <=> i > idx /\ i <= idx + Cardinality(SameTs)
           /\ allSamples[idx + Cardinality(SameTs)].ts = NextTs
           /\ {allSamples[i] : i \in SameTs} = {s \in Samples : s.ts = NextTs}
           /\ \A i \in (idx + Cardinality(SameTs) + 1)..Len(allSamples) : NextTs < allSamples[i].ts
<1> DEFINE N == Len(allSamples)
           c == Cardinality(SameTs)
<1>1. allSamples \in SortedFlattenings /\ idx \in 0..N
  BY DEF TypeOK
<1>2. /\ N \in Nat
      /\ \A i \in 1..N : allSamples[i] \in Samples /\ allSamples[i].ts \in Nat
      /\ \A i, j \in 1..N : i <= j => allSamples[i].ts <= allSamples[j].ts
      /\ \A s \in Samples : \E i \in 1..N : allSamples[i] = s
  BY <1>1, Flattened, TimestampsAreApart
<1>3. idx \in Nat /\ idx + 1 \in 1..N
  BY <1>1, <1>2
<1>4. /\ SameTs \subseteq (idx + 1)..N
      /\ \A i \in (idx + 1)..N : i \in SameTs <=> allSamples[i].ts = NextTs
      /\ idx + 1 \in SameTs
  BY <1>2, <1>3 DEF SameTs, NextTs
<1>5. IsFiniteSet(SameTs) /\ c \in Nat /\ c <= N - idx
  <2>1. IsFiniteSet((idx + 1)..N) /\ Cardinality((idx + 1)..N) = N - idx
    BY <1>2, <1>3, FS_Interval
  <2>2. SameTs \in SUBSET ((idx + 1)..N)
    BY <1>4
  <2>3. IsFiniteSet(SameTs) /\ Cardinality(SameTs) <= Cardinality((idx + 1)..N)
    BY <2>1, <2>2, FS_Subset, Zenon
  <2> QED
    BY <2>1, <2>3, FS_CardinalityType
<1>6. ASSUME NEW x \in SameTs PROVE (idx + 1)..x \subseteq SameTs /\ x <= idx + c
  <2>1. x \in (idx + 1)..N /\ allSamples[x].ts = NextTs
    BY <1>4
  <2>2. ASSUME NEW i \in (idx + 1)..x PROVE i \in SameTs
    <3>1. i \in (idx + 1)..N /\ i \in 1..N /\ x \in 1..N /\ i <= x /\ idx + 1 <= i
      BY <1>3, <2>1
    <3>2. allSamples[i].ts <= allSamples[x].ts /\ allSamples[idx + 1].ts <= allSamples[i].ts
      BY <3>1, <1>2, <1>3
    <3>3. allSamples[i].ts = NextTs
      BY <3>1, <3>2, <2>1, <1>2, <1>3 DEF NextTs
    <3> QED
      BY <3>1, <3>3, <1>4
  <2>3. IsFiniteSet((idx + 1)..x) /\ Cardinality((idx + 1)..x) = x - idx
    BY <1>2, <1>3, <2>1, FS_Interval
  <2>4. x - idx <= c
    <3>1. (idx + 1)..x \in SUBSET SameTs
      BY <2>2
    <3>2. Cardinality((idx + 1)..x) <= Cardinality(SameTs)
      BY <3>1, <1>5, FS_Subset, Zenon
    <3> QED
      BY <2>3, <3>2
  <2> QED
    BY <2>2, <2>4, <1>2, <1>3, <1>5, <2>1
<1>7. SameTs = (idx + 1)..(idx + c)
  <2>1. SameTs \subseteq (idx + 1)..(idx + c)
    BY <1>2, <1>3, <1>4, <1>5, <1>6
  <2>2. IsFiniteSet((idx + 1)..(idx + c)) /\ Cardinality((idx + 1)..(idx + c)) = c
    <3>1. c >= 1
      BY <2>1, <1>3, <1>4, <1>5
    <3>2. idx + 1 \in Int /\ idx + c \in Int
      BY <1>3, <1>5
    <3>3. /\ IsFiniteSet((idx + 1)..(idx + c))
          /\ Cardinality((idx + 1)..(idx + c))
               = IF idx + 1 > idx + c THEN 0 ELSE (idx + c) - (idx + 1) + 1
      BY <3>2, FS_Interval, Zenon
    <3> HIDE DEF c
    <3> QED
      BY <3>1, <3>3, <1>3, <1>5
  <2> QED
    BY <2>1, <2>2, FS_Subset
<1> HIDE DEF c
<1>8. c \in Nat \ {0} /\ idx + c <= N /\ idx + c \in 1..N /\ idx + c \in SameTs
  BY <1>2, <1>3, <1>4, <1>5, <1>7
<1>9. {allSamples[i] : i \in SameTs} = {s \in Samples : s.ts = NextTs}
  <2>1. ASSUME NEW i \in SameTs PROVE allSamples[i] \in {s \in Samples : s.ts = NextTs}
    BY <1>2, <1>3, <1>4
  <2>2. ASSUME NEW s \in Samples, s.ts = NextTs PROVE \E i \in SameTs : allSamples[i] = s
    <3>1. PICK i \in 1..N : allSamples[i] = s
      BY <1>2
    <3>2. CASE i <= idx
      <4>1. i \in 1..idx /\ idx + 1 \in (idx + 1)..N
        BY <3>2, <1>2, <1>3
      <4>2. allSamples[i].ts < allSamples[idx + 1].ts
        BY <4>1 DEF TakenToTheEnd
      <4> QED
        BY <4>2, <2>2, <3>1, <1>2, <1>3 DEF NextTs
    <3>3. CASE i > idx
      <4>1. i \in (idx + 1)..N
        BY <3>3, <1>2, <1>3
      <4> QED
        BY <4>1, <2>2, <3>1, <1>4
    <3> QED
      BY <3>2, <3>3, <1>3
  <2> QED
    BY <2>1, <2>2
<1>10. ASSUME NEW i \in (idx + c + 1)..N PROVE NextTs < allSamples[i].ts
  <2>1. i \in 1..N /\ i \in (idx + 1)..N /\ i \notin SameTs /\ idx + 1 <= i
    BY <1>2, <1>3, <1>7, <1>8
  <2>2. allSamples[i].ts # NextTs /\ allSamples[idx + 1].ts <= allSamples[i].ts
    BY <2>1, <1>2, <1>3, <1>4
  <2> QED
    BY <2>1, <2>2, <1>2, <1>3 DEF NextTs
<1>11. \A i \in 1..N : i \in SameTs <=> i > idx /\ i <= idx + c
  BY <1>2, <1>3, <1>7, <1>8
<1>12. allSamples[idx + c].ts = NextTs
  BY <1>4, <1>8
<1> QED
  BY <1>8, <1>9, <1>10, <1>11, <1>12 DEF c

-----------------------------------------------------------------------------
(* Every action keeps IInv. *)

Request == [samples : SUBSET Samples, at : Nat, try : Nat]

(* What TypeOK says of the samples, the clock and the requests. *)
LEMMA Types ==
    ASSUME TypeOK
    PROVE  /\ Len(allSamples) \in Nat /\ idx \in 0..Len(allSamples)
           /\ \A i \in 1..Len(allSamples) : allSamples[i] \in Samples /\ allSamples[i].ts \in Nat
           /\ \A s \in Samples : \E i \in 1..Len(allSamples) : allSamples[i] = s
           /\ \A s \in Samples : s.ts \in Nat
           /\ idx > 0 => LastTs \in Nat
           /\ now \in Nat /\ elapsed \in Nat /\ tries \in 0..3
           /\ received \in Seq(Request) /\ Len(received) \in Nat /\ DOMAIN received = 1..Len(received)
           /\ \A i \in 1..Len(received) : received[i] \in Request
<1>1. allSamples \in SortedFlattenings /\ idx \in 0..Len(allSamples)
  BY DEF TypeOK
<1>2. /\ Len(allSamples) \in Nat
      /\ \A i \in 1..Len(allSamples) : allSamples[i] \in Samples
      /\ \A s \in Samples : \E i \in 1..Len(allSamples) : allSamples[i] = s
  BY <1>1, Flattened
<1>3. \A s \in Samples : s.ts \in Nat
  BY TimestampsAreApart
<1>4. idx > 0 => LastTs \in Nat
  BY <1>1, <1>2, <1>3 DEF LastTs
<1>5. now \in Nat /\ elapsed \in Nat /\ tries \in 0..3
  BY DEF TypeOK, MaxTries
<1>6. received \in Seq(Request)
  BY DEF TypeOK, Request
<1> QED
  BY <1>1, <1>2, <1>3, <1>4, <1>5, <1>6

(* A try that the storage ingests is at most the second one of its batch,  *)
(* and in time; its samples are those of the last timestamp taken.         *)
LEMMA IngestedInOrder ==
    ASSUME IInv, pc = "try", NEW d \in Nat,
           elapsed < Timeout, elapsed + d <= Timeout, Passes(d), Ingest,
           UNCHANGED <<allSamples, idx>>
    PROVE  /\ received' \in Seq(Request)
           /\ NothingIsLater' /\ WrittenInOrder' /\ WholeTimestamps' /\ DeliveredInTime'
           /\ ThirdTryIsVain'
           /\ \A k \in DOMAIN received : k \in DOMAIN received' /\ received'[k] = received[k]
           /\ \E k \in DOMAIN received' : received'[k].samples = batch
<1> DEFINE r == [samples |-> batch, at |-> now', try |-> tries]
<1>1. TypeOK /\ BatchIsLast /\ NothingIsLater /\ ClockFollows
  BY DEF IInv
<1>2. /\ idx > 0 /\ idx \in 1..Len(allSamples) /\ LastTs \in Nat /\ LastTs' = LastTs
      /\ allSamples[idx] \in Samples
      /\ batch = {s \in Samples : s.ts = LastTs}
      /\ \A s \in Samples : s.ts \in Nat
  BY <1>1, Types DEF BatchIsLast, InBatch, LastTs
<1>3. now \in Nat /\ elapsed \in Nat /\ tries \in 0..3 /\ received \in Seq(Request)
  BY <1>1, Types
<1>4. now = LastTs + elapsed /\ tries < 3
  BY <1>1, <1>2, <1>3 DEF ClockFollows, Timeout, RetryWait
<1>5. now' = LastTs + elapsed + d /\ now' \in Nat /\ now' \in LastTs..(LastTs + 4)
  BY <1>2, <1>3, <1>4 DEF Passes, Timeout
<1>6. r \in Request
  BY <1>2, <1>3, <1>5 DEF Request
<1> DEFINE n == Len(received) + 1
<1>7. /\ received' \in Seq(Request)
      /\ DOMAIN received' = 1..n /\ DOMAIN received = 1..(n - 1) /\ n \in Nat \ {0}
      /\ \A k \in 1..(n - 1) : received'[k] = received[k] /\ received[k] \in Request
      /\ received'[n] = r
  <2>1. received' = Append(received, r)
    BY DEF Ingest
  <2> HIDE DEF r
  <2> QED
    BY <2>1, <1>3, <1>6
<1>8. \A k \in 1..n : k = n \/ k \in 1..(n - 1)
  BY <1>7
<1> HIDE DEF n
<1>9. r.samples = {s \in Samples : s.ts = LastTs} /\ r.at = now' /\ r.try = tries
  BY <1>2
<1> HIDE DEF r
<1>10. NothingIsLater'
  <2> SUFFICES ASSUME NEW k \in 1..n
               PROVE  idx > 0 /\ \A s \in received'[k].samples : s.ts <= LastTs
    BY <1>2, <1>7 DEF NothingIsLater
  <2>1. CASE k = n
    BY <2>1, <1>2, <1>7, <1>9
  <2>2. CASE k \in 1..(n - 1)
    BY <2>2, <1>1, <1>7 DEF NothingIsLater
  <2> QED
    BY <2>1, <2>2, <1>8
<1>11. WrittenInOrder'
  <2> SUFFICES ASSUME NEW i \in 1..n, NEW j \in 1..n, i < j,
                      NEW a \in received'[i].samples, NEW b \in received'[j].samples
               PROVE  a.ts <= b.ts
    BY <1>7 DEF WrittenInOrder
  <2>1. i \in 1..(n - 1)
    BY <1>7
  <2>2. CASE j = n
    BY <2>1, <2>2, <1>1, <1>7, <1>9 DEF NothingIsLater
  <2>3. CASE j \in 1..(n - 1)
    BY <2>1, <2>3, <1>7 DEF IInv, WrittenInOrder
  <2> QED
    BY <2>2, <2>3, <1>8
<1>12. WholeTimestamps'
  <2> SUFFICES ASSUME NEW k \in 1..n
               PROVE  \E t \in {s.ts : s \in Samples} :
                          received'[k].samples = {s \in Samples : s.ts = t}
    BY <1>7 DEF WholeTimestamps
  <2>1. CASE k = n
    <3>1. LastTs \in {s.ts : s \in Samples}
      BY <1>2 DEF LastTs
    <3> QED
      BY <2>1, <3>1, <1>7, <1>9
  <2>2. CASE k \in 1..(n - 1)
    BY <2>2, <1>7 DEF IInv, WholeTimestamps
  <2> QED
    BY <2>1, <2>2, <1>8
<1>13. DeliveredInTime'
  <2> SUFFICES ASSUME NEW k \in 1..n, NEW s \in received'[k].samples
               PROVE  received'[k].at \in s.ts..(s.ts + Timeout)
    BY <1>7 DEF DeliveredInTime
  <2>1. CASE k = n
    BY <2>1, <1>5, <1>7, <1>9 DEF Timeout
  <2>2. CASE k \in 1..(n - 1)
    BY <2>2, <1>7 DEF IInv, DeliveredInTime
  <2> QED
    BY <2>1, <2>2, <1>8
<1>14. ThirdTryIsVain'
  <2> SUFFICES ASSUME NEW k \in 1..n PROVE received'[k].try < MaxTries
    BY <1>7 DEF ThirdTryIsVain
  <2>1. CASE k = n
    BY <2>1, <1>4, <1>7, <1>9 DEF MaxTries
  <2>2. CASE k \in 1..(n - 1)
    BY <2>2, <1>7 DEF IInv, ThirdTryIsVain
  <2> QED
    BY <2>1, <2>2, <1>8
<1>15. \A k \in DOMAIN received : k \in DOMAIN received' /\ received'[k] = received[k]
  BY <1>7
<1>16. \E k \in DOMAIN received' : received'[k].samples = batch
  BY <1>2, <1>7, <1>9
<1> QED
  BY <1>7, <1>10, <1>11, <1>12, <1>13, <1>14, <1>15, <1>16

(* What the storage has ingested is of no concern to the other steps. *)
LEMMA HistoryIsKept ==
    ASSUME IInv, UNCHANGED received
    PROVE  WrittenInOrder' /\ WholeTimestamps' /\ DeliveredInTime' /\ ThirdTryIsVain'
BY DEF IInv, WrittenInOrder, WholeTimestamps, DeliveredInTime, ThirdTryIsVain

LEMMA TakeBatchKeeps ==
    ASSUME IInv, TakeBatch
    PROVE  IInv'
<1> DEFINE N == Len(allSamples)
           c == Cardinality(SameTs)
<1>1. TypeOK /\ TakenToTheEnd
  BY DEF IInv
<1>2. /\ pc = "wait" /\ idx < N /\ now' = Later(NextTs)
      /\ batch' = {allSamples[i] : i \in SameTs} /\ idx' = idx + c
      /\ elapsed' = 0 /\ tries' = 1
      /\ \/ pc' = "try" /\ UNCHANGED buildErrors
         \/ buildErrors < MaxBuildErrors /\ buildErrors' = buildErrors + 1 /\ pc' = "sendBuild"
      /\ UNCHANGED <<allSamples, received, timesWritten, errc, err, writeErrors, stopc, main>>
  BY DEF TakeBatch
<1>3. /\ c \in Nat \ {0} /\ idx + c <= N
      /\ \A i \in 1..N : i \in SameTs <=> i > idx /\ i <= idx + c
      /\ allSamples[idx + c].ts = NextTs
      /\ {allSamples[i] : i \in SameTs} = {s \in Samples : s.ts = NextTs}
      /\ \A i \in (idx + c + 1)..N : NextTs < allSamples[i].ts
  BY <1>1, <1>2, BatchIsATimestamp
<1> HIDE DEF c
<1>4. /\ N \in Nat /\ idx \in 0..N /\ now \in Nat
      /\ \A i \in 1..N : allSamples[i] \in Samples /\ allSamples[i].ts \in Nat
      /\ idx > 0 => LastTs \in Nat
  BY <1>1, Types
<1>5. /\ idx' \in 1..N /\ idx' > idx /\ idx + 1 \in 1..N /\ LastTs' = NextTs /\ NextTs \in Nat
      /\ batch' = {s \in Samples : s.ts = LastTs'}
  BY <1>2, <1>3, <1>4 DEF LastTs, NextTs
<1>6. idx > 0 => LastTs < NextTs /\ LastTs + Interval <= NextTs
  <2> SUFFICES ASSUME idx > 0 PROVE LastTs < NextTs /\ LastTs + Interval <= NextTs
    OBVIOUS
  <2>1. idx \in 1..idx /\ idx + 1 \in (idx + 1)..N /\ idx \in 1..N
    BY <1>2, <1>4
  <2>2. LastTs < NextTs
    BY <1>1, <2>1 DEF TakenToTheEnd, LastTs, NextTs
  <2> QED
    BY <1>4, <1>5, <2>1, <2>2, TimestampsAreApart DEF LastTs, NextTs
<1>7. now' = NextTs
  <2>1. now <= NextTs
    <3>1. CASE idx = 0
      BY <3>1, <1>4, <1>5 DEF IInv, ClockFollows
    <3>2. CASE idx > 0
      BY <3>2, <1>4, <1>5, <1>6 DEF IInv, ClockFollows, Interval, Timeout, RetryWait, MaxTries
    <3> QED
      BY <3>1, <3>2, <1>4
  <2> QED
    BY <2>1, <1>2, <1>4, <1>5 DEF Later
<1>8. TypeOK'
  <2>1. batch' \subseteq Samples
    BY <1>5
  <2>2. elapsed' \in Nat /\ tries' \in 0..MaxTries
    BY <1>2 DEF MaxTries
  <2>3. buildErrors' \in 0..MaxBuildErrors
    BY <1>1, <1>2, ErrorsAssumption DEF TypeOK
  <2> QED
    BY <1>1, <1>2, <1>5, <1>7, <2>1, <2>2, <2>3 DEF TypeOK
<1>9. TakenToTheEnd'
  <2> SUFFICES ASSUME NEW i \in 1..idx', NEW j \in (idx' + 1)..N
               PROVE  allSamples[i].ts < allSamples[j].ts
    BY <1>2 DEF TakenToTheEnd
  <2>1. i \in 1..N /\ j \in 1..N /\ j \in (idx + 1)..N /\ j \in (idx + c + 1)..N
    BY <1>2, <1>3, <1>4, <1>5
  <2>2. NextTs < allSamples[j].ts
    BY <1>3, <2>1
  <2>3. CASE i <= idx
    <3>1. i \in 1..idx
      BY <2>3, <1>4
    <3> QED
      BY <3>1, <2>1, <1>1 DEF TakenToTheEnd
  <2>4. CASE i > idx
    <3>1. i \in SameTs
      BY <2>1, <2>4, <1>2, <1>3
    <3>2. allSamples[i].ts = NextTs
      BY <3>1 DEF SameTs
    <3> QED
      BY <2>2, <3>2
  <2> QED
    BY <2>3, <2>4, <1>4
<1>10. BatchIsLast'
  BY <1>5 DEF BatchIsLast
<1>11. NothingIsLater'
  <2> SUFFICES ASSUME NEW k \in DOMAIN received, NEW s \in received[k].samples
               PROVE  s.ts <= LastTs'
    BY <1>2, <1>4, <1>5 DEF NothingIsLater
  <2>1. idx > 0 /\ s.ts <= LastTs
    BY DEF IInv, NothingIsLater
  <2>2. s \in Samples /\ s.ts \in Nat
    BY <1>1, Types DEF Request
  <2> QED
    BY <2>1, <2>2, <1>4, <1>5, <1>6
<1>12. ClockFollows'
  BY <1>2, <1>4, <1>5, <1>7 DEF ClockFollows, Timeout, RetryWait, MaxTries
<1>13. GapsAreKnown'
  <2>1. ASSUME errc' = <<>> /\ err' = "none", NEW i \in 1..idx'
        PROVE  \/ allSamples[i] \in batch'
               \/ \E k \in DOMAIN received : allSamples[i] \in received[k].samples
    <3>1. i \in 1..N
      BY <1>4, <1>5
    <3>2. CASE i <= idx
      <4>1. i \in 1..idx
        BY <3>2, <1>4
      <4> QED
        BY <4>1, <2>1, <1>2 DEF IInv, GapsAreKnown, InBatch
    <3>3. CASE i > idx
      BY <3>1, <3>3, <1>2, <1>3
    <3> QED
      BY <3>2, <3>3, <1>4
  <2>2. InBatch'
    BY <1>2 DEF InBatch
  <2> QED
    BY <2>1, <2>2, <1>2 DEF IInv, GapsAreKnown
<1>14. CountIsBehind'
  <2>1. timesWritten \in Nat
    BY <1>1, <1>4 DEF TypeOK
  <2> QED
    BY <2>1, <1>2, <1>4, <1>5 DEF IInv, CountIsBehind
<1> QED
  BY <1>2, <1>8, <1>9, <1>10, <1>11, <1>12, <1>13, <1>14, HistoryIsKept DEF IInv

LEMMA TrySucceedsKeeps ==
    ASSUME IInv, NEW d \in 1..Timeout, TrySucceeds(d)
    PROVE  IInv'
<1>1. /\ pc = "try" /\ elapsed + d <= Timeout /\ Passes(d) /\ Ingest
      /\ timesWritten' = timesWritten + 1
      /\ IF elapsed' < Timeout
         THEN pc' = "wait" /\ UNCHANGED writeErrors
         ELSE writeErrors < MaxWriteErrors /\ writeErrors' = writeErrors + 1 /\ pc' = "sendWrite"
      /\ UNCHANGED <<allSamples, idx, batch, tries, errc, err, buildErrors, stopc, main>>
  BY DEF TrySucceeds, CountIt
<1>2. TypeOK
  BY DEF IInv
<1>3. now \in Nat /\ elapsed \in Nat /\ tries \in 0..3 /\ idx \in 0..Len(allSamples)
      /\ Len(allSamples) \in Nat /\ timesWritten \in 0..Len(allSamples) /\ (idx > 0 => LastTs \in Nat)
      /\ d \in Nat /\ elapsed < Timeout
  BY <1>1, <1>2, Types DEF TypeOK, Timeout
<1>4. /\ received' \in Seq(Request)
      /\ NothingIsLater' /\ WrittenInOrder' /\ WholeTimestamps' /\ DeliveredInTime'
      /\ ThirdTryIsVain'
      /\ \A k \in DOMAIN received : k \in DOMAIN received' /\ received'[k] = received[k]
      /\ \E k \in DOMAIN received' : received'[k].samples = batch
  BY <1>1, <1>3, IngestedInOrder
<1>5. now' = now + d /\ elapsed' = elapsed + d /\ LastTs' = LastTs
  BY <1>1 DEF Passes, LastTs
<1>6. idx > 0 /\ now = LastTs + elapsed /\ timesWritten < idx
  BY <1>1, <1>2, <1>3 DEF IInv, BatchIsLast, InBatch, ClockFollows, CountIsBehind
<1>7. TypeOK'
  <2>1. writeErrors' \in 0..MaxWriteErrors
    BY <1>1, <1>2, ErrorsAssumption DEF TypeOK
  <2>2. timesWritten' \in 0..Len(allSamples')
    BY <1>1, <1>3, <1>6
  <2>3. now' \in Nat /\ elapsed' \in Nat
    BY <1>3, <1>5
  <2>4. pc' \in {"wait", "sendWrite"}
    BY <1>1
  <2> QED
    BY <1>1, <1>2, <1>4, <2>1, <2>2, <2>3, <2>4 DEF TypeOK, Request
<1>8. TakenToTheEnd'
  BY <1>1 DEF IInv, TakenToTheEnd
<1>9. BatchIsLast'
  BY <1>1, <1>5 DEF IInv, BatchIsLast, InBatch
<1>10. ClockFollows'
  BY SMTT(30), <1>1, <1>3, <1>5, <1>6 DEF ClockFollows, Timeout, RetryWait, MaxTries
<1>11. GapsAreKnown'
  <2>1. ASSUME errc' = <<>> /\ err' = "none", NEW i \in 1..idx'
        PROVE  \E k \in DOMAIN received' : allSamples'[i] \in received'[k].samples
    <3>1. \/ allSamples[i] \in batch
          \/ \E k \in DOMAIN received : allSamples[i] \in received[k].samples
      BY <1>1, <2>1 DEF IInv, GapsAreKnown
    <3> QED
      BY <3>1, <1>1, <1>4
  <2>2. pc' # "done" /\ pc # "done"
    BY <1>1
  <2> QED
    BY <2>1, <2>2, <1>1 DEF IInv, GapsAreKnown
<1>12. CountIsBehind'
  BY <1>1, <1>3, <1>6 DEF CountIsBehind
<1> QED
  BY <1>4, <1>7, <1>8, <1>9, <1>10, <1>11, <1>12 DEF IInv

LEMMA TryFailsKeeps ==
    ASSUME IInv, NEW d \in 0..Timeout, TryFails(d)
    PROVE  IInv'
<1>1. /\ pc = "try" /\ writeErrors < MaxWriteErrors
      /\ IF elapsed >= Timeout THEN d = 0 ELSE elapsed + d <= Timeout
      /\ Passes(d)
      /\ (Ingest /\ elapsed < Timeout) \/ UNCHANGED received
      /\ \/ /\ tries >= 3 /\ pc' = "sendWrite"
            /\ writeErrors' = writeErrors + 1 /\ timesWritten' = timesWritten + 1
         \/ ~(tries >= 3) /\ pc' = "retryWait" /\ UNCHANGED <<writeErrors, timesWritten>>
      /\ UNCHANGED <<allSamples, idx, batch, tries, errc, err, buildErrors, stopc, main>>
  BY DEF TryFails, CountIt, LastTry, MaxTries
<1>2. TypeOK
  BY DEF IInv
<1>3. now \in Nat /\ elapsed \in Nat /\ tries \in 0..3 /\ idx \in 0..Len(allSamples)
      /\ Len(allSamples) \in Nat /\ timesWritten \in 0..Len(allSamples) /\ (idx > 0 => LastTs \in Nat)
      /\ received \in Seq(Request) /\ d \in Nat
  BY <1>1, <1>2, Types DEF TypeOK, Timeout
<1>4. /\ received' \in Seq(Request)
      /\ NothingIsLater' /\ WrittenInOrder' /\ WholeTimestamps' /\ DeliveredInTime'
      /\ ThirdTryIsVain'
      /\ \A k \in DOMAIN received : k \in DOMAIN received' /\ received'[k] = received[k]
  <2>1. CASE UNCHANGED received
    <3>1. NothingIsLater'
      BY <2>1, <1>1 DEF IInv, NothingIsLater, LastTs
    <3> QED
      BY <2>1, <3>1, <1>3, HistoryIsKept
  <2>2. CASE Ingest /\ elapsed < Timeout
    BY <2>2, <1>1, <1>3, IngestedInOrder DEF Timeout
  <2> QED
    BY <2>1, <2>2, <1>1
<1>5. now' = now + d /\ elapsed' = elapsed + d /\ LastTs' = LastTs
  BY <1>1 DEF Passes, LastTs
<1>6. /\ idx > 0 /\ now = LastTs + elapsed /\ timesWritten < idx
      /\ tries > 0 /\ elapsed >= 2 * (tries - 1) /\ elapsed <= 4 + 2 * (tries - 1)
  BY <1>1, <1>2, <1>3
     DEF IInv, BatchIsLast, InBatch, ClockFollows, CountIsBehind, Timeout, RetryWait
<1>7. elapsed' <= 4 + 2 * (tries - 1)
  BY <1>1, <1>3, <1>5, <1>6 DEF Timeout
<1>8. TypeOK'
  <2>1. writeErrors' \in 0..MaxWriteErrors
    BY <1>1, <1>2, ErrorsAssumption DEF TypeOK
  <2>2. timesWritten' \in 0..Len(allSamples')
    BY <1>1, <1>3, <1>6
  <2>3. now' \in Nat /\ elapsed' \in Nat
    BY <1>3, <1>5
  <2>4. pc' \in {"retryWait", "sendWrite"}
    BY <1>1
  <2> QED
    BY <1>1, <1>2, <1>4, <2>1, <2>2, <2>3, <2>4 DEF TypeOK, Request
<1>9. TakenToTheEnd'
  BY <1>1 DEF IInv, TakenToTheEnd
<1>10. BatchIsLast'
  BY <1>1, <1>5 DEF IInv, BatchIsLast, InBatch
<1>11. ClockFollows'
  <2>1. idx' > 0 /\ now' = LastTs' + elapsed' /\ tries' = tries
    BY <1>1, <1>3, <1>5, <1>6
  <2>2. now' <= LastTs' + 4 + 2 * 2
    BY SMTT(30), <2>1, <1>3, <1>5, <1>6, <1>7
  <2>3. elapsed' >= 2 * (tries - 1)
    BY <1>3, <1>5, <1>6
  <2> QED
    BY SMTT(30), <2>1, <2>2, <2>3, <1>1, <1>3, <1>6, <1>7 DEF ClockFollows, Timeout, RetryWait, MaxTries
<1>12. GapsAreKnown'
  <2>1. ASSUME errc' = <<>> /\ err' = "none", NEW i \in 1..idx'
        PROVE  \/ allSamples'[i] \in batch'
               \/ \E k \in DOMAIN received' : allSamples'[i] \in received'[k].samples
    <3>1. \/ allSamples[i] \in batch
          \/ \E k \in DOMAIN received : allSamples[i] \in received[k].samples
      BY <1>1, <2>1 DEF IInv, GapsAreKnown
    <3> QED
      BY <3>1, <1>1, <1>4
  <2>2. pc' # "done" /\ pc # "done" /\ InBatch'
    BY <1>1 DEF InBatch
  <2> QED
    BY <2>1, <2>2, <1>1 DEF IInv, GapsAreKnown
<1>13. CountIsBehind'
  BY <1>1, <1>3, <1>6 DEF CountIsBehind
<1> QED
  BY <1>4, <1>8, <1>9, <1>10, <1>11, <1>12, <1>13 DEF IInv

LEMMA RetryKeeps ==
    ASSUME IInv, Retry
    PROVE  IInv'
<1>1. /\ pc = "retryWait" /\ now' = now + 2 /\ elapsed' = elapsed + 2 /\ tries' = tries + 1
      /\ pc' = "try" /\ LastTs' = LastTs
      /\ UNCHANGED <<allSamples, idx, batch, received, timesWritten, errVars, stopc, main>>
  BY DEF Retry, Passes, RetryWait, LastTs
<1>2. TypeOK
  BY DEF IInv
<1>3. now \in Nat /\ elapsed \in Nat /\ tries \in 0..3 /\ idx \in 0..Len(allSamples)
      /\ Len(allSamples) \in Nat /\ timesWritten \in 0..Len(allSamples) /\ (idx > 0 => LastTs \in Nat)
  BY <1>2, Types DEF TypeOK
<1>4. /\ idx > 0 /\ now = LastTs + elapsed /\ timesWritten < idx /\ tries \in {1, 2}
      /\ elapsed >= 2 * (tries - 1) /\ elapsed <= 4 + 2 * (tries - 1)
  BY <1>1, <1>2, <1>3
     DEF IInv, BatchIsLast, InBatch, ClockFollows, CountIsBehind, Timeout, RetryWait, MaxTries
<1>5. TypeOK'
  <2>1. now' \in Nat /\ elapsed' \in Nat /\ tries' \in 0..MaxTries
    BY <1>1, <1>3, <1>4 DEF MaxTries
  <2> QED
    BY <1>1, <1>2, <2>1 DEF TypeOK, errVars
<1>6. TakenToTheEnd' /\ BatchIsLast' /\ NothingIsLater'
  BY <1>1 DEF IInv, TakenToTheEnd, BatchIsLast, InBatch, NothingIsLater
<1>7. ClockFollows'
  BY <1>1, <1>3, <1>4 DEF ClockFollows, Timeout, RetryWait, MaxTries
<1>8. GapsAreKnown' /\ CountIsBehind'
  BY <1>1, <1>4 DEF IInv, GapsAreKnown, CountIsBehind, InBatch, errVars
<1> QED
  BY <1>1, <1>5, <1>6, <1>7, <1>8, HistoryIsKept DEF IInv

LEMMA SendErrorKeeps ==
    ASSUME IInv, SendError
    PROVE  IInv'
<1>1. /\ pc \in {"sendBuild", "sendWrite"} /\ pc' = "wait" /\ errc' # <<>>
      /\ errc' \in {<<e>> : e \in Errors} /\ LastTs' = LastTs
      /\ UNCHANGED <<allSamples, idx, batchVars, now, received, timesWritten, err,
                     buildErrors, writeErrors, stopc, main>>
  BY DEF SendError, LastTs, Errors
<1>2. TypeOK'
  BY <1>1 DEF IInv, TypeOK, batchVars
<1>3. TakenToTheEnd' /\ BatchIsLast' /\ NothingIsLater' /\ ClockFollows'
  BY <1>1 DEF IInv, TakenToTheEnd, BatchIsLast, InBatch, NothingIsLater, ClockFollows, batchVars
<1>4. main # "checked"
  BY <1>1 DEF IInv, GapsAreKnown
<1>5. GapsAreKnown' /\ CountIsBehind'
  BY <1>1, <1>4 DEF IInv, GapsAreKnown, CountIsBehind
<1> QED
  BY <1>1, <1>2, <1>3, <1>5, HistoryIsKept DEF IInv

(* The goroutine ends with all samples taken, or after Stop. *)
LEMMA EndKeeps ==
    ASSUME IInv, AllTaken \/ SeeStop
    PROVE  IInv'
<1>1. /\ pc = "wait" /\ pc' = "done" /\ (idx = Len(allSamples) \/ stopc) /\ LastTs' = LastTs
      /\ UNCHANGED <<allSamples, idx, batchVars, now, received, timesWritten, errVars, stopc, main>>
  BY DEF AllTaken, SeeStop, LastTs
<1>2. TypeOK'
  BY <1>1 DEF IInv, TypeOK, batchVars, errVars
<1>3. TakenToTheEnd' /\ BatchIsLast' /\ NothingIsLater' /\ ClockFollows'
  BY <1>1 DEF IInv, TakenToTheEnd, BatchIsLast, InBatch, NothingIsLater, ClockFollows, batchVars
<1>4. GapsAreKnown' /\ CountIsBehind'
  BY <1>1 DEF IInv, GapsAreKnown, CountIsBehind, InBatch, errVars
<1> QED
  BY <1>1, <1>2, <1>3, <1>4, HistoryIsKept DEF IInv

LEMMA CallerKeeps ==
    ASSUME IInv, Caller
    PROVE  IInv'
<1>1. /\ UNCHANGED <<allSamples, pc, idx, batchVars, now, received, timesWritten,
                     buildErrors, writeErrors>>
      /\ LastTs' = LastTs
  BY DEF Caller, StartReturns, Stop, Wait, Error, LastTs, errVars
<1>2. TypeOK'
  <2>1. /\ err' \in Errors \cup {"none"} /\ errc' \in {<<>>} \cup {<<e>> : e \in Errors}
        /\ stopc' \in BOOLEAN /\ main' \in {"start", "running", "waited", "checked"}
    <3>1. /\ err \in Errors \cup {"none"} /\ errc \in {<<>>} \cup {<<e>> : e \in Errors}
          /\ stopc \in BOOLEAN /\ main \in {"start", "running", "waited", "checked"}
      BY DEF IInv, TypeOK
    <3>2. CASE StartReturns \/ Stop \/ Wait
      BY <3>1, <3>2 DEF StartReturns, Stop, Wait, errVars
    <3>3. CASE Error
      <4>1. errc # <<>> => Head(errc) \in Errors
        BY <3>1
      <4> QED
        BY <3>1, <3>3, <4>1 DEF Error
    <3> QED
      BY <3>2, <3>3 DEF Caller
  <2> QED
    BY <1>1, <2>1 DEF IInv, TypeOK, batchVars
<1>3. TakenToTheEnd' /\ BatchIsLast' /\ NothingIsLater' /\ ClockFollows'
  BY <1>1 DEF IInv, TakenToTheEnd, BatchIsLast, InBatch, NothingIsLater, ClockFollows, batchVars
<1>4. GapsAreKnown'
  <2>1. IInv /\ err \in Errors \cup {"none"} /\ errc \in {<<>>} \cup {<<e>> : e \in Errors}
    BY DEF IInv, TypeOK
  <2>2. CASE StartReturns \/ Stop \/ Wait
    <3>1. /\ UNCHANGED <<errc, err>> /\ (stopc => stopc')
          /\ main' = "waited" => pc = "done"
          /\ main' # "checked" /\ main # "checked"
          /\ main' \in {"running", "waited"}
      BY <2>2 DEF StartReturns, Stop, Wait, errVars
    <3>2. (errc = <<>> /\ err = "none" =>
              \A i \in 1..idx :
                  \/ InBatch /\ allSamples[i] \in batch
                  \/ \E k \in DOMAIN received : allSamples[i] \in received[k].samples)'
      BY <3>1, <1>1 DEF IInv, GapsAreKnown, InBatch, batchVars
    <3> QED
      BY <3>1, <3>2, <1>1 DEF IInv, GapsAreKnown
  <2>3. CASE Error
    <3>1. /\ main = "waited" /\ main' = "checked" /\ errc' = <<>> /\ pc = "done" /\ stopc' = stopc
          /\ err' = "none" => errc = <<>> /\ err = "none"
      BY <2>1, <2>3 DEF Error, IInv, GapsAreKnown, Errors
    <3> QED
      BY <3>1, <1>1 DEF IInv, GapsAreKnown, InBatch
  <2> QED
    BY <2>2, <2>3 DEF Caller
<1>5. CountIsBehind'
  BY <1>1 DEF IInv, CountIsBehind
<1> QED
  BY <1>1, <1>2, <1>3, <1>4, <1>5, HistoryIsKept DEF IInv

LEMMA UnchangedKeeps ==
    ASSUME IInv, UNCHANGED vars
    PROVE  IInv'
<1>1. UNCHANGED <<allSamples, idx, batch, tries, elapsed, pc, now, received>>
  BY DEF vars, batchVars, errVars
<1>2. UNCHANGED <<errc, err, stopc, main, timesWritten, buildErrors, writeErrors>>
  BY DEF vars, batchVars, errVars
<1>3. TypeOK'
  BY <1>1, <1>2 DEF IInv, TypeOK
<1>4. TakenToTheEnd' /\ BatchIsLast' /\ NothingIsLater'
  BY <1>1 DEF IInv, TakenToTheEnd, BatchIsLast, NothingIsLater, LastTs, InBatch
<1>5. ClockFollows'
  BY <1>1 DEF IInv, ClockFollows, LastTs
<1>6. GapsAreKnown' /\ CountIsBehind'
  BY <1>1, <1>2 DEF IInv, GapsAreKnown, CountIsBehind, InBatch
<1>7. WrittenInOrder' /\ WholeTimestamps' /\ DeliveredInTime' /\ ThirdTryIsVain'
  BY <1>1 DEF IInv, WrittenInOrder, WholeTimestamps, DeliveredInTime, ThirdTryIsVain
<1> QED
  BY <1>3, <1>4, <1>5, <1>6, <1>7 DEF IInv

(* However many series there are, in whichever order the sort leaves the   *)
(* samples of one timestamp, and whatever requests fail.                   *)
THEOREM InductiveInvariant == Spec => []IInv
<1>1. Init => IInv
  <2> SUFFICES ASSUME Init PROVE IInv
    OBVIOUS
  <2>1. allSamples \in SortedFlattenings /\ Len(allSamples) \in Nat
    BY Flattened DEF Init
  <2>2. DOMAIN received = {} /\ received \in Seq(Request)
    BY DEF Init
  <2>3. TypeOK
    <3>1. idx \in 0..Len(allSamples) /\ timesWritten \in 0..Len(allSamples)
      BY <2>1 DEF Init
    <3>2. now \in Nat /\ elapsed \in Nat /\ tries \in 0..MaxTries
      BY DEF Init, MaxTries
    <3>3. buildErrors \in 0..MaxBuildErrors /\ writeErrors \in 0..MaxWriteErrors
      BY ErrorsAssumption DEF Init
    <3> QED
      BY <2>1, <2>2, <3>1, <3>2, <3>3 DEF Init, TypeOK, Request
  <2>4. TakenToTheEnd /\ BatchIsLast /\ NothingIsLater /\ ClockFollows /\ GapsAreKnown /\ CountIsBehind
    BY <2>2 DEF Init, TakenToTheEnd, BatchIsLast, NothingIsLater, ClockFollows, GapsAreKnown,
       CountIsBehind, InBatch
  <2> QED
    BY <2>2, <2>3, <2>4 DEF IInv, WrittenInOrder, WholeTimestamps, DeliveredInTime, ThirdTryIsVain
<1>2. IInv /\ [Next]_vars => IInv'
  <2> SUFFICES ASSUME IInv, [Next]_vars PROVE IInv'
    OBVIOUS
  <2>1. CASE AllTaken \/ SeeStop
    BY <2>1, EndKeeps
  <2>2. CASE TakeBatch
    BY <2>2, TakeBatchKeeps
  <2>3. ASSUME NEW d \in 1..Timeout, TrySucceeds(d) PROVE IInv'
    BY <2>3, TrySucceedsKeeps
  <2>4. ASSUME NEW d \in 0..Timeout, TryFails(d) PROVE IInv'
    BY <2>4, TryFailsKeeps
  <2>5. CASE Retry
    BY <2>5, RetryKeeps
  <2>6. CASE SendError
    BY <2>6, SendErrorKeeps
  <2>7. CASE Caller
    BY <2>7, CallerKeeps
  <2>8. CASE StartPolls \/ Checked \/ UNCHANGED vars
    BY <2>8, UnchangedKeeps DEF StartPolls, Checked
  <2> QED
    BY <2>1, <2>2, <2>3, <2>4, <2>5, <2>6, <2>7, <2>8 DEF Next, Goroutine
<1> QED
  BY <1>1, <1>2, PTL DEF Spec

(* The storage never ingests a timestamp after a later one (Start's sort   *)
(* and the loop over allSamples), whatever fails and is tried again.       *)
THEOREM TimestampsInOrder == Spec => []WrittenInOrder
<1>1. IInv => WrittenInOrder
  BY DEF IInv
<1> QED
  BY <1>1, InductiveInvariant, PTL

(* A request holds one sample of each series that has the timestamp: the   *)
(* inner loop of Start neither splits a timestamp nor joins two.           *)
THEOREM OneTimestampARequest == Spec => []WholeTimestamps
<1>1. IInv => WholeTimestamps
  BY DEF IInv
<1> QED
  BY <1>1, InductiveInvariant, PTL

(* The timer and the batch's context keep a sample between its timestamp   *)
(* and 2 s after it, however many batches before it failed.                *)
THEOREM SamplesComeInTime == Spec => []DeliveredInTime
<1>1. IInv => DeliveredInTime
  BY DEF IInv
<1> QED
  BY <1>1, InductiveInvariant, PTL

(* The third try of remoteWrite ingests nothing: its context is done. *)
THEOREM ThirdTryNeverIngests == Spec => []ThirdTryIsVain
<1>1. IInv => ThirdTryIsVain
  BY DEF IInv
<1> QED
  BY <1>1, InductiveInvariant, PTL

(* A writer that is done, was not stopped and left no error has had every  *)
(* sample ingested.                                                        *)
LEMMA NothingIsMissing ==
    ASSUME IInv, main \in {"waited", "checked"}, errc = <<>>, err = "none", ~stopc
    PROVE  \A s \in Samples : \E k \in DOMAIN received : s \in received[k].samples
<1> SUFFICES ASSUME NEW s \in Samples PROVE \E k \in DOMAIN received : s \in received[k].samples
  OBVIOUS
<1>1. idx = Len(allSamples) /\ ~InBatch
  BY DEF IInv, GapsAreKnown, InBatch
<1>2. PICK i \in 1..Len(allSamples) : allSamples[i] = s
  BY Types DEF IInv
<1> QED
  BY <1>1, <1>2 DEF IInv, GapsAreKnown

(* Error() after Wait() is nil only if the storage got every sample, or    *)
(* the suite stopped the writer.                                           *)
THEOREM GapsAreReported == Spec => []GapIsReported
<1>1. IInv => GapIsReported
  BY NothingIsMissing DEF IInv, GapsAreKnown, GapIsReported
<1> QED
  BY <1>1, InductiveInvariant, PTL

-----------------------------------------------------------------------------
(* The writer implements SampleDelivery.                                   *)

(* What neither the storage nor the caller sees is a stutter.              *)
LEMMA Stutters ==
    ASSUME UNCHANGED <<received, stopc>>,
           UNCHANGED <<main, err>> \/ (main # "checked" /\ main' # "checked")
    PROVE  UNCHANGED Delivery!avars
BY DEF Delivery!avars

(* What a try ingests is a timestamp, and nothing that was ingested before *)
(* is later; the caller has asked for no error yet.                        *)
LEMMA IngestWrites ==
    ASSUME IInv, pc = "try", NEW d \in Nat, Passes(d), Ingest, UNCHANGED <<stopc, main>>
    PROVE  \E t \in Delivery!Timestamps : Delivery!Write(t)
<1>1. TypeOK /\ BatchIsLast /\ NothingIsLater /\ main # "checked" /\ main' # "checked"
  BY DEF IInv, GapsAreKnown
<1>2. /\ idx \in 1..Len(allSamples) /\ allSamples[idx] \in Samples
      /\ batch = {s \in Samples : s.ts = LastTs} /\ batch \in SUBSET Samples
  BY <1>1, Types DEF BatchIsLast, InBatch
<1>3. PICK t \in Delivery!Timestamps : t = LastTs
  BY <1>2 DEF LastTs, Delivery!Timestamps
<1> DEFINE r == [samples |-> batch, at |-> now', try |-> tries]
           n == Len(received) + 1
           log == [k \in DOMAIN received |-> received[k].samples]
<1>4. received' = Append(received, r) /\ r \in Request /\ received \in Seq(Request)
  <2>1. received \in Seq(Request) /\ tries \in Nat /\ now \in Nat
    BY <1>1, Types
  <2>2. now' \in Nat
    BY <2>1 DEF Passes
  <2> QED
    BY <1>2, <2>1, <2>2 DEF Ingest, Request
<1>5. /\ n \in Nat \ {0} /\ DOMAIN received = 1..(n - 1) /\ DOMAIN received' = 1..n
      /\ \A k \in 1..(n - 1) : received'[k] = received[k]
      /\ received'[n] = r
  <2> HIDE DEF r
  <2> QED
    BY <1>4
<1>6. r.samples = batch
  OBVIOUS
<1> HIDE DEF r, n
<1>7. [k \in DOMAIN received' |-> received'[k].samples] = Append(log, Delivery!At(t))
  <2>1. log \in Seq(SUBSET Samples) /\ Len(log) = n - 1
    <3>1. \A k \in DOMAIN received : received[k].samples \in SUBSET Samples
      BY <1>1, Types DEF Request
    <3> QED
      BY <3>1, <1>5
  <2> DEFINE new == Append(log, Delivery!At(t))
  <2>2. Delivery!At(t) = batch
    BY <1>2, <1>3 DEF Delivery!At
  <2>3. /\ DOMAIN new = 1..n /\ new = [k \in 1..n |-> new[k]]
        /\ \A k \in 1..(n - 1) : new[k] = log[k]
        /\ new[n] = batch
    <3> HIDE DEF log
    <3> QED
      BY <2>1, <2>2, <1>2, <1>5
  <2>4. \A k \in 1..n : new[k] = received'[k].samples
    <3> SUFFICES ASSUME NEW k \in 1..n PROVE new[k] = received'[k].samples
      OBVIOUS
    <3>1. k = n \/ k \in 1..(n - 1)
      BY <1>5
    <3> HIDE DEF new
    <3> QED
      BY <3>1, <2>3, <1>5, <1>6
  <2> HIDE DEF new
  <2> QED
    BY <2>3, <2>4, <1>5 DEF new
<1>8. \A k \in DOMAIN log : \A s \in log[k] : s.ts <= t
  BY <1>1, <1>3 DEF NothingIsLater
<1>9. Delivery!Write(t)
  BY <1>1, <1>7, <1>8 DEF Delivery!Write
<1> QED
  BY <1>9

(* Each step of the writer and of its caller is a step of SampleDelivery.  *)
LEMMA StepDelivers ==
    ASSUME IInv, [Next]_vars
    PROVE  [Delivery!ANext]_(Delivery!avars)
<1>1. CASE AllTaken \/ SeeStop \/ TakeBatch \/ Retry \/ SendError \/ UNCHANGED vars
  <2>1. UNCHANGED <<received, stopc, main, err>>
    BY <1>1 DEF AllTaken, SeeStop, TakeBatch, Retry, SendError, vars, errVars
  <2> QED
    BY <2>1, Stutters
<1>2. ASSUME NEW d \in Nat, TrySucceeds(d) \/ TryFails(d) PROVE [Delivery!ANext]_(Delivery!avars)
  <2>1. pc = "try" /\ Passes(d) /\ UNCHANGED <<stopc, main, err>> /\ (Ingest \/ UNCHANGED received)
    BY <1>2 DEF TrySucceeds, TryFails
  <2>2. CASE Ingest
    BY <2>1, <2>2, IngestWrites DEF Delivery!ANext
  <2>3. CASE UNCHANGED received
    BY <2>1, <2>3, Stutters
  <2> QED
    BY <2>1, <2>2, <2>3
<1>3. CASE StartReturns \/ Wait
  <2>1. UNCHANGED <<received, stopc>> /\ main # "checked" /\ main' # "checked"
    BY <1>3 DEF StartReturns, Wait
  <2> QED
    BY <2>1, Stutters
<1>4. CASE Stop
  <2>1. Delivery!StopWriting
    BY <1>4 DEF Stop, Delivery!StopWriting
  <2> QED
    BY <2>1 DEF Delivery!ANext
<1>5. CASE Error
  <2>1. /\ main = "waited" /\ main' = "checked" /\ UNCHANGED <<received, stopc>>
        /\ IF errc # <<>> THEN err' = Head(errc) ELSE UNCHANGED err
        /\ errc \in {<<>>} \cup {<<e>> : e \in Errors}
        /\ err = "none"
    BY <1>5 DEF Error, IInv, TypeOK, GapsAreKnown
  <2>2. CASE err' = "none"
    <3>1. errc = <<>>
      BY <2>1, <2>2 DEF Errors
    <3>2. stopc \/ \A s \in Samples : \E k \in DOMAIN received : s \in received[k].samples
      BY <2>1, <3>1, NothingIsMissing
    <3>3. stopc \/ Samples \subseteq Delivery!Ingested
      BY <3>2 DEF Delivery!Ingested
    <3>4. Delivery!SayWritten
      BY <2>1, <2>2, <3>3 DEF Delivery!SayWritten
    <3> QED
      BY <3>4 DEF Delivery!ANext
  <2>3. CASE err' # "none"
    <3>1. Delivery!SayFailed
      BY <2>1, <2>3 DEF Delivery!SayFailed
    <3> QED
      BY <3>1 DEF Delivery!ANext
  <2> QED
    BY <2>2, <2>3
<1>6. CASE StartPolls \/ Checked
  <2>1. UNCHANGED <<received, stopc, main, err>>
    BY <1>6 DEF StartPolls, Checked, vars, errVars
  <2> QED
    BY <2>1, Stutters
<1> QED
  BY <1>1, <1>2, <1>3, <1>4, <1>5, <1>6 DEF Next, Goroutine, Caller

(* The writer implements the abstract delivery: through failed batches,    *)
(* retries and a stop at any time the storage ingests whole timestamps in  *)
(* order, Error() says nothing is missing only when nothing is, and nobody *)
(* writes after it was asked.                                              *)
THEOREM WriterDelivers == Spec => ImplementsDelivery
<1>1. Init => Delivery!AInit
  <2> SUFFICES ASSUME Init PROVE Delivery!AInit
    OBVIOUS
  <2>1. received = <<>> /\ stopc = FALSE /\ main = "start"
    BY DEF Init
  <2>2. [k \in DOMAIN received |-> received[k].samples] = <<>>
    BY <2>1
  <2> QED
    BY <2>1, <2>2 DEF Delivery!AInit
<1>2. IInv /\ [Next]_vars => [Delivery!ANext]_(Delivery!avars)
  BY StepDelivers
<1> QED
  BY <1>1, <1>2, InductiveInvariant, PTL DEF Spec, ImplementsDelivery, Delivery!ASpec
=============================================================================
