------------------------- MODULE ScrapeReplayProofs -------------------------
(***************************************************************************)
(* What holds of ScrapeReplay for any backends, any times and any number   *)
(* of recordings. The argument: only the recording of a test moves its     *)
(* times, and keeps them within the range of a query (TimesBound); nothing *)
(* happens at a backend before the test runs (NothingYet), and then the    *)
(* recordings and the time of the query stand; so what a query returned of *)
(* the first samples of a backend, it returns of them ever after, as the   *)
(* backend only appends (ResultsStand). A backend that lost no reply       *)
(* stores what it is served (StoredInFull), and each repetition of a       *)
(* result that lacks a stored sample takes a tick of that sample's lag     *)
(* (DiffsLag), so the fifth comes only when all samples show.              *)
(***************************************************************************)
EXTENDS ScrapeReplay, SequenceTheorems, TLAPS

(* What a backend appends does not change what came before.                *)
LEMMA PrefixStands ==
    ASSUME NEW T, NEW s \in Seq(T), NEW e \in T, NEW n \in 0..Len(s)
    PROVE  SubSeq(Append(s, e), 1, n) = SubSeq(s, 1, n)
<1>1. Append(s, e) \in Seq(T) /\ Len(Append(s, e)) = Len(s) + 1 /\ Len(s) \in Nat
  OBVIOUS
<1>2. \A k \in 1..n : Append(s, e)[k] = s[k]
  OBVIOUS
<1>3. Len(SubSeq(s, 1, n)) = n /\ Len(SubSeq(Append(s, e), 1, n)) = n
  BY <1>1
<1>4. SubSeq(s, 1, n) \in Seq(T) /\ SubSeq(Append(s, e), 1, n) \in Seq(T)
  BY <1>1
<1>5. \A k \in 1..n : SubSeq(s, 1, n)[k] = s[k] /\ SubSeq(Append(s, e), 1, n)[k] = Append(s, e)[k]
  BY <1>1
<1> QED
  BY <1>2, <1>3, <1>4, <1>5, SeqEqual

-----------------------------------------------------------------------------
(* While a test is recorded                                                *)

(* A backend to which nothing has happened.                                *)
AtStart(b) == /\ step[b] = "start" /\ i[b] = 0 /\ reply[b] = NoReply
              /\ store[b] = <<>> /\ lastDiff[b] = NoDiff

LEMMA StartIsFine ==
    TypeOK /\ (\A b \in Backends : AtStart(b)) =>
        NothingYet /\ StoredWasServed /\ LastDiffWasShown /\ PassMeansIngested
            /\ StoredInFull /\ DiffsLag /\ FailureHasACause
<1> SUFFICES ASSUME TypeOK, \A b \in Backends : AtStart(b)
             PROVE  NothingYet /\ StoredWasServed /\ LastDiffWasShown /\ PassMeansIngested
                        /\ StoredInFull /\ DiffsLag /\ FailureHasACause
  OBVIOUS
<1>1. NothingYet /\ StoredWasServed /\ LastDiffWasShown /\ PassMeansIngested /\ DiffsLag /\ FailureHasACause
  BY DEF AtStart, NothingYet, StoredWasServed, LastDiffWasShown, PassMeansIngested, DiffsLag, FailureHasACause
<1>2. StoredInFull
  <2> SUFFICES ASSUME NEW b \in Backends
               PROVE  /\ Len(store[b]) <= Len(expectationsPerBackend[b])
                      /\ \A n \in DOMAIN store[b] : store[b][n] = expectationsPerBackend[b][n]
                      /\ \A at \in Places(expectationsPerBackend[b]) :
                         \A n \in DOMAIN expectationsPerBackend[b] :
                            at[n] <= i[b] - Len(reply[b]) <=> n <= Len(store[b])
    BY DEF StoredInFull
  <2>1. /\ store[b] = <<>> /\ Len(store[b]) = 0 /\ DOMAIN store[b] = {}
        /\ i[b] - Len(reply[b]) = 0
    BY DEF AtStart, NoReply
  <2>2. /\ Len(expectationsPerBackend[b]) \in Nat
        /\ DOMAIN expectationsPerBackend[b] = 1..Len(expectationsPerBackend[b])
        /\ DOMAIN scrapeRecordings \subseteq Nat \ {0}
    BY SMTT(30) DEF TypeOK
  <2>3. \A at \in Places(expectationsPerBackend[b]) :
        \A n \in DOMAIN expectationsPerBackend[b] : at[n] \in Nat \ {0}
    BY <2>2 DEF Places
  <2> QED
    BY <2>1, <2>2, <2>3
<1> QED
  BY <1>1, <1>2

LEMMA InitEstablishes == Init => IInv
<1> SUFFICES ASSUME Init PROVE IInv
  OBVIOUS
<1>1. TypeOK
  <2>1. scrapeRecordings \in Seq(Seq(Samples)) /\ Len(scrapeRecordings) = 0
    BY DEF Init
  <2>2. \A r \in Range(scrapeRecordings) : Len(r) <= 1
    BY DEF Init, Range
  <2>3. \A b \in Backends : shown[b] <= Len(store[b])
    BY DEF Init
  <2>4. /\ {currentTime, minTime, maxTime} \subseteq Int
        /\ expectationsPerBackend \in [Backends -> Seq(Samples)]
        /\ i \in [Backends -> 0..Len(scrapeRecordings)]
        /\ store \in [Backends -> Seq(Samples)]
        /\ shown \in [Backends -> Nat]
    BY <2>1, TimesAssumption DEF Init, Unset
  <2>5. lag \in [Backends -> 0..MaxLag] /\ lost \in [Backends -> 0..MaxLost]
    BY BoundsAssumption DEF Init
  <2>6. /\ step \in [Backends -> Steps]
        /\ reply \in [Backends -> {NoReply} \cup {<<r>> : r \in Range(scrapeRecordings)}]
        /\ DOMAIN lastDiff = Backends
        /\ sameDiffTimes \in [Backends -> 0..4]
    BY DEF Init, Steps
  <2>7. /\ phase \in {"recording", "running", "fatal"} /\ registered \subseteq Backends
        /\ ctxDone \in BOOLEAN
    BY DEF Init
  <2>8. Len(scrapeRecordings) <= MaxScrapes
    BY <2>1, BoundsAssumption
  <2> QED
    BY <2>1, <2>2, <2>3, <2>4, <2>5, <2>6, <2>7, <2>8 DEF TypeOK
<1>2. TimesBound
  BY DEF Init, TimesBound
<1>3. \A b \in Backends : AtStart(b)
  BY DEF Init, AtStart
<1> QED
  BY <1>1, <1>2, <1>3, StartIsFine DEF IInv

(* Recording leaves the backends as they are, at the start.                *)
LEMMA RecordingIsBefore ==
    ASSUME NothingYet, Record
    PROVE  /\ phase = "recording"
           /\ UNCHANGED <<step, backendVars, queryVars, ctxDone>>
           /\ \A b \in Backends : AtStart(b)
<1>1. phase = "recording" /\ UNCHANGED <<step, backendVars, queryVars, ctxDone>>
  BY DEF Record, SetCurrentTime, RegisterBackends, RecordScrape, Run, recordVars
<1> QED
  BY <1>1 DEF NothingYet, Running, AtStart

LEMMA RecordScrapeKeepsTypes ==
    ASSUME TypeOK, NothingYet, NEW after \in Afters, NEW bs \in SUBSET Backends, RecordScrape(after, bs)
    PROVE  TypeOK'
<1> DEFINE ts == currentTime + after
           sample == [timestamp |-> ts, value |-> Len(scrapeRecordings) + 1]
<1>1. /\ ts \in Int /\ Len(scrapeRecordings) < MaxScrapes /\ Len(scrapeRecordings) \in Nat
      /\ currentTime' = ts /\ phase = "recording"
      /\ UNCHANGED <<step, backendVars, queryVars, ctxDone>>
  BY TimesAssumption DEF RecordScrape, TypeOK
<1>2. sample \in Samples
  BY <1>1, BoundsAssumption DEF Samples
<1>3. CASE TooFar(ts)
  <2>1. phase' = "fatal" /\ UNCHANGED <<minTime, maxTime, registered, scrapeRecordings, expectationsPerBackend>>
    BY <1>3 DEF RecordScrape
  <2> HIDE DEF ts, sample
  <2> QED
    BY <1>1, <2>1 DEF TypeOK, backendVars, queryVars
<1>4. CASE ~TooFar(ts)
  <2>1. /\ minTime' \in {ts, minTime} /\ maxTime' \in {ts, maxTime}
        /\ scrapeRecordings' \in {Append(scrapeRecordings, <<sample>>), Append(scrapeRecordings, <<>>)}
        /\ registered' = registered \cup bs
        /\ expectationsPerBackend' = [b \in Backends |->
                      IF b \in bs THEN Append(expectationsPerBackend[b], sample)
                      ELSE expectationsPerBackend[b]]
        /\ phase' = phase
    BY <1>4 DEF RecordScrape
  <2> HIDE DEF ts, sample
  <2>2. PICK r \in {<<sample>>, <<>>} : scrapeRecordings' = Append(scrapeRecordings, r)
    BY <2>1
  <2>3. r \in Seq(Samples) /\ Len(r) <= 1
    <3>1. <<>> \in Seq(Samples) /\ Len(<<>>) = 0
      OBVIOUS
    <3>2. <<sample>> \in Seq(Samples) /\ Len(<<sample>>) = 1
      BY <1>2
    <3>3. Len(<<>>) <= 1 /\ Len(<<sample>>) <= 1
      BY <3>1, <3>2
    <3> QED
      BY <2>2, <3>1, <3>2, <3>3, Zenon
  <2>4. /\ scrapeRecordings' \in Seq(Seq(Samples))
        /\ Len(scrapeRecordings') = Len(scrapeRecordings) + 1
        /\ \A k \in 1..Len(scrapeRecordings) : scrapeRecordings'[k] = scrapeRecordings[k]
        /\ scrapeRecordings'[Len(scrapeRecordings) + 1] = r
    BY <2>2, <2>3 DEF TypeOK
  <2>5. \A q \in Range(scrapeRecordings') : Len(q) <= 1
    <3> SUFFICES ASSUME NEW k \in 1..Len(scrapeRecordings') PROVE Len(scrapeRecordings'[k]) <= 1
      BY <2>4 DEF Range
    <3>1. CASE k \in 1..Len(scrapeRecordings)
      <4>1. scrapeRecordings[k] \in Range(scrapeRecordings)
        BY <3>1 DEF TypeOK, Range
      <4> QED
        BY <3>1, <4>1, <2>4 DEF TypeOK
    <3>2. CASE k = Len(scrapeRecordings) + 1
      BY <3>2, <2>3, <2>4
    <3> QED
      BY <3>1, <3>2, <2>4, <1>1
  <2>6. expectationsPerBackend' \in [Backends -> Seq(Samples)]
    BY <2>1, <1>2 DEF TypeOK
  <2>7. \A b \in Backends : i[b] = 0 /\ reply[b] = NoReply
    BY <1>1 DEF NothingYet, Running
  <2>8. i' \in [Backends -> 0..Len(scrapeRecordings')]
    BY <1>1, <2>4, <2>7 DEF TypeOK, backendVars
  <2>9. reply' \in [Backends -> {NoReply} \cup {<<q>> : q \in Range(scrapeRecordings')}]
    BY <1>1, <2>7 DEF TypeOK, backendVars
  <2>10. /\ {currentTime', minTime', maxTime'} \subseteq Int /\ registered' \subseteq Backends
         /\ phase' \in {"recording", "running", "fatal"}
    BY <1>1, <2>1 DEF TypeOK
  <2>11. Len(scrapeRecordings') <= MaxScrapes
    BY <1>1, <2>4, BoundsAssumption
  <2> QED
    BY <1>1, <2>4, <2>5, <2>6, <2>8, <2>9, <2>10, <2>11 DEF TypeOK, backendVars, queryVars
<1> QED
  BY <1>3, <1>4

(* The two checks of RecordScrape are enough, whatever the times.          *)
LEMMA RecordScrapeKeepsTimes ==
    ASSUME TypeOK, TimesBound, NEW after \in Afters, NEW bs \in SUBSET Backends, RecordScrape(after, bs)
    PROVE  TimesBound'
<1> DEFINE ts == currentTime + after
           sample == [timestamp |-> ts, value |-> Len(scrapeRecordings) + 1]
<1>1. ts \in Int /\ ts > Unset /\ Len(scrapeRecordings) \in Nat /\ minTime \in Int /\ maxTime \in Int
  BY TimesAssumption DEF RecordScrape, TypeOK, IsTime
<1>2. CASE TooFar(ts)
  BY <1>2 DEF RecordScrape, TimesBound
<1>3. CASE ~TooFar(ts)
  <2>1. /\ minTime' = IF minTime = Unset \/ ts < minTime THEN ts ELSE minTime
        /\ maxTime' = IF maxTime = Unset \/ ts > maxTime THEN ts ELSE maxTime
        /\ scrapeRecordings' \in {Append(scrapeRecordings, <<sample>>), Append(scrapeRecordings, <<>>)}
    BY <1>3 DEF RecordScrape
  <2>2. sample.timestamp = ts
    OBVIOUS
  <2> HIDE DEF sample
  <2>3. PICK r \in {<<sample>>, <<>>} : scrapeRecordings' = Append(scrapeRecordings, r)
    BY <2>1
  <2>4. \A s \in Range(r) : s.timestamp = ts
    BY <2>2 DEF Range
  <2> DEFINE n == Len(scrapeRecordings)
  <2>5. /\ DOMAIN scrapeRecordings = 1..n /\ DOMAIN scrapeRecordings' = 1..(n + 1)
        /\ \A k \in 1..n : scrapeRecordings'[k] = scrapeRecordings[k]
        /\ scrapeRecordings'[n + 1] = r
        /\ scrapeRecordings' # <<>>
    BY <2>3 DEF TypeOK
  <2>6. /\ Unset < minTime' /\ minTime' <= maxTime' /\ maxTime' <= minTime' + QueryRange
        /\ minTime' <= ts /\ ts <= maxTime'
        /\ n > 0 => minTime' <= minTime /\ maxTime <= maxTime'
        /\ minTime' \in Int /\ maxTime' \in Int
    <3>1. CASE minTime = Unset /\ maxTime = Unset /\ n = 0
      BY <3>1, <2>1, <1>1 DEF Unset, QueryRange
    <3>2. CASE Unset < minTime /\ minTime <= maxTime /\ maxTime <= minTime + QueryRange
      BY <3>2, <2>1, <1>1, <1>3 DEF Unset, QueryRange, TooFar
    <3>3. scrapeRecordings = <<>> <=> n = 0
      BY DEF TypeOK
    <3> QED
      BY <3>1, <3>2, <3>3 DEF TimesBound
  <2>7. ASSUME NEW k \in DOMAIN scrapeRecordings', NEW s \in Range(scrapeRecordings'[k])
        PROVE  s.timestamp \in minTime'..maxTime'
    <3>1. CASE k = n + 1
      BY <3>1, <2>4, <2>5, <2>6, <1>1
    <3>2. CASE k \in 1..n
      <4>1. s.timestamp \in minTime..maxTime /\ n > 0
        BY <3>2, <2>5, <1>1 DEF TimesBound
      <4> QED
        BY <4>1, <2>6, <1>1
    <3> QED
      BY <3>1, <3>2, <2>5, <1>1
  <2> QED
    BY <2>5, <2>6, <2>7 DEF TimesBound
<1> QED
  BY <1>2, <1>3

LEMMA RecordKeeps == ASSUME IInv, Record PROVE IInv'
<1>1. TypeOK /\ TimesBound /\ NothingYet
  BY DEF IInv
<1>2. /\ phase = "recording" /\ UNCHANGED <<step, backendVars, queryVars, ctxDone>>
      /\ \A b \in Backends : AtStart(b)
  BY <1>1, RecordingIsBefore
<1>3. TypeOK' /\ TimesBound'
  <2>1. ASSUME NEW t \in Jumps, SetCurrentTime(t) PROVE TypeOK' /\ TimesBound'
    BY <1>1, <2>1, TimesAssumption
    DEF SetCurrentTime, TypeOK, TimesBound, backendVars, queryVars
  <2>2. ASSUME NEW b \in Backends, RegisterBackends(b) PROVE TypeOK' /\ TimesBound'
    BY <1>1, <2>2 DEF RegisterBackends, TypeOK, TimesBound, backendVars, queryVars
  <2>3. ASSUME NEW after \in Afters, NEW bs \in SUBSET Backends, RecordScrape(after, bs)
        PROVE  TypeOK' /\ TimesBound'
    BY <1>1, <2>3, RecordScrapeKeepsTypes, RecordScrapeKeepsTimes
  <2>4. CASE Run
    BY <1>1, <2>4 DEF Run, TypeOK, TimesBound, recordVars, backendVars, queryVars
  <2> QED
    BY <2>1, <2>2, <2>3, <2>4 DEF Record
<1>4. (\A b \in Backends : AtStart(b))'
  BY <1>2 DEF AtStart, backendVars, queryVars
<1>5. (NothingYet /\ StoredWasServed /\ LastDiffWasShown /\ PassMeansIngested
          /\ StoredInFull /\ DiffsLag /\ FailureHasACause)'
  BY <1>3, <1>4, StartIsFine, PTL
<1> QED
  BY <1>3, <1>5 DEF IInv

-----------------------------------------------------------------------------
(* While the test runs                                                     *)

(* What is recorded stands, and a step of one backend leaves the others.   *)
LEMMA StepIsOfOne ==
    ASSUME NEW b \in Backends, Scrape(b) \/ Subtest(b)
    PROVE  /\ Running(b) /\ UNCHANGED <<phase, recordVars, ctxDone>>
           /\ \A c \in Backends : c # b /\ TypeOK =>
                  UNCHANGED <<step[c], i[c], reply[c], store[c], shown[c], lastDiff[c]>>
<1>1. CASE Scrape(b)
  BY <1>1 DEF Scrape, Gather, Ingest, LoseReply, Show, queryVars, TypeOK
<1>2. ASSUME NEW d \in Steps, GoTo(b, d) PROVE \A c \in Backends : c # b /\ TypeOK => step'[c] = step[c]
  BY <1>2 DEF GoTo, TypeOK
<1>3. CASE StartIngest(b)
  BY <1>3, <1>2 DEF StartIngest, Steps, backendVars, queryVars
<1>4. CASE PollIngest(b)
  BY <1>4 DEF PollIngest, GoTo, Steps, backendVars, queryVars, TypeOK
<1>5. CASE Compare(b)
  <2>1. \A c \in Backends : c # b /\ TypeOK => step'[c] = step[c] /\ lastDiff'[c] = lastDiff[c]
    BY <1>5 DEF Compare, CountDiff, GoTo, queryVars, TypeOK
  <2> QED
    BY <1>5, <2>1 DEF Compare, backendVars
<1>6. CASE QueryFails(b)
  BY <1>6, <1>2 DEF QueryFails, Steps, backendVars, queryVars
<1>7. CASE Tick(b)
  BY <1>7 DEF Tick, GoTo, queryVars, TypeOK
<1>8. CASE GiveUp(b)
  BY <1>8, <1>2 DEF GiveUp, Steps, backendVars, queryVars
<1> QED
  BY <1>1, <1>3, <1>4, <1>5, <1>6, <1>7, <1>8 DEF Subtest

LEMMA ScrapeKeepsTypes == ASSUME TypeOK, StoredWasServed, NEW b \in Backends, Scrape(b) PROVE TypeOK'
<1>1. CASE Gather(b)
  <2>1. i[b] + 1 \in 1..Len(scrapeRecordings) /\ Len(scrapeRecordings) \in Nat
    BY SMTT(30), <1>1 DEF Gather, Replaying, TypeOK
  <2>2. scrapeRecordings[i[b] + 1] \in Range(scrapeRecordings)
    <3>1. i[b] + 1 \in DOMAIN scrapeRecordings
      BY <2>1 DEF TypeOK
    <3> QED
      BY <3>1 DEF Range
  <2>3. i' \in [Backends -> 0..Len(scrapeRecordings)]
    BY SMTT(30), <1>1, <2>1 DEF Gather, OneOn, TypeOK
  <2>4. reply' \in [Backends -> {NoReply} \cup {<<r>> : r \in Range(scrapeRecordings)}]
    BY <1>1, <2>2 DEF Gather, TypeOK
  <2> QED
    BY <1>1, <2>3, <2>4 DEF Gather, TypeOK, recordVars, queryVars
<1>2. CASE Ingest(b)
  <2>1. reply' \in [Backends -> {NoReply} \cup {<<r>> : r \in Range(scrapeRecordings)}]
    BY <1>2 DEF Ingest, TypeOK
  <2>2. store' \in [Backends -> Seq(Samples)] /\ \A c \in Backends : shown[c] <= Len(store'[c])
    <3>1. ASSUME NEW s \in Range(reply[b][1]), store' = [store EXCEPT ![b] = Append(@, s)]
          PROVE  store' \in [Backends -> Seq(Samples)] /\ \A c \in Backends : shown[c] <= Len(store'[c])
      <4>1. PICK r \in Range(scrapeRecordings) : reply[b] = <<r>>
        BY <1>2 DEF Ingest, TypeOK
      <4>2. r \in Seq(Samples)
        BY <4>1 DEF TypeOK, Range
      <4>3. s \in Samples
        BY <3>1, <4>1, <4>2 DEF Range
      <4>4. \A c \in Backends : store[c] \in Seq(Samples) /\ shown[c] <= Len(store[c]) /\ shown[c] \in Nat
        BY DEF TypeOK
      <4>5. Append(store[b], s) \in Seq(Samples) /\ Len(Append(store[b], s)) = Len(store[b]) + 1
        BY <4>3, <4>4
      <4>6. \A c \in Backends : store'[c] = IF c = b THEN Append(store[b], s) ELSE store[c]
        BY <3>1 DEF TypeOK
      <4>7. store' \in [Backends -> Seq(Samples)]
        BY <3>1, <4>4, <4>5 DEF TypeOK
      <4>8. shown[b] <= Len(store[b]) + 1
        BY <4>4
      <4> QED
        BY <4>4, <4>5, <4>6, <4>7, <4>8
    <3> QED
      BY <1>2, <3>1 DEF Ingest, TypeOK
  <2> QED
    BY <1>2, <2>1, <2>2 DEF Ingest, TypeOK, recordVars, queryVars
<1>3. CASE LoseReply(b)
  <2>1. reply' \in [Backends -> {NoReply} \cup {<<r>> : r \in Range(scrapeRecordings)}]
    BY <1>3 DEF LoseReply, TypeOK
  <2>2. lost' \in [Backends -> 0..MaxLost]
    BY SMTT(30), <1>3, BoundsAssumption DEF LoseReply, TypeOK
  <2> QED
    BY <1>3, <2>1, <2>2 DEF LoseReply, TypeOK, recordVars, queryVars
<1>4. CASE Show(b)
  <2>1. Len(store[b]) \in Nat
    BY DEF TypeOK
  <2>2. shown' \in [Backends -> Nat] /\ \A c \in Backends : shown'[c] <= Len(store[c])
    BY <1>4, <2>1 DEF Show, TypeOK
  <2>3. lag' \in [Backends -> 0..MaxLag]
    BY <1>4, BoundsAssumption DEF Show, TypeOK
  <2> QED
    BY <1>4, <2>2, <2>3 DEF Show, TypeOK, recordVars, queryVars
<1> QED
  BY <1>1, <1>2, <1>3, <1>4 DEF Scrape

LEMMA SubtestKeepsTypes == ASSUME TypeOK, NEW b \in Backends, Subtest(b) PROVE TypeOK'
<1>1. ASSUME NEW d \in Steps, GoTo(b, d), UNCHANGED <<phase, recordVars, backendVars, queryVars, ctxDone>>
      PROVE  TypeOK'
  BY <1>1 DEF GoTo, TypeOK, recordVars, backendVars, queryVars
<1>2. CASE StartIngest(b)
  BY <1>2, <1>1 DEF StartIngest, Steps
<1>3. CASE PollIngest(b)
  <2>1. (IF ~AllServed(b) THEN "ingestWait"
         ELSE IF expectationsPerBackend[b] = <<>> THEN "passed" ELSE "query") \in Steps
    BY DEF Steps
  <2> QED
    BY <1>3, <1>1, <2>1 DEF PollIngest
<1>4. CASE Compare(b)
  <2>1. step' \in [Backends -> Steps]
    BY <1>4 DEF Compare, CountDiff, GoTo, Steps, TypeOK
  <2>2. DOMAIN lastDiff' = Backends
    BY <1>4 DEF Compare, CountDiff, queryVars, TypeOK
  <2>3. sameDiffTimes' \in [Backends -> 0..4]
    <3>1. \/ sameDiffTimes' = sameDiffTimes
          \/ sameDiffTimes' = [sameDiffTimes EXCEPT ![b] = 0]
          \/ /\ sameDiffTimes' = [sameDiffTimes EXCEPT ![b] = @ + 1]
             /\ ~(sameDiffTimes[b] > 3)
      BY <1>4 DEF Compare, CountDiff, Retried, queryVars
    <3>2. sameDiffTimes \in [Backends -> 0..4]
      BY DEF TypeOK
    <3> QED
      BY <3>1, <3>2
  <2> QED
    BY <1>4, <2>1, <2>2, <2>3 DEF Compare, TypeOK, recordVars, backendVars
<1>5. CASE QueryFails(b)
  BY <1>5, <1>1 DEF QueryFails, Steps
<1>6. CASE Tick(b)
  <2>1. step' \in [Backends -> Steps]
    BY <1>6 DEF Tick, GoTo, Steps, TypeOK
  <2>2. lag' \in [Backends -> 0..MaxLag]
    BY <1>6, BoundsAssumption, SMTT(30) DEF Tick, TypeOK
  <2> QED
    BY <1>6, <2>1, <2>2 DEF Tick, TypeOK, recordVars, queryVars
<1>7. CASE GiveUp(b)
  BY <1>7, <1>1 DEF GiveUp, Steps
<1> QED
  BY <1>2, <1>3, <1>4, <1>5, <1>6, <1>7 DEF Subtest

LEMMA ResultsStand ==
    ASSUME TypeOK, NEW b \in Backends, Scrape(b) \/ Subtest(b), NEW c \in Backends
    PROVE  /\ Len(store[c]) \in Nat /\ Len(store'[c]) \in Nat /\ Len(store[c]) <= Len(store'[c])
           /\ \A n \in 0..Len(store[c]) : ResultAt(c, n)' = ResultAt(c, n)
<1>1. store[c] \in Seq(Samples) /\ maxTime' = maxTime
  BY StepIsOfOne DEF TypeOK, recordVars
<1>2. CASE store'[c] = store[c]
  BY <1>1, <1>2 DEF ResultAt
<1>3. ASSUME NEW s \in Samples, store'[c] = Append(store[c], s)
      PROVE  /\ Len(store'[c]) = Len(store[c]) + 1
             /\ \A n \in 0..Len(store[c]) : ResultAt(c, n)' = ResultAt(c, n)
  <2>1. \A n \in 0..Len(store[c]) : SubSeq(store'[c], 1, n) = SubSeq(store[c], 1, n)
    BY <1>1, <1>3, PrefixStands
  <2>2. \A n \in 0..Len(store[c]) : ResultAt(c, n)' = ResultAt(c, n)
    BY <1>1, <2>1 DEF ResultAt
  <2>3. Len(store'[c]) = Len(store[c]) + 1
    BY <1>1, <1>3
  <2> QED
    BY <2>2, <2>3
<1>4. store'[c] = store[c] \/ \E s \in Samples : store'[c] = Append(store[c], s)
  <2>1. CASE c # b
    BY <2>1, StepIsOfOne
  <2>2. CASE c = b /\ Ingest(b)
    <3>1. PICK r \in Range(scrapeRecordings) : reply[b] = <<r>>
      BY <2>2 DEF Ingest, TypeOK
    <3>2. Range(r) \subseteq Samples
      <4>1. r \in Seq(Samples)
        BY <3>1, SMTT(30) DEF TypeOK, Range
      <4> QED
        BY <4>1 DEF Range
    <3>3. \A s : store' = [store EXCEPT ![b] = Append(@, s)] => store'[b] = Append(store[b], s)
      BY DEF TypeOK
    <3>4. reply[b][1] = r
      BY <3>1
    <3>5. \/ \E s \in Range(r) : store' = [store EXCEPT ![b] = Append(@, s)]
          \/ UNCHANGED store
      BY <2>2, <3>4 DEF Ingest
    <3> QED
      BY <2>2, <3>2, <3>3, <3>5
  <2>3. CASE ~Ingest(b)
    <3>1. UNCHANGED store
      BY <2>3 DEF Scrape, Subtest, Gather, LoseReply, Show, StartIngest, PollIngest, Compare, QueryFails,
                  Tick, GiveUp, backendVars
    <3> QED
      BY <3>1
  <2> QED
    BY <2>1, <2>2, <2>3
<1> QED
  BY <1>1, <1>2, <1>3, <1>4

LEMMA NothingYetStays ==
    ASSUME TypeOK, NothingYet, NEW b \in Backends, Scrape(b) \/ Subtest(b)
    PROVE  NothingYet'
<1>1. /\ Running(b) /\ UNCHANGED <<phase, registered>>
      /\ \A c \in Backends : c # b => UNCHANGED <<step[c], i[c], reply[c], store[c], lastDiff[c]>>
  BY StepIsOfOne DEF recordVars
<1> QED
  BY <1>1 DEF NothingYet, Running

(* The subtest of a backend that was served all recordings leaves the      *)
(* backend as it is.                                                       *)
LEMMA SubtestSteps ==
    ASSUME TypeOK, NEW b \in Backends, Subtest(b)
    PROVE  /\ UNCHANGED <<i, reply, store, shown, lost>>
           /\ step'[b] \in {"query", "queryWait", "passed"} =>
                 step[b] \in {"query", "queryWait"} \/ i[b] = Len(scrapeRecordings)
           /\ step'[b] = "passed" =>
                 \/ i[b] = Len(scrapeRecordings) /\ expectationsPerBackend[b] = <<>>
                 \/ step[b] = "query" /\ Result(b) = expectationsPerBackend[b]
           /\ lastDiff'[b] # lastDiff[b] => lastDiff'[b] = Result(b)
           /\ step'[b] \in {"start", "ingest", "ingestWait"} =>
                 step[b] \in {"start", "ingest", "ingestWait"} /\ lastDiff'[b] = lastDiff[b]
<1>1. \A d : GoTo(b, d) => step'[b] = d
  BY DEF GoTo, TypeOK
<1>2. CASE StartIngest(b)
  BY <1>1, <1>2 DEF StartIngest, backendVars, queryVars
<1>3. CASE PollIngest(b)
  <2>1. AllServed(b) => i[b] = Len(scrapeRecordings)
    BY DEF AllServed, TypeOK
  <2> QED
    BY <1>1, <1>3, <2>1 DEF PollIngest, backendVars, queryVars
<1>4. CASE Compare(b)
  <2>1. lastDiff' = [lastDiff EXCEPT ![b] = Result(b)] => lastDiff'[b] = Result(b)
    BY DEF TypeOK
  <2> QED
    BY <1>1, <1>4, <2>1 DEF Compare, CountDiff, backendVars, queryVars
<1>5. CASE QueryFails(b)
  BY <1>1, <1>5 DEF QueryFails, backendVars, queryVars
<1>6. CASE Tick(b)
  BY <1>1, <1>6 DEF Tick, backendVars, queryVars
<1>7. CASE GiveUp(b)
  BY <1>1, <1>7 DEF GiveUp, backendVars, queryVars
<1> QED
  BY <1>2, <1>3, <1>4, <1>5, <1>6, <1>7 DEF Subtest

LEMMA ScrapeKeepsServed ==
    ASSUME TypeOK, StoredWasServed, NEW b \in Backends, Scrape(b)
    PROVE  /\ step'[b] \in {"query", "queryWait", "passed"} => i'[b] = Len(scrapeRecordings)
           /\ reply'[b] # NoReply => i'[b] > 0 /\ reply'[b] = << scrapeRecordings[i'[b]] >>
           /\ \A n \in DOMAIN store'[b] : \E k \in 1..i'[b] : store'[b][n] \in Range(scrapeRecordings[k])
           /\ \A m, n \in DOMAIN store'[b] : m < n => store'[b][m].timestamp < store'[b][n].timestamp
<1>1. /\ i[b] \in Nat /\ i[b] <= Len(scrapeRecordings) /\ Len(scrapeRecordings) \in Nat
      /\ step'[b] = step[b]
      /\ step[b] \in {"query", "queryWait", "passed"} => i[b] = Len(scrapeRecordings)
      /\ \A n \in DOMAIN store[b] : \E k \in 1..i[b] : store[b][n] \in Range(scrapeRecordings[k])
      /\ \A m, n \in DOMAIN store[b] : m < n => store[b][m].timestamp < store[b][n].timestamp
  BY DEF TypeOK, StoredWasServed, Scrape, Gather, Ingest, LoseReply, Show
<1>2. CASE Gather(b)
  <2>1. /\ i'[b] = i[b] + 1 /\ i[b] < Len(scrapeRecordings) /\ UNCHANGED store
        /\ reply'[b] = << scrapeRecordings[i[b] + 1] >>
    BY <1>2 DEF Gather, Replaying, OneOn, TypeOK
  <2> QED
    BY <1>1, <2>1
<1>3. CASE Ingest(b)
  <2>1. /\ UNCHANGED i /\ reply'[b] = NoReply
        /\ i[b] > 0 /\ reply[b] = << scrapeRecordings[i[b]] >>
    BY <1>3 DEF Ingest, StoredWasServed, TypeOK
  <2>2. CASE UNCHANGED store
    BY <1>1, <2>1, <2>2
  <2>3. CASE \E s \in Range(reply[b][1]) : InOrder(b, s) /\ store' = [store EXCEPT ![b] = Append(@, s)]
    <3>1. PICK s \in Range(scrapeRecordings[i[b]]) :
              InOrder(b, s) /\ store' = [store EXCEPT ![b] = Append(@, s)]
      <4>1. reply[b][1] = scrapeRecordings[i[b]]
        BY <2>1
      <4> QED
        BY <2>3, <4>1
    <3> DEFINE N == Len(store[b])
    <3>2. scrapeRecordings[i[b]] \in Seq(Samples)
      BY <1>1, <2>1 DEF TypeOK
    <3>3. s \in Samples /\ s.timestamp \in Int
      <4>1. \A q \in Seq(Samples) : Range(q) \subseteq Samples
        BY DEF Range
      <4>2. s \in Samples
        BY <3>1, <3>2, <4>1
      <4> QED
        BY <4>2 DEF Samples
    <3>4. store[b] \in Seq(Samples) /\ store'[b] = Append(store[b], s)
      BY <3>1 DEF TypeOK
    <3>5. /\ N \in Nat /\ DOMAIN store[b] = 1..N /\ DOMAIN store'[b] = 1..(N + 1)
          /\ \A n \in 1..N : store'[b][n] = store[b][n] /\ store[b][n].timestamp \in Int
          /\ store'[b][N + 1] = s
      <4>1. /\ N \in Nat /\ DOMAIN store[b] = 1..N /\ DOMAIN store'[b] = 1..(N + 1)
            /\ \A n \in 1..N : store'[b][n] = store[b][n] /\ store[b][n] \in Samples
            /\ store'[b][N + 1] = s
        BY <3>3, <3>4
      <4> QED
        BY <4>1 DEF Samples
    <3>6. \A n \in 1..N : store[b][n].timestamp < s.timestamp
      <4> SUFFICES ASSUME NEW n \in 1..N PROVE store[b][n].timestamp < s.timestamp
        OBVIOUS
      <4>1. N \in 1..N /\ store[b] # <<>>
        BY <3>4, <3>5
      <4>2. store[b][N].timestamp < s.timestamp
        BY <3>1, <3>3, <3>5, <4>1 DEF InOrder, Last
      <4>3. n = N \/ store[b][n].timestamp < store[b][N].timestamp
        <5>1. \A m \in 1..N : m < N => store[b][m].timestamp < store[b][N].timestamp
          BY <1>1, <3>5, <4>1
        <5> QED
          BY <3>5, <5>1
      <4> QED
        BY <3>3, <3>5, <4>1, <4>2, <4>3
    <3>7. \A n \in 1..(N + 1) : n = N + 1 \/ n \in 1..N
      BY <3>5
    <3>8. \A n \in DOMAIN store'[b] : \E k \in 1..i'[b] : store'[b][n] \in Range(scrapeRecordings[k])
      <4> SUFFICES ASSUME NEW n \in 1..(N + 1)
                   PROVE  \E k \in 1..i[b] : store'[b][n] \in Range(scrapeRecordings[k])
        BY <2>1, <3>5
      <4>1. CASE n \in 1..N
        BY <1>1, <3>5, <4>1
      <4>2. CASE n = N + 1
        <5>1. i[b] \in 1..i[b] /\ store'[b][n] = s
          BY <1>1, <2>1, <3>5, <4>2
        <5> QED
          BY <3>1, <5>1
      <4> QED
        BY <3>7, <4>1, <4>2
    <3>9. \A m, n \in DOMAIN store'[b] : m < n => store'[b][m].timestamp < store'[b][n].timestamp
      <4> SUFFICES ASSUME NEW m \in 1..(N + 1), NEW n \in 1..(N + 1), m < n
                   PROVE  store'[b][m].timestamp < store'[b][n].timestamp
        BY <3>5
      <4>1. m \in 1..N
        BY <3>5
      <4>2. CASE n \in 1..N
        BY <1>1, <3>5, <4>1, <4>2
      <4>3. CASE n = N + 1
        BY <3>5, <3>6, <4>1, <4>3
      <4> QED
        BY <3>7, <4>2, <4>3
    <3> QED
      BY <1>1, <2>1, <3>8, <3>9
  <2> QED
    BY <1>3, <2>2, <2>3 DEF Ingest
<1>4. CASE LoseReply(b)
  BY <1>1, <1>4 DEF LoseReply, TypeOK
<1>5. CASE Show(b)
  <2>1. UNCHANGED <<i, reply, store>>
    BY <1>5 DEF Show
  <2> QED
    BY <1>1, <2>1 DEF StoredWasServed
<1> QED
  BY <1>2, <1>3, <1>4, <1>5 DEF Scrape

LEMMA ServedStays ==
    ASSUME TypeOK, StoredWasServed, NEW b \in Backends, Scrape(b) \/ Subtest(b)
    PROVE  StoredWasServed'
<1> DEFINE Served(c) ==
      /\ step[c] \in {"query", "queryWait", "passed"} => i[c] = Len(scrapeRecordings)
      /\ reply[c] # NoReply => i[c] > 0 /\ reply[c] = << scrapeRecordings[i[c]] >>
      /\ \A n \in DOMAIN store[c] : \E k \in 1..i[c] : store[c][n] \in Range(scrapeRecordings[k])
      /\ \A m, n \in DOMAIN store[c] : m < n => store[c][m].timestamp < store[c][n].timestamp
<1>1. UNCHANGED scrapeRecordings /\ \A c \in Backends : Served(c)
  BY StepIsOfOne DEF recordVars, StoredWasServed
<1>2. \A c \in Backends : c # b => Served(c)'
  BY <1>1, StepIsOfOne
<1>3. Served(b)'
  <2>1. CASE Scrape(b)
    BY <1>1, <2>1, ScrapeKeepsServed
  <2>2. CASE Subtest(b)
    <3>1. UNCHANGED <<i, reply, store>>
      BY <2>2, SubtestSteps
    <3>2. step'[b] \in {"query", "queryWait", "passed"} => i[b] = Len(scrapeRecordings)
      BY <1>1, <2>2, SubtestSteps
    <3> QED
      BY <1>1, <3>1, <3>2
  <2> QED
    BY <2>1, <2>2
<1>4. \A c \in Backends : Served(c)'
  BY <1>2, <1>3
<1> QED
  BY <1>4 DEF StoredWasServed

LEMMA DiffsStay ==
    ASSUME TypeOK, LastDiffWasShown, NEW b \in Backends, Scrape(b) \/ Subtest(b)
    PROVE  LastDiffWasShown'
<1> SUFFICES ASSUME NEW c \in Backends
             PROVE  /\ lastDiff'[c] = NoDiff \/ \E n \in 0..shown'[c] : lastDiff'[c] = ResultAt(c, n)'
                    /\ step'[c] \in {"start", "ingest", "ingestWait"} => lastDiff'[c] = NoDiff
  BY DEF LastDiffWasShown
<1>1. /\ shown[c] \in Nat /\ shown[c] <= Len(store[c]) /\ Len(store[c]) \in Nat
      /\ \A n \in 0..Len(store[c]) : ResultAt(c, n)' = ResultAt(c, n)
  BY ResultsStand DEF TypeOK
<1>2. shown'[c] \in Nat /\ shown[c] <= shown'[c]
  <2>1. CASE c # b \/ Subtest(b)
    BY <1>1, <2>1, StepIsOfOne, SubtestSteps
  <2>2. CASE c = b /\ Scrape(b)
    BY <1>1, <2>2 DEF Scrape, Gather, Ingest, LoseReply, Show, TypeOK
  <2> QED
    BY <2>1, <2>2
<1>3. lastDiff'[c] = lastDiff[c] \/ lastDiff'[c] = Result(c)
  <2>1. CASE c # b
    BY <2>1, StepIsOfOne
  <2>2. CASE c = b /\ Subtest(b)
    BY <2>2, SubtestSteps
  <2>3. CASE Scrape(b)
    BY <2>3 DEF Scrape, Gather, Ingest, LoseReply, Show, queryVars
  <2> QED
    BY <2>1, <2>2, <2>3
<1>4. lastDiff'[c] = NoDiff \/ \E n \in 0..shown[c] : lastDiff'[c] = ResultAt(c, n)
  BY <1>1, <1>3 DEF LastDiffWasShown, Result
<1>5. \A n \in 0..shown[c] : n \in 0..shown'[c] /\ ResultAt(c, n)' = ResultAt(c, n)
  BY <1>1, <1>2
<1>6. step'[c] \in {"start", "ingest", "ingestWait"} => lastDiff'[c] = NoDiff
  <2>1. CASE c # b
    BY <2>1, StepIsOfOne DEF LastDiffWasShown
  <2>2. CASE c = b /\ Subtest(b)
    BY <2>2, SubtestSteps DEF LastDiffWasShown
  <2>3. CASE Scrape(b)
    BY <2>3 DEF LastDiffWasShown, Scrape, Gather, Ingest, LoseReply, Show, queryVars
  <2> QED
    BY <2>1, <2>2, <2>3
<1> QED
  BY <1>4, <1>5, <1>6

LEMMA PassesStay ==
    ASSUME TypeOK, StoredWasServed, PassMeansIngested, NEW b \in Backends, Scrape(b) \/ Subtest(b)
    PROVE  PassMeansIngested'
<1> SUFFICES ASSUME NEW c \in Backends, step'[c] = "passed"
             PROVE  /\ i'[c] = Len(scrapeRecordings)
                    /\ \/ expectationsPerBackend[c] = <<>>
                       \/ \E n \in 0..Len(store'[c]) : ResultAt(c, n)' = expectationsPerBackend[c]
  BY StepIsOfOne DEF PassMeansIngested, recordVars
<1>1. /\ shown[c] \in Nat /\ shown[c] <= Len(store[c])
      /\ \A n \in 0..Len(store[c]) : n \in 0..Len(store'[c]) /\ ResultAt(c, n)' = ResultAt(c, n)
  <2>1. /\ Len(store[c]) \in Nat /\ Len(store'[c]) \in Nat /\ Len(store[c]) <= Len(store'[c])
        /\ \A n \in 0..Len(store[c]) : ResultAt(c, n)' = ResultAt(c, n)
    BY ResultsStand
  <2>2. shown[c] \in Nat /\ shown[c] <= Len(store[c])
    BY DEF TypeOK
  <2>3. \A n \in 0..Len(store[c]) : n \in 0..Len(store'[c])
    BY <2>1
  <2> QED
    BY <2>1, <2>2, <2>3
<1>2. i'[c] = Len(scrapeRecordings)
  BY StepIsOfOne, ServedStays DEF StoredWasServed, recordVars
<1>3. step[c] = "passed" \/ expectationsPerBackend[c] = <<>> \/ Result(c) = expectationsPerBackend[c]
  <2>1. CASE c # b
    BY <2>1, StepIsOfOne
  <2>2. CASE c = b /\ Subtest(b)
    BY <2>2, SubtestSteps
  <2>3. CASE Scrape(b)
    BY <2>3 DEF Scrape, Gather, Ingest, LoseReply, Show
  <2> QED
    BY <2>1, <2>2, <2>3
<1>4. \/ expectationsPerBackend[c] = <<>>
      \/ \E n \in 0..Len(store[c]) : ResultAt(c, n) = expectationsPerBackend[c]
  <2>1. shown[c] \in 0..Len(store[c])
    BY <1>1, ResultsStand
  <2> QED
    BY <1>3, <2>1 DEF PassMeansIngested, Result
<1> QED
  BY <1>1, <1>2, <1>4

-----------------------------------------------------------------------------
(* A backend that got every reply, of a test that expects what it recorded *)

LEMMA FaithStands ==
    ASSUME UNCHANGED recordVars
    PROVE  \A c \in Backends : /\ Faithful(c)' <=> Faithful(c)
                               /\ Places(expectationsPerBackend[c])' = Places(expectationsPerBackend[c])
                               /\ expectationsPerBackend'[c] = expectationsPerBackend[c]
  BY DEF recordVars, Faithful, Places, InRangeOf

(* What places are, with the types of the recordings.                      *)
LEMMA PlacesAre ==
    ASSUME TypeOK, NEW b \in Backends, NEW at \in Places(expectationsPerBackend[b])
    PROVE  LET expected == expectationsPerBackend[b] IN
           /\ expected \in Seq(Samples) /\ Len(expected) \in Nat /\ DOMAIN expected = 1..Len(expected)
           /\ \A n \in 1..Len(expected) : at[n] \in 1..Len(scrapeRecordings)
           /\ \A m, n \in 1..Len(expected) : m < n => at[m] < at[n]
           /\ \A n \in 1..Len(expected) : scrapeRecordings[at[n]] = << expected[n] >>
           /\ \A k \in 1..Len(scrapeRecordings) :
                scrapeRecordings[k] # <<>> => \E n \in 1..Len(expected) : at[n] = k
<1>1. /\ expectationsPerBackend[b] \in Seq(Samples) /\ Len(expectationsPerBackend[b]) \in Nat
      /\ DOMAIN expectationsPerBackend[b] = 1..Len(expectationsPerBackend[b])
      /\ DOMAIN scrapeRecordings = 1..Len(scrapeRecordings)
  BY DEF TypeOK
<1> QED
  BY <1>1 DEF Places

(* A query of it returns what it sees of the expected samples.             *)
LEMMA ResultsArePrefixes ==
    ASSUME TypeOK, StoredInFull, NEW b \in Backends, Faithful(b), lost[b] = 0, NEW n \in 0..Len(store[b])
    PROVE  /\ Len(ResultAt(b, n)) = n
           /\ ResultAt(b, n) = SubSeq(expectationsPerBackend[b], 1, n)
<1> DEFINE expected == expectationsPerBackend[b]
           seen == SubSeq(store[b], 1, n)
           within == {k \in DOMAIN seen : InRangeOf(b, maxTime, seen[k].timestamp)}
<1>1. /\ store[b] \in Seq(Samples) /\ Len(store[b]) \in Nat /\ DOMAIN store[b] = 1..Len(store[b])
      /\ expected \in Seq(Samples) /\ Len(expected) \in Nat /\ DOMAIN expected = 1..Len(expected)
  BY DEF TypeOK
<1>2. /\ Len(store[b]) <= Len(expected)
      /\ \A k \in DOMAIN store[b] : store[b][k] = expected[k]
  BY DEF StoredInFull
<1>3. seen \in Seq(Samples) /\ Len(seen) = n /\ DOMAIN seen = 1..n /\ \A k \in 1..n : seen[k] = store[b][k]
  BY <1>1
<1>4. \A k \in 1..n : k \in DOMAIN store[b] /\ k \in DOMAIN expected
  BY <1>1, <1>2
<1>5. \A k \in 1..n : InRangeOf(b, maxTime, seen[k].timestamp)
  BY <1>2, <1>3, <1>4 DEF Faithful
<1>6. within = 1..n
  BY <1>3, <1>5
<1>7. ResultAt(b, n) = IF within = {} THEN <<>> ELSE SubSeq(seen, Min(within), Max(within))
  BY DEF ResultAt, ResultOf
<1>8. SubSeq(expected, 1, n) \in Seq(Samples) /\ Len(SubSeq(expected, 1, n)) = n
      /\ \A k \in 1..n : SubSeq(expected, 1, n)[k] = expected[k]
  BY <1>1, <1>2
<1>9. seen = SubSeq(expected, 1, n)
  <2> HIDE DEF seen, expected
  <2> QED
    BY <1>2, <1>3, <1>4, <1>8, SeqEqual
<1>10. ResultAt(b, n) = seen
  <2> HIDE DEF seen, within
  <2>1. CASE n = 0
    <3>1. within = {} /\ seen = <<>>
      BY <1>3, <1>6, <2>1
    <3> QED
      BY <1>7, <3>1
  <2>2. CASE n > 0
    <3>1. Min(within) = 1 /\ Max(within) = n
      <4>1. 1 \in 1..n /\ n \in 1..n /\ \A k \in 1..n : 1 <= k /\ k <= n
        BY <2>2, <1>1
      <4>2. \A x \in 1..n : (\A y \in 1..n : x <= y) => x = 1
        BY <4>1
      <4>3. \A x \in 1..n : (\A y \in 1..n : y <= x) => x = n
        BY <4>1
      <4> QED
        BY <1>6, <4>1, <4>2, <4>3 DEF Min, Max
    <3>2. within # {}
      BY <1>6, <2>2
    <3>3. SubSeq(seen, 1, n) = seen
      BY <1>3, SubSeqFull
    <3> QED
      BY <1>7, <3>1, <3>2, <3>3
  <2> QED
    BY <1>1, <2>1, <2>2
<1> QED
  BY <1>3, <1>9, <1>10

(* The recording it ingests next is that of the next expected sample.      *)
LEMMA IngestKeepsFull ==
    ASSUME TypeOK, StoredWasServed, StoredInFull, NEW b \in Backends, Ingest(b), Faithful(b), lost[b] = 0
    PROVE  /\ Len(store'[b]) <= Len(expectationsPerBackend[b])
           /\ \A n \in DOMAIN store'[b] : store'[b][n] = expectationsPerBackend[b][n]
           /\ \A at \in Places(expectationsPerBackend[b]) :
                \A n \in DOMAIN expectationsPerBackend[b] : at[n] <= i[b] <=> n <= Len(store'[b])
<1> DEFINE expected == expectationsPerBackend[b]
           N == Len(store[b])
<1>1. /\ store[b] \in Seq(Samples) /\ N \in Nat /\ DOMAIN store[b] = 1..N
      /\ expected \in Seq(Samples) /\ Len(expected) \in Nat /\ DOMAIN expected = 1..Len(expected)
      /\ i[b] \in Nat /\ i[b] <= Len(scrapeRecordings) /\ Len(scrapeRecordings) \in Nat
  BY DEF TypeOK
<1>2. /\ i[b] > 0 /\ reply[b] = << scrapeRecordings[i[b]] >>
      /\ reply[b][1] = scrapeRecordings[i[b]] /\ Len(reply[b]) = 1
  <2>1. i[b] > 0 /\ reply[b] = << scrapeRecordings[i[b]] >>
    BY DEF Ingest, StoredWasServed
  <2> QED
    BY <2>1
<1>3. /\ N <= Len(expected)
      /\ \A n \in 1..N : store[b][n] = expected[n]
      /\ \A at \in Places(expected) : \A n \in 1..Len(expected) : at[n] <= i[b] - 1 <=> n <= N
  BY <1>1, <1>2 DEF StoredInFull
<1>4. \A at \in Places(expected) :
        /\ \A n \in 1..Len(expected) : at[n] \in 1..Len(scrapeRecordings)
        /\ \A m, n \in 1..Len(expected) : m < n => at[m] < at[n]
        /\ \A n \in 1..Len(expected) : scrapeRecordings[at[n]] = << expected[n] >>
        /\ \A k \in 1..Len(scrapeRecordings) :
             scrapeRecordings[k] # <<>> => \E n \in 1..Len(expected) : at[n] = k
  BY PlacesAre
<1>5. CASE scrapeRecordings[i[b]] = <<>>
  <2>1. UNCHANGED store
    BY <1>2, <1>5 DEF Ingest, Range
  <2>2. ASSUME NEW at \in Places(expected), NEW n \in 1..Len(expected) PROVE at[n] <= i[b] <=> n <= N
    <3>1. at[n] # i[b]
      <4>1. scrapeRecordings[at[n]] = << expected[n] >>
        BY <1>4
      <4>2. << expected[n] >> # <<>>
        OBVIOUS
      <4> QED
        BY <4>1, <4>2, <1>5
    <3>2. (at[n] <= i[b] - 1 <=> n <= N) /\ at[n] \in Nat
      BY <1>3, <1>4
    <3> QED
      BY <3>1, <3>2, <1>1
  <2> QED
    BY <1>1, <1>3, <2>1, <2>2
<1>6. CASE scrapeRecordings[i[b]] # <<>>
  <2>1. ASSUME NEW at \in Places(expected)
        PROVE  /\ N + 1 \in 1..Len(expected) /\ at[N + 1] = i[b]
               /\ \A n \in 1..Len(expected) : at[n] <= i[b] <=> n <= N + 1
    <3> DEFINE L == Len(expected)
               R == Len(scrapeRecordings)
    <3>1. /\ \A n \in 1..L : at[n] \in 1..R
          /\ \A m, n \in 1..L : m < n => at[m] < at[n]
          /\ \A n \in 1..L : at[n] <= i[b] - 1 <=> n <= N
      BY <1>3, <1>4
    <3>2. PICK p \in 1..L : at[p] = i[b]
      <4>1. i[b] \in 1..R
        BY <1>1, <1>2
      <4> QED
        BY <4>1, <1>4, <1>6
    <3> HIDE DEF expected, N, L, R
    <3>3. L \in Nat /\ N \in Nat /\ R \in Nat /\ i[b] \in Nat
      BY <1>1 DEF L, N, R, expected
    <3>4. p = N + 1
      <4>1. p > N
        BY <3>1, <3>2, <3>3
      <4>2. CASE p > N + 1
        <5>1. p - 1 \in 1..L /\ p - 1 < p /\ p - 1 > N
          BY <3>3, <4>2
        <5>2. at[p - 1] < at[p] /\ at[p - 1] \in 1..R /\ ~(at[p - 1] <= i[b] - 1)
          BY <3>1, <3>3, <5>1
        <5> QED
          BY <3>2, <3>3, <5>2
      <4> QED
        BY <3>3, <4>1, <4>2
    <3>5. ASSUME NEW n \in 1..L PROVE at[n] <= i[b] <=> n <= N + 1
      <4>1. at[n] \in 1..R /\ (n < p => at[n] < at[p]) /\ (p < n => at[p] < at[n])
        BY <3>1
      <4> QED
        BY <3>2, <3>3, <3>4, <4>1
    <3> QED
      BY <3>2, <3>4, <3>5 DEF L
  <2>2. PICK at \in Places(expected) : TRUE
    BY DEF Faithful
  <2>3. N + 1 \in 1..Len(expected) /\ scrapeRecordings[i[b]] = << expected[N + 1] >>
    BY <2>1, <1>4
  <2>4. Range(reply[b][1]) = {expected[N + 1]}
    <3>1. \A e : Range(<<e>>) = {e}
      BY DEF Range
    <3> QED
      BY <1>2, <2>3, <3>1
  <2>5. InOrder(b, expected[N + 1])
    <3> SUFFICES ASSUME store[b] # <<>> PROVE expected[N + 1].timestamp > store[b][N].timestamp
      BY DEF InOrder, Last
    <3>1. N \in 1..N /\ N \in 1..Len(expected)
      BY <1>1, <1>3
    <3>2. expected[N].timestamp < expected[N + 1].timestamp
      BY <1>1, <2>3, <3>1 DEF Faithful
    <3>3. expected[N].timestamp \in Int /\ expected[N + 1].timestamp \in Int
      <4>1. expected[N] \in Samples /\ expected[N + 1] \in Samples
        BY <1>1, <2>3, <3>1
      <4> QED
        BY <4>1 DEF Samples
    <3> QED
      BY <1>3, <3>1, <3>2, <3>3
  <2>6. store' = [store EXCEPT ![b] = Append(@, expected[N + 1])]
    BY <2>4, <2>5 DEF Ingest
  <2>7. /\ store'[b] = Append(store[b], expected[N + 1]) /\ expected[N + 1] \in Samples
    BY <1>1, <2>3, <2>6 DEF TypeOK
  <2>8. /\ Len(store'[b]) = N + 1 /\ DOMAIN store'[b] = 1..(N + 1)
        /\ \A n \in 1..N : store'[b][n] = store[b][n]
        /\ store'[b][N + 1] = expected[N + 1]
    <3> HIDE DEF expected
    <3> QED
      BY <1>1, <2>7
  <2>9. \A n \in 1..(N + 1) : store'[b][n] = expected[n]
    <3> HIDE DEF expected
    <3>1. \A n \in 1..(N + 1) : n \in 1..N \/ n = N + 1
      BY <1>1
    <3> QED
      BY <1>3, <2>8, <3>1
  <2>10. N + 1 <= Len(expected)
    BY <1>1, <2>3
  <2> QED
    BY <1>1, <2>1, <2>8, <2>9, <2>10
<1> QED
  BY <1>5, <1>6

LEMMA FullStays ==
    ASSUME TypeOK, StoredWasServed, StoredInFull, NEW b \in Backends, Scrape(b) \/ Subtest(b)
    PROVE  StoredInFull'
<1> DEFINE Full(c) ==
      LET expected == expectationsPerBackend[c]
      IN /\ Len(store[c]) <= Len(expected)
         /\ \A n \in DOMAIN store[c] : store[c][n] = expected[n]
         /\ \A at \in Places(expected) : \A n \in DOMAIN expected :
              at[n] <= i[c] - Len(reply[c]) <=> n <= Len(store[c])
<1>1. \A c \in Backends : Faithful(c) /\ lost[c] = 0 => Full(c)
  BY DEF StoredInFull
<1>2. UNCHANGED recordVars
  BY StepIsOfOne
<1>3. ASSUME NEW c \in Backends, UNCHANGED <<store[c], i[c], reply[c]>>, Full(c) PROVE Full(c)'
  <2>1. /\ expectationsPerBackend'[c] = expectationsPerBackend[c]
        /\ Places(expectationsPerBackend[c])' = Places(expectationsPerBackend[c])
    BY <1>2, FaithStands
  <2> QED
    BY <1>3, <2>1
<1>4. \A c \in Backends : c # b => lost'[c] = lost[c]
  BY DEF TypeOK, Scrape, Subtest, Gather, Ingest, LoseReply, Show, StartIngest, PollIngest, Compare,
         QueryFails, Tick, GiveUp, backendVars
<1>5. ASSUME Faithful(b), lost[b] = 0, lost'[b] = 0 PROVE Full(b)'
  <2>1. CASE Subtest(b)
    BY <1>1, <1>3, <1>5, <2>1, SubtestSteps
  <2>2. CASE Show(b)
    BY <1>1, <1>3, <1>5, <2>2 DEF Show
  <2>3. CASE LoseReply(b)
    BY <1>5, <2>3 DEF LoseReply, TypeOK
  <2>4. CASE Gather(b)
    <3>1. /\ UNCHANGED store /\ i'[b] = i[b] + 1 /\ Len(reply[b]) = 0 /\ Len(reply'[b]) = 1
          /\ i[b] \in Nat
      BY <2>4 DEF Gather, OneOn, NoReply, TypeOK
    <3>2. i'[b] - Len(reply'[b]) = i[b] - Len(reply[b])
      BY <3>1
    <3>3. /\ expectationsPerBackend'[b] = expectationsPerBackend[b]
          /\ Places(expectationsPerBackend[b])' = Places(expectationsPerBackend[b])
      BY <1>2, FaithStands
    <3> QED
      BY <1>1, <1>5, <3>1, <3>2, <3>3
  <2>5. CASE Ingest(b)
    <3>1. i'[b] - Len(reply'[b]) = i[b]
      BY <2>5 DEF Ingest, NoReply, TypeOK
    <3>2. /\ expectationsPerBackend'[b] = expectationsPerBackend[b]
          /\ Places(expectationsPerBackend[b])' = Places(expectationsPerBackend[b])
      BY <1>2, FaithStands
    <3> QED
      BY <1>5, <2>5, <3>1, <3>2, IngestKeepsFull
  <2> QED
    BY <2>1, <2>2, <2>3, <2>4, <2>5 DEF Scrape
<1>6. lost[b] \in Nat /\ (lost'[b] = 0 => lost[b] = 0)
  BY DEF TypeOK, Scrape, Subtest, Gather, Ingest, LoseReply, Show, StartIngest, PollIngest, Compare,
         QueryFails, Tick, GiveUp, backendVars
<1>7. ASSUME NEW c \in Backends, Faithful(c)', lost'[c] = 0 PROVE Full(c)'
  <2>1. Faithful(c)
    BY <1>2, <1>7, FaithStands
  <2>2. CASE c = b
    BY <1>5, <1>6, <1>7, <2>1, <2>2
  <2>3. CASE c # b
    <3>1. UNCHANGED <<store[c], i[c], reply[c]>>
      BY <2>3, StepIsOfOne
    <3> QED
      BY <1>1, <1>3, <1>4, <1>7, <2>1, <2>3, <3>1
  <2> QED
    BY <2>2, <2>3
<1> QED
  BY <1>7 DEF StoredInFull

(* Between two comparisons that find the same there is a tick at which a   *)
(* sample that is stored does not show.                                    *)
LEMMA OwnDiffLags ==
    ASSUME IInv, NEW b \in Backends, Scrape(b) \/ Subtest(b),
           Faithful(b), lost[b] = 0, lost'[b] = 0,
           lastDiff'[b] # NoDiff, lastDiff'[b] = Result(b)'
    PROVE  /\ shown'[b] < Len(expectationsPerBackend[b])
           /\ step'[b] = "queryWait" => lag'[b] >= sameDiffTimes'[b]
           /\ step'[b] = "query" => lag'[b] > sameDiffTimes'[b]
<1> DEFINE expected == expectationsPerBackend[b]
<1>1. TypeOK /\ StoredWasServed /\ StoredInFull /\ LastDiffWasShown
  BY DEF IInv
<1>2. /\ shown[b] \in Nat /\ Len(store[b]) \in Nat /\ shown[b] <= Len(store[b])
      /\ Len(expected) \in Nat /\ Len(store[b]) <= Len(expected)
      /\ lag[b] \in Nat /\ sameDiffTimes[b] \in Nat
  <2>1. /\ shown[b] \in Nat /\ Len(store[b]) \in Nat /\ shown[b] <= Len(store[b])
        /\ Len(expected) \in Nat
    BY <1>1 DEF TypeOK
  <2>2. Len(store[b]) <= Len(expected)
    BY <1>1 DEF StoredInFull
  <2>3. lag[b] \in Nat /\ sameDiffTimes[b] \in Nat
    <3>1. lag[b] \in 0..MaxLag /\ sameDiffTimes[b] \in 0..4
      BY <1>1 DEF TypeOK
    <3> QED
      BY <3>1, BoundsAssumption
  <2> QED
    BY <2>1, <2>2, <2>3
<1>3. \A n \in 0..Len(store[b]) : /\ Len(ResultAt(b, n)) = n
                                 /\ ResultAt(b, n) = SubSeq(expected, 1, n)
                                 /\ ResultAt(b, n)' = ResultAt(b, n)
  BY <1>1, ResultsArePrefixes, ResultsStand
<1>4. lastDiff[b] # NoDiff /\ lastDiff[b] = Result(b) =>
        /\ shown[b] < Len(expected)
        /\ step[b] = "queryWait" => lag[b] >= sameDiffTimes[b]
        /\ step[b] = "query" => lag[b] > sameDiffTimes[b]
  BY DEF IInv, DiffsLag
<1>5. UNCHANGED shown => Result(b)' = Result(b)
  BY <1>2, <1>3 DEF Result
<1>6. CASE Gather(b) \/ Ingest(b) \/ LoseReply(b)
  <2>1. UNCHANGED <<step, shown, lag, queryVars>>
    BY <1>6 DEF Gather, Ingest, LoseReply
  <2> QED
    BY <1>4, <1>5, <2>1 DEF queryVars
<1>7. CASE Show(b)
  <2>1. shown'[b] = Len(store[b]) /\ shown[b] < Len(store[b]) /\ UNCHANGED lastDiff
    BY <1>1, <1>7 DEF Show, TypeOK, queryVars
  <2>2. Len(Result(b)') = Len(store[b])
    BY <1>2, <1>3, <2>1 DEF Result
  <2>3. PICK n \in 0..shown[b] : lastDiff[b] = ResultAt(b, n)
    BY <1>1, <2>1 DEF LastDiffWasShown
  <2>4. Len(lastDiff[b]) = n
    BY <1>2, <1>3, <2>3
  <2> QED
    BY <1>2, <2>1, <2>2, <2>3, <2>4
<1>8. CASE Subtest(b)
  <2>1. UNCHANGED shown /\ Result(b)' = Result(b)
    BY <1>1, <1>5, <1>8, SubtestSteps
  <2>2. CASE StartIngest(b) \/ PollIngest(b)
    BY <1>1, <2>2 DEF StartIngest, PollIngest, LastDiffWasShown, queryVars
  <2>3. CASE Compare(b)
    <3>1. CASE lastDiff'[b] = lastDiff[b]
      <4>1. shown[b] < Len(expected) /\ lag[b] > sameDiffTimes[b]
        BY <1>4, <2>1, <2>3, <3>1 DEF Compare
      <4>2. UNCHANGED lag
        BY <2>3 DEF Compare, backendVars
      <4>3. step'[b] # "query"
        BY <1>1, <2>3 DEF Compare, CountDiff, GoTo, TypeOK
      <4>4. Result(b) # <<>>
        BY <2>1, <3>1 DEF NoDiff
      <4>5. sameDiffTimes'[b] \in {sameDiffTimes[b], sameDiffTimes[b] + 1}
        <5>1. \/ UNCHANGED sameDiffTimes
              \/ sameDiffTimes' = [sameDiffTimes EXCEPT ![b] = @ + 1]
          BY <2>1, <2>3, <3>1 DEF Compare, CountDiff, queryVars
        <5> QED
          BY <1>1, <5>1 DEF TypeOK
      <4> QED
        BY <1>2, <2>1, <4>1, <4>2, <4>3, <4>5
    <3>2. CASE lastDiff'[b] # lastDiff[b]
      <4>1. /\ sameDiffTimes' = [sameDiffTimes EXCEPT ![b] = 0]
            /\ GoTo(b, "queryWait") /\ Result(b) # expected
        BY <2>3, <3>2 DEF Compare, CountDiff, queryVars
      <4>2. sameDiffTimes'[b] = 0 /\ step'[b] = "queryWait" /\ UNCHANGED lag
        BY <1>1, <2>3, <4>1 DEF Compare, GoTo, TypeOK, backendVars
      <4>3. shown[b] # Len(expected)
        <5>1. SubSeq(expected, 1, Len(expected)) = expected
          BY <1>1, SubSeqFull DEF TypeOK
        <5>2. Result(b) = SubSeq(expected, 1, shown[b])
          BY <1>2, <1>3 DEF Result
        <5> QED
          BY <4>1, <5>1, <5>2
      <4> QED
        BY <1>2, <2>1, <4>2, <4>3
    <3> QED
      BY <3>1, <3>2
  <2>4. CASE QueryFails(b)
    <3>1. /\ step[b] = "query" /\ step'[b] = "queryWait" /\ UNCHANGED <<lag, queryVars>>
      BY <1>1, <2>4 DEF QueryFails, GoTo, TypeOK, backendVars
    <3> QED
      BY <1>2, <1>4, <2>1, <3>1 DEF queryVars
  <2>5. CASE Tick(b)
    <3>1. step[b] \in {"ingestWait", "queryWait"} /\ UNCHANGED queryVars /\ reply[b] = NoReply
      BY <2>5 DEF Tick
    <3>2. step[b] = "queryWait" /\ step'[b] = "query"
      BY <1>1, <2>5, <3>1 DEF Tick, GoTo, TypeOK, LastDiffWasShown, queryVars
    <3>3. shown[b] < Len(expected) /\ lag[b] >= sameDiffTimes[b]
      BY <1>4, <2>1, <3>1, <3>2 DEF queryVars
    <3>4. Len(store[b]) = Len(expected)
      <4>1. PICK at \in Places(expected) : TRUE
        BY DEF Faithful
      <4>2. /\ Len(expected) \in 1..Len(expected) /\ i[b] - Len(reply[b]) = Len(scrapeRecordings)
            /\ Len(scrapeRecordings) \in Nat
        BY <1>1, <1>2, <3>1, <3>2, <3>3 DEF StoredWasServed, NoReply, TypeOK
      <4>3. at[Len(expected)] \in 1..Len(scrapeRecordings) /\ DOMAIN expected = 1..Len(expected)
        BY <1>1, <4>2, PlacesAre
      <4>4. at[Len(expected)] <= i[b] - Len(reply[b]) <=> Len(expected) <= Len(store[b])
        BY <1>1, <4>2, <4>3 DEF StoredInFull
      <4> QED
        BY <1>2, <4>2, <4>3, <4>4
    <3>5. lag'[b] = lag[b] + 1
      BY <1>1, <2>5, <3>3, <3>4 DEF Tick, TypeOK
    <3> QED
      BY <1>2, <2>1, <3>1, <3>2, <3>3, <3>5 DEF queryVars
  <2>6. CASE GiveUp(b)
    <3>1. step[b] # step'[b] /\ step'[b] = "failed" /\ UNCHANGED queryVars
      BY <1>1, <2>6 DEF GiveUp, Stops, GoTo, TypeOK
    <3> QED
      BY <1>4, <2>1, <3>1 DEF queryVars
  <2> QED
    BY <1>8, <2>2, <2>3, <2>4, <2>5, <2>6 DEF Subtest
<1> QED
  BY <1>6, <1>7, <1>8 DEF Scrape

LEMMA LagStays ==
    ASSUME IInv, NEW b \in Backends, Scrape(b) \/ Subtest(b)
    PROVE  DiffsLag'
<1> SUFFICES ASSUME NEW c \in Backends, Faithful(c)', lost'[c] = 0,
                    lastDiff'[c] # NoDiff, lastDiff'[c] = Result(c)'
             PROVE  /\ shown'[c] < Len(expectationsPerBackend'[c])
                    /\ step'[c] = "queryWait" => lag'[c] >= sameDiffTimes'[c]
                    /\ step'[c] = "query" => lag'[c] > sameDiffTimes'[c]
  BY DEF DiffsLag
<1>1. TypeOK
  BY DEF IInv
<1>2. Faithful(c) /\ expectationsPerBackend'[c] = expectationsPerBackend[c]
  BY StepIsOfOne, FaithStands
<1>3. CASE c = b
  <2>1. lost[b] = 0
    BY <1>1, <1>3 DEF TypeOK, Scrape, Subtest, Gather, Ingest, LoseReply, Show, StartIngest, PollIngest,
                      Compare, QueryFails, Tick, GiveUp, backendVars
  <2> QED
    BY <1>2, <1>3, <2>1, OwnDiffLags
<1>4. CASE c # b
  <2>1. UNCHANGED <<step[c], shown[c], lastDiff[c], store[c]>>
    BY <1>1, <1>4, StepIsOfOne
  <2>2. UNCHANGED <<lost[c], lag[c], sameDiffTimes[c]>>
    BY <1>1, <1>4 DEF TypeOK, Scrape, Subtest, Gather, Ingest, LoseReply, Show, StartIngest, PollIngest,
                      Compare, CountDiff, QueryFails, Tick, GiveUp, backendVars, queryVars
  <2>3. Result(c)' = Result(c)
    BY <2>1, StepIsOfOne DEF Result, ResultAt, recordVars
  <2> QED
    BY <1>2, <2>1, <2>2, <2>3 DEF IInv, DiffsLag
<1> QED
  BY <1>3, <1>4

(* The fifth repetition would be later than the samples take to show.      *)
LEMMA FailuresStay ==
    ASSUME IInv, MaxLag <= 4, NEW b \in Backends, Scrape(b) \/ Subtest(b)
    PROVE  FailureHasACause'
<1> SUFFICES ASSUME NEW c \in Backends, step'[c] = "failed", Faithful(c)', ~ctxDone'
             PROVE  lost'[c] > 0
  BY DEF FailureHasACause
<1>1. TypeOK /\ FailureHasACause
  BY DEF IInv
<1>2. Faithful(c) /\ ~ctxDone
  BY StepIsOfOne, FaithStands
<1>3. lost[c] \in Nat /\ (lost'[c] = lost[c] \/ lost'[c] = lost[c] + 1)
  BY <1>1 DEF TypeOK, Scrape, Subtest, Gather, Ingest, LoseReply, Show, StartIngest, PollIngest,
              Compare, QueryFails, Tick, GiveUp, backendVars
<1>4. CASE step[c] = "failed"
  BY <1>1, <1>2, <1>3, <1>4 DEF FailureHasACause
<1>5. CASE step[c] # "failed"
  <2>1. c = b /\ UNCHANGED lost
    BY <1>1, <1>5, StepIsOfOne, SubtestSteps DEF Scrape, Gather, Ingest, LoseReply, Show
  <2>2. Compare(b)
    BY <1>1, <1>2, <1>5, <2>1
    DEF TypeOK, GoTo, Scrape, Subtest, Gather, Ingest, LoseReply, Show, StartIngest, PollIngest,
        QueryFails, Tick, GiveUp
  <2>3. /\ step[b] = "query" /\ lastDiff[b] = Result(b) /\ Result(b) # <<>> /\ sameDiffTimes[b] > 3
    BY <1>1, <2>1, <2>2 DEF Compare, CountDiff, GoTo, Retried, TypeOK
  <2>4. lost[b] # 0
    <3> SUFFICES ASSUME lost[b] = 0 PROVE FALSE
      OBVIOUS
    <3>1. lag[b] > sameDiffTimes[b]
      BY <1>2, <2>1, <2>3 DEF IInv, DiffsLag, NoDiff
    <3>2. lag[b] \in 0..MaxLag /\ sameDiffTimes[b] \in 0..4
      BY <1>1 DEF TypeOK
    <3> QED
      BY <2>3, <3>1, <3>2, BoundsAssumption
  <2> QED
    BY <1>3, <2>1, <2>4
<1> QED
  BY <1>4, <1>5

LEMMA StepKeeps == ASSUME IInv, NEW b \in Backends, Scrape(b) \/ Subtest(b) PROVE IInv'
<1>1. /\ TypeOK /\ TimesBound /\ NothingYet /\ StoredWasServed /\ LastDiffWasShown
      /\ PassMeansIngested /\ StoredInFull
  BY DEF IInv
<1>2. TypeOK'
  BY <1>1, ScrapeKeepsTypes, SubtestKeepsTypes
<1>3. TimesBound'
  BY <1>1, StepIsOfOne DEF TimesBound, recordVars
<1>4. NothingYet' /\ StoredWasServed' /\ LastDiffWasShown' /\ PassMeansIngested' /\ StoredInFull'
  BY <1>1, NothingYetStays, ServedStays, DiffsStay, PassesStay, FullStays
<1>5. DiffsLag' /\ (MaxLag <= 4 => FailureHasACause')
  BY LagStays, FailuresStay
<1> QED
  BY <1>2, <1>3, <1>4, <1>5 DEF IInv

(* What is said of the backends is said with the deadline over or not.     *)
LEMMA DeadlineKeeps ==
    ASSUME IInv, UNCHANGED <<phase, recordVars, step, backendVars, queryVars>>,
           ctxDone' \in BOOLEAN, ctxDone => ctxDone'
    PROVE  IInv'
<1>1. TypeOK' /\ TimesBound' /\ NothingYet' /\ StoredWasServed'
  BY DEF IInv, TypeOK, TimesBound, NothingYet, StoredWasServed, Running, recordVars, backendVars, queryVars
<1>2. \A c \in Backends : Result(c)' = Result(c) /\ \A n : ResultAt(c, n)' = ResultAt(c, n)
  BY DEF Result, ResultAt, recordVars, backendVars
<1>3. LastDiffWasShown' /\ PassMeansIngested'
  BY <1>2 DEF IInv, LastDiffWasShown, PassMeansIngested, recordVars, backendVars, queryVars
<1>4. /\ UNCHANGED <<expectationsPerBackend, i, reply, store, shown, lag, lost, step, lastDiff, sameDiffTimes>>
      /\ \A c \in Backends : /\ Faithful(c)' <=> Faithful(c)
                            /\ Places(expectationsPerBackend[c])' = Places(expectationsPerBackend[c])
  BY FaithStands DEF recordVars, backendVars, queryVars
<1>5. StoredInFull'
  BY <1>4 DEF IInv, StoredInFull
<1>6. DiffsLag'
  BY <1>2, <1>4 DEF IInv, DiffsLag
<1>7. MaxLag <= 4 => FailureHasACause'
  BY <1>4 DEF IInv, FailureHasACause
<1> QED
  BY <1>1, <1>3, <1>5, <1>6, <1>7 DEF IInv

-----------------------------------------------------------------------------
(* The theorems                                                            *)

(* The invariant of the module: types; what recording keeps of the times;  *)
(* that nothing happens before Run; where what a backend stores, is        *)
(* compared with and passes for comes from; and that a result cannot be    *)
(* the same again and again while samples that are stored do not show.     *)
THEOREM InductiveInvariant == Spec => []IInv
<1>1. Init => IInv
  BY InitEstablishes
<1>2. IInv /\ [Next]_vars => IInv'
  <2> SUFFICES ASSUME IInv, [Next]_vars PROVE IInv'
    OBVIOUS
  <2>1. CASE Record
    BY <2>1, RecordKeeps
  <2>2. CASE CtxDone
    BY <2>2, DeadlineKeeps DEF CtxDone
  <2>3. ASSUME NEW b \in Backends, Scrape(b) \/ Subtest(b) PROVE IInv'
    BY <2>3, StepKeeps
  <2>4. CASE UNCHANGED vars
    BY <2>4, DeadlineKeeps DEF vars, IInv, TypeOK
  <2> QED
    BY <2>1, <2>2, <2>3, <2>4 DEF Next
<1> QED
  BY <1>1, <1>2, PTL DEF Spec

(* Whatever order the test records its scrapes in and sets the time to,    *)
(* the query of the test has all of them in its range.                     *)
THEOREM QueryHasTheRecordings == Spec => []RecordingsAreQueried
<1>1. IInv => RecordingsAreQueried
  <2> SUFFICES ASSUME IInv, NEW k \in DOMAIN scrapeRecordings, NEW s \in Range(scrapeRecordings[k])
               PROVE  s.timestamp \in (maxTime - QueryRange)..maxTime
    BY DEF RecordingsAreQueried, Range
  <2>1. minTime \in Int /\ maxTime \in Int
    BY DEF IInv, TypeOK
  <2>2. maxTime <= minTime + QueryRange /\ s.timestamp \in minTime..maxTime
    BY DEF IInv, TimesBound, TypeOK
  <2> QED
    BY <2>1, <2>2 DEF QueryRange
<1> QED
  BY <1>1, InductiveInvariant, PTL

(* A backend that passes was served every recording, and of samples that   *)
(* it had ingested the query returned what the test expects of it.         *)
THEOREM PassesAreEarned == Spec => []PassMeansIngested
<1>1. IInv => PassMeansIngested
  BY DEF IInv
<1> QED
  BY <1>1, InductiveInvariant, PTL

(* A backend that a scrape never failed to reach and that shows a sample   *)
(* at the latest four ticks after it stored it is not failed before the    *)
(* deadline, when the test expects what it recorded, in order of time: the *)
(* 10 seconds between the retries and the five repetitions are enough.     *)
THEOREM FailuresHaveACause ==
    ASSUME MaxLag <= 4
    PROVE  Spec => []FailureHasACause
<1>1. IInv => FailureHasACause
  BY DEF IInv
<1> QED
  BY <1>1, InductiveInvariant, PTL
=============================================================================
