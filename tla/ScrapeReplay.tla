---------------------------- MODULE ScrapeReplay ----------------------------
(***************************************************************************)
(* A scrape style test of promqle2e (promqle2e.go): the test records       *)
(* scrapes of a registry with times of its choice and what it expects of   *)
(* each backend; Run then replays the recordings to the scrapes of every   *)
(* backend and retries an instant query for the metric over 10 hours until *)
(* it returns the expected samples.                                        *)
(*                                                                         *)
(* The test has one metric. Times are in hours. The retries of one backend *)
(* are 10 seconds apart (a tick); scrapes and queries take less.           *)
(***************************************************************************)
EXTENDS Integers, Sequences, SequencesExt

CONSTANTS Backends,
          LeftOpen,       \* backends whose ranges exclude their left end (Prometheus 3)
          Start,          \* the time recording starts at
          Jumps,          \* times SetCurrentTime is given
          Afters,         \* durations RecordScrape is given
          MaxScrapes,     \* recordings of a test
          MaxLost,        \* replies a backend may lose
          MaxLag          \* ticks a stored sample may take to show in queries

ASSUME BoundsAssumption == MaxScrapes \in Nat /\ MaxLost \in Nat /\ MaxLag \in Nat

ASSUME TimesAssumption ==
    Start \in Nat \ {0} /\ Jumps \subseteq Nat \ {0} /\ Afters \subseteq Int

Unset == 0              \* the zero time
QueryRange == 10

VARIABLES phase,          \* "recording", "running" or "fatal"
          currentTime, minTime, maxTime,
          registered,     \* backends
          scrapeRecordings,        \* sequence of scrapes: sequences of at most one sample
          expectationsPerBackend,  \* backend -> sequence of samples
          \* of each running backend:
          step,           \* where its subtest is
          i,              \* the recording its next scrape is served
          reply,          \* what is under way to it: at most one recording
          store,          \* what it has ingested
          shown,          \* how much of it queries see
          lag,            \* ticks since store and shown agreed
          lost,           \* replies it never got
          lastDiff, sameDiffTimes,
          ctxDone         \* the deadline of the test's context is over

recordVars == <<currentTime, minTime, maxTime, registered, scrapeRecordings, expectationsPerBackend>>
backendVars == <<i, reply, store, shown, lag, lost>>
queryVars == <<lastDiff, sameDiffTimes>>
vars == <<phase, recordVars, step, backendVars, queryVars, ctxDone>>

Steps == {"start", "ingest", "ingestWait", "query", "queryWait", "passed", "failed"}
Concluded == {"passed", "failed"}

NoReply == <<>>
NoDiff == <<>>   \* as a result, it would be empty and not counted

Init ==
    /\ phase = "recording"
    /\ currentTime = Start /\ minTime = Unset /\ maxTime = Unset
    /\ registered = {}
    /\ scrapeRecordings = <<>>
    /\ expectationsPerBackend = [b \in Backends |-> <<>>]
    /\ step = [b \in Backends |-> "start"]
    /\ i = [b \in Backends |-> 0]
    /\ reply = [b \in Backends |-> NoReply]
    /\ store = [b \in Backends |-> <<>>]
    /\ shown = [b \in Backends |-> 0]
    /\ lag = [b \in Backends |-> 0]
    /\ lost = [b \in Backends |-> 0]
    /\ lastDiff = [b \in Backends |-> NoDiff]
    /\ sameDiffTimes = [b \in Backends |-> 0]
    /\ ctxDone = FALSE

----------------------------------------------------------------------------
(* Recording *)

SetCurrentTime(currTime) ==
    /\ phase = "recording" /\ Len(scrapeRecordings) < MaxScrapes
    /\ currentTime' = currTime
    /\ UNCHANGED <<phase, minTime, maxTime, registered, scrapeRecordings, expectationsPerBackend,
                   step, backendVars, queryVars, ctxDone>>

(* A backend may be registered once, by name or by an expectation. *)
RegisterBackends(b) ==
    /\ phase = "recording"
    /\ phase' = IF b \in registered THEN "fatal" ELSE phase
    /\ registered' = registered \cup {b}
    /\ UNCHANGED <<currentTime, minTime, maxTime, scrapeRecordings, expectationsPerBackend,
                   step, backendVars, queryVars, ctxDone>>

(* The times of a test are later than the zero time. *)
IsTime(ts) == ts > Unset

TooFarForwards(ts) == minTime # Unset /\ ts > minTime + QueryRange
TooFar(ts) ==
    \/ minTime # Unset /\ ts > minTime + QueryRange
    \/ maxTime # Unset /\ ts < maxTime - QueryRange

(* A scrape recorded `after` the last one and chained expectations, by the *)
(* backends in bs, of the value the metric has. The metric may be missing. *)
RecordScrape(after, bs) ==
    LET ts == currentTime + after
        sample == [timestamp |-> ts, value |-> Len(scrapeRecordings) + 1]
    IN /\ phase = "recording" /\ Len(scrapeRecordings) < MaxScrapes
       /\ IsTime(ts)
       /\ currentTime' = ts
       /\ IF TooFar(ts)
          THEN /\ phase' = "fatal"
               /\ UNCHANGED <<minTime, maxTime, registered, scrapeRecordings, expectationsPerBackend>>
          ELSE /\ minTime' = IF minTime = Unset \/ ts < minTime THEN ts ELSE minTime
               /\ maxTime' = IF maxTime = Unset \/ ts > maxTime THEN ts ELSE maxTime
               /\ \/ scrapeRecordings' = Append(scrapeRecordings, <<sample>>)
                  \/ bs = {} /\ scrapeRecordings' = Append(scrapeRecordings, <<>>)
               /\ registered' = registered \cup bs
               /\ expectationsPerBackend' = [b \in Backends |->
                      IF b \in bs THEN Append(expectationsPerBackend[b], sample)
                      ELSE expectationsPerBackend[b]]
               /\ UNCHANGED phase
       /\ UNCHANGED <<step, backendVars, queryVars, ctxDone>>

(* The test ends when no backend takes part. *)
Run ==
    /\ phase = "recording"
    /\ phase' = IF registered = {} THEN "fatal" ELSE "running"
    /\ UNCHANGED <<recordVars, step, backendVars, queryVars, ctxDone>>

----------------------------------------------------------------------------
(* A running backend b: recordedGatherer and the backend that scrapes it   *)

Running(b) == phase = "running" /\ b \in registered

Replaying(b) == step[b] # "start" /\ i[b] < Len(scrapeRecordings)

TwoOn(b) == i[b] + 2
OneOn(b) == i[b] + 1

(* The backend scrapes: the server picks the recording and moves on. *)
Gather(b) ==
    /\ Running(b) /\ reply[b] = NoReply
    /\ Replaying(b)
    /\ reply' = [reply EXCEPT ![b] = << scrapeRecordings[i[b] + 1] >>]
    /\ i' = [i EXCEPT ![b] = OneOn(b)]
    /\ UNCHANGED <<phase, recordVars, step, store, shown, lag, lost, queryVars, ctxDone>>

InOrder(b, s) == store[b] # <<>> => s.timestamp > Last(store[b]).timestamp

(* The backend ingests the reply, but for a sample that is out of order. *)
Ingest(b) ==
    /\ Running(b) /\ reply[b] # NoReply
    /\ reply' = [reply EXCEPT ![b] = NoReply]
    /\ \/ \E s \in Range(reply[b][1]) :
            InOrder(b, s) /\ store' = [store EXCEPT ![b] = Append(@, s)]
       \/ /\ \A s \in Range(reply[b][1]) : ~InOrder(b, s)
          /\ UNCHANGED store
    /\ UNCHANGED <<phase, recordVars, step, i, shown, lag, lost, queryVars, ctxDone>>

(* The scrape times out after the server has moved on. *)
LoseReply(b) ==
    /\ Running(b) /\ reply[b] # NoReply
    /\ lost[b] < MaxLost
    /\ reply' = [reply EXCEPT ![b] = NoReply]
    /\ lost' = [lost EXCEPT ![b] = @ + 1]
    /\ UNCHANGED <<phase, recordVars, step, i, store, shown, lag, queryVars, ctxDone>>

Show(b) ==
    /\ Running(b) /\ shown[b] < Len(store[b])
    /\ shown' = [shown EXCEPT ![b] = Len(store[b])]
    /\ lag' = [lag EXCEPT ![b] = 0]
    /\ UNCHANGED <<phase, recordVars, step, i, reply, store, lost, queryVars, ctxDone>>

----------------------------------------------------------------------------
(* The subtest of backend b *)

GoTo(b, s) == step' = [step EXCEPT ![b] = s]

StartIngest(b) ==
    /\ Running(b) /\ step[b] = "start"
    /\ GoTo(b, "ingest")
    /\ UNCHANGED <<phase, recordVars, backendVars, queryVars, ctxDone>>

AllButOneServed(b) == i[b] >= Len(scrapeRecordings) - 1
AllServed(b) == i[b] >= Len(scrapeRecordings)

(* A backend that is expected to have nothing is not queried. *)
PollIngest(b) ==
    /\ Running(b) /\ step[b] = "ingest"
    /\ GoTo(b, IF ~AllServed(b) THEN "ingestWait"
               ELSE IF expectationsPerBackend[b] = <<>> THEN "passed" ELSE "query")
    /\ UNCHANGED <<phase, recordVars, backendVars, queryVars, ctxDone>>

InRangeOf(b, end, ts) ==
    /\ ts <= end
    /\ IF b \in LeftOpen THEN ts > end - QueryRange ELSE ts >= end - QueryRange

(* <metric>[10h] at the given time, of the samples a query sees. They are   *)
(* in order of time.                                                       *)
ResultOf(b, end, samples) ==
    LET within == {n \in DOMAIN samples : InRangeOf(b, end, samples[n].timestamp)}
    IN IF within = {} THEN <<>> ELSE SubSeq(samples, Min(within), Max(within))

(* What the query at maxTime returned when the first n samples showed. *)
ResultAt(b, n) == ResultOf(b, maxTime, SubSeq(store[b], 1, n))

Result(b) == ResultAt(b, shown[b])

RetriedLess == 2
Retried == 3

(* A result that is neither as expected nor empty counts when it is the    *)
(* same again; the fifth repetition is final.                              *)
CountDiff(b) ==
    IF lastDiff[b] # Result(b)
    THEN /\ lastDiff' = [lastDiff EXCEPT ![b] = Result(b)]
         /\ sameDiffTimes' = [sameDiffTimes EXCEPT ![b] = 0]
         /\ GoTo(b, "queryWait")
    ELSE IF sameDiffTimes[b] > Retried
    THEN GoTo(b, "failed") /\ UNCHANGED queryVars
    ELSE /\ sameDiffTimes' = [sameDiffTimes EXCEPT ![b] = @ + 1]
         /\ GoTo(b, "queryWait")
         /\ UNCHANGED lastDiff

Compare(b) ==
    /\ Running(b) /\ step[b] = "query"
    /\ ~ctxDone
    /\ IF Result(b) = expectationsPerBackend[b]
       THEN GoTo(b, "passed") /\ UNCHANGED queryVars
       ELSE IF Result(b) = <<>>
       THEN GoTo(b, "queryWait") /\ UNCHANGED queryVars
       ELSE CountDiff(b)
    /\ UNCHANGED <<phase, recordVars, backendVars, ctxDone>>

(* The query itself fails, as it always does when the context is done. *)
QueryFails(b) ==
    /\ Running(b) /\ step[b] = "query"
    /\ GoTo(b, "queryWait")
    /\ UNCHANGED <<phase, recordVars, backendVars, queryVars, ctxDone>>

(* 10 seconds later: scrapes are over by now and stored samples show after *)
(* at most MaxLag ticks.                                                   *)
Tick(b) ==
    /\ Running(b) /\ step[b] \in {"ingestWait", "queryWait"}
    /\ reply[b] = NoReply
    /\ shown[b] < Len(store[b]) => lag[b] < MaxLag
    /\ lag' = [lag EXCEPT ![b] = IF shown[b] < Len(store[b]) THEN @ + 1 ELSE 0]
    /\ GoTo(b, IF step[b] = "ingestWait" THEN "ingest" ELSE "query")
    /\ UNCHANGED <<phase, recordVars, i, reply, store, shown, lost, queryVars, ctxDone>>

StopsIngesting(b) == step[b] = "ingestWait"
Stops(b) == step[b] \in {"ingestWait", "queryWait"}

(* The retries stop with the last error. *)
GiveUp(b) ==
    /\ Running(b) /\ Stops(b)
    /\ ctxDone
    /\ GoTo(b, "failed")
    /\ UNCHANGED <<phase, recordVars, backendVars, queryVars, ctxDone>>

(* The deadline of the test's context. *)
CtxDone ==
    /\ phase = "running" /\ ~ctxDone
    /\ ctxDone' = TRUE
    /\ UNCHANGED <<phase, recordVars, step, backendVars, queryVars>>

Record ==
    \/ \E t \in Jumps : SetCurrentTime(t)
    \/ \E b \in Backends : RegisterBackends(b)
    \/ \E after \in Afters, bs \in SUBSET Backends : RecordScrape(after, bs)
    \/ Run

Scrape(b) == Gather(b) \/ Ingest(b) \/ LoseReply(b) \/ Show(b)

Subtest(b) ==
    StartIngest(b) \/ PollIngest(b) \/ Compare(b) \/ QueryFails(b) \/ Tick(b) \/ GiveUp(b)

Next == Record \/ CtxDone \/ \E b \in Backends : Scrape(b) \/ Subtest(b)

Spec == Init /\ [][Next]_vars

(* The test runs with a deadline, as README.md has it; the select of the   *)
(* retries does not ignore it for ever.                                    *)
FairSpec ==
    /\ Spec
    /\ WF_vars(CtxDone)
    /\ \A b \in Backends :
        WF_vars(Scrape(b)) /\ WF_vars(Subtest(b)) /\ SF_vars(GiveUp(b))

----------------------------------------------------------------------------
(* Properties *)

Samples == [timestamp : Int, value : 1..MaxScrapes]

TypeOK ==
    /\ phase \in {"recording", "running", "fatal"}
    /\ {currentTime, minTime, maxTime} \subseteq Int
    /\ registered \subseteq Backends
    /\ scrapeRecordings \in Seq(Seq(Samples)) /\ Len(scrapeRecordings) <= MaxScrapes
    /\ \A r \in Range(scrapeRecordings) : Len(r) <= 1
    /\ expectationsPerBackend \in [Backends -> Seq(Samples)]
    /\ step \in [Backends -> Steps]
    /\ i \in [Backends -> 0..Len(scrapeRecordings)]
    /\ reply \in [Backends -> {NoReply} \cup {<<r>> : r \in Range(scrapeRecordings)}]
    /\ store \in [Backends -> Seq(Samples)]
    /\ shown \in [Backends -> Nat] /\ \A b \in Backends : shown[b] <= Len(store[b])
    /\ lag \in [Backends -> 0..MaxLag]
    /\ lost \in [Backends -> 0..MaxLost]
    /\ DOMAIN lastDiff = Backends
    /\ sameDiffTimes \in [Backends -> 0..4]
    /\ ctxDone \in BOOLEAN

(* Whatever order the test records its scrapes in and sets the time to, a  *)
(* test that runs has them all within the 10 hours that end at the time of *)
(* the query (the checks of RecordScrape).                                 *)
RecordingsAreQueried ==
    phase = "running" =>
        \A r \in Range(scrapeRecordings) : \A s \in Range(r) :
            s.timestamp \in (maxTime - QueryRange)..maxTime

(* The recordings that the samples are those of, if they are those of all. *)
Places(samples) ==
    {at \in [DOMAIN samples -> DOMAIN scrapeRecordings] :
        /\ \A m, n \in DOMAIN samples : m < n => at[m] < at[n]
        /\ \A n \in DOMAIN samples : scrapeRecordings[at[n]] = << samples[n] >>
        /\ \A k \in DOMAIN scrapeRecordings :
            scrapeRecordings[k] # <<>> => \E n \in DOMAIN samples : at[n] = k}

(* The test expects of b what it recorded, which b may take for what it is. *)
Faithful(b) ==
    LET expected == expectationsPerBackend[b]
    IN /\ Places(expected) # {}
       /\ \A m, n \in DOMAIN expected : m < n => expected[m].timestamp < expected[n].timestamp
       /\ \A n \in DOMAIN expected : InRangeOf(b, maxTime, expected[n].timestamp)

(* A backend that got every reply and shows a sample at the latest four    *)
(* ticks after it stored it is not failed before the deadline, when the    *)
(* test expects what it recorded, in order of time.                        *)
FailureHasACause ==
    \A b \in Backends :
        step[b] = "failed" /\ Faithful(b) => ctxDone \/ lost[b] > 0

(* A backend that passes was served each recording, and the query, of what *)
(* the backend had ingested first, returned what the test expects of it.   *)
PassMeansIngested ==
    \A b \in Backends :
        step[b] = "passed" =>
            /\ i[b] = Len(scrapeRecordings)
            /\ \/ expectationsPerBackend[b] = <<>>
               \/ \E n \in 0..Len(store[b]) : ResultAt(b, n) = expectationsPerBackend[b]

(* Once the test runs, the subtest of each backend comes to an end. *)
EveryBackendConcludes ==
    phase = "running" ~> \A b \in registered : step[b] \in Concluded

----------------------------------------------------------------------------
(* What every step keeps and the properties follow from. *)

(* The recordings are between minTime and maxTime, which are no further    *)
(* apart than the range of the query.                                      *)
TimesBound ==
    /\ IF scrapeRecordings = <<>> THEN minTime = Unset /\ maxTime = Unset
       ELSE Unset < minTime /\ minTime <= maxTime /\ maxTime <= minTime + QueryRange
    /\ \A k \in DOMAIN scrapeRecordings : \A s \in Range(scrapeRecordings[k]) :
        s.timestamp \in minTime..maxTime

(* Nothing happens at a backend before the test runs. *)
NothingYet ==
    \A b \in Backends : ~Running(b) =>
        step[b] = "start" /\ i[b] = 0 /\ reply[b] = NoReply /\ store[b] = <<>> /\ lastDiff[b] = NoDiff

(* A backend has samples of the recordings it was served, each later than  *)
(* the one before; it is queried when it was served all of them.           *)
StoredWasServed ==
    \A b \in Backends :
        /\ step[b] \in {"query", "queryWait", "passed"} => i[b] = Len(scrapeRecordings)
        /\ reply[b] # NoReply => i[b] > 0 /\ reply[b] = << scrapeRecordings[i[b]] >>
        /\ \A n \in DOMAIN store[b] : \E k \in 1..i[b] : store[b][n] \in Range(scrapeRecordings[k])
        /\ \A m, n \in DOMAIN store[b] : m < n => store[b][m].timestamp < store[b][n].timestamp

(* What the results are compared with was a result itself. *)
LastDiffWasShown ==
    \A b \in Backends :
        /\ lastDiff[b] = NoDiff \/ \E n \in 0..shown[b] : lastDiff[b] = ResultAt(b, n)
        /\ step[b] \in {"start", "ingest", "ingestWait"} => lastDiff[b] = NoDiff

(* What got every reply and may take it has stored, in order, the expected *)
(* samples of the recordings that it was served, but for the last of them  *)
(* when that is under way.                                                 *)
StoredInFull ==
    \A b \in Backends : Faithful(b) /\ lost[b] = 0 =>
        LET expected == expectationsPerBackend[b]
        IN /\ Len(store[b]) <= Len(expected)
           /\ \A n \in DOMAIN store[b] : store[b][n] = expected[n]
           /\ \A at \in Places(expected) : \A n \in DOMAIN expected :
                at[n] <= i[b] - Len(reply[b]) <=> n <= Len(store[b])

(* A result that repeats lacks samples which have been stored, and a tick  *)
(* has passed for each repetition.                                         *)
DiffsLag ==
    \A b \in Backends :
        Faithful(b) /\ lost[b] = 0 /\ lastDiff[b] # NoDiff /\ lastDiff[b] = Result(b) =>
            /\ shown[b] < Len(expectationsPerBackend[b])
            /\ step[b] = "queryWait" => lag[b] >= sameDiffTimes[b]
            /\ step[b] = "query" => lag[b] > sameDiffTimes[b]

IInv ==
    /\ TypeOK /\ TimesBound /\ NothingYet /\ StoredWasServed /\ LastDiffWasShown
    /\ PassMeansIngested /\ StoredInFull /\ DiffsLag
    /\ MaxLag <= 4 => FailureHasACause
=============================================================================
