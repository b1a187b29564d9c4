# A TLA+ model of the Prometheus compliance tests

This directory models the test programs of the repository: the alert generator test
suite (`src/alert_generator`), whose verdict depends most on concurrency and time; the
parallel PromQL tester (`src/promql`); the end-to-end PromQL tests (`src/promqle2e`); and
the tests of remote write senders (`src/remotewrite/sender`). It says what a verdict of
each promises, checks that with TLC on small instances, and proves with TLAPS what does
not depend on the data of an instance.

Contents: [the system](#the-system), [the modules](#the-modules),
[the runs](#the-runs), [fairness](#fairness), [the proofs](#the-proofs),
[what the code does otherwise](#what-the-code-does-otherwise),
[what is not modelled](#what-is-not-modelled), [plan](#plan).

To check: `tlc -config <run>.cfg <MC module>.tla` for a run of the table below,
`tlapm <module>.tla` for the proofs in `TestSuiteProofs`, `RemoteWriterProofs`,
`AlertReceptionProofs`, `SequenceLemmas`, `ExpansionProofs`, `QueryPoolProofs`,
`ScrapeReplayProofs` and `SenderTestsProofs`.

## The system

The repository holds independent test programs for implementations of Prometheus
interfaces. They share no state and no code.

### Alert generator test suite

One process, `cmd/alert_generator_compliance_tester`. It remote-writes samples to
the software under test, which evaluates the rules of the test cases over them and
sends alerts; it polls three APIs of that software and receives the alerts, and
compares what it sees with what each case says is possible at that time.

| component | state | operations | correct when |
|---|---|---|---|
| run-time, `testsuite.go`, `main.go` | `ruleGroupTests`, `ruleGroupTestErrors` (under `ruleGroupTestsMtx`), `stopc`; main's `interrupted` | `Start`, four loops (`checkAlertsLoop`, `checkRulesLoop`, `checkMetricsLoop`, `monitorAlertReception`), `removeGroups`, `Stop`, `Wait`, `Error`, `WasTestSuccessful` | each group is concluded once, never too early; "passed" only for a complete run without errors; the run ends |
| remote writer, `remote_write.go` | `allSamples`, `errc` (one error), `stopc`, `timesWritten` | `AddTimeSeries`, `Start` and its goroutine, `remoteWrite` with retries, `Error`, `Stop`, `Wait` | timestamps are written whole, in order, in time; what is lost is reported; it ends |
| alert server, `server.go` | `expectedAlerts` (under `expectedAlertsMtx`, but see below), `errs` (under `errsMtx`, in part) | `ServeHTTP`, `getPossibleAlert`, `addExpectedAlerts`, `missedAlertCleanup` (its own goroutine), `groupsFacingErrors`, `expectedAlertsError` | a compliant sender is never reported, a faulty one is |
| expected alerts, `cases/expected_alert.go` | none | `Matches`, `CanBeIgnored`, `ShouldBeIgnored` | windows meet at their edges |
| test cases, `cases/case_*.go`, `cases/utils.go` | `zeroTime` | samples, `CheckAlerts`, `CheckRuleGroup`, `CheckMetrics`, `ExpectedAlerts` | every phase of evaluation is covered |
| HTTP and parsing, `utils.go`, `alert_message_parsers.go`, `config/` | none | `DoGetRequest`, the parsers | |

How they interact: `main` calls `Start`, which starts the server's two goroutines,
the writer's goroutine, waits for the first write, initialises the cases, hands
their expected alerts to the server, and starts the loops. The loops and requests
share the server's errors and the groups under test. The first goroutine that finds
no group left calls `Stop`, which closes `stopc`, the server and the writer. `main`
waits for the server, the writer and the loops, in that order, and then reads the
errors and the verdict.

What is hard: four loops that decide about the same group from different clocks;
clocks that are read before a request and used after it; `Stop` called by several
goroutines; an error channel of capacity one that nobody drains while the writer
runs; a server that is closed while it still serves a request; a clean-up that
does not take the mutex; windows of time, all open intervals, that have to fit
whatever the phase of evaluations; and resends that drift.

### PromQL compliance tester (`src/promql`)

One process, `cmd/promql-compliance-tester`. It expands the query templates of a
configuration, runs each query against a reference API and the API under test, and
compares the answers as the vendor's query tweaks say.

| component | state | operations | correct when |
|---|---|---|---|
| parallel tester, `main.go` | `workCh` (room for `query-parallelism` tokens), the wait group, `results`, `allSuccess` | the loop that starts goroutines, the goroutine, the output | no more comparisons at a time than allowed; results are printed when all are there, with a status that sums them up |
| comparison, `comparer/comparer.go` | none | `Compare`: two queries under one deadline of 10 s, the decisions in their order, tolerances, transformers | a target passes iff it deviates only as its tweaks excuse |
| expansion, `testcases/expand.go` | none | `getVariants`, `ExpandTestCases`, the tweaks of the time range | every combination of arguments once |
| configuration and output | none | | |

`main` puts a token into the channel before it starts a goroutine, and the goroutine takes
one out when it is done. A comparison error ends the process from within a goroutine.

Hard: the order in which a goroutine stores, marks, gives its token back and is done;
`log.Fatalf` and a panic while others run; a deadline that the second query inherits from
the first; tweaks that change both answers.

### PromQL end to end (`src/promqle2e`)

A Go library for tests. A test records scrapes of a registry with times of its choice and
what it expects of each backend; `Run` starts a subtest per backend, which serves the
recordings to its scrapes and retries the query `<metric>[10h]` until it returns the
expected samples.

| component | state | operations | correct when |
|---|---|---|---|
| the test, `promqle2e.go` | `currentTime`, `minTime`, `maxTime`, `scrapeRecordings`, `expectationsPerBackend` | `SetCurrentTime`, `RecordScrape`, `Expect`, `RegisterBackends`, `Run` | what is recorded can be queried |
| replay, `recordedGatherer` | `i`, the next recording | `Gather`, `IngestSamples` | each recording is served once |
| the subtest | `lastDiff`, `sameDiffTimes`, the context | the two retry loops | a backend that is right is not failed, one that passes has ingested the samples; it ends |
| backends, `prometheus.go` | containers | start, `API`, `CollectionLabels` | |

Hard: the replayer moves on whether or not the backend got the reply; a result that is not
final yet is compared; times that go backwards; two retry loops that only the context ends.

### Remote write sender (`src/remotewrite/sender`)

Go tests that run in parallel in one process. Each downloads the sender unless its file
is there, runs it against its own mock scrape target and mock receiver, interrupts it
when its time is up, and judges the requests the receiver recorded.

| component | state | operations | correct when |
|---|---|---|---|
| targets, `targets/common.go` | the file, `downloadMtx`, the process of the target and the goroutine that interrupts it | `downloadBinary`, `extractTarGz`, `runCommand` | only whole binaries run; tests do not spoil each other; every test ends |
| mock receiver, `helpers_test.go` | `requests`, `response` (under a mutex) | `handleRequest`, `GetRequests`, `Close` | what was answered is among what is judged |
| scenarios, `*_test.go` | versions seen, counts | a validator each | a sender that does wrong fails |

Hard: parallel tests share a file that may be left unfinished by a failure or a kill; a
target that exits by itself; requests that overlap, do not decode, or are lost with their
target; a count that is read after it was changed.

### Remote write receiver (`src/remotewrite/receiver`) and OpenMetrics (`src/openmetrics`)

The receiver tests send one request and look at one answer. OpenMetrics is a README only.

## The modules

| module | models | state and actions |
|---|---|---|
| `ConformanceRun` | what a run of the alert generator suite promises, whoever carries it out | `ended`, `status`, `verdict`: groups end, are concluded, a verdict is declared |
| `TestSuite` | `testsuite.go` and `main.go` | one action per step between two points where another goroutine can interleave: reading the clock (`SelectTimer`), the answer and the pass over the groups under `RLock` (`Check`, `CheckReception`), `RemoveGroups` under `Lock`, the steps of `Stop`, of `main`, and what the server and the writer do as the suite sees them |
| `TestSuiteProofs` | | the theorems about `TestSuite` |
| `SampleDelivery` | what a remote writer promises to whoever queries the storage | `log`, `stopped`, `outcome`: whole timestamps are written in order, a writer is stopped, is said to have written everything or to have failed |
| `RemoteWriter` | `remote_write.go` | the goroutine's loop: `TakeBatch`, `TrySucceeds`, `TryFails`, `Retry`, `SendError`; the caller: `StartPolls`, `StartReturns`, `Stop`, `Wait`, `Error`. Time in half seconds |
| `RemoteWriterProofs` | | the theorems about `RemoteWriter` |
| `CaseUtils` | `cases/utils.go`, `cases/interface.go` | operators: `sampleSlice`, `between`, the three checks. Time in quarters of a second |
| `ExpectedAlert` | `cases/expected_alert.go` | operators: `Matches`, `CanBeIgnored`, `ShouldBeIgnored`, the series of expectations of one alert |
| `PendingFiringResolved`, `PendingResolvedAlwaysInactive`, `ZeroForSmallFor`, `NewAlertsOrderCheck` | the four test cases | operators: the samples, the possible states, the expected answers and alerts, each as in the code |
| `AlertServer` | `server.go` | `ReceiveRequest`, `Reject`, `Lock`, `ServeAlert` (one alert of the request), `Unlock`; the clean-up reads (`CleanupReads`) and writes (`CleanupWrites`) each list in two steps, because nothing keeps a request out |
| `AlertReception` | one test case end to end | composes `AlertServer` with a clock and a generator of several label sets. The generator is external: `EvaluateCompliantly` does what the cases expect of a compliant one, with its freedom in the phase of evaluations, in when it sends again, and in how long a POST takes; `LoseAlert`, `SendEarly`, `FireEarly`, `SendWrongAnnotations`, `SendUnparsable` and `EvaluateInWrongOrder` are the faults |
| `AlertReceptionProofs` | | the theorems about `AlertReception` and the server in it |
| `ComparisonRun` | what a run of the PromQL tester promises | `running`, `outcome`, `verdict`: tests begin and end, no more than `Parallelism` at a time, a verdict sums them up or a test aborts the run |
| `QueryPool` | `promql-compliance-tester/main.go` | main's loop (`Start`) and `Output`; a goroutine's `QueryReference`, `QueryTest`, `Store`, `Mark`, `Release`, `Done`, and `Die`, which ends the process |
| `Comparer` | `comparer.go` | operators: `Compare` and what it is made of. An answer is a latency, an error or a matrix |
| `TestCaseExpansion` | `expand.go` | operators: `getVariants`, whose recursion is a function of the level, `ExpandTestCases`, and what they are to return (`Combinations`) |
| `SequenceLemmas` | | what the proofs need of recursive functions, folds and sequences |
| `ExpansionProofs` | | the theorems about `TestCaseExpansion` |
| `QueryPoolProofs` | | the theorems about `QueryPool` |
| `ScrapeReplay` | `promqle2e.go` | recording (`SetCurrentTime`, `RegisterBackends`, `RecordScrape`, `Run`); the backend (`Gather`, `Ingest`, `LoseReply`, `Show`); the subtest (`PollIngest`, `Compare`, `QueryFails`, `Tick`, `GiveUp`) |
| `ScrapeReplayProofs` | | the theorems about `ScrapeReplay` |
| `SenderTests` | `targets/common.go`, `main_test.go`, `helpers_test.go`, `fallback_test.go` | `downloadBinary` (`Lock`, `Look`, `Fetch`, `Extract`, `Copy`, `Chmod`), `runCommand` (`Launch`, `Wait`, `Interrupt`, `Exit`), the receiver's handlers (`RecordVersion`, `Capture`, `Answer`, `Lose`), the verdict (`Validate`, `Close`), and `Rerun` after the process died at any step |
| `SenderTestsProofs` | | the theorems about `SenderTests` |
| `MCTestSuite`, `MCRemoteWriter`, `MCAlertReception`, `MCQueryPool`, `MCScrapeReplay`, `MCSenderTests` | | constants of the instances |

Where the models cut the code:

- In `TestSuite` the clock is the set of groups whose `TestUntil()` is past, and what a
  check of a group decides is a choice. The server and the writer appear by what the
  suite can see; their modules show the inside.
- `Stop`, `Wait` and the verdict are split wherever two goroutines can meet:
  `Stop` looks at `stopc`, closes it, closes the server, closes the writer. A second
  close of `stopc` sets `panicked`, which ends the process.
- In `AlertReception` the actions happen at the next event of the clock and the server
  finishes a request before the clock goes on: it is fast compared with a quarter of a
  second. The generator has one POST in flight at a time. Only `CleanupOverlaps` lets a
  request be served during a clean-up. So two requests never compete for
  `expectedAlertsMtx`, and the time that `ServeHTTP` reads (`server.go:94`) is never older
  than the lists it is used on: neither is exercised here.
- The alerts of `AlertServer` belong to one rule group, so `errs` is three sets.
  An append to them is atomic, which the code does not guarantee.
- A label set, an annotation or a value is a model value or the value that the template
  prints.
- In `QueryPool` the pair of answers to a query is chosen at the first of the two
  queries, and the second is judged with what the first left of the deadline. What the
  target returns is the reference's matrix with a set of deviations.
- In `ScrapeReplay` the test has one metric, times are in hours and a tick is the 10
  seconds between two retries. A scrape and a query take less than a tick.
- In `SenderTests` what a validator of a scenario says is a choice, and a request is a
  version and whether it decodes. Handlers are split at the locks they take. A launch may
  fail by a fault (`CannotLaunch`): the configuration, the directory and the output of a
  target are files that have to be created first.

Several definitions have a second form right before them, such as `StillUnderTest` and
`RemovedOrNot`: a plausible mistake, used to see that the property named for it in
`PROJECT.json` notices it.

## The runs

All bounds are in the `.cfg` files. "States" is the number of distinct ones.

| run | question | instance | states |
|---|---|---|---|
| `TestSuiteLoops` | concluded once, never early, complete and quiet verdict, `IInv`, refinement of `ConformanceRun` | two groups, two pollers, two write errors, one SIGINT | 2 250 000 |
| `TestSuiteEnds` | a run ends when time passes; if pending GETs end, also without that, when all groups are concluded or by a SIGINT | one group, a poller and the reception loop, one SIGINT | 257 000 |
| `RemoteWriterTries` | order, delivery in time, the third try, reported gaps, `IInv`, refinement of `SampleDelivery`, and that the writer ends | two series of 2 and 3 samples, one build error, one failed batch | 97 000 |
| `AlertReceptionCases` | a compliant generator is not failed by the reception or by the API checks; a fault is reported; an expected alert is dropped for a reason only; `IInv` | all four cases in full, four phases of evaluations, POSTs of 1/4 s and 4 1/2 s, two ways to send again, seven kinds of fault at any evaluation; samples that arrive at once or 10 s late; the API is polled every second and answers up to 5 s later | 244 000 |
| `QueryPool` | bounded parallelism, complete verdict, a verdict about the target alone, every variant once, `IInv`, refinement of `ComparisonRun`, termination | two tokens; a template with two varied arguments; one with every kind of test case; one query under each vendor's tweaks with up to two of six deviations | 23 000 |
| `ScrapeReplay` | what is recorded is queried, a failure has a cause, a pass means ingested, `IInv`, the subtest ends | three scrapes, forwards and backwards, up to the 10 h; a Prometheus 3; one lost reply; samples that show up to four ticks late | 691 000 |
| `SenderTests` | whole binaries, safe launches, fatal only after an early exit, no verdict about an older state than what was answered, a change of version is reported, `IInv`, tests end if downloads return and targets exit | a scenario and a test of no fallback in parallel, two requests of either or both, one fault, a second run (without requests) after a kill at any step | 364 000 |

Why the bounds are enough: the races of `TestSuite` are between two loops, or a loop
and main, about one group; two groups distinguish "a group is left" from "none is
left", and a third adds no new guard. One SIGINT reaches every place where one is
received. Errors of the writer matter up to the second, which fills the channel. For
`RemoteWriter`, two series of different length give timestamps with two samples and
with one. For the cases nothing is scaled down: samples, windows, tolerances and the
test's length are the code's. The phases are the first instants after a sample, the
last ones before the next, and between; they matter up to the evaluation interval.
A quarter of a second is less than all margins (the smallest is 1 s), and lets events
fall strictly inside the open intervals. Samples arrive at once or 10 s late, the longest
that `interface.go:39` allows, and the API answers up to `MaxRTT` (`interface.go:15`) after
the suite read its clock, so a group may be evaluated between the two.

`QueryPool` has tests that wait for a token, hold one and are done at once: four tests
against two tokens. Every tweak of the vendors' configurations occurs, alone or in the
combination that a vendor uses, and each deviation is tried where it is excused and where
it is not. In `ScrapeReplay` three recordings give a first, a middle and a last one to
lose, and two that are the range apart with one between; the lag is the longest the retry
counts allow (one more makes `FailureHasACause` false, as it should). In `SenderTests`
two tests are enough to contend for the mutex; one fault or one kill reaches every step
of the download or the launch; two requests can overlap in each order, and the second run,
which is there for the file that the first left, needs none.

The runs marked `violation` in `PROJECT.json` are described
[below](#what-the-code-does-otherwise).

Deadlock is checked where the system should always have a step.
`TestSuiteLoops`, `TestSuiteTwoWriteErrors` and `RemoteWriterTries` do not check it: with
two errors the suite really may hang. `QueryPool`, `ScrapeReplay` and the runs of
`SenderTests` do not because the process ends; their liveness properties say that it does.

Limits that the checks made visible and that are by design of the code: a resolved
alert whose first send is lost is not reported when the next send comes within twice
the group interval, which the expectation of a first resolved alert tolerates
(`FaultKinds` has `loseResolved`, and no run includes it); a resend that is lost
within 40 s of a change of the alert may be missed by a compliant generator too
(`MayBeMissed`); a fault in the last two minutes of a case has no time to show (the
guard `MayCommit`).

## Fairness

`TestSuite`: safety runs use `Spec`. `PromptSpec` adds that the Go scheduler runs every
goroutine that can run (weak fairness of each loop, of each goroutine in `Stop`, of the
writer and of main) and that a loop which waits in `select` on a closed `stopc` takes it
in the end: that case stays ready while the timer's comes and goes, and when both are
ready Go chooses at random, hence strong fairness of `SelectStop`. It is fair to a loop's
own steps only (`OwnStep`), so a loop may stay in a GET for ever: `DoGetRequest` has no
timeout (`utils.go:43`), and `Wait` waits for the loop. What ends a GET is therefore a
hypothesis of each property. `StopsWhenAllConcluded` and `InterruptStops` assume that each
pending GET ends, with an answer or a failure (`RequestsEnd`, weak fairness of
`RequestEnds`); without it neither holds, and not even a SIGINT ends the program. `RunEnds`
assumes that time passes, that each polling loop gets an answer now and then (`TimePasses`,
strong fairness of `Check`), and that some batch of the writer could be built and was tried
(`<>written`): otherwise `RemoteWriter.Start` spins for ever. There is no fairness for
arriving alerts, failing writes or SIGINTs.

`RemoteWriter`: weak fairness of the goroutine and of the caller, none for `Stop`.

`QueryPool`: weak fairness of `Next`. A goroutine that can run does, and the 10 s
of the context end every query.

`ScrapeReplay`: the test runs with a deadline, as its README shows, hence weak fairness of
`CtxDone`; the backend scrapes (weak fairness of `Scrape`); the retries go on (weak
fairness of `Subtest`); and the `select` that waits for the tick or the end of the context
does not ignore the context for ever (strong fairness of `GiveUp`). That a query fails is
never assumed or excluded.

`SenderTests`: a test that waits for the mutex gets it in the end although others take it
in between (strong fairness of `Lock`); every step, timer and handler goes on (weak
fairness), but for two that are not the code's to guarantee and are hypotheses of
`EveryTestEnds`: `http.Get` has no timeout (`common.go:126`) and is called with
`downloadMtx` held, so a download that stalls makes all tests wait (`DownloadsReturn`); and
`Wait` has no limit, so a target that ignores SIGINT hangs its test (`TargetsExit`). Nothing
makes a target send, exit early or fail, and nobody has to run the tests again.

## The proofs

Every theorem holds for all values of the constants. The assumptions on them are named
in the modules and evaluated by TLC in the runs. `SequenceLemmas` and `ExpansionProofs` are about operators;
each other module of proofs is about a specification with an inductive invariant `IInv`, a conjunction of named parts that begins with its types; a run checks it, the
theorem `InductiveInvariant` of its proofs says that it always holds, and the properties
follow from it. Under each lemma there is one step per action and one per conjunct that
the action can disturb.

### `TestSuiteProofs`

For any sets of groups, labels and pollers and any bounds (`GroupsAssumption`,
`LoopsAssumption`: `validateOpts` refuses a run without a loop; `BoundsAssumption`):

- `TypeCorrect`, `InductiveInvariant`: `TypeOK` and `IInv` always hold;
- `GroupsConcludedOnce`, `NoEarlyPass`, `CompletePass`, `QuietVerdict`: the four safety
  properties of `TestSuiteLoops`;
- `SuiteImplementsRun`: `TestSuite` implements `ConformanceRun` under the mapping at the
  end of `TestSuite`.

The argument. No group passes early because what a loop carries from its clock to
`removeGroups` was true when the clock was read and stays true (`ClocksAreInThePast`).
"Passed" means complete because `main` gets there only after `stopc` was closed, and
`stopc` is closed only by a goroutine in `Stop`, which has seen no group left or has
set `interrupted` first (`StopHasAReason`). The verdict is quiet because each `Wait`
leaves a fact that no later step undoes (`MainHasWaited`): the loops are done, a
stopper that closed `stopc` also closes the writer before it is done, and main waited
for it. None of the three is a consequence of the properties themselves: without
them a state with a loop about to remove a group whose time is not over, or with
`main` past `Wait` and a loop in `Check`, satisfies every property and leads to one
that does not.

### `RemoteWriterProofs`

For any finite set of series, of any lengths, and any number of failures
(`SeriesAssumption`: there is a series; `SamplesAssumption`: each has a sample;
`ErrorsAssumption`), and whichever order the sort leaves the samples of one timestamp in:

- `InductiveInvariant`;
- `TimestampsInOrder`, `OneTimestampARequest`, `SamplesComeInTime`,
  `ThirdTryNeverIngests`, `GapsAreReported`: the safety properties of `RemoteWriterTries`,
  and of `IInv` the one that a request holds just the samples of one timestamp;
- `WriterDelivers`: `RemoteWriter` implements `SampleDelivery` under the mapping at the end
  of `RemoteWriter`.

The argument. What was taken of the sorted samples ends where a timestamp ends
(`TakenToTheEnd`), so the batch under way is all the samples of one timestamp
(`BatchIsLast`) and is later than what the storage has (`NothingIsLater`). A batch with
all its tries and waits lasts at most 4 s, and timestamps are 15 s apart, so the timer of
the next one never fires late (`ClockFollows`: the clock is at the timestamp plus what
was spent on the batch); that is why nothing that fails adds up. The third try comes when
two waits have used up the 2 s of the batch's context, by the same conjunct. A sample that
was taken and not ingested belongs to the batch under way or has left an error, in the
channel or in what `Error()` returned (`GapsAreKnown`).

For the refinement only three steps are more than a stutter: a try that the storage
ingests writes the timestamp of the batch, which is not earlier than any before
(`IngestWrites`; the same timestamp again when the answer to a try was an error though the
storage had ingested it); `Stop`; and `Error()`, which is nil only when nothing is missing
or the writer was stopped (`NothingIsMissing`, from `GapsAreKnown`). It comes after
`Wait()`, when the goroutine is gone, so nothing is written later.

### `AlertReceptionProofs`

For any test cases, label sets, generators and number of handlers (`PhasesAssumption`,
`DelaysAssumption`, `FaultsAssumption`, `ChoicesAssumption`, `HandlersAssumption`;
`CaseAlertsAssumption`: a case numbers its expected alerts in order, as `addAlert` does):

- `InductiveInvariant`;
- `OnlyOverlapsLoseUpdates`: unless a request is served during a clean-up, what the
  clean-up writes back is what the list holds, less what is late. The run
  `AlertReceptionCleanupRace` shows what happens otherwise;
- `IgnorableIsNeverMissed`: whatever is received, and even when requests and clean-ups
  overlap, no expected alert that `CanBeIgnored` is counted as missed;
- `ListsStayInOrder`: unless a request is served during a clean-up, `ListsInOrder` holds: a
  list has no alert twice and is sorted, whatever requests take out of it and put back. No
  run checks `ListsInOrder` by itself: `ListsAscend` of `IInv` says it;
- `AlertsAreAccountedFor`: the server stops waiting for an expected alert only when it
  should be ignored, is received, is over, or is overtaken by a later one; an alert that is
  over or overtaken is then reported as missed, unless it may be missing or follows a resend
  that may (`AlertsLeaveForAReason`). What is reported stays reported, also while requests
  and clean-ups overlap.

The argument. The clock moves when the server rests, so whoever works does it at the
time it read (`ClockStands`), and without `CleanupOverlaps` a request and a clean-up begin
only when the other is over, the first conjunct of `NoUpdateIsLost`, without which the
second is not inductive. An alert becomes missed in three places of `server.go`, and each
of them asks `CanBeIgnored`, also about alerts that a handler holds while it serves.

`ListsInOrder` alone is not inductive: a request could put back an alert whose number is
in the list again. `TakenOutApart` says that what a handler holds is in no list and not
twice among what it holds, because `getPossibleAlert` splits a list in two, and
`ListsAscend` that the lists are sorted without repetitions and each has the alerts of its
own label set. Both need that nobody else writes the lists meanwhile: of two handlers one
serves (`ServersExclude`; as one POST is in flight at a time, this is a step of the proof and
no result about the mutex), and no clean-up is under way (`NoUpdateIsLost`). That a part of
a sorted list is sorted (`OnlyAscends`) and that putting alerts back one by one sorts them
in (`InsertedAscends`, `AddedAscend`) are inductions over a list and over a set.

For `AlertsAreAccountedFor`, `getPossibleAlert` splits each list into what is late, what it
returns and the rest (`PossibleTakenOut`), and of what it returns to a request that matches,
the alerts before the match are overtaken and those after it are put back
(`MatchedOrMissed`). A clean-up reads a list in one step and writes it in the next, and
adds to the missed ones last: `ReportsAreHeld` says that meanwhile it knows of all that its
write will drop, and that who does not work holds nothing that was to be reported.

### `SequenceLemmas`

The library's theorems of induction take an operator as a parameter, which the provers
cannot instantiate. Induction comes from its theorem that a set of naturals has a least
element (`WFMin`), which takes none (`LeastExists`, `Induction`). With it a function that
takes a step at each n exists (`IterationExists`), so a recursive definition satisfies its
equation, and its values stay in the sets that no step leaves (`IterationStays`); the same
for a fold that takes the elements of a finite set one by one (`FoldExists`, `FoldStays`),
which is how `FoldSet` is defined. `FlattenSeqHolds` says what a flattened sequence holds:
what the sequences in it hold, and nothing twice if they are separate.

### `ExpansionProofs`

For any table of arguments in which an argument has values and has each of them once
(`VariantArgsAssumption`, which `expand.go:46` meets), any templates, tweaks and times:

- `VariantsAreAll`: `getVariants` returns every combination of the values of the
  arguments, and each once, however often an argument is named;
- `EveryCombinationIsExpanded`: `ExpandTestCases` makes of each template one test case per
  combination, and no other.

The argument. Everything here is a recursive function, the `FlattenSeq` of the community
modules included, and the inductions are those of `SequenceLemmas`.
`Unrepeated` keeps each name once (`UnrepeatedNames`); assigning a value to one more
argument is one to one and reaches every longer combination (`AssignedIsOneToOne`,
`CombinationsAreAssigned`), so a level of the recursion takes all combinations of some
arguments to all of one more (`VaryIsAll`).

### `QueryPoolProofs`

For any suites, answers and tweaks, and any parallelism, 0 included
(`ParallelismAssumption`, `SuitesAssumption`, `AnswersAssumption`, and for
`VerdictsAreAboutTheTarget` alone `DeviationsAssumption`):

- `InductiveInvariant`, `TypesAreRight`: `IInv` and `TypeOK` always hold, so the channel
  never has more tokens than room and the wait group never drops below zero;
- `ParallelismIsBounded`: no more than `Parallelism` comparisons run;
- `VerdictsAreComplete`: results are printed when every goroutine is done, and the
  status is 0 iff all succeeded;
- `VerdictsAreAboutTheAnswers`: the status is 0 iff every query was answered, in its time,
  as its test case expects, whatever the order of the goroutines. It speaks of any answers;
  no run checks it by itself, but the next, which follows from it, one does;
- `VerdictsAreAboutTheTarget`: the status is 0 iff each answer came in time and deviates from
  that of the reference by nothing but what the tweaks of the configuration are there for,
  for matrices of any size, any tweaks, and every set of the six deviations;
- `VariantsAreTested`: when the process ends by itself each template has been compared
  with every combination of the values of its arguments, and once with each. The tests of
  a suite are what `ExpandTestCases` makes of its cases (`SuitesAssumption`), so this is
  `EveryCombinationIsExpanded` and that a verdict is complete;
- `PoolImplementsRun`: `QueryPool` implements `ComparisonRun`.

The argument. The channel and the wait group are counters; that they count something is
the invariant: `workCh` the goroutines that hold a token, `wg` those that are not done.
`allSuccess` sums up the results that have been marked, and a goroutine is done only
after it has marked its result, so when `wg` is 0 it sums up all. A result is that of the
goroutine's own query (`ResultsAreOwn`). The cardinalities move by one with each step
(`CountMoves`), by the theorems about finite sets; the tests started are an initial
segment, which is why none is still "off" at the end.

`VerdictsAreAboutTheTarget` is about the operators of `Comparer`. `DeviationsAssumption`
says what the reference returns and what a deviation is: series in the order of their
labels, each with its first step and another one, and a value somewhere that is not NaN; a
label on top, upper case, no first step, times on a grid, rounded values, or a series less,
in any order. Rounding must exceed the default fraction and the margins that are set, and
stay within the fractions that are set; a range starts on the grid iff a tweak aligns it.
These are what the tweaks are for, not what an API always does; for anything else
`VerdictsAreAboutTheAnswers` holds. A target is compared with the reference after two
changes. The reference loses its first steps, once, however many tweaks drop them
(`IgnoringFirstSteps`, an induction over the tweaks, as the steps are gone after the first of
them). The target's series are sorted: whatever the order they came in, the i-th is then that
of the reference (`SortedIsInOrder`, as an increasing map of `1..n` onto itself is the
identity, `IncreasingIsIdentity`). Then each deviation is seen by just one comparison, that of
metrics (`MetricsAreEqual`), of lengths and timestamps (`ValuesAreEqual`) or of values, where
some tweak wins the tolerance (`AdjustedIsSet`, `RoundingIsSeen`); `DeviationsAreSeen` puts
them together.

### `ScrapeReplayProofs`

For any backends, times, jumps of the time and number of recordings and lost replies
(`BoundsAssumption`, `TimesAssumption`):

- `InductiveInvariant`;
- `QueryHasTheRecordings`: all recordings lie in the 10 h that the query looks at;
- `PassesAreEarned`: who passes was served each recording, and what it had ingested first
  is what the test expects of it;
- `FailuresHaveACause`, under `MaxLag <= 4`: a faithful backend fails only at the
  deadline or after a lost reply. With a lag of five ticks the property is false, so this
  hypothesis is as weak as it can be.

The argument. `minTime` and `maxTime` bound the recordings and stay 10 h apart at most
(`TimesBound`); a backend stores, in order of time, samples that it was served
(`StoredWasServed`). A backend only appends, so what the query returned of its first
samples it returns of them for ever, and what a result is compared with, `lastDiff`, is
the result of a prefix (`LastDiffWasShown`). For failures: a faithful backend that lost no
reply has stored in order just the expected samples of what it was served
(`StoredInFull`); a result that repeats therefore lacks a stored sample, and each
repetition takes a tick, in which this sample ages (`DiffsLag`). After four ticks it shows,
so the result changes before the fifth repetition.

### `SenderTestsProofs`

For any tests, requests and bounds (`TestsAssumption`, `KindsAssumption`: a test
function is of one kind; `RequestsAssumption`, `BoundsAssumption`):

- `InductiveInvariant`, `TypesAreRight`;
- `BinariesAreWhole`: whatever fails or is killed, now or in an earlier run, no test runs
  a part of a binary;
- `LaunchesAreSafe`: a launch fails only after a fault or in a run after another;
- `FatalHasACause`: `log.Fatalf` comes only after some target exited by itself;
- `AnswersAreJudged`: no verdict is about an older state of the receiver than what was
  answered with success. The validator of a scenario gets one request only, the last one
  recorded (`runSenderTest`): whatever was answered was recorded no later. The tests of the
  fallback judge versions: that of each answered request is among them;
- `VersionChangesAreReported`: a sender that changes its version between two answered
  requests does not pass `TestNoFallbackOn2xx`.

The argument. The file is made executable last and only by the test that holds the mutex
(`Exclusive`), and `IInv` says for each step under the mutex what the file is then
(`FileFollowsSteps`): executable implies whole. A test is about to launch only what it
saw or made while it held the mutex, and files only get better (`LaunchIsPrepared`).
A target that is reaped while its timer is armed exited early (`TargetsAndTimers`).
A handler answers after it recorded its request, and records are only appended to, in
whatever order handlers overlap (`RecordsFollow`); when a test is judged its target is
gone, so no request is answered after the records were read (`VerdictStands`). A handler may
still record one after that; it only appends (`AppendProlongs`), so what was before the
judged request stays before it.

### Only model-checked

- All liveness: `RunEnds`, `StopsWhenAllConcluded`, `InterruptStops`, `WriterEnds`,
  `EveryBackendConcludes`, `EveryTestEnds`. The prover does not do fairness.
- `CompliantIsNotReported`, `ApiChecksPass` and `FaultsAreReported` of `AlertReception`:
  they depend on each number in the four cases, which are fixed data; checking them is a
  matter of computing, and TLC does it for the cases as they are.

## What the code does otherwise

Five runs end in a counterexample, each on purpose:

- `TestSuiteDroppedFailure`: `removeGroups` drops the error of a loop when another
  loop passed the group first.
- `TestSuiteTwoWriteErrors`: the second failed write blocks the writer, and the run
  never ends.
- `AlertReceptionCleanupRace`: `missedAlertCleanup` overwrites what a request did
  meanwhile. (In Go it may also end the process, as the map is read and written at
  once; the model shows the quiet outcome.)
- `AlertReceptionRetentionEnd`: the last resend of a resolved alert is reported as missed
  when its window crosses the end of the 15 minutes, which the comment of
  `ExpectedAlert` excludes.
- `SenderFallback415`: the receiver that should answer the first request with 415 counts
  the request before it looks at the count, and never does.

What the models showed or follow without a run of their own:

Alert generator.

- Two loops that end together may both close `stopc`, which panics (`CloseStopc`; a TODO
  admits it), and the writer goes on after an error because `break` leaves the `select`
  only (`SendError`; a TODO too).
- A request that is still served can slip between the two reads of `WasTestSuccessful`
  (`PassedMeansNoReceptionError` of `TestSuite` is violated with the constants of
  `TestSuiteEnds`).
- The tolerance for answers of up to `MaxRTT` (`interface.go:15`) has a border. `between`
  has no tolerance at its start, and the suite reads its clock before the GET: if the
  timestamp of a sample that changes an alert lies between the clock and the evaluation
  that the API tells of, a compliant generator fails, even with an answer after a quarter
  of a second. `ApiChecksPass` has as its hypothesis that the clock was read after that
  timestamp (`p > LastSampleAt`); with it any answer within `MaxRTT` passes, also one
  about an evaluation after the clock. Without it TLC finds the violation for
  `AnswerTime` 1 and the phase 1.
- So has the tolerance for samples that are up to 10 s late (`interface.go:39`). When an
  evaluation falls between the timestamp of a sample and its arrival, the alert changes
  one interval later, and `StartsAt` is off by more than its tolerance
  (`expected_alert.go`): a compliant generator is reported. `CompliantIsNotReported` has as
  its hypothesis that no evaluation does (`NoSampleIsMissed`); without it a delay of two
  seconds is enough.
- `case_new_alerts_and_order_check.go:476` lets the second series of the first rule fire
  up to its 73rd sample, though it resolves at the 65th; a generator that resolves it
  late is not failed by the API checks.
- `specification.md:273` says that `endsAt` of a firing alert is relative to `StartsAt`;
  `expected_alert.go:81` expects it relative to the time of sending
  (`EndsAtFromStart` TRUE follows the specification and is reported).

PromQL tester.

- With a `query-parallelism` of 0 the channel has no room, and `main` waits for ever
  (`main.go:128`).
- Two tweaks that transform metrics (`drop_result_labels` and `ignore_case`) make `cmp`
  panic (`Panics`); no vendor's configuration has both.
- `ignore_first_step` leaves an empty series in the reference when the first step is the
  only one (`WithoutFirstStep`).
- The reference API and the target share 10 s (`comparer.go:79`): a slow reference fails a
  target that is in time, and a query that should fail passes when the target merely
  times out. `Complies` says what that makes of the verdict.

End-to-end tests.

- `TooFar` lets two samples be exactly 10 h apart. A Prometheus 3, which
  `prometheus.go:41` starts, excludes the left end of a range: such a test fails without
  a fault of the backend, which is why `Faithful` excludes it.
- A pass is final at the first equal result (`promqle2e.go:340`), so an extra sample that
  does not show yet is not seen: `PassMeansIngested` speaks of a prefix.
- A lost reply is not served again (`promqle2e.go:401`), so a scrape that times out fails
  the test; an empty result is retried until the deadline (`promqle2e.go:345`).

Sender tests.

- An error before the extraction is dropped, and the launch fails for its empty name
  instead (`common.go:43`, `ReturnNoName`). A file that an extraction left unfinished is
  taken for the binary in every later run (`common.go:73`), which then cannot launch it.
- `runSenderTest` skips the validator when no request came, and no scenario sets
  `ExpectedRequestCount`: a sender that sends nothing passes (`ScenarioPasses`). Tests that
  only log the error of the target pass without a launch (`FallbackPasses` aside).
- A target that exits by itself makes the pending interrupt fail, and `log.Fatalf` ends
  the tests of everyone (`common.go:277`).
- `retry_test.go:49` counts requests where it means retries.

## What is not modelled

The formats: JSON, YAML, protobuf, the text of the verdicts, the rules file, HTML
reports; `GeneratorURL`; flags and configuration files. The remote storage and the
software under test beyond what the tests see of them.

Of the alert generator: the appends to `errs` without a common mutex; two POSTs at a time
and a clock that goes on while the server works. Of the PromQL
tester: native histograms, the text of a filled-in template. Of the end-to-end tests:
`Transform`, the labels that `toModelMetric` adds, and the containers, which start once,
before the subtests; `ScrapeReplay` has one backend kind in its run, and the module takes
any. Of the sender tests: the scenarios that judge the bytes, the number or the times of
requests (a choice of the validator here), the mock scrape target, which serves fixed
text, the limit of `go test -parallel`, and targets that survive a killed test process.
The receiver's scenarios are one request and one answer each, and OpenMetrics has no code.

## Plan

Done, in this order: `ConformanceRun` and `TestSuite` with their proofs; `RemoteWriter`;
`CaseUtils`, `ExpectedAlert`, `AlertServer` and the four cases, composed in
`AlertReception`; `Comparer`, `TestCaseExpansion` and `QueryPool` with `ComparisonRun` and
its proofs; `ScrapeReplay`; `SenderTests` with its proofs.

Then the proofs of `RemoteWriter`, `AlertReception` and `ScrapeReplay`, of the traffic
of `SenderTests`, of the expansion of test cases, and of the lists in `AlertServer`;
`SampleDelivery` and that `RemoteWriter` implements it; and what the comparison of two
answers makes of the deviations of a target.

Left:

1. Proofs: that the windows of an expected alert meet at their edges (`ExpectedAlert`), and
   from the windows, for a class of cases instead of these four, that a compliant generator
   is not reported.
2. `AlertServer`: the appends to `errs` as a read and a write, to state what a lost append
   does to the verdict; a generator with several POSTs in flight and a clock that moves while
   they are served, to exercise `expectedAlertsMtx` and the time read before it.
3. `SenderTests`: the scenarios of retries and back-off, with the times of requests.
