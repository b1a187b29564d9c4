---------------------------- MODULE SenderTests ----------------------------
(***************************************************************************)
(* The tests of a remote write sender (remotewrite/sender): tests run in   *)
(* parallel in one process. Each downloads the sender unless its file is   *)
(* there, runs it against its own mock receiver, interrupts it when its    *)
(* time is up, and judges what the receiver recorded. The file outlives    *)
(* the process: a killed or failed run may be followed by another.         *)
(***************************************************************************)
EXTENDS Integers, Sequences, FiniteSets, Functions

CONSTANTS Scenarios,      \* tests run by runSenderTest
          Fallbacks,      \* tests of TestFallbackBehavior: 415 to the first request
          NoFallbacks,    \* tests of TestNoFallbackOn2xx
          NoTest,         \* nobody holds the mutex
          Requests,       \* test -> what its sender may send: [version, decodes]
          MaxRequests,    \* run -> bound on the requests of all its targets
          MaxFaults,      \* bound on downloads and launches that fail and early exits
          MaxRuns         \* bound on the runs of the test process

Tracked == Fallbacks \cup NoFallbacks
Tests == Scenarios \cup Tracked

ASSUME TestsAssumption == NoTest \notin Tests

(* A test function is of one kind. *)
ASSUME KindsAssumption == Scenarios \cap Tracked = {} /\ Fallbacks \cap NoFallbacks = {}

ASSUME RequestsAssumption ==
    \A t \in Tests : \A r \in Requests[t] :
        DOMAIN r = {"version", "decodes"} /\ r.decodes \in BOOLEAN

ASSUME BoundsAssumption ==
    MaxFaults \in Nat /\ MaxRuns \in Nat \ {0} /\ MaxRequests \in [1..MaxRuns -> Nat]

VARIABLES file,         \* the binary on disk: [content, executable]
          downloadMtx,  \* the test that holds the mutex
          process,      \* "running" or, after log.Fatalf, "fatal"
          test,         \* test -> where it is, and its target process
          traffic,      \* test -> what its target sent and its receiver recorded
          judged,       \* test -> its verdict, and the request or versions that is about
          faults,
          runs

vars == <<file, downloadMtx, process, test, traffic, judged, faults, runs>>

(* Steps under the mutex. *)
Downloading == {"look", "fetch", "extract", "copy", "chmod"}
Steps == Downloading \cup {"start", "launch", "waiting", "validate", "close", "done"}

FreshFile == [content |-> "none", executable |-> FALSE]

(* A test that has not started: no name of a binary, no error, no target,  *)
(* no goroutine that will interrupt it.                                    *)
FreshTest ==
    [step |-> "start", binary |-> FALSE, err |-> FALSE,
     target |-> "none", timer |-> "off", early |-> FALSE]

(* Requests in order of sending with the stage each is in; the numbers of  *)
(* the recorded ones; the versions a tracking receiver has seen.           *)
FreshTraffic == [sent |-> <<>>, stage |-> <<>>, requests |-> <<>>, versions |-> <<>>]

FreshVerdict == [verdict |-> "none", request |-> 0, versions |-> <<>>]

EachTest(x) == [t \in Tests |-> x]

Init ==
    /\ file = FreshFile
    /\ downloadMtx = NoTest
    /\ process = "running"
    /\ test = EachTest(FreshTest)
    /\ traffic = EachTest(FreshTraffic)
    /\ judged = EachTest(FreshVerdict)
    /\ faults = 0
    /\ runs = 1

----------------------------------------------------------------------------
(* downloadBinary *)

At(t, s) == process = "running" /\ test[t].step = s

MutexIgnored == TRUE
MutexIsFree == downloadMtx = NoTest

Lock(t) ==
    /\ At(t, "start")
    /\ MutexIsFree
    /\ downloadMtx' = t
    /\ test' = [test EXCEPT ![t].step = "look"]
    /\ UNCHANGED <<file, process, traffic, judged, faults, runs>>

KeepTheLock == UNCHANGED downloadMtx

(* The deferred unlock. *)
Unlock == downloadMtx' = NoTest

GoOn(t, s) == test' = [test EXCEPT ![t].step = s] /\ UNCHANGED downloadMtx

Return(t) == Unlock /\ test' = [test EXCEPT ![t].step = "launch", ![t].binary = TRUE]

(* An error before the extraction is dropped: the name is just empty. *)
ReturnNoName(t) == Unlock /\ test' = [test EXCEPT ![t].step = "launch"]

(* The extraction reports its errors: the target returns without a launch. *)
ReturnError(t) == Unlock /\ test' = [test EXCEPT ![t].step = "validate", ![t].err = TRUE]

(* If there is a file, it is taken for the binary. *)
Look(t) ==
    /\ At(t, "look")
    /\ IF file.content = "none" THEN GoOn(t, "fetch") ELSE Return(t)
    /\ UNCHANGED <<file, process, traffic, judged, faults, runs>>

Succeeds == UNCHANGED faults
Fails == faults < MaxFaults /\ faults' = faults + 1

Fetch(t) ==
    /\ At(t, "fetch")
    /\ \/ Succeeds /\ GoOn(t, "extract")
       \/ Fails /\ ReturnNoName(t)
    /\ UNCHANGED <<file, process, traffic, judged, runs>>

CreatedExecutable == [content |-> "part", executable |-> TRUE]
Created == [content |-> "part", executable |-> FALSE]

(* The archive is opened, the binary found in it and its copy created. *)
Extract(t) ==
    /\ At(t, "extract")
    /\ \/ Succeeds /\ file' = Created /\ GoOn(t, "copy")
       \/ Fails /\ UNCHANGED file /\ ReturnError(t)
    /\ UNCHANGED <<process, traffic, judged, runs>>

Copy(t) ==
    /\ At(t, "copy")
    /\ \/ Succeeds /\ file' = [file EXCEPT !.content = "whole"] /\ GoOn(t, "chmod")
       \/ Fails /\ UNCHANGED file /\ ReturnError(t)
    /\ UNCHANGED <<process, traffic, judged, runs>>

Chmod(t) ==
    /\ At(t, "chmod")
    /\ \/ Succeeds /\ file' = [file EXCEPT !.executable = TRUE] /\ Return(t)
       \/ Fails /\ UNCHANGED file /\ ReturnError(t)
    /\ UNCHANGED <<process, traffic, judged, runs>>

----------------------------------------------------------------------------
(* runCommand *)

CanStart(t) == test[t].binary /\ file.executable

(* The target starts and with it the goroutine that will interrupt it. *)
Launch(t) ==
    /\ At(t, "launch")
    /\ CanStart(t)
    /\ test' = [test EXCEPT ![t].step = "waiting", ![t].target = "running", ![t].timer = "armed"]
    /\ UNCHANGED <<file, downloadMtx, process, traffic, judged, faults, runs>>

(* Start fails, because the name is empty or the file is no executable; or *)
(* before it the target's temporary files and directory cannot be created. *)
CannotLaunch(t) ==
    /\ At(t, "launch")
    /\ \/ ~CanStart(t) /\ Succeeds
       \/ Fails
    /\ test' = [test EXCEPT ![t].step = "validate", ![t].err = TRUE]
    /\ UNCHANGED <<file, downloadMtx, process, traffic, judged, runs>>

(* The target exits because it was interrupted, or before, by itself. *)
Exit(t) ==
    /\ process = "running" /\ test[t].target = "running"
    /\ \/ test[t].timer = "fired" /\ Succeeds
       \/ test[t].timer = "armed" /\ Fails
    /\ \E failed \in BOOLEAN :
        test' = [test EXCEPT ![t].target = "exited", ![t].err = failed, ![t].early = test[t].timer = "armed"]
    /\ UNCHANGED <<file, downloadMtx, process, traffic, judged, runs>>

(* Wait returns. *)
Wait(t) ==
    /\ At(t, "waiting")
    /\ test[t].target = "exited"
    /\ test' = [test EXCEPT ![t].target = "reaped", ![t].step = "validate"]
    /\ UNCHANGED <<file, downloadMtx, process, traffic, judged, faults, runs>>

IsArmedForGood(t) == test[t].timer # "off"
IsArmed(t) == test[t].timer = "armed"

(* The sleep is over: SIGINT goes to the target, and if there is no such   *)
(* process any more, log.Fatalf ends this one.                             *)
Interrupt(t) ==
    /\ process = "running"
    /\ IsArmed(t)
    /\ test' = [test EXCEPT ![t].timer = "fired"]
    /\ process' = IF test[t].target = "reaped" THEN "fatal" ELSE process
    /\ UNCHANGED <<file, downloadMtx, traffic, judged, faults, runs>>

----------------------------------------------------------------------------
(* The target's requests and the mock receiver *)

AllSent == UNION {{t} \X DOMAIN traffic[t].sent : t \in Tests}

(* The target sends whatever it likes; requests may overlap. *)
Send(t) ==
    /\ process = "running" /\ test[t].target = "running"
    /\ Cardinality(AllSent) < MaxRequests[runs]
    /\ \E r \in Requests[t] :
        traffic' = [traffic EXCEPT ![t].sent = Append(@, r), ![t].stage = Append(@, "sent")]
    /\ UNCHANGED <<file, downloadMtx, process, test, judged, faults, runs>>

Is(t, n, s) == process = "running" /\ n \in DOMAIN traffic[t].stage /\ traffic[t].stage[n] = s

Request(t, n) == traffic[t].sent[n]

(* Two appends that read the same slice: the second one wins. *)
Overwritten(seq, x) == Append(SubSeq(seq, 1, Len(seq) - 1), x)
Appended(seq, x) == Append(seq, x)

(* A tracking receiver records the version first. *)
RecordVersion(t, n) ==
    /\ t \in Tracked
    /\ Is(t, n, "sent")
    /\ traffic' = [traffic EXCEPT ![t].versions = Appended(@, Request(t, n).version),
                                  ![t].stage[n] = "tracked"]
    /\ UNCHANGED <<file, downloadMtx, process, test, judged, faults, runs>>

(* requestCount = 0, read after RecordVersion has counted the request. *)
ShouldReturn415(t) == t \in Fallbacks /\ Len(traffic[t].versions) = 0

Gets415(t, n) == ShouldReturn415(t) /\ Request(t, n).version = "2.0"

(* The handler: 415, or handleRequest under the receiver's mutex, which    *)
(* refuses what does not decode and records the rest.                      *)
Capture(t, n) ==
    /\ Is(t, n, IF t \in Tracked THEN "tracked" ELSE "sent")
    /\ traffic' =
        IF ~Gets415(t, n) /\ Request(t, n).decodes
        THEN [traffic EXCEPT ![t].requests = Appended(@, n), ![t].stage[n] = "captured"]
        ELSE [traffic EXCEPT ![t].stage[n] = "rejected"]
    /\ UNCHANGED <<file, downloadMtx, process, test, judged, faults, runs>>

(* The configured response reaches the target, if that still runs. *)
Answer(t, n) ==
    /\ Is(t, n, "captured")
    /\ traffic' = [traffic EXCEPT ![t].stage[n] = IF test[t].target = "running" THEN "answered" ELSE "rejected"]
    /\ UNCHANGED <<file, downloadMtx, process, test, judged, faults, runs>>

(* The target is gone and the rest of its request with it. *)
Lose(t, n) ==
    /\ Is(t, n, "sent") \/ Is(t, n, "tracked")
    /\ test[t].target # "running"
    /\ traffic' = [traffic EXCEPT ![t].stage[n] = "rejected"]
    /\ UNCHANGED <<file, downloadMtx, process, test, judged, faults, runs>>

----------------------------------------------------------------------------
(* The verdict *)

LastRequest(t) ==
    IF traffic[t].requests = <<>> THEN 0 ELSE traffic[t].requests[Len(traffic[t].requests)]

(* runSenderTest: an error of the target is fatal; the validator accepts   *)
(* the last request or not, if there is one. No test expects a number.     *)
ScenarioPasses(t, accepts) == ~test[t].err /\ (LastRequest(t) = 0 \/ accepts)

(* TestFallbackBehavior, first case: the error is only logged. *)
FallbackPasses(t) == Len(traffic[t].versions) >= 2

(* TestNoFallbackOn2xx: every version is the first one. *)
NoFallbackPasses(t) ==
    \A i \in DOMAIN traffic[t].versions : traffic[t].versions[i] = traffic[t].versions[1]

Passes(t, accepts) ==
    \/ t \in Scenarios /\ ScenarioPasses(t, accepts)
    \/ t \in Fallbacks /\ FallbackPasses(t)
    \/ t \in NoFallbacks /\ NoFallbackPasses(t)

(* The one request that the validator of a scenario gets, or the versions  *)
(* that a tracking receiver has seen by now.                               *)
Verdict(t, accepts) ==
    [verdict |-> IF Passes(t, accepts) THEN "pass" ELSE "fail",
     request |-> IF t \in Scenarios /\ ~test[t].err THEN LastRequest(t) ELSE 0,
     versions |-> IF t \in Tracked THEN traffic[t].versions ELSE <<>>]

Validate(t) ==
    /\ At(t, "validate")
    /\ \E accepts \in BOOLEAN : judged' = [judged EXCEPT ![t] = Verdict(t, accepts)]
    /\ test' = [test EXCEPT ![t].step = "close"]
    /\ UNCHANGED <<file, downloadMtx, process, traffic, faults, runs>>

InHandler == {"sent", "tracked", "captured"}

(* The deferred Close of the receiver waits for its handlers; what was     *)
(* recorded goes with it.                                                  *)
Close(t) ==
    /\ At(t, "close")
    /\ Range(traffic[t].stage) \cap InHandler = {}
    /\ test' = [test EXCEPT ![t].step = "done"]
    /\ traffic' = [traffic EXCEPT ![t] = FreshTraffic]
    /\ UNCHANGED <<file, downloadMtx, process, judged, faults, runs>>

----------------------------------------------------------------------------
(* The process *)

(* The tests are run again after the process has ended or was killed, at   *)
(* any time: nothing of the last run is left but the file.                 *)
Rerun ==
    /\ runs < MaxRuns
    /\ runs' = runs + 1
    /\ downloadMtx' = NoTest
    /\ process' = "running"
    /\ test' = EachTest(FreshTest)
    /\ traffic' = EachTest(FreshTraffic)
    /\ judged' = EachTest(FreshVerdict)
    /\ UNCHANGED <<file, faults>>

Unpack(t) == Extract(t) \/ Copy(t) \/ Chmod(t)
Download(t) == Look(t) \/ Fetch(t) \/ Unpack(t)
RunCommand(t) == Launch(t) \/ CannotLaunch(t) \/ Wait(t)
Handle(t, n) ==
    RecordVersion(t, n) \/ Capture(t, n) \/ Answer(t, n) \/ Lose(t, n)
Conclude(t) == Validate(t) \/ Close(t)

Next ==
    \/ \E t \in Tests :
        \/ Lock(t) \/ Download(t) \/ RunCommand(t) \/ Interrupt(t) \/ Exit(t) \/ Send(t) \/ Conclude(t)
        \/ \E n \in 1..MaxRequests[runs] : Handle(t, n)
    \/ Rerun

Spec == Init /\ [][Next]_vars

(* Goroutines, timers and handlers go on and the mutex keeps nobody        *)
(* waiting for ever. Whether an HTTP GET of a binary returns, and whether  *)
(* a target exits, is not up to the program. Nobody has to run the tests   *)
(* again.                                                                  *)
FairSpec ==
    /\ Spec
    /\ \A t \in Tests :
        /\ SF_vars(Lock(t)) /\ WF_vars(Look(t)) /\ WF_vars(Unpack(t))
        /\ WF_vars(RunCommand(t)) /\ WF_vars(Interrupt(t)) /\ WF_vars(Conclude(t))
        /\ \A run \in 1..MaxRuns : \A n \in 1..MaxRequests[run] : WF_vars(Handle(t, n))

----------------------------------------------------------------------------
(* Properties *)

TestStates ==
    [step : Steps, binary : BOOLEAN, err : BOOLEAN,
     target : {"none", "running", "exited", "reaped"},
     timer : {"off", "armed", "fired"}, early : BOOLEAN]

TypeOK ==
    /\ file \in [content : {"none", "part", "whole"}, executable : BOOLEAN]
    /\ downloadMtx \in Tests \cup {NoTest}
    /\ process \in {"running", "fatal"}
    /\ test \in [Tests -> TestStates]
    /\ faults \in 0..MaxFaults
    /\ runs \in 1..MaxRuns

(* Who downloads holds the mutex, so that is one test at most. *)
Exclusive == \A t \in Tests : test[t].step \in Downloading <=> downloadMtx = t

(* The file is what the download under way has made of it so far; without  *)
(* one it is whole and executable, or a fault or an earlier run left it.   *)
FileFollowsSteps ==
    /\ file.executable => file.content = "whole"
    /\ \A t \in Tests : test[t].step \in {"fetch", "extract"} => file.content = "none"
    /\ \A t \in Tests : test[t].step = "chmod" => file.content = "whole"
    /\ \/ faults > 0 \/ runs > 1 \/ file.executable \/ file.content = "none"
       \/ \E t \in Tests : test[t].step \in {"copy", "chmod"}

(* A launch has what it needs, unless there was a fault or an earlier run. *)
LaunchIsPrepared ==
    \A t \in Tests :
        \/ faults > 0 \/ runs > 1
        \/ /\ test[t].step = "launch" => CanStart(t)
           /\ test[t].err => test[t].target # "none"

(* Targets run an executable file; only one that exited early is reaped    *)
(* before its interrupt.                                                   *)
TargetsAndTimers ==
    /\ process = "fatal" => \E t \in Tests : test[t].early
    /\ \A t \in Tests :
        /\ test[t].target # "none" => file.executable
        /\ test[t].step \in Downloading \cup {"start", "launch"} => test[t].target = "none"
        /\ test[t].target \in {"exited", "reaped"} /\ test[t].timer = "armed" => test[t].early

StepsInv == TypeOK /\ Exclusive /\ FileFollowsSteps /\ LaunchIsPrepared /\ TargetsAndTimers

Stages == InHandler \cup {"answered", "rejected"}
AllRequests == UNION {Requests[t] : t \in Tests}
Versions == {r.version : r \in AllRequests}

TrafficOK ==
    /\ traffic \in [Tests -> [sent : Seq(AllRequests), stage : Seq(Stages),
                              requests : Seq(Nat), versions : Seq(Versions)]]
    /\ judged \in [Tests -> [verdict : {"none", "pass", "fail"}, request : Nat, versions : Seq(Versions)]]

Answered(t) == {n \in DOMAIN traffic[t].stage : traffic[t].stage[n] = "answered"}

(* A version is judged with those a tracking receiver has seen; of the     *)
(* requests of a scenario, one is passed over only for a later one.        *)
IsJudged(t, n) ==
    \/ t \in Tracked /\ Request(t, n).version \in Range(judged[t].versions)
    \/ /\ t \in Scenarios
       /\ \E i, j \in DOMAIN traffic[t].requests :
           i <= j /\ traffic[t].requests[i] = n /\ traffic[t].requests[j] = judged[t].request

(* What a handler has been through is recorded: no record is lost. *)
RecordsFollow(t) ==
    /\ Len(traffic[t].stage) = Len(traffic[t].sent)
    /\ \A n \in DOMAIN traffic[t].stage :
        /\ traffic[t].stage[n] \in {"captured", "answered"} => n \in Range(traffic[t].requests)
        /\ t \in Tracked /\ traffic[t].stage[n] \in {"tracked", "captured", "answered"} =>
            Request(t, n).version \in Range(traffic[t].versions)

(* A verdict is given when the target is gone, and no request is answered  *)
(* after that.                                                             *)
VerdictStands(t) ==
    /\ test[t].step \in {"validate", "close", "done"} => test[t].target \in {"none", "reaped"}
    /\ judged[t].verdict # "none" =>
        /\ test[t].step \in {"close", "done"}
        /\ t \in Tracked \/ ~test[t].err => \A n \in Answered(t) : IsJudged(t, n)
    /\ t \in NoFallbacks /\ judged[t].verdict = "pass" =>
        \A m, n \in Answered(t) : Request(t, m).version = Request(t, n).version

TrafficInv == TrafficOK /\ \A t \in Tests : RecordsFollow(t) /\ VerdictStands(t)

IInv == StepsInv /\ TrafficInv

(* Whatever fails or is killed while it downloads, now or in an earlier    *)
(* run, no test runs a binary that was not extracted to its end            *)
(* (the order of extractTarGz and Chmod).                                  *)
OnlyWholeBinariesRun ==
    \A t \in Tests : test[t].target # "none" => file.content = "whole"

(* Tests that download in parallel do not spoil each other's launch: it    *)
(* fails only after a fault or in a run after another (downloadMtx).       *)
LaunchFailsOnlyAfterAFault ==
    \A t \in Tests : test[t].err /\ test[t].target = "none" => faults > 0 \/ runs > 1

(* log.Fatalf ends the tests of everyone only when some target exited      *)
(* before it was told to.                                                  *)
FatalOnlyAfterAnEarlyExit ==
    process = "fatal" => \E t \in Tests : test[t].early

(* No verdict is about an older state of the receiver: a test whose target *)
(* did not fail judges, of all requests that were answered with success,   *)
(* the versions, or the last one recorded, in whatever order requests      *)
(* overlap and are lost (handleRequest, runSenderTest's lastReq,           *)
(* GetVersions). So no sender that was answered passes unjudged.           *)
AnsweredIsJudged ==
    \A t \in Tests : judged[t].verdict # "none" /\ (t \in Tracked \/ ~test[t].err) =>
        \A n \in Answered(t) : IsJudged(t, n)

(* A sender that changes the version between two requests that were        *)
(* answered does not pass TestNoFallbackOn2xx.                             *)
VersionChangeIsReported ==
    \A t \in NoFallbacks : judged[t].verdict = "pass" =>
        \A m, n \in Answered(t) : Request(t, m).version = Request(t, n).version

(* http.Get has no timeout and is called with the mutex held; a target may *)
(* ignore its interrupt.                                                   *)
DownloadsReturn == \A t \in Tests : WF_vars(Fetch(t))
TargetsExit == \A t \in Tests : WF_vars(test[t].timer = "fired" /\ Exit(t))

(* As long as downloads return and interrupted targets exit, a test that   *)
(* starts comes to its end, or log.Fatalf ends them all.                   *)
EveryTestEnds ==
    DownloadsReturn /\ TargetsExit =>
        \A t \in Tests : test[t].step = "start" ~> test[t].step = "done" \/ process = "fatal"

(* "Only return 415 for the first request" (fallback_test.go:64): as long  *)
(* as one request has arrived at a receiver that is to trigger a fallback, *)
(* none of version 2.0 is answered with success.                           *)
FirstRequestGets415 ==
    \A t \in Fallbacks : Len(traffic[t].versions) = 1 =>
        \A n \in Answered(t) : Request(t, n).version # "2.0"
=============================================================================
