------------------------- MODULE SenderTestsProofs -------------------------
(***************************************************************************)
(* What holds of SenderTests for any tests, requests and number of faults  *)
(* and runs. The argument: who downloads holds the mutex (Exclusive), so   *)
(* the file is where that one download is (FileFollowsSteps), and a launch *)
(* finds it whole and executable unless a fault or an earlier run left     *)
(* something else (LaunchIsPrepared, TargetsAndTimers). Of the requests: a *)
(* handler answers after it recorded the request, a record is only         *)
(* appended to until the test is judged (RecordsFollow), and the target is *)
(* gone by then, so nothing is answered afterwards (VerdictStands).        *)
(***************************************************************************)
EXTENDS SenderTests, SequenceTheorems, TLAPS

(* The steps of a test and of its target that leave the file alone. *)
TestStep(t) == Launch(t) \/ CannotLaunch(t) \/ Wait(t) \/ Exit(t) \/ Interrupt(t) \/ Conclude(t)

Everything == <<file, downloadMtx, process, test, faults, runs>>

LEMMA CountersAreBounded ==
    MaxFaults \in Nat /\ MaxRuns \in Nat \ {0} /\ \A run \in 1..MaxRuns : MaxRequests[run] \in Nat
BY BoundsAssumption

LEMMA InitialInvariant == Init => StepsInv
<1> SUFFICES ASSUME Init PROVE StepsInv
  OBVIOUS
<1> USE DEF Init, EachTest, FreshTest, FreshFile
<1>1. TypeOK
  BY CountersAreBounded DEF TypeOK, TestStates, Steps
<1>2. Exclusive
  BY TestsAssumption DEF Exclusive, Downloading
<1>3. FileFollowsSteps /\ LaunchIsPrepared /\ TargetsAndTimers
  BY DEF FileFollowsSteps, LaunchIsPrepared, TargetsAndTimers
<1> QED
  BY <1>1, <1>2, <1>3 DEF StepsInv

(* Taking the mutex starts a download, of which there was none. *)
LEMMA LockPreserves ==
    ASSUME StepsInv, NEW t \in Tests, Lock(t) PROVE StepsInv'
<1> USE DEF StepsInv, Lock, At
<1>1. TypeOK'
  BY DEF TypeOK, TestStates, Steps, Downloading
<1>2. Exclusive'
  BY TestsAssumption DEF TypeOK, TestStates, Exclusive, MutexIsFree, Downloading
<1>3. FileFollowsSteps'
  BY DEF TypeOK, TestStates, FileFollowsSteps
<1>4. LaunchIsPrepared'
  BY DEF TypeOK, TestStates, LaunchIsPrepared, CanStart
<1>5. TargetsAndTimers'
  BY DEF TypeOK, TestStates, TargetsAndTimers, Downloading
<1> QED
  BY <1>1, <1>2, <1>3, <1>4, <1>5

(* A step under the mutex: nobody else is downloading meanwhile. *)
LEMMA DownloadPreserves ==
    ASSUME StepsInv, NEW t \in Tests, Download(t) PROVE StepsInv'
<1> USE DEF StepsInv
<1>0. /\ test[t].step \in Downloading /\ downloadMtx = t
      /\ \A u \in Tests : u # t => test[u].step \notin Downloading
  BY DEF Download, Unpack, Look, Fetch, Extract, Copy, Chmod, At, Exclusive, Downloading
<1>1. CASE Look(t)
  <2> USE <1>1 DEF Look, At, GoOn, Return, Unlock
  <2>1. TypeOK'
    BY DEF TypeOK, TestStates, Steps, Downloading
  <2>2. Exclusive'
    BY <1>0, TestsAssumption DEF TypeOK, TestStates, Exclusive, Downloading
  <2>3. FileFollowsSteps'
    BY <1>0 DEF TypeOK, TestStates, FileFollowsSteps, Downloading
  <2>4. LaunchIsPrepared'
    BY <1>0 DEF TypeOK, TestStates, LaunchIsPrepared, CanStart, FileFollowsSteps, Downloading
  <2>5. TargetsAndTimers'
    BY <1>0 DEF TypeOK, TestStates, TargetsAndTimers, Downloading
  <2> QED
    BY <2>1, <2>2, <2>3, <2>4, <2>5
<1>2. CASE Fetch(t)
  <2> USE <1>2 DEF Fetch, At, GoOn, ReturnNoName, Unlock, Fails, Succeeds
  <2>1. TypeOK'
    BY CountersAreBounded DEF TypeOK, TestStates, Steps, Downloading
  <2>2. Exclusive'
    BY <1>0, TestsAssumption DEF TypeOK, TestStates, Exclusive, Downloading
  <2>3. FileFollowsSteps'
    BY <1>0 DEF TypeOK, TestStates, FileFollowsSteps, Downloading
  <2>4. LaunchIsPrepared'
    BY <1>0 DEF TypeOK, TestStates, LaunchIsPrepared, CanStart, Downloading
  <2>5. TargetsAndTimers'
    BY <1>0 DEF TypeOK, TestStates, TargetsAndTimers, Downloading
  <2> QED
    BY <2>1, <2>2, <2>3, <2>4, <2>5
<1>3. CASE Extract(t)
  <2> USE <1>3 DEF Extract, At, GoOn, ReturnError, Unlock, Fails, Succeeds, Created
  <2>0. file.content = "none" /\ ~file.executable
    BY DEF FileFollowsSteps, TypeOK
  <2>1. TypeOK'
    <3>1. test[t] \in TestStates
      BY DEF TypeOK
    <3>2. [test[t] EXCEPT !.step = "copy"] \in TestStates
      BY <3>1 DEF TestStates, Steps, Downloading
    <3>3. [test[t] EXCEPT !.step = "validate", !.err = TRUE] \in TestStates
      BY <3>1 DEF TestStates, Steps, Downloading
    <3>4. test' \in [Tests -> TestStates]
      BY <3>2, <3>3 DEF TypeOK
    <3>5. file' \in [content : {"none", "part", "whole"}, executable : BOOLEAN]
      <4>1. Created \in [content : {"none", "part", "whole"}, executable : BOOLEAN]
        OBVIOUS
      <4>2. file' = Created \/ file' = file
        OBVIOUS
      <4> QED
        BY <4>1, <4>2 DEF TypeOK
    <3>6. faults' \in 0..MaxFaults /\ downloadMtx' \in Tests \cup {NoTest}
      BY CountersAreBounded DEF TypeOK
    <3> QED
      BY <3>4, <3>5, <3>6 DEF TypeOK
  <2>2. Exclusive'
    BY <1>0, TestsAssumption DEF TypeOK, TestStates, Exclusive, Downloading
  <2>3. FileFollowsSteps'
    BY <1>0, <2>0 DEF TypeOK, TestStates, FileFollowsSteps, Downloading
  <2>4. LaunchIsPrepared'
    BY <1>0, <2>0 DEF TypeOK, TestStates, LaunchIsPrepared, CanStart, Downloading
  <2>5. TargetsAndTimers'
    BY <1>0, <2>0 DEF TypeOK, TestStates, TargetsAndTimers, Downloading
  <2> QED
    BY <2>1, <2>2, <2>3, <2>4, <2>5
<1>4. CASE Copy(t)
  <2> USE <1>4 DEF Copy, At, GoOn, ReturnError, Unlock, Fails, Succeeds
  <2>1. TypeOK'
    BY CountersAreBounded DEF TypeOK, TestStates, Steps, Downloading
  <2>2. Exclusive'
    BY <1>0, TestsAssumption DEF TypeOK, TestStates, Exclusive, Downloading
  <2>3. FileFollowsSteps'
    BY <1>0 DEF TypeOK, TestStates, FileFollowsSteps, Downloading
  <2>4. LaunchIsPrepared'
    BY <1>0 DEF TypeOK, TestStates, LaunchIsPrepared, CanStart, Downloading
  <2>5. TargetsAndTimers'
    BY <1>0 DEF TypeOK, TestStates, TargetsAndTimers, Downloading
  <2> QED
    BY <2>1, <2>2, <2>3, <2>4, <2>5
<1>5. CASE Chmod(t)
  <2> USE <1>5 DEF Chmod, At, Return, ReturnError, Unlock, Fails, Succeeds
  <2>1. TypeOK'
    <3>1. test[t] \in TestStates
      BY DEF TypeOK
    <3>2. [test[t] EXCEPT !.step = "launch", !.binary = TRUE] \in TestStates
      BY <3>1 DEF TestStates, Steps, Downloading
    <3>3. [test[t] EXCEPT !.step = "validate", !.err = TRUE] \in TestStates
      BY <3>1 DEF TestStates, Steps, Downloading
    <3>4. test' \in [Tests -> TestStates]
      BY <3>2, <3>3 DEF TypeOK
    <3>5. file' \in [content : {"none", "part", "whole"}, executable : BOOLEAN]
      BY DEF TypeOK
    <3>6. faults' \in 0..MaxFaults /\ downloadMtx' \in Tests \cup {NoTest}
      BY CountersAreBounded DEF TypeOK
    <3> QED
      BY <3>4, <3>5, <3>6 DEF TypeOK
  <2>2. Exclusive'
    BY <1>0, TestsAssumption DEF TypeOK, TestStates, Exclusive, Downloading
  <2>3. FileFollowsSteps'
    BY <1>0 DEF TypeOK, TestStates, FileFollowsSteps, Downloading
  <2>4. LaunchIsPrepared'
    BY <1>0 DEF TypeOK, TestStates, LaunchIsPrepared, CanStart, Downloading
  <2>5. TargetsAndTimers'
    BY <1>0 DEF TypeOK, TestStates, TargetsAndTimers, Downloading
  <2> QED
    BY <2>1, <2>2, <2>3, <2>4, <2>5
<1> QED
  BY <1>1, <1>2, <1>3, <1>4, <1>5 DEF Download, Unpack

(* The steps of a test that does not download, and of its target. *)
LEMMA TestStepPreserves ==
    ASSUME StepsInv, NEW t \in Tests, TestStep(t) PROVE StepsInv'
<1> USE DEF StepsInv
<1>1. CASE Launch(t)
  <2> USE <1>1 DEF Launch, At, CanStart
  <2>1. TypeOK'
    <3>1. test[t] \in TestStates
      BY DEF TypeOK
    <3>2. [test[t] EXCEPT !.step = "waiting", !.target = "running", !.timer = "armed"] \in TestStates
      BY <3>1 DEF TestStates, Steps, Downloading
    <3>3. test' \in [Tests -> TestStates]
      BY <3>2 DEF TypeOK
    <3> QED
      BY <3>3 DEF TypeOK
  <2>2. Exclusive'
    BY DEF TypeOK, TestStates, Exclusive, Downloading
  <2>3. FileFollowsSteps'
    BY DEF TypeOK, TestStates, FileFollowsSteps
  <2>4. LaunchIsPrepared'
    BY DEF TypeOK, TestStates, LaunchIsPrepared
  <2>5. TargetsAndTimers'
    BY DEF TypeOK, TestStates, TargetsAndTimers, Downloading
  <2> QED
    BY <2>1, <2>2, <2>3, <2>4, <2>5
<1>2. CASE CannotLaunch(t)
  <2> USE <1>2 DEF CannotLaunch, At, Fails, Succeeds
  <2>1. TypeOK'
    <3>1. test[t] \in TestStates
      BY DEF TypeOK
    <3>2. [test[t] EXCEPT !.step = "validate", !.err = TRUE] \in TestStates
      BY <3>1 DEF TestStates, Steps, Downloading
    <3>3. test' \in [Tests -> TestStates]
      BY <3>2 DEF TypeOK
    <3> QED
      BY CountersAreBounded, <3>3 DEF TypeOK
  <2>2. Exclusive'
    BY DEF TypeOK, TestStates, Exclusive, Downloading
  <2>3. FileFollowsSteps'
    BY DEF TypeOK, TestStates, FileFollowsSteps
  <2>4. LaunchIsPrepared'
    BY DEF TypeOK, TestStates, LaunchIsPrepared, CanStart
  <2>5. TargetsAndTimers'
    BY DEF TypeOK, TestStates, TargetsAndTimers, Downloading
  <2> QED
    BY <2>1, <2>2, <2>3, <2>4, <2>5
<1>3. CASE Wait(t)
  <2> USE <1>3 DEF Wait, At
  <2>1. TypeOK'
    BY DEF TypeOK, TestStates, Steps, Downloading
  <2>2. Exclusive'
    BY DEF TypeOK, TestStates, Exclusive, Downloading
  <2>3. FileFollowsSteps'
    BY DEF TypeOK, TestStates, FileFollowsSteps
  <2>4. LaunchIsPrepared'
    BY DEF TypeOK, TestStates, LaunchIsPrepared, CanStart
  <2>5. TargetsAndTimers'
    BY DEF TypeOK, TestStates, TargetsAndTimers, Downloading
  <2> QED
    BY <2>1, <2>2, <2>3, <2>4, <2>5
<1>4. CASE Exit(t)
  <2>0. PICK failed \in BOOLEAN :
           test' = [test EXCEPT ![t].target = "exited", ![t].err = failed, ![t].early = test[t].timer = "armed"]
    BY <1>4 DEF Exit
  <2> USE <1>4, <2>0 DEF Exit, Fails, Succeeds
  <2>1. TypeOK'
    <3>1. test[t] \in TestStates
      BY DEF TypeOK
    <3>2. [test[t] EXCEPT !.target = "exited", !.err = failed, !.early = test[t].timer = "armed"] \in TestStates
      BY <3>1 DEF TestStates, Steps, Downloading
    <3>3. test' \in [Tests -> TestStates]
      BY <3>2 DEF TypeOK
    <3> QED
      BY CountersAreBounded, <3>3 DEF TypeOK
  <2>2. Exclusive'
    BY DEF TypeOK, TestStates, Exclusive, Downloading
  <2>3. FileFollowsSteps'
    BY DEF TypeOK, TestStates, FileFollowsSteps
  <2>4. LaunchIsPrepared'
    BY DEF TypeOK, TestStates, LaunchIsPrepared, CanStart
  <2>5. TargetsAndTimers'
    BY DEF TypeOK, TestStates, TargetsAndTimers, Downloading
  <2> QED
    BY <2>1, <2>2, <2>3, <2>4, <2>5
<1>5. CASE Interrupt(t)
  <2> USE <1>5 DEF Interrupt, IsArmed
  <2>1. TypeOK'
    BY DEF TypeOK, TestStates
  <2>2. Exclusive'
    BY DEF TypeOK, TestStates, Exclusive, Downloading
  <2>3. FileFollowsSteps'
    BY DEF TypeOK, TestStates, FileFollowsSteps
  <2>4. LaunchIsPrepared'
    BY DEF TypeOK, TestStates, LaunchIsPrepared, CanStart
  <2>5. TargetsAndTimers'
    BY DEF TypeOK, TestStates, TargetsAndTimers, Downloading
  <2> QED
    BY <2>1, <2>2, <2>3, <2>4, <2>5
<1>6. CASE Conclude(t)
  <2> USE <1>6 DEF Conclude, Validate, Close, At
  <2>1. TypeOK'
    BY DEF TypeOK, TestStates, Steps, Downloading
  <2>2. Exclusive'
    BY DEF TypeOK, TestStates, Exclusive, Downloading
  <2>3. FileFollowsSteps'
    BY DEF TypeOK, TestStates, FileFollowsSteps
  <2>4. LaunchIsPrepared'
    BY DEF TypeOK, TestStates, LaunchIsPrepared, CanStart
  <2>5. TargetsAndTimers'
    BY DEF TypeOK, TestStates, TargetsAndTimers, Downloading
  <2> QED
    BY <2>1, <2>2, <2>3, <2>4, <2>5
<1> QED
  BY <1>1, <1>2, <1>3, <1>4, <1>5, <1>6 DEF TestStep

(* A new run finds nothing but the file. *)
LEMMA RerunPreserves == StepsInv /\ Rerun => StepsInv'
<1> SUFFICES ASSUME StepsInv, Rerun PROVE StepsInv'
  OBVIOUS
<1> USE DEF StepsInv, Rerun, EachTest, FreshTest
<1>0. runs' > 1
  BY DEF TypeOK, TestStates
<1>1. TypeOK'
  BY CountersAreBounded DEF TypeOK, TestStates, Steps
<1>2. Exclusive'
  BY TestsAssumption DEF Exclusive, Downloading
<1>3. FileFollowsSteps' /\ LaunchIsPrepared' /\ TargetsAndTimers'
  BY <1>0 DEF FileFollowsSteps, LaunchIsPrepared, TargetsAndTimers
<1> QED
  BY <1>1, <1>2, <1>3

(* The invariant does not speak of requests and verdicts. *)
LEMMA StutteringPreserves == StepsInv /\ UNCHANGED Everything => StepsInv'
BY DEF StepsInv, Everything, TypeOK, Exclusive, FileFollowsSteps, LaunchIsPrepared, TargetsAndTimers, CanStart

LEMMA NextPreserves == StepsInv /\ [Next]_vars => StepsInv'
<1> SUFFICES ASSUME StepsInv, [Next]_vars PROVE StepsInv'
  OBVIOUS
<1>1. ASSUME NEW t \in Tests, Lock(t) PROVE StepsInv'
  BY <1>1, LockPreserves
<1>2. ASSUME NEW t \in Tests, Download(t) PROVE StepsInv'
  BY <1>2, DownloadPreserves
<1>3. ASSUME NEW t \in Tests, RunCommand(t) \/ Interrupt(t) \/ Exit(t) \/ Conclude(t) PROVE StepsInv'
  <2>1. TestStep(t)
    BY <1>3 DEF TestStep, RunCommand
  <2> QED
    BY <2>1, TestStepPreserves
<1>4. ASSUME NEW t \in Tests, Send(t) \/ \E n \in 1..MaxRequests[runs] : Handle(t, n) PROVE StepsInv'
  <2>1. UNCHANGED Everything
    BY <1>4 DEF Send, Handle, RecordVersion, Capture, Answer, Lose, Everything
  <2> QED
    BY <2>1, StutteringPreserves
<1>5. CASE Rerun
  BY <1>5, RerunPreserves
<1>6. CASE UNCHANGED vars
  BY <1>6, StutteringPreserves DEF vars, Everything
<1> QED
  BY <1>1, <1>2, <1>3, <1>4, <1>5, <1>6 DEF Next

-----------------------------------------------------------------------------
(* The requests and the verdicts: each step moves one test on. *)

LEMMA RangeOfAppend ==
    ASSUME NEW S, NEW seq \in Seq(S), NEW x \in S
    PROVE  Range(Append(seq, x)) = Range(seq) \cup {x}
<1>1. /\ Append(seq, x) \in Seq(S) /\ Len(Append(seq, x)) = Len(seq) + 1
      /\ \A k \in 1..Len(seq) : Append(seq, x)[k] = seq[k]
      /\ Append(seq, x)[Len(seq) + 1] = x
  BY AppendProperties
<1>2. /\ Len(seq) \in Nat /\ DOMAIN seq = 1..Len(seq)
      /\ DOMAIN Append(seq, x) = 1..(Len(seq) + 1)
  BY <1>1
<1> QED
  BY <1>1, <1>2 DEF Range

(* A record that was only appended to. *)
Prolongs(new, old) ==
    DOMAIN old \subseteq DOMAIN new /\ \A k \in DOMAIN old : new[k] = old[k]

LEMMA AppendProlongs ==
    ASSUME NEW S, NEW seq \in Seq(S), NEW x \in S
    PROVE  Prolongs(Append(seq, x), seq)
<1>1. /\ Append(seq, x) \in Seq(S) /\ Len(Append(seq, x)) = Len(seq) + 1
      /\ \A k \in 1..Len(seq) : Append(seq, x)[k] = seq[k]
  BY AppendProperties
<1>2. /\ Len(seq) \in Nat /\ DOMAIN seq = 1..Len(seq)
      /\ DOMAIN Append(seq, x) = 1..(Len(seq) + 1)
  BY <1>1
<1> QED
  BY <1>1, <1>2 DEF Prolongs

LEMMA ProlongedRange ==
    ASSUME NEW new, NEW old, Prolongs(new, old) PROVE Range(old) \subseteq Range(new)
BY DEF Prolongs, Range

LEMMA ElementChanges ==
    ASSUME NEW S, NEW seq \in Seq(S), NEW n, NEW x \in S
    PROVE  [seq EXCEPT ![n] = x] \in Seq(S)
<1>1. Len(seq) \in Nat /\ seq \in [1..Len(seq) -> S]
  BY LenProperties
<1>2. [seq EXCEPT ![n] = x] \in [1..Len(seq) -> S]
  BY <1>1
<1> QED
  BY <1>1, <1>2

Traffic == [sent : Seq(AllRequests), stage : Seq(Stages), requests : Seq(Nat), versions : Seq(Versions)]

LEMMA TrafficChanges ==
    ASSUME TrafficOK, NEW t \in Tests, UNCHANGED judged,
           NEW r \in Traffic, traffic' = [traffic EXCEPT ![t] = r]
    PROVE  TrafficOK' /\ traffic'[t] = r /\ \A u \in Tests \ {t} : traffic'[u] = traffic[u]
<1>1. traffic \in [Tests -> Traffic] /\ traffic' \in [Tests -> Traffic]
  BY DEF TrafficOK, Traffic
<1> QED
  BY <1>1 DEF TrafficOK, Traffic

LEMMA TrafficTypes ==
    ASSUME TrafficInv, NEW t \in Tests
    PROVE  /\ TrafficOK /\ RecordsFollow(t) /\ VerdictStands(t)
           /\ traffic[t].sent \in Seq(AllRequests) /\ traffic[t].stage \in Seq(Stages)
           /\ traffic[t].requests \in Seq(Nat) /\ traffic[t].versions \in Seq(Versions)
           /\ Len(traffic[t].stage) \in Nat /\ DOMAIN traffic[t].stage = 1..Len(traffic[t].stage)
           /\ \A n \in DOMAIN traffic[t].stage :
                  Request(t, n) \in AllRequests /\ Request(t, n).version \in Versions
<1>1. TrafficOK /\ RecordsFollow(t) /\ VerdictStands(t)
  BY DEF TrafficInv
<1>2. /\ traffic[t].sent \in Seq(AllRequests) /\ traffic[t].stage \in Seq(Stages)
      /\ traffic[t].requests \in Seq(Nat) /\ traffic[t].versions \in Seq(Versions)
  BY <1>1 DEF TrafficOK
<1>3. Len(traffic[t].stage) \in Nat /\ DOMAIN traffic[t].stage = 1..Len(traffic[t].stage)
  BY <1>2
<1>4. \A n \in DOMAIN traffic[t].stage : Request(t, n) \in AllRequests
  BY <1>1, <1>2, <1>3 DEF RecordsFollow, Request
<1> QED
  BY <1>1, <1>2, <1>3, <1>4 DEF Versions

(* The other tests have their own receivers, targets and verdicts. *)
LEMMA OneTestMoves ==
    ASSUME TrafficInv, NEW t \in Tests, TrafficOK', RecordsFollow(t)', VerdictStands(t)',
           \A u \in Tests \ {t} :
               traffic'[u] = traffic[u] /\ judged'[u] = judged[u] /\ test'[u] = test[u]
    PROVE  TrafficInv'
<1>1. ASSUME NEW u \in Tests, u # t PROVE RecordsFollow(u)' /\ VerdictStands(u)'
  <2>1. RecordsFollow(u) /\ VerdictStands(u)
    BY DEF TrafficInv
  <2>2. traffic'[u] = traffic[u] /\ judged'[u] = judged[u] /\ test'[u] = test[u]
    BY <1>1
  <2> QED
    BY <2>1, <2>2 DEF RecordsFollow, VerdictStands, Request, Answered, IsJudged
<1> QED
  BY <1>1 DEF TrafficInv

(* A step of a test or its target that leaves requests and verdicts alone. *)
LEMMA TestMoves ==
    ASSUME TrafficInv, NEW t \in Tests, UNCHANGED <<traffic, judged>>,
           \A u \in Tests \ {t} : test'[u] = test[u],
           test'[t].step \in {"validate", "close", "done"} => test'[t].target \in {"none", "reaped"},
           judged[t].verdict # "none" =>
               test'[t].step \in {"close", "done"} /\ test'[t].err = test[t].err
    PROVE  TrafficInv'
<1>1. TrafficOK' /\ RecordsFollow(t)'
  BY DEF TrafficInv, TrafficOK, RecordsFollow, Request
<1>2. VerdictStands(t)'
  BY DEF TrafficInv, VerdictStands, Answered, Request, IsJudged
<1> QED
  BY <1>1, <1>2, OneTestMoves

(* A handler moves on with request n; answers go to running targets only,  *)
(* so before the verdict.                                                  *)
LEMMA StageMoves ==
    ASSUME TrafficInv, NEW t \in Tests, TrafficOK', UNCHANGED <<test, judged>>,
           \A u \in Tests \ {t} : traffic'[u] = traffic[u],
           NEW n \in DOMAIN traffic[t].stage, NEW s \in Stages,
           traffic'[t].stage = [traffic[t].stage EXCEPT ![n] = s],
           traffic'[t].sent = traffic[t].sent,
           Prolongs(traffic'[t].requests, traffic[t].requests),
           Prolongs(traffic'[t].versions, traffic[t].versions),
           s \in {"captured", "answered"} => n \in Range(traffic'[t].requests),
           t \in Tracked /\ s \in {"tracked", "captured", "answered"} =>
               Request(t, n).version \in Range(traffic'[t].versions),
           s = "answered" => test[t].target = "running"
    PROVE  TrafficInv'
<1>1. RecordsFollow(t) /\ VerdictStands(t) /\ traffic[t].stage \in Seq(Stages)
  BY TrafficTypes
<1>2. /\ DOMAIN traffic'[t].stage = DOMAIN traffic[t].stage
      /\ Len(traffic'[t].stage) = Len(traffic[t].stage)
      /\ \A k \in DOMAIN traffic[t].stage :
             traffic'[t].stage[k] = IF k = n THEN s ELSE traffic[t].stage[k]
  BY <1>1
<1>3. \A k : Request(t, k)' = Request(t, k)
  BY DEF Request
<1>r. /\ Range(traffic[t].requests) \subseteq Range(traffic'[t].requests)
      /\ Range(traffic[t].versions) \subseteq Range(traffic'[t].versions)
  BY ProlongedRange
<1>4. RecordsFollow(t)'
  <2>1. Len(traffic'[t].stage) = Len(traffic'[t].sent)
    BY <1>1, <1>2 DEF RecordsFollow
  <2>2. ASSUME NEW k \in DOMAIN traffic[t].stage
        PROVE  /\ traffic'[t].stage[k] \in {"captured", "answered"} =>
                   k \in Range(traffic'[t].requests)
               /\ t \in Tracked /\ traffic'[t].stage[k] \in {"tracked", "captured", "answered"} =>
                   Request(t, k).version \in Range(traffic'[t].versions)
    <3>1. CASE k = n
      BY <3>1, <1>2
    <3>2. CASE k # n
      BY <3>2, <1>1, <1>2, <1>r DEF RecordsFollow
    <3> QED
      BY <3>1, <3>2
  <2> QED
    BY <2>1, <2>2, <1>2, <1>3 DEF RecordsFollow
<1>5. VerdictStands(t)'
  <2>1. CASE judged[t].verdict = "none"
    BY <2>1, <1>1 DEF VerdictStands
  <2>2. CASE judged[t].verdict # "none"
    <3>1. s # "answered"
      BY <2>2, <1>1 DEF VerdictStands
    <3>2. Answered(t)' \subseteq Answered(t)
      BY <3>1, <1>2 DEF Answered
    <3>3. ASSUME NEW k, IsJudged(t, k) PROVE IsJudged(t, k)'
      BY <3>3, <1>3 DEF IsJudged, Prolongs
    <3> QED
      BY <3>2, <3>3, <1>1, <1>3 DEF VerdictStands
  <2> QED
    BY <2>1, <2>2
<1> QED
  BY <1>4, <1>5, OneTestMoves

LEMMA SendKeepsTraffic ==
    ASSUME TrafficInv, NEW t \in Tests, Send(t) PROVE TrafficInv'
<1>1. /\ test[t].target = "running"
      /\ UNCHANGED <<test, judged>>
  BY DEF Send
<1>2. PICK r \in Requests[t] :
          traffic' = [traffic EXCEPT ![t].sent = Append(@, r), ![t].stage = Append(@, "sent")]
  BY DEF Send
<1>3. r \in AllRequests /\ "sent" \in Stages
  BY DEF AllRequests, Stages, InHandler
<1> DEFINE tr == traffic[t]
<1>4. /\ RecordsFollow(t) /\ VerdictStands(t) /\ TrafficOK
      /\ tr.sent \in Seq(AllRequests) /\ tr.stage \in Seq(Stages)
      /\ tr.requests \in Seq(Nat) /\ tr.versions \in Seq(Versions)
      /\ Len(tr.stage) \in Nat /\ DOMAIN tr.stage = 1..Len(tr.stage)
  BY TrafficTypes
<1>5. /\ traffic'[t].sent = Append(tr.sent, r) /\ traffic'[t].stage = Append(tr.stage, "sent")
      /\ traffic'[t].requests = tr.requests /\ traffic'[t].versions = tr.versions
      /\ \A u \in Tests \ {t} : traffic'[u] = traffic[u]
  BY <1>2, <1>4 DEF TrafficOK
<1>6. TrafficOK'
  <2> DEFINE Types == [sent : Seq(AllRequests), stage : Seq(Stages),
                       requests : Seq(Nat), versions : Seq(Versions)]
             new == [tr EXCEPT !.sent = Append(@, r), !.stage = Append(@, "sent")]
  <2>1. Append(tr.sent, r) \in Seq(AllRequests) /\ Append(tr.stage, "sent") \in Seq(Stages)
    BY <1>3, <1>4
  <2>2. traffic \in [Tests -> Types] /\ tr \in Types
    BY <1>4 DEF TrafficOK
  <2>3. new \in Types
    BY <2>1, <2>2
  <2>4. traffic' = [traffic EXCEPT ![t] = new]
    BY <1>2
  <2> HIDE DEF Types, new, tr
  <2>5. traffic' \in [Tests -> Types]
    BY <2>2, <2>3, <2>4
  <2> QED
    BY <1>1, <1>4, <2>5 DEF TrafficOK, Types
<1>7. Len(tr.sent) = Len(tr.stage)
  BY <1>4 DEF RecordsFollow
<1>8. /\ \A k \in DOMAIN tr.stage : Append(tr.stage, "sent")[k] = tr.stage[k] /\ Append(tr.sent, r)[k] = tr.sent[k]
      /\ Append(tr.stage, "sent")[Len(tr.stage) + 1] = "sent"
      /\ DOMAIN Append(tr.stage, "sent") = DOMAIN tr.stage \cup {Len(tr.stage) + 1}
      /\ Len(Append(tr.stage, "sent")) = Len(Append(tr.sent, r))
  <2> HIDE DEF tr
  <2>1. /\ Append(tr.stage, "sent") \in Seq(Stages) /\ Len(Append(tr.stage, "sent")) = Len(tr.stage) + 1
        /\ \A k \in 1..Len(tr.stage) : Append(tr.stage, "sent")[k] = tr.stage[k]
        /\ Append(tr.stage, "sent")[Len(tr.stage) + 1] = "sent"
    BY <1>3, <1>4, AppendProperties
  <2>2. /\ Len(Append(tr.sent, r)) = Len(tr.sent) + 1
        /\ \A k \in 1..Len(tr.sent) : Append(tr.sent, r)[k] = tr.sent[k]
    BY <1>3, <1>4, AppendProperties
  <2>3. DOMAIN Append(tr.stage, "sent") = 1..(Len(tr.stage) + 1)
    BY <2>1
  <2> QED
    BY <1>4, <1>7, <2>1, <2>2, <2>3
<1>9. RecordsFollow(t)'
  BY <1>4, <1>5, <1>8 DEF RecordsFollow, Request
<1>10. VerdictStands(t)'
  BY <1>1, <1>4 DEF VerdictStands
<1> QED
  BY <1>1, <1>5, <1>6, <1>9, <1>10, OneTestMoves

(* A request number is that of a request sent. *)
LEMMA HandleKeepsTraffic ==
    ASSUME TrafficInv, NEW t \in Tests, NEW n \in Nat, Handle(t, n) PROVE TrafficInv'
<1> DEFINE tr == traffic[t]
<1>1. /\ RecordsFollow(t) /\ VerdictStands(t) /\ TrafficOK
      /\ tr.sent \in Seq(AllRequests) /\ tr.stage \in Seq(Stages)
      /\ tr.requests \in Seq(Nat) /\ tr.versions \in Seq(Versions)
      /\ \A k \in DOMAIN tr.stage : Request(t, k).version \in Versions
  BY TrafficTypes
<1>2. UNCHANGED <<test, judged>> /\ n \in DOMAIN tr.stage
  BY DEF Handle, RecordVersion, Capture, Answer, Lose, Is
<1>3. ASSUME NEW s \in Stages PROVE [tr.stage EXCEPT ![n] = s] \in Seq(Stages)
  BY <1>1, ElementChanges
<1>4. tr \in Traffic
  BY <1>1 DEF TrafficOK, Traffic
<1>5. CASE RecordVersion(t, n)
  <2> DEFINE r == [tr EXCEPT !.versions = Append(tr.versions, Request(t, n).version),
                             !.stage = [tr.stage EXCEPT ![n] = "tracked"]]
  <2>1. tr.stage[n] = "sent" /\ "tracked" \in Stages /\ traffic' = [traffic EXCEPT ![t] = r]
    BY <1>5 DEF RecordVersion, Is, Appended, Stages, InHandler
  <2>2. Append(tr.versions, Request(t, n).version) \in Seq(Versions)
    BY <1>1, <1>2
  <2>3. /\ r \in Traffic
        /\ r.sent = tr.sent /\ r.requests = tr.requests
        /\ r.versions = Append(tr.versions, Request(t, n).version)
        /\ r.stage = [tr.stage EXCEPT ![n] = "tracked"]
    BY <1>3, <1>4, <2>1, <2>2 DEF Traffic
  <2> HIDE DEF r
  <2>4. TrafficOK' /\ traffic'[t] = r /\ \A u \in Tests \ {t} : traffic'[u] = traffic[u]
    BY <1>1, <1>2, <2>1, <2>3, TrafficChanges
  <2> HIDE DEF tr
  <2>5. Request(t, n).version \in Range(r.versions) /\ Prolongs(r.versions, tr.versions)
    <3>1. Range(r.versions) = Range(tr.versions) \cup {Request(t, n).version}
      BY <1>1, <1>2, <2>3, RangeOfAppend
    <3>2. Prolongs(r.versions, tr.versions)
      BY <1>1, <1>2, <2>3, AppendProlongs
    <3> QED
      BY <3>1, <3>2
  <2>6. /\ traffic'[t].stage = [traffic[t].stage EXCEPT ![n] = "tracked"]
        /\ traffic'[t].sent = traffic[t].sent
        /\ Prolongs(traffic'[t].requests, traffic[t].requests)
        /\ Prolongs(traffic'[t].versions, traffic[t].versions)
        /\ Request(t, n).version \in Range(traffic'[t].versions)
        /\ n \in DOMAIN traffic[t].stage
    BY <1>2, <2>3, <2>4, <2>5 DEF tr, Prolongs
  <2> QED
    BY <1>2, <2>1, <2>4, <2>6, StageMoves
<1>6. CASE Capture(t, n)
  <2>1. tr.stage[n] = IF t \in Tracked THEN "tracked" ELSE "sent"
    BY <1>6 DEF Capture, Is
  <2>2. CASE traffic' = [traffic EXCEPT ![t].requests = Append(tr.requests, n), ![t].stage[n] = "captured"]
    <3> DEFINE r == [tr EXCEPT !.requests = Append(tr.requests, n),
                               !.stage = [tr.stage EXCEPT ![n] = "captured"]]
    <3>1. Append(tr.requests, n) \in Seq(Nat) /\ "captured" \in Stages
      BY <1>1 DEF Stages, InHandler
    <3>2. /\ traffic' = [traffic EXCEPT ![t] = r] /\ r \in Traffic
          /\ r.sent = tr.sent /\ r.versions = tr.versions
          /\ r.requests = Append(tr.requests, n)
          /\ r.stage = [tr.stage EXCEPT ![n] = "captured"]
      BY <1>3, <1>4, <2>2, <3>1 DEF Traffic
    <3> HIDE DEF r
    <3>3. TrafficOK' /\ traffic'[t] = r /\ \A u \in Tests \ {t} : traffic'[u] = traffic[u]
      BY <1>1, <1>2, <3>2, TrafficChanges
    <3>4. t \in Tracked => Request(t, n).version \in Range(tr.versions)
      BY <1>1, <1>2, <2>1 DEF RecordsFollow
    <3> HIDE DEF tr
    <3>5. n \in Range(r.requests) /\ Prolongs(r.requests, tr.requests)
      <4>1. tr.requests \in Seq(Nat)
        BY <1>1
      <4>2. Range(Append(tr.requests, n)) = Range(tr.requests) \cup {n}
        BY <4>1, RangeOfAppend
      <4>3. Prolongs(Append(tr.requests, n), tr.requests)
        BY <4>1, AppendProlongs
      <4> QED
        BY <3>2, <4>2, <4>3
    <3>6. /\ traffic'[t].stage = [traffic[t].stage EXCEPT ![n] = "captured"]
          /\ traffic'[t].sent = traffic[t].sent
          /\ Prolongs(traffic'[t].requests, traffic[t].requests)
          /\ Prolongs(traffic'[t].versions, traffic[t].versions)
          /\ n \in Range(traffic'[t].requests)
          /\ t \in Tracked => Request(t, n).version \in Range(traffic'[t].versions)
          /\ n \in DOMAIN traffic[t].stage
      BY <1>2, <3>2, <3>3, <3>4, <3>5 DEF tr, Prolongs
    <3> QED
      BY <1>2, <3>1, <3>3, <3>6, StageMoves
  <2>3. CASE traffic' = [traffic EXCEPT ![t].stage[n] = "rejected"]
    <3> DEFINE r == [tr EXCEPT !.stage = [tr.stage EXCEPT ![n] = "rejected"]]
    <3>1. /\ traffic' = [traffic EXCEPT ![t] = r] /\ r \in Traffic /\ "rejected" \in Stages
          /\ r.sent = tr.sent /\ r.versions = tr.versions /\ r.requests = tr.requests
          /\ r.stage = [tr.stage EXCEPT ![n] = "rejected"]
      BY <1>3, <1>4, <2>3 DEF Traffic, Stages
    <3> HIDE DEF r
    <3>2. TrafficOK' /\ traffic'[t] = r /\ \A u \in Tests \ {t} : traffic'[u] = traffic[u]
      BY <1>1, <1>2, <3>1, TrafficChanges
    <3> HIDE DEF tr
    <3> QED
      BY <1>2, <3>1, <3>2, StageMoves DEF tr, Prolongs
  <2> QED
    BY <1>6, <2>2, <2>3 DEF Capture, Appended
<1>7. CASE Answer(t, n) \/ Lose(t, n)
  <2>1. PICK s \in {"answered", "rejected"} :
            /\ traffic' = [traffic EXCEPT ![t].stage[n] = s]
            /\ s = "answered" => test[t].target = "running" /\ tr.stage[n] = "captured"
    BY <1>7 DEF Answer, Lose, Is
  <2> DEFINE r == [tr EXCEPT !.stage = [tr.stage EXCEPT ![n] = s]]
  <2>2. /\ traffic' = [traffic EXCEPT ![t] = r] /\ r \in Traffic /\ s \in Stages
        /\ r.sent = tr.sent /\ r.versions = tr.versions /\ r.requests = tr.requests
        /\ r.stage = [tr.stage EXCEPT ![n] = s]
    BY <1>3, <1>4, <2>1 DEF Traffic, Stages
  <2> HIDE DEF r
  <2>3. TrafficOK' /\ traffic'[t] = r /\ \A u \in Tests \ {t} : traffic'[u] = traffic[u]
    BY <1>1, <1>2, <2>2, TrafficChanges
  <2>4. s = "answered" =>
            /\ n \in Range(tr.requests)
            /\ t \in Tracked => Request(t, n).version \in Range(tr.versions)
    BY <1>1, <1>2, <2>1 DEF RecordsFollow
  <2> HIDE DEF tr
  <2> QED
    BY <1>2, <2>1, <2>2, <2>3, <2>4, StageMoves DEF tr, Prolongs
<1> QED
  BY <1>5, <1>6, <1>7 DEF Handle

(* The last request recorded is one that nothing recorded comes after.     *)
LEMMA LastIsLast ==
    ASSUME NEW t \in Tests, traffic[t].requests \in Seq(Nat)
    PROVE  /\ LastRequest(t) \in Nat
           /\ \A n \in Range(traffic[t].requests) :
                  \E i, j \in DOMAIN traffic[t].requests :
                      /\ i <= j /\ traffic[t].requests[i] = n
                      /\ traffic[t].requests[j] = LastRequest(t)
<1> DEFINE seq == traffic[t].requests
<1>1. /\ seq \in Seq(Nat) /\ Len(seq) \in Nat /\ DOMAIN seq = 1..Len(seq)
      /\ LastRequest(t) = IF seq = <<>> THEN 0 ELSE seq[Len(seq)]
  BY DEF LastRequest
<1> HIDE DEF seq
<1>2. CASE seq = <<>>
  <2>1. DOMAIN seq = {} /\ Range(seq) = {}
    BY <1>1, <1>2 DEF Range
  <2> QED
    BY <1>1, <1>2, <2>1 DEF seq
<1>3. CASE seq # <<>>
  <2>1. Len(seq) \in 1..Len(seq) /\ seq[Len(seq)] = LastRequest(t) /\ LastRequest(t) \in Nat
    BY <1>1, <1>3, EmptySeq
  <2>2. ASSUME NEW n \in Range(seq) PROVE \E i \in DOMAIN seq : i <= Len(seq) /\ seq[i] = n
    BY <1>1 DEF Range
  <2> QED
    BY <1>1, <2>1, <2>2 DEF seq
<1> QED
  BY <1>2, <1>3

(* What Validate judges. *)
Verdicts == [verdict : {"none", "pass", "fail"}, request : Nat, versions : Seq(Versions)]

LEMMA VerdictType ==
    ASSUME NEW t \in Tests, NEW accepts \in BOOLEAN,
           traffic[t].requests \in Seq(Nat), traffic[t].versions \in Seq(Versions)
    PROVE  /\ Verdict(t, accepts) \in Verdicts
           /\ Verdict(t, accepts).verdict = "pass" => Passes(t, accepts)
           /\ t \in Tracked => Verdict(t, accepts).versions = traffic[t].versions
           /\ t \in Scenarios /\ ~test[t].err => Verdict(t, accepts).request = LastRequest(t)
<1>1. LastRequest(t) \in Nat /\ <<>> \in Seq(Versions)
  BY LastIsLast
<1> QED
  BY <1>1 DEF Verdict, Verdicts

(* A verdict on what was answered: the target is gone. *)
LEMMA ValidateKeepsTraffic ==
    ASSUME TrafficInv, StepsInv, NEW t \in Tests, Validate(t) PROVE TrafficInv'
<1>1. /\ RecordsFollow(t) /\ VerdictStands(t) /\ TrafficOK
      /\ traffic[t].requests \in Seq(Nat) /\ traffic[t].versions \in Seq(Versions)
  BY TrafficTypes
<1>2. PICK accepts \in BOOLEAN : judged' = [judged EXCEPT ![t] = Verdict(t, accepts)]
  BY DEF Validate
<1>3. /\ test[t].step = "validate" /\ UNCHANGED traffic
      /\ test'[t].step = "close" /\ test'[t].target = test[t].target /\ test'[t].err = test[t].err
      /\ \A u \in Tests \ {t} : test'[u] = test[u]
  BY DEF Validate, At, StepsInv, TypeOK, TestStates
<1>4. /\ judged'[t] = Verdict(t, accepts)
      /\ \A u \in Tests \ {t} : judged'[u] = judged[u]
  BY <1>1, <1>2 DEF TrafficOK
<1>5. TrafficOK'
  <2>1. judged \in [Tests -> Verdicts] /\ Verdict(t, accepts) \in Verdicts
    BY <1>1, VerdictType DEF TrafficOK, Verdicts
  <2>2. judged' \in [Tests -> Verdicts]
    BY <1>2, <2>1
  <2> QED
    BY <1>1, <1>3, <2>2 DEF TrafficOK, Verdicts
<1>6. RecordsFollow(t)'
  BY <1>1, <1>3 DEF RecordsFollow, Request
<1>7. VerdictStands(t)'
  <2>1. Answered(t)' = Answered(t) /\ \A m : Request(t, m)' = Request(t, m)
    BY <1>3 DEF Answered, Request
  <2>2. ASSUME t \in Tracked \/ ~test[t].err, NEW n \in Answered(t) PROVE IsJudged(t, n)'
    <3>1. CASE t \in Tracked
      <4>1. Request(t, n).version \in Range(traffic[t].versions)
        BY <1>1, <3>1 DEF RecordsFollow, Answered
      <4>2. judged'[t].versions = traffic[t].versions
        BY <1>1, <1>4, <3>1, VerdictType
      <4> QED
        BY <2>1, <3>1, <4>1, <4>2 DEF IsJudged
    <3>2. CASE t \notin Tracked
      <4>1. t \in Scenarios /\ ~test[t].err
        BY <2>2, <3>2 DEF Tests
      <4>2. n \in Range(traffic[t].requests)
        BY <1>1 DEF RecordsFollow, Answered
      <4>3. judged'[t].request = LastRequest(t)
        BY <1>1, <1>4, <4>1, VerdictType
      <4>4. PICK i, j \in DOMAIN traffic[t].requests :
                /\ i <= j /\ traffic[t].requests[i] = n
                /\ traffic[t].requests[j] = LastRequest(t)
        BY <1>1, <4>2, LastIsLast
      <4> QED
        BY <1>3, <4>1, <4>3, <4>4 DEF IsJudged
    <3> QED
      BY <3>1, <3>2
  <2>3. ASSUME t \in NoFallbacks, Passes(t, accepts), NEW m \in Answered(t), NEW n \in Answered(t)
        PROVE  Request(t, m).version = Request(t, n).version
    <3>1. NoFallbackPasses(t) /\ t \in Tracked
      BY <2>3, KindsAssumption DEF Passes, Tracked
    <3>2. /\ Request(t, m).version \in Range(traffic[t].versions)
          /\ Request(t, n).version \in Range(traffic[t].versions)
      BY <3>1, <1>1 DEF RecordsFollow, Answered
    <3> QED
      BY <3>1, <3>2 DEF NoFallbackPasses, Range
  <2>4. test'[t].target \in {"none", "reaped"}
    BY <1>1, <1>3 DEF VerdictStands
  <2>5. judged'[t].verdict = "pass" => Passes(t, accepts)
    BY <1>1, <1>4, VerdictType
  <2> QED
    BY <2>1, <2>2, <2>3, <2>4, <2>5, <1>3 DEF VerdictStands
<1> QED
  BY <1>3, <1>4, <1>5, <1>6, <1>7, OneTestMoves

LEMMA NothingSentYet ==
    /\ FreshTraffic \in [sent : Seq(AllRequests), stage : Seq(Stages),
                         requests : Seq(Nat), versions : Seq(Versions)]
    /\ FreshTraffic.stage = <<>> /\ FreshTraffic.sent = <<>> /\ DOMAIN FreshTraffic.stage = {}
BY DEF FreshTraffic

LEMMA CloseKeepsTraffic ==
    ASSUME TrafficInv, StepsInv, NEW t \in Tests, Close(t) PROVE TrafficInv'
<1>1. RecordsFollow(t) /\ VerdictStands(t) /\ TrafficOK
  BY TrafficTypes
<1>2. /\ test[t].step = "close" /\ UNCHANGED judged
      /\ test'[t].step = "done" /\ test'[t].target = test[t].target
      /\ \A u \in Tests \ {t} : test'[u] = test[u] /\ traffic'[u] = traffic[u]
      /\ traffic'[t] = FreshTraffic /\ traffic' = [traffic EXCEPT ![t] = FreshTraffic]
  BY <1>1 DEF Close, At, StepsInv, TypeOK, TestStates, TrafficOK
<1>3. TrafficOK'
  BY <1>1, <1>2, NothingSentYet DEF TrafficOK
<1>4. Answered(t)' = {} /\ RecordsFollow(t)'
  BY <1>2, NothingSentYet DEF Answered, RecordsFollow
<1>5. VerdictStands(t)'
  BY <1>1, <1>2, <1>4 DEF VerdictStands
<1> QED
  BY <1>2, <1>3, <1>4, <1>5, OneTestMoves

(* The steps up to the verdict. *)
LEMMA TestKeepsTraffic ==
    ASSUME TrafficInv, StepsInv, NEW t \in Tests,
           Lock(t) \/ Download(t) \/ RunCommand(t) \/ Exit(t) \/ Interrupt(t)
    PROVE  TrafficInv'
<1>1. VerdictStands(t)
  BY TrafficTypes
<1>2. test \in [Tests -> TestStates]
  BY DEF StepsInv, TypeOK
<1>3. UNCHANGED <<traffic, judged>> /\ \A u \in Tests \ {t} : test'[u] = test[u]
  BY <1>2 DEF Lock, Download, Unpack, Look, Fetch, Extract, Copy, Chmod, GoOn, Return, ReturnNoName, ReturnError,
     RunCommand, Launch, CannotLaunch, Wait, Exit, Interrupt
<1>4. CASE Lock(t)
  <2>1. test[t].step = "start" /\ test'[t].step = "look"
    BY <1>4, <1>2 DEF Lock, At, TestStates
  <2> QED
    BY <2>1, <1>1, <1>3, TestMoves DEF VerdictStands
<1>5. CASE Download(t)
  <2>1. test[t].step \in Downloading
    BY <1>5 DEF Download, Unpack, Look, Fetch, Extract, Copy, Chmod, At, Downloading
  <2>2. test[t].target = "none" /\ judged[t].verdict = "none"
    BY <2>1, <1>1 DEF StepsInv, TargetsAndTimers, VerdictStands, Downloading
  <2>3. test'[t].target = test[t].target
    BY <1>5, <1>2 DEF Download, Unpack, Look, Fetch, Extract, Copy, Chmod, GoOn, Return, ReturnNoName,
       ReturnError, TestStates
  <2> QED
    BY <2>2, <2>3, <1>3, TestMoves
<1>6. CASE Launch(t)
  <2>1. test[t].step = "launch" /\ test'[t].step = "waiting"
    BY <1>6, <1>2 DEF Launch, At, TestStates
  <2> QED
    BY <2>1, <1>1, <1>3, TestMoves DEF VerdictStands
<1>7. CASE CannotLaunch(t)
  <2>1. test[t].step = "launch" /\ test'[t].step = "validate" /\ test'[t].target = test[t].target
    BY <1>7, <1>2 DEF CannotLaunch, At, TestStates
  <2>2. test[t].target = "none"
    BY <2>1 DEF StepsInv, TargetsAndTimers
  <2> QED
    BY <2>1, <2>2, <1>1, <1>3, TestMoves DEF VerdictStands
<1>8. CASE Wait(t)
  <2>1. test[t].step = "waiting" /\ test'[t].step = "validate" /\ test'[t].target = "reaped"
    BY <1>8, <1>2 DEF Wait, At, TestStates
  <2> QED
    BY <2>1, <1>1, <1>3, TestMoves DEF VerdictStands
<1>9. CASE Exit(t)
  <2>1. test[t].target = "running" /\ test'[t].step = test[t].step
    <3>1. PICK failed \in BOOLEAN :
             test' = [test EXCEPT ![t].target = "exited", ![t].err = failed, ![t].early = test[t].timer = "armed"]
      BY <1>9 DEF Exit
    <3>2. test'[t].step = test[t].step
      BY <3>1, <1>2 DEF TestStates
    <3> QED
      BY <3>2, <1>9 DEF Exit
  <2> QED
    BY <2>1, <1>1, <1>3, TestMoves DEF VerdictStands
<1>10. CASE Interrupt(t)
  <2>1. /\ test'[t].step = test[t].step /\ test'[t].target = test[t].target
        /\ test'[t].err = test[t].err
    BY <1>10, <1>2 DEF Interrupt, TestStates
  <2> QED
    BY <2>1, <1>1, <1>3, TestMoves DEF VerdictStands
<1> QED
  BY <1>4, <1>5, <1>6, <1>7, <1>8, <1>9, <1>10 DEF RunCommand

(* Init and Rerun: nothing is sent and nothing judged. *)
AllFresh ==
    test = EachTest(FreshTest) /\ traffic = EachTest(FreshTraffic) /\ judged = EachTest(FreshVerdict)

LEMMA FreshTestsKeepTraffic == AllFresh => TrafficInv
<1> SUFFICES ASSUME AllFresh PROVE TrafficInv
  OBVIOUS
<1> USE DEF AllFresh
<1>1. TrafficOK
  BY NothingSentYet DEF TrafficOK, EachTest, FreshVerdict
<1>2. \A t \in Tests : RecordsFollow(t)
  BY NothingSentYet DEF RecordsFollow, EachTest
<1>3. \A t \in Tests : VerdictStands(t)
  BY DEF VerdictStands, EachTest, FreshVerdict, FreshTest
<1> QED
  BY <1>1, <1>2, <1>3 DEF TrafficInv

LEMMA NextKeepsTraffic == TrafficInv /\ StepsInv /\ [Next]_vars => TrafficInv'
<1> SUFFICES ASSUME TrafficInv, StepsInv, [Next]_vars PROVE TrafficInv'
  OBVIOUS
<1>1. ASSUME NEW t \in Tests, Lock(t) \/ Download(t) \/ RunCommand(t) \/ Exit(t) \/ Interrupt(t)
      PROVE  TrafficInv'
  BY <1>1, TestKeepsTraffic
<1>2. ASSUME NEW t \in Tests, Send(t) PROVE TrafficInv'
  BY <1>2, SendKeepsTraffic
<1>3. ASSUME NEW t \in Tests, NEW n \in 1..MaxRequests[runs], Handle(t, n) PROVE TrafficInv'
  BY <1>3, CountersAreBounded, HandleKeepsTraffic DEF StepsInv, TypeOK
<1>4. ASSUME NEW t \in Tests, Conclude(t) PROVE TrafficInv'
  BY <1>4, ValidateKeepsTraffic, CloseKeepsTraffic DEF Conclude
<1>5. CASE Rerun
  <2>1. AllFresh'
    BY <1>5 DEF Rerun, AllFresh, EachTest
  <2> QED
    BY <2>1, FreshTestsKeepTraffic, PTL
<1>6. CASE UNCHANGED vars
  BY <1>6 DEF vars, TrafficInv, TrafficOK, RecordsFollow, VerdictStands, Request, Answered, IsJudged
<1> QED
  BY <1>1, <1>2, <1>3, <1>4, <1>5, <1>6 DEF Next

(* The mutex, the file, the steps of the tests and what their receivers    *)
(* recorded stay as IInv has them.                                         *)
THEOREM InductiveInvariant == Spec => []IInv
<1>1. Init => IInv
  BY InitialInvariant, FreshTestsKeepTraffic DEF IInv, Init, AllFresh
<1>2. IInv /\ [Next]_vars => IInv'
  BY NextPreserves, NextKeepsTraffic DEF IInv
<1> QED
  BY <1>1, <1>2, PTL DEF Spec

(* Every variable that steers a test stays in its type. *)
THEOREM TypesAreRight == Spec => []TypeOK
<1>1. IInv => TypeOK
  BY DEF IInv, StepsInv
<1> QED
  BY <1>1, InductiveInvariant, PTL

(* No test ever runs a binary that was not extracted to its end, however   *)
(* many downloads fail and however often the tests are killed and rerun.   *)
THEOREM BinariesAreWhole == Spec => []OnlyWholeBinariesRun
<1>1. IInv => OnlyWholeBinariesRun
  BY DEF IInv, StepsInv, FileFollowsSteps, TargetsAndTimers, OnlyWholeBinariesRun
<1> QED
  BY <1>1, InductiveInvariant, PTL

(* With the mutex, no number of parallel tests makes a launch fail.        *)
THEOREM LaunchesAreSafe == Spec => []LaunchFailsOnlyAfterAFault
<1>1. IInv => LaunchFailsOnlyAfterAFault
  BY DEF IInv, StepsInv, LaunchIsPrepared, LaunchFailsOnlyAfterAFault
<1> QED
  BY <1>1, InductiveInvariant, PTL

(* The process never ends itself for a target that waited for its signal.  *)
THEOREM FatalHasACause == Spec => []FatalOnlyAfterAnEarlyExit
<1>1. IInv => FatalOnlyAfterAnEarlyExit
  <2> SUFFICES ASSUME IInv, process = "fatal" PROVE \E t \in Tests : test[t].early
    BY DEF FatalOnlyAfterAnEarlyExit
  <2> QED
    BY DEF IInv, StepsInv, TargetsAndTimers
<1> QED
  BY <1>1, InductiveInvariant, PTL

(* Whatever the order requests overlap in, one that was answered is among  *)
(* those that the verdict compares, or was recorded no later than the one  *)
(* that the validator gets: handleRequest records it before it answers,    *)
(* and the receiver is read when the target is gone.                       *)
THEOREM AnswersAreJudged == Spec => []AnsweredIsJudged
<1>1. IInv => AnsweredIsJudged
  BY DEF IInv, TrafficInv, VerdictStands, AnsweredIsJudged
<1> QED
  BY <1>1, InductiveInvariant, PTL

(* TestNoFallbackOn2xx does not pass a sender that was answered requests   *)
(* of two versions.                                                        *)
THEOREM VersionChangesAreReported == Spec => []VersionChangeIsReported
<1>1. IInv => VersionChangeIsReported
  BY DEF IInv, TrafficInv, VerdictStands, VersionChangeIsReported, Tests, Tracked
<1> QED
  BY <1>1, InductiveInvariant, PTL
=============================================================================
