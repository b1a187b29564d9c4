------------------------------ MODULE TestSuite ------------------------------
(***************************************************************************)
(* The run-time of the alert generator compliance test: the goroutines of  *)
(* alert_generator/testsuite.go and of the command that drives them,       *)
(* cmd/alert_generator_compliance_tester/main.go.                          *)
(*                                                                         *)
(* Every enabled check is a polling loop.  A loop reads the clock, fetches *)
(* from the software under test, checks every group still under test, and  *)
(* removes the groups that failed or whose time is over.  The first        *)
(* goroutine that sees no group left, or a SIGINT, stops everything; main  *)
(* waits for all of them and then states the verdict.                      *)
(*                                                                         *)
(* The clock is abstracted to the set of groups whose TestUntil() is past. *)
(* The alert server and the remote writer, which have modules of their     *)
(* own, appear here by what the suite sees of them.                        *)
(***************************************************************************)
EXTENDS Naturals, Sequences

CONSTANTS Groups,           \* the names of the rule groups under test
          RuleGroupLabels,  \* values of the "rulegroup" label a received alert can have
          AlertingGroups,   \* groups whose cases expect alerts
          Pollers,          \* the API and metrics loops that are enabled
          ReceptionEnabled, \* FALSE iff DisableAlertsReceptionCheck
          MaxWriteErrors,   \* bound: remote writes that may fail in a run
          MaxInterrupts     \* bound: SIGINTs the user may send in a run

Reception == "reception"
SigInt    == "sigint"

Loops  == Pollers \cup (IF ReceptionEnabled THEN {Reception} ELSE {})
Actors == Loops \cup {SigInt}

ASSUME GroupsAssumption ==
    /\ Groups # {} /\ Groups \subseteq RuleGroupLabels
    /\ AlertingGroups \subseteq Groups
\* validateOpts refuses to run with every check disabled.
ASSUME LoopsAssumption ==
    /\ Pollers \subseteq {"alerts", "rules", "metrics"}
    /\ ReceptionEnabled \in BOOLEAN
    /\ Loops # {}
ASSUME BoundsAssumption == MaxWriteErrors \in Nat /\ MaxInterrupts \in Nat

VARIABLES
    expired,             \* groups with TestUntil() < now: the clock
    ruleGroupTests,      \* groups still under test
    ruleGroupTestErrors, \* label -> the loops whose errors were appended
    pc,                  \* actor -> where it is
    nowTs,               \* loop -> the clock as its iteration read it, {} between
    groupsToRemove,      \* loop -> label -> "keep", "pass" (nil error) or "fail"
    stopc,               \* TRUE iff the channel is closed
    server,              \* the alert server: "off", "open", "closed"
    serverErr,           \* ListenAndServe failed on its own
    handling,            \* a request is inside ServeHTTP
    facing,              \* labels with a recorded reception error
    outstanding,         \* groups with an expected first send that has not come
    writer,              \* the remote writer's goroutine
    written,             \* timesWritten > 0
    errc,                \* errors in the writer's channel, of capacity 1
    writeErrors,         \* bounded count of failed writes
    rwStopc,             \* TRUE iff the writer's stop channel is closed
    main,                \* where main is
    interrupted,         \* main's flag
    interrupts,          \* bounded count of SIGINTs
    sawFacing,           \* WasTestSuccessful's local copy: some label faces errors
    outcome,             \* what the process ended with
    panicked             \* TRUE iff a goroutine panicked, which ends the process

loopVars   == <<nowTs, groupsToRemove>>
testVars   == <<ruleGroupTests, ruleGroupTestErrors>>
serverVars == <<server, serverErr, handling, facing, outstanding>>
writerVars == <<writer, written, errc, writeErrors, rwStopc>>
mainVars   == <<main, interrupted, interrupts, sawFacing, outcome>>
vars == <<expired, testVars, pc, loopVars, stopc, serverVars, writerVars,
          mainVars, panicked>>

LoopStates == {"isOver", "select", "get", "check", "remove"}
StopStates == {"stop", "closeStopc", "closeServer", "closeWriter"}
MainStates == {"start", "startWriter", "initCases", "spawn", "serverWait",
               "writerWait", "loopsWait", "closeSignals", "signalWait",
               "error", "facing", "leftover", "exited"}

LoopsTypeOK ==
    /\ expired \subseteq Groups
    /\ ruleGroupTests \subseteq Groups
    /\ ruleGroupTestErrors \in [RuleGroupLabels -> Seq(Loops)]
    /\ pc \in [Actors -> LoopStates \cup StopStates \cup {"off", "waiting", "done"}]
    /\ nowTs \in [Loops -> SUBSET Groups]
    /\ groupsToRemove \in [Loops -> [RuleGroupLabels -> {"keep", "pass", "fail"}]]
    /\ stopc \in BOOLEAN

ServerTypeOK ==
    /\ server \in {"off", "open", "closed"}
    /\ serverErr \in BOOLEAN
    /\ handling \in BOOLEAN
    /\ facing \subseteq RuleGroupLabels
    /\ outstanding \subseteq Groups

WriterTypeOK ==
    /\ writer \in {"off", "running", "blocked", "done"}
    /\ written \in BOOLEAN
    /\ errc \in 0..1
    /\ writeErrors \in 0..MaxWriteErrors
    /\ rwStopc \in BOOLEAN

MainTypeOK ==
    /\ main \in MainStates
    /\ interrupted \in BOOLEAN
    /\ interrupts \in 0..MaxInterrupts
    /\ sawFacing \in BOOLEAN
    /\ outcome \in {"none", "error", "failed", "passed", "incomplete"}
    /\ panicked \in BOOLEAN

TypeOK == LoopsTypeOK /\ ServerTypeOK /\ WriterTypeOK /\ MainTypeOK

NothingToRemove == [g \in RuleGroupLabels |-> "keep"]

Init ==
    /\ expired = {}
    /\ ruleGroupTests = Groups
    /\ ruleGroupTestErrors = [g \in RuleGroupLabels |-> <<>>]
    /\ pc = [a \in Actors |-> "off"]
    /\ nowTs = [l \in Loops |-> {}]
    /\ groupsToRemove = [l \in Loops |-> NothingToRemove]
    /\ stopc = FALSE
    /\ server = "off" /\ serverErr = FALSE /\ handling = FALSE
    /\ facing = {} /\ outstanding = {}
    /\ writer = "off" /\ written = FALSE /\ errc = 0 /\ writeErrors = 0
    /\ rwStopc = FALSE
    /\ main = "start" /\ interrupted = FALSE /\ interrupts = 0
    /\ sawFacing = FALSE /\ outcome = "none" /\ panicked = FALSE

(* The process runs until main exits or a goroutine panics. *)
Alive == main # "exited" /\ ~panicked

-----------------------------------------------------------------------------
(* Time: the end of a group's test passes.  TestUntil() is set by Init, so *)
(* it can only pass once the case has been initialised.                    *)
Expire(g) ==
    /\ Alive /\ main \notin {"start", "startWriter", "initCases"}
    /\ g \notin expired
    /\ expired' = expired \cup {g}
    /\ UNCHANGED <<testVars, pc, loopVars, stopc, serverVars, writerVars, mainVars, panicked>>

-----------------------------------------------------------------------------
(* loopTillItsOver: the exit test of the for loop. *)
isOverUnlessFailed == ruleGroupTests = {} /\ \A g \in Groups : ruleGroupTestErrors[g] = <<>>
isOver == ruleGroupTests = {}

IsOver(l) ==
    /\ Alive /\ pc[l] = "isOver"
    /\ pc' = [pc EXCEPT ![l] = IF isOver THEN "stop" ELSE "select"]
    /\ UNCHANGED <<expired, testVars, loopVars, stopc, serverVars, writerVars, mainVars, panicked>>

(* The select of loopTillItsOver takes the closed channel: return, which   *)
(* runs the deferred Stop.                                                 *)
StopSeenOnlyWhenOver(l) == pc[l] = "select" /\ stopc /\ ruleGroupTests = {}
StopSeen(l) == pc[l] = "select" /\ stopc

SelectStop(l) ==
    /\ Alive /\ StopSeen(l)
    /\ pc' = [pc EXCEPT ![l] = "stop"]
    /\ UNCHANGED <<expired, testVars, loopVars, stopc, serverVars, writerVars, mainVars, panicked>>

(* The select takes the timer: f() starts and reads the clock before the   *)
(* request (a poller) or before the server's errors (monitorAlertReception).*)
SelectTimer(l) ==
    /\ Alive /\ pc[l] = "select"
    /\ nowTs' = [nowTs EXCEPT ![l] = expired]
    /\ groupsToRemove' = [groupsToRemove EXCEPT ![l] = NothingToRemove]
    /\ pc' = [pc EXCEPT ![l] = "get"]
    /\ UNCHANGED <<expired, testVars, stopc, serverVars, writerVars, mainVars, panicked>>

(* DoGetRequest or the parser fails: the return leaves f(), not the loop,  *)
(* and this iteration decides nothing.                                     *)
LeavesTheLoop == "stop"
AfterFailedGet == "isOver"

GetFails(l) ==
    /\ Alive /\ l \in Pollers /\ pc[l] = "get"
    /\ pc' = [pc EXCEPT ![l] = AfterFailedGet]
    /\ nowTs' = [nowTs EXCEPT ![l] = {}]
    /\ UNCHANGED <<expired, testVars, groupsToRemove, stopc, serverVars, writerVars, mainVars, panicked>>

(* groupsFacingErrors, read under errsMtx: each such label is to fail. *)
ReadFacing(l) ==
    /\ Alive /\ l = Reception /\ pc[l] = "get"
    /\ groupsToRemove' = [groupsToRemove EXCEPT ![l] =
           [g \in RuleGroupLabels |-> IF g \in facing THEN "fail" ELSE "keep"]]
    /\ pc' = [pc EXCEPT ![l] = "check"]
    /\ UNCHANGED <<expired, testVars, nowTs, stopc, serverVars, writerVars, mainVars, panicked>>

(* TestUntil() < nowTs, for the clock that the iteration of loop l read. *)
TimeIsOverWhenStopping(l, g) == g \in nowTs[l] \/ stopc
TimeIsOver(l, g) == g \in nowTs[l]

(* The request answers, and the loop passes over ruleGroupTests under RLock. *)
(* bad: groups whose CheckAlerts, CheckRuleGroup or CheckMetrics fails.    *)
Check(l, bad) ==
    /\ Alive /\ l \in Pollers /\ pc[l] = "get"
    /\ groupsToRemove' = [groupsToRemove EXCEPT ![l] =
           [g \in RuleGroupLabels |->
               IF g \notin ruleGroupTests THEN "keep"
               ELSE IF TimeIsOver(l, g) THEN "pass"
               ELSE IF g \in bad THEN "fail" ELSE "keep"]]
    /\ pc' = [pc EXCEPT ![l] = "remove"]
    /\ nowTs' = [nowTs EXCEPT ![l] = {}]
    /\ UNCHANGED <<expired, testVars, stopc, serverVars, writerVars, mainVars, panicked>>

(* monitorAlertReception's pass: an ended group passes, whatever was       *)
(* entered for it before.                                                  *)
CheckReception(l) ==
    /\ Alive /\ l = Reception /\ pc[l] = "check"
    /\ groupsToRemove' = [groupsToRemove EXCEPT ![l] =
           [g \in RuleGroupLabels |->
               IF g \in ruleGroupTests /\ TimeIsOver(l, g) THEN "pass" ELSE @[g]]]
    /\ pc' = [pc EXCEPT ![l] = "remove"]
    /\ nowTs' = [nowTs EXCEPT ![l] = {}]
    /\ UNCHANGED <<expired, testVars, stopc, serverVars, writerVars, mainVars, panicked>>

(* removeGroups, under Lock: groups another loop has removed are skipped.  *)
RemovedOrNot(g) == TRUE
StillUnderTest(g) == g \in ruleGroupTests

RemoveGroups(l) ==
    /\ Alive /\ l \in Loops /\ pc[l] = "remove"
    /\ ruleGroupTests' = {g \in ruleGroupTests : groupsToRemove[l][g] = "keep"}
    /\ ruleGroupTestErrors' = [g \in RuleGroupLabels |->
           IF StillUnderTest(g) /\ groupsToRemove[l][g] = "fail"
           THEN Append(ruleGroupTestErrors[g], l) ELSE ruleGroupTestErrors[g]]
    /\ pc' = [pc EXCEPT ![l] = "isOver"]
    /\ UNCHANGED <<expired, loopVars, stopc, serverVars, writerVars, mainVars, panicked>>

-----------------------------------------------------------------------------
(* Stop(), by a loop's defer or by the goroutine that waits for SIGINT: it *)
(* looks at stopc and closes it in two steps; closing twice panics.        *)
Stop(a) ==
    /\ Alive /\ pc[a] = "stop"
    /\ pc' = [pc EXCEPT ![a] = IF stopc THEN "done" ELSE "closeStopc"]
    /\ UNCHANGED <<expired, testVars, loopVars, stopc, serverVars, writerVars, mainVars, panicked>>

CloseStopc(a) ==
    /\ Alive /\ pc[a] = "closeStopc"
    /\ IF stopc
       THEN panicked' = TRUE /\ UNCHANGED <<pc, stopc>>
       ELSE /\ stopc' = TRUE
            /\ pc' = [pc EXCEPT ![a] = "closeServer"]
            /\ UNCHANGED panicked
    /\ UNCHANGED <<expired, testVars, loopVars, serverVars, writerVars, mainVars>>

(* alertsServer.Stop: nothing when disabled, else close the listener and   *)
(* the clean-up goroutine's channel.                                       *)
CloseServer(a) ==
    /\ Alive /\ pc[a] = "closeServer"
    /\ server' = IF ReceptionEnabled THEN "closed" ELSE server
    /\ pc' = [pc EXCEPT ![a] = "closeWriter"]
    /\ UNCHANGED <<expired, testVars, loopVars, stopc, serverErr, handling, facing, outstanding, writerVars, mainVars, panicked>>

CloseWriter(a) ==
    /\ Alive /\ pc[a] = "closeWriter"
    /\ rwStopc' = TRUE
    /\ pc' = [pc EXCEPT ![a] = "done"]
    /\ UNCHANGED <<expired, testVars, loopVars, stopc, serverVars, writer, written, errc, writeErrors, mainVars, panicked>>

(* main's goroutine receives SIGINT: the flag first, then Stop. *)
Interrupt ==
    /\ Alive /\ pc[SigInt] = "waiting" /\ interrupts < MaxInterrupts
    /\ interrupts' = interrupts + 1
    /\ interrupted' = TRUE
    /\ pc' = [pc EXCEPT ![SigInt] = "stop"]
    /\ UNCHANGED <<expired, testVars, loopVars, stopc, serverVars, writerVars, main, sawFacing, outcome, panicked>>

(* signal.Stop is never called: once main has closed the channel, one more *)
(* SIGINT makes the runtime send on a closed channel.                      *)
InterruptAfterClose ==
    /\ Alive /\ main \in {"signalWait", "error", "facing", "leftover"}
    /\ interrupts < MaxInterrupts
    /\ interrupts' = interrupts + 1
    /\ panicked' = TRUE
    /\ UNCHANGED <<expired, testVars, pc, loopVars, stopc, serverVars, writerVars, main, interrupted, sawFacing, outcome>>

-----------------------------------------------------------------------------
(* The alert server as the suite sees it; AlertServer models its inside. *)

(* ListenAndServe returns an error, such as a port in use. *)
ServerFails ==
    /\ Alive /\ server = "open" /\ ~serverErr
    /\ serverErr' = TRUE
    /\ UNCHANGED <<expired, testVars, pc, loopVars, stopc, server, handling, facing, outstanding, writerVars, mainVars, panicked>>

AcceptAlerts ==
    /\ Alive /\ server = "open" /\ ~serverErr /\ ~handling
    /\ handling' = TRUE
    /\ UNCHANGED <<expired, testVars, pc, loopVars, stopc, server, serverErr, facing, outstanding, writerVars, mainVars, panicked>>

(* What the cases expect was handed to the server by Start. *)
Expected ==
    IF main \in {"start", "startWriter", "initCases"} THEN {} ELSE AlertingGroups

(* ServeHTTP ends; Close does not wait for it.  over: groups whose first   *)
(* sends all came by now, were missed or may be missing; bad: labels of    *)
(* missed, unexpected or mismatching alerts, first sends or not.           *)
HandleAlerts(over, bad) ==
    /\ Alive /\ handling
    /\ over \subseteq outstanding
    /\ handling' = FALSE
    /\ outstanding' = outstanding \ over
    /\ facing' = facing \cup bad
    /\ UNCHANGED <<expired, testVars, pc, loopVars, stopc, server, serverErr, writerVars, mainVars, panicked>>

(* missedAlertCleanup, every minute until the server is closed.  late:     *)
(* groups of which it finds an alert too late, be it a first send or a     *)
(* resend; a first send that may be missing is dropped without an error.   *)
MissedAlertCleanup(over, late) ==
    /\ Alive /\ server = "open"
    /\ over \subseteq outstanding /\ late \subseteq Expected
    /\ over # {} \/ ~(late \subseteq facing)
    /\ outstanding' = outstanding \ over
    /\ facing' = facing \cup late
    /\ UNCHANGED <<expired, testVars, pc, loopVars, stopc, server, serverErr, handling, writerVars, mainVars, panicked>>

-----------------------------------------------------------------------------
(* The remote writer as the suite sees it; RemoteWriter models its inside. *)

WriterWrites ==
    /\ Alive /\ writer = "running" /\ ~written
    /\ written' = TRUE
    /\ UNCHANGED <<expired, testVars, pc, loopVars, stopc, serverVars, writer, errc, writeErrors, rwStopc, mainVars, panicked>>

(* A batch is lost, and its error sent to errc, which holds one: its tries *)
(* failed, or (~tried) its request was not built, which is no write.       *)
ErrcHasRoom == errc < 1

WriterFails(tried) ==
    /\ Alive /\ writer = "running" /\ writeErrors < MaxWriteErrors
    /\ writeErrors' = writeErrors + 1
    /\ written' = (written \/ tried)
    /\ IF ErrcHasRoom THEN errc' = errc + 1 /\ UNCHANGED writer
                      ELSE writer' = "blocked" /\ UNCHANGED errc
    /\ UNCHANGED <<expired, testVars, pc, loopVars, stopc, serverVars, rwStopc, mainVars, panicked>>

(* All batches, of which there is one at least, were written or lost, or   *)
(* the stop channel is closed.                                             *)
WriterEnds ==
    /\ Alive /\ writer = "running" /\ (written \/ writeErrors > 0 \/ rwStopc)
    /\ writer' = "done"
    /\ UNCHANGED <<expired, testVars, pc, loopVars, stopc, serverVars, written, errc, writeErrors, rwStopc, mainVars, panicked>>

-----------------------------------------------------------------------------
(* main: Start, Wait, and the verdict. *)

GoTo(from, to) == Alive /\ main = from /\ main' = to

StartServer ==
    /\ GoTo("start", "startWriter")
    /\ server' = IF ReceptionEnabled THEN "open" ELSE "off"
    /\ writer' = "running"
    /\ UNCHANGED <<expired, testVars, pc, loopVars, stopc, serverErr, handling, facing, outstanding, written, errc, writeErrors, rwStopc, interrupted, interrupts, sawFacing, outcome, panicked>>

(* RemoteWriter.Start spins until the first write was tried. *)
WriterStarted ==
    /\ GoTo("startWriter", "initCases")
    /\ written
    /\ UNCHANGED <<expired, testVars, pc, loopVars, stopc, serverVars, writerVars, interrupted, interrupts, sawFacing, outcome, panicked>>

(* Every case is initialised and its expected alerts are added. *)
InitCases ==
    /\ GoTo("initCases", "spawn")
    /\ outstanding' = IF ReceptionEnabled THEN AlertingGroups ELSE {}
    /\ UNCHANGED <<expired, testVars, pc, loopVars, stopc, server, serverErr, handling, facing, writerVars, interrupted, interrupts, sawFacing, outcome, panicked>>

(* The loops start, and main's goroutine for SIGINT. *)
Spawn ==
    /\ GoTo("spawn", "serverWait")
    /\ pc' = [a \in Actors |-> IF a = SigInt THEN "waiting" ELSE "isOver"]
    /\ UNCHANGED <<expired, testVars, loopVars, stopc, serverVars, writerVars, interrupted, interrupts, sawFacing, outcome, panicked>>

(* Wait: the server's goroutines, then the writer's, then the loops. *)
WaitServer ==
    /\ GoTo("serverWait", "writerWait")
    /\ ReceptionEnabled => server = "closed"
    /\ UNCHANGED <<expired, testVars, pc, loopVars, stopc, serverVars, writerVars, interrupted, interrupts, sawFacing, outcome, panicked>>

WaitWriter ==
    /\ GoTo("writerWait", "loopsWait")
    /\ writer = "done"
    /\ UNCHANGED <<expired, testVars, pc, loopVars, stopc, serverVars, writerVars, interrupted, interrupts, sawFacing, outcome, panicked>>

LoopsStopping == \A l \in Loops : pc[l] \in StopStates \cup {"done"}
LoopsDone == \A l \in Loops : pc[l] = "done"

WaitLoops ==
    /\ GoTo("loopsWait", "closeSignals")
    /\ LoopsDone
    /\ UNCHANGED <<expired, testVars, pc, loopVars, stopc, serverVars, writerVars, interrupted, interrupts, sawFacing, outcome, panicked>>

(* close(c) ends the goroutine that still waits for a signal. *)
CloseSignals ==
    /\ GoTo("closeSignals", "signalWait")
    /\ pc' = IF pc[SigInt] = "waiting" THEN [pc EXCEPT ![SigInt] = "done"] ELSE pc
    /\ UNCHANGED <<expired, testVars, loopVars, stopc, serverVars, writerVars, interrupted, interrupts, sawFacing, outcome, panicked>>

WaitSignals ==
    /\ GoTo("signalWait", "error")
    /\ pc[SigInt] = "done"
    /\ UNCHANGED <<expired, testVars, pc, loopVars, stopc, serverVars, writerVars, interrupted, interrupts, sawFacing, outcome, panicked>>

Exit(result) == main' = "exited" /\ outcome' = result

(* TestSuite.Error: one error of the writer, or the server's own. *)
CheckError ==
    /\ Alive /\ main = "error"
    /\ errc' = 0
    /\ IF errc = 1 \/ serverErr
       THEN Exit("error")
       ELSE main' = "facing" /\ UNCHANGED outcome
    /\ UNCHANGED <<expired, testVars, pc, loopVars, stopc, serverVars, writer, written, writeErrors, rwStopc, interrupted, interrupts, sawFacing, panicked>>

(* WasTestSuccessful: no verdict before Stop; groupsFacingErrors is read   *)
(* first, under errsMtx.                                                   *)
ReadGroupsFacingErrors ==
    /\ Alive /\ main = "facing"
    /\ sawFacing' = (facing # {})
    /\ IF stopc THEN main' = "leftover" /\ UNCHANGED outcome
                ELSE Exit("failed")
    /\ UNCHANGED <<expired, testVars, pc, loopVars, stopc, serverVars, writerVars, interrupted, interrupts, panicked>>

(* Then expectedAlertsError, under expectedAlertsMtx, and the verdict. *)
NoErrorsSeen ==
    /\ \A g \in RuleGroupLabels : ruleGroupTestErrors[g] = <<>>
    /\ ~sawFacing
    /\ outstanding = {}

VerdictWhenInterruptedToo == IF NoErrorsSeen THEN "passed" ELSE "failed"
VerdictOfMain ==
    IF ~NoErrorsSeen THEN "failed" ELSE IF interrupted THEN "incomplete" ELSE "passed"

WasTestSuccessful ==
    /\ Alive /\ main = "leftover"
    /\ Exit(VerdictOfMain)
    /\ UNCHANGED <<expired, testVars, pc, loopVars, stopc, serverVars, writerVars, interrupted, interrupts, sawFacing, panicked>>

(* The process has ended. *)
Ended == ~Alive /\ UNCHANGED vars

-----------------------------------------------------------------------------
(* The software under test ends the pending GET of a poller. *)
RequestEnds(l) == GetFails(l) \/ \E bad \in SUBSET Groups : Check(l, bad)

(* The steps that a loop takes by itself. *)
OwnStep(l) ==
    \/ IsOver(l)
    \/ SelectStop(l)
    \/ SelectTimer(l)
    \/ ReadFacing(l)
    \/ CheckReception(l)
    \/ RemoveGroups(l)

LoopStep(l) == OwnStep(l) \/ RequestEnds(l)

StopStep(a) == Stop(a) \/ CloseStopc(a) \/ CloseServer(a) \/ CloseWriter(a)

ServerStep ==
    \/ ServerFails
    \/ AcceptAlerts
    \/ \E over \in SUBSET Groups, bad \in SUBSET RuleGroupLabels : HandleAlerts(over, bad)
    \/ \E over, late \in SUBSET Groups : MissedAlertCleanup(over, late)

WriterStep == WriterWrites \/ (\E tried \in BOOLEAN : WriterFails(tried)) \/ WriterEnds

MainStep ==
    \/ StartServer \/ WriterStarted
    \/ InitCases
    \/ Spawn
    \/ WaitServer \/ WaitWriter \/ WaitLoops \/ CloseSignals \/ WaitSignals
    \/ CheckError \/ ReadGroupsFacingErrors \/ WasTestSuccessful

Next ==
    \/ \E g \in Groups : Expire(g)
    \/ \E l \in Loops : LoopStep(l)
    \/ \E a \in Actors : StopStep(a)
    \/ Interrupt \/ InterruptAfterClose
    \/ ServerStep
    \/ WriterStep
    \/ MainStep
    \/ Ended

Spec == Init /\ [][Next]_vars

(* The scheduler runs every goroutine; the writer, unless it is blocked,   *)
(* ends.  A loop waiting in select takes the closed channel in the end: it *)
(* stays ready, the timer is not always, and when both are the choice is   *)
(* random (hence SF).  A loop in a GET may stay there: DoGetRequest has no *)
(* timeout.                                                                *)
GoroutinesRun ==
    /\ \A l \in Loops : WF_vars(OwnStep(l)) /\ SF_vars(SelectStop(l))
    /\ \A a \in Actors : WF_vars(StopStep(a))
    /\ WF_vars(WriterWrites) /\ WF_vars(WriterEnds)
    /\ WF_vars(MainStep)

(* The software under test ends every GET, with an answer or a failure. *)
RequestsEnd == \A l \in Pollers : WF_vars(RequestEnds(l))

(* Time passes, and the software under test answers now and then, so that  *)
(* no GET is pending for ever either.  Nothing makes alerts arrive, writes *)
(* fail or the user interrupt.                                             *)
TimePasses ==
    /\ \A g \in Groups : WF_vars(Expire(g))
    /\ \A l \in Pollers : SF_vars(\E bad \in SUBSET Groups : Check(l, bad))

PromptSpec == Spec /\ GoroutinesRun

-----------------------------------------------------------------------------
(* A group is concluded once: however many loops put it in their           *)
(* groupsToRemove, at most one error is appended for it, none while it is  *)
(* under test, and none for a label that is no group (removeGroups).       *)
ConcludedOnce ==
    \A g \in RuleGroupLabels :
        /\ Len(ruleGroupTestErrors[g]) <= 1
        /\ ruleGroupTestErrors[g] # <<>> => g \in Groups \ ruleGroupTests

(* A group leaves the test without an error only after its TestUntil():    *)
(* the clock is read before the request, so a slow answer, or a loop that  *)
(* is late, never ends a group early.                                      *)
PassedOnlyAfterItsTime ==
    \A g \in Groups \ ruleGroupTests :
        ruleGroupTestErrors[g] = <<>> => g \in expired

(* "passed" is said only of a complete run: nobody stopped it early, every *)
(* group was tested to its end, and no loop recorded an error.             *)
PassedMeansComplete ==
    outcome = "passed" =>
        /\ ruleGroupTests = {}
        /\ \A g \in Groups : ruleGroupTestErrors[g] = <<>> /\ g \in expired

(* WasTestSuccessful reads ruleGroupTestErrors without the mutex: when it  *)
(* does, and when the process exits, no loop or stopper runs any more, the *)
(* writer has ended and the server is closed.                              *)
QuietAtVerdict ==
    main \in {"error", "facing", "leftover", "exited"} =>
        /\ \A a \in Actors : pc[a] = "done"
        /\ writer = "done" /\ rwStopc
        /\ ReceptionEnabled => server = "closed"

(* A run comes to an end, when some batch could be built and tried, time   *)
(* passes and the software under test answers now and then: through Start, *)
(* the loops and Wait, main exits (or a panic ends the process).           *)
RunEnds == TimePasses /\ <>written => <>~Alive

(* The README says that the test exits at once when every group faces an   *)
(* error; no group's time has to pass for the loops to stop everything.    *)
(* Every pending GET has to end, though: Wait waits for its loop.          *)
StopsWhenAllConcluded == RequestsEnd => ((ruleGroupTests = {}) ~> ~Alive)

(* A stop asked for by SIGINT reaches every goroutine, when every pending  *)
(* GET ends.                                                               *)
InterruptStops == RequestsEnd => ((pc[SigInt] = "stop") ~> ~Alive)

(* A failed check of a loop's last iteration is never forgotten by the     *)
(* verdict: "WasTestSuccessful tells if all the tests passed".             *)
PassedMeansNoCheckFailed ==
    outcome = "passed" =>
        \A l \in Loops, g \in Groups : groupsToRemove[l][g] # "fail"

(* A reception error or a missing first send that was there before the     *)
(* verdict was asked for makes the run fail.                               *)
PassedMeansNoReceptionError == outcome = "passed" => facing = {}

(* The inductive invariant behind the safety properties.                   *)
(* What a loop carries from its clock to removeGroups stays true of time.  *)
ClocksAreInThePast ==
    \A l \in Loops :
        /\ nowTs[l] \subseteq expired
        /\ \A g \in RuleGroupLabels : groupsToRemove[l][g] = "pass" => g \in expired

(* Who may be inside Stop, and what a closed channel tells.                *)
StopHasAReason ==
    /\ main \in {"start", "startWriter", "initCases", "spawn"} =>
           ~stopc /\ \A a \in Actors : pc[a] = "off"
    /\ \A l \in Loops : pc[l] \in StopStates \cup {"done"} => ruleGroupTests = {} \/ stopc
    /\ \A l \in Loops : pc[l] = "done" => stopc
    /\ pc[SigInt] \in StopStates => interrupted
    /\ \A a \in Actors : pc[a] \in {"closeServer", "closeWriter"} => stopc
    /\ stopc => ruleGroupTests = {} \/ interrupted
    /\ stopc => rwStopc \/ \E a \in Actors : pc[a] \in {"closeServer", "closeWriter"}

(* What main knows from having waited. *)
MainHasWaited ==
    /\ main \in {"writerWait", "loopsWait", "closeSignals", "signalWait", "error",
                 "facing", "leftover", "exited"} =>
           (ReceptionEnabled => server = "closed")
    /\ main \in {"loopsWait", "closeSignals", "signalWait", "error", "facing",
                 "leftover", "exited"} => writer = "done"
    /\ main \in {"closeSignals", "signalWait", "error", "facing", "leftover", "exited"} =>
           \A l \in Loops : pc[l] = "done"
    /\ main \in {"error", "facing", "leftover", "exited"} => pc[SigInt] = "done"
    /\ outcome # "none" <=> main = "exited"

IInv ==
    /\ TypeOK
    /\ ConcludedOnce
    /\ PassedOnlyAfterItsTime
    /\ PassedMeansComplete
    /\ ClocksAreInThePast
    /\ StopHasAReason
    /\ MainHasWaited

-----------------------------------------------------------------------------
Run == INSTANCE ConformanceRun WITH
    ended   <- expired,
    status  <- [g \in Groups |->
                   IF g \in ruleGroupTests THEN "testing"
                   ELSE IF ruleGroupTestErrors[g] = <<>> THEN "passed" ELSE "failed"],
    verdict <- IF outcome = "none" THEN "none"
               ELSE IF outcome = "passed" THEN "passed" ELSE "notPassed"

(* The goroutines together keep the promise of ConformanceRun. *)
ImplementsRun == Run!ASpec
=============================================================================
