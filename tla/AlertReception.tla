---------------------------- MODULE AlertReception ----------------------------
(***************************************************************************)
(* The rule group of one test case, end to end and in time: the            *)
(* remote-written samples, an alert generator that evaluates the group's   *)
(* rules and sends alerts, the API as the suite polls it, and the server   *)
(* that receives the alerts (AlertServer).                                 *)
(*                                                                         *)
(* The generator is the software under test, which is not in this          *)
(* repository: it is modelled from what the test cases say of a compliant  *)
(* one, with choices where they leave some, and with the faults that the   *)
(* suite is there to find.                                                 *)
(*                                                                         *)
(* Every action happens at the clock's next event.                         *)
(***************************************************************************)
EXTENDS AlertServer

CONSTANTS Cases,          \* the test cases, of which one is run
          LabelSets,      \* case -> the label sets of its alerts
          SamplesOf,      \* label set -> the values of its series (sampleSlice)
          ForDuration,    \* label set -> the rule's "for"
          Threshold,      \* label set -> the rule's: its query is "metric > threshold"
          Sums,           \* label set -> the label sets whose firing alerts its query
                          \* adds up, {} when it is of a series
          CaseAlerts,     \* case -> its ExpectedAlerts
          CaseUntil,      \* case -> its TestUntil()
          PossibleAlerts(_, _),   \* what a case allows the alerts API to return at a time
          PossibleMetrics(_, _),  \* what it allows of the ALERTS series
          Phases,         \* choices of the first evaluation
          CleanupPhases,  \* choices of the first missedAlertCleanup
          SampleDelays,   \* choices of the delay of remote-written samples
          Latencies,      \* choices of how long a POST takes
          ResendPolicies, \* choices of [interval, atEnd]: of sending alerts again, and
                          \* whether a resolved one still is at the end of its retention
          EndsAtFromStart,  \* TRUE iff EndsAt of a firing alert is relative to StartsAt,
                            \* FALSE iff to the evaluation
          FaultKinds,     \* the faults the generator may have, {} if compliant
          AnswerTime,     \* the longest the API takes to answer
          CleanupOverlaps \* TRUE iff a request may be served during a clean-up

ASSUME PhasesAssumption ==
    Phases \subseteq 1..(30 * Second - 1) /\ CleanupPhases \subseteq 1..(60 * Second)
ASSUME DelaysAssumption ==
    /\ SampleDelays \subseteq 0..(10 * Second)
    /\ Latencies \subseteq 1..MaxRTT
    /\ AnswerTime \in 0..MaxRTT
ASSUME FaultsAssumption ==
    FaultKinds \subseteq {"loseFiring", "loseResolved", "loseResend",
                           "sendEarly", "fireEarly", "wrongAnnotations", "unparsable",
                           "wrongOrder"}
ASSUME ChoicesAssumption ==
    /\ ResendPolicies \subseteq [interval : {60 * Second, 90 * Second}, atEnd : BOOLEAN]
    /\ {EndsAtFromStart, CleanupOverlaps} \subseteq BOOLEAN

(* addAlert numbers the alerts of a case in order.                         *)
ASSUME CaseAlertsAssumption == \A c \in Cases : Ascending(CaseAlerts[c])

SampleInterval == 15 * Second   \* rwInterval of the cases
EvalInterval    == 30 * Second   \* groupInterval of the cases
CleanupInterval == 60 * Second

NoMessage == [at |-> -1, alerts |-> {}, parsable |-> TRUE]

VARIABLES
    case,         \* the case under test
    now,          \* the clock
    sampleDelay,  \* how long after its timestamp a sample can be queried
    resends,      \* the generator's policy of sending alerts again
    nextEval,     \* when the generator evaluates the group again
    alert,        \* the generator: label set -> its alert
    inFlight,     \* the POST that is on its way
    nextCleanup,  \* when missedAlertCleanup runs again
    fault         \* the fault that the generator committed, or "none"

genVars == <<sampleDelay, resends, nextEval, alert, inFlight, fault>>
vars == <<case, now, genVars, nextCleanup, serverVars>>

NoAlert == [state |-> "none", activeAt |-> 0, firedAt |-> 0, resolvedAt |-> 0,
            value |-> 0, lastSentAt |-> Never]

ExpectedOf(c, x) == Only(CaseAlerts[c], {ea \in ToSet(CaseAlerts[c]) : ea.id = x})

Init ==
    /\ case \in Cases
    /\ now = 0
    /\ sampleDelay \in SampleDelays
    /\ resends \in ResendPolicies
    /\ nextEval \in Phases
    /\ alert = [x \in LabelSets[case] |-> NoAlert]
    /\ inFlight = NoMessage
    /\ nextCleanup \in CleanupPhases
    /\ fault = "none"
    /\ SInit([x \in LabelSets[case] |-> ExpectedOf(case, x)])

-----------------------------------------------------------------------------
(* The clock goes to the next event once the server is at rest, until      *)
(* TestUntil(), or an error on which the suite drops the group.            *)
NextEvent == {nextEval, nextCleanup} \cup (IF inFlight = NoMessage THEN {} ELSE {inFlight.at})
Running == now < CaseUntil[case] /\ ~FacesErrors
ServerRests == HandlersIdle /\ CleanupIdle

IsNext(t) == Running /\ \A u \in NextEvent : t <= u

At(t) ==
    /\ IsNext(t)
    /\ now' = t
    /\ UNCHANGED case

-----------------------------------------------------------------------------
(* The generator. *)

(* The value that a query at time t sees, if there is any: the last sample *)
(* that has been written.                                                  *)
LastSample(x, t) == IF t < sampleDelay THEN 0
                    ELSE LET n == (t - sampleDelay) \div SampleInterval + 1
                         IN  IF n > Len(SamplesOf[x]) THEN Len(SamplesOf[x]) ELSE n
Value(x, t) == IF LastSample(x, t) = 0 THEN 0 ELSE SamplesOf[x][LastSample(x, t)]

(* The alert after an evaluation at time t that finds its query to have a  *)
(* result, if it is active, with that value.                               *)
After(x, t, active, value) ==
    LET old == alert[x]
        new == IF old.state \in {"none", "resolved"}
               THEN [NoAlert EXCEPT !.state = "pending", !.activeAt = t] ELSE old
        cur == [new EXCEPT !.value = value]
    IN  IF active
        THEN IF cur.state = "pending" /\ t - cur.activeAt >= ForDuration[x]
             THEN [cur EXCEPT !.state = "firing", !.firedAt = t] ELSE cur
        ELSE IF old.state = "firing"
             THEN [old EXCEPT !.state = "resolved", !.resolvedAt = t]
             ELSE IF old.state = "resolved" /\ t - old.resolvedAt <= ResolvedRetention
                  THEN old ELSE NoAlert

(* Of a rule over a series, and of a rule over the alerts of the rules     *)
(* before it, given as in alerts.                                          *)
OfSeries(x, t) == After(x, t, Value(x, t) > Threshold[x], Value(x, t))
AllFire(x, alerts) == \A y \in Sums[x] : alerts[y].state = "firing"
OfAlerts(x, t, alerts) == After(x, t, AllFire(x, alerts), Cardinality(Sums[x]))

Evaluated(x, t) ==
    IF Sums[x] = {} THEN OfSeries(x, t)
    ELSE OfAlerts(x, t, [y \in Sums[x] |-> OfSeries(y, t)])

(* An alert is sent when it fires and when it resolves, and again at the   *)
(* first evaluation ResendDelay, or more than ResendDelay, after it was    *)
(* sent: what the specification of the generators says allows both.        *)
Sendable(a) == a.state \in {"firing", "resolved"}
IsFirstSend(a) ==
    Sendable(a) /\ (a.lastSentAt = Never \/ (a.state = "resolved" /\ a.resolvedAt > a.lastSentAt))
Retained(a, t) ==
    a.state = "resolved" =>
        t - a.resolvedAt < ResolvedRetention \/ (resends.atEnd /\ t - a.resolvedAt = ResolvedRetention)
MustSend(a, t) ==
    /\ Sendable(a) /\ Retained(a, t)
    /\ IsFirstSend(a) \/ t - a.lastSentAt >= resends.interval

Message(x, a, t) ==
    [id |-> x, annotations |-> a.value, startsAt |-> a.firedAt,
     endsAt |-> IF a.state = "resolved" THEN a.resolvedAt
                ELSE (IF EndsAtFromStart THEN a.firedAt ELSE t) + 4 * ResendDelay]

Evaluation == [x \in Ids |-> Evaluated(x, nextEval)]

Messages(ev, send) == {Message(x, ev[x], nextEval) : x \in send}

(* No POST is on its way, and an evaluation comes next. *)
EvaluationIsDue == ServerRests /\ inFlight = NoMessage /\ IsNext(nextEval)

(* The evaluation that is due leaves the alerts as in ev, takes those of   *)
(* the label sets in send as sent, and posts the messages in posted.       *)
Evaluate(ev, send, posted, parsable) ==
    LET t == nextEval IN
    /\ EvaluationIsDue /\ At(t)
    /\ nextEval' = t + EvalInterval
    /\ alert' = [x \in Ids |-> IF x \in send THEN [ev[x] EXCEPT !.lastSentAt = t] ELSE ev[x]]
    /\ IF posted = {} THEN UNCHANGED inFlight
       ELSE \E l \in Latencies :
                inFlight' = [at |-> t + l, alerts |-> posted, parsable |-> parsable]
    /\ UNCHANGED <<sampleDelay, resends, nextCleanup, serverVars>>

EvaluateCompliantly ==
    LET ev == Evaluation
        send == {x \in Ids : MustSend(ev[x], nextEval)}
    IN  /\ Evaluate(ev, send, Messages(ev, send), TRUE)
        /\ UNCHANGED fault

(* One fault in a run, about one alert; the others are sent when they must *)
(* be.  One that comes too late in the test has no time to show.           *)
MayCommit ==
    /\ fault = "none"
    /\ EvaluationIsDue
    /\ nextEval <= CaseUntil[case] - 2 * ResendDelay

Commit(kind) == kind \in FaultKinds /\ fault' = kind

SentWith(x) == {x} \cup {y \in Ids : MustSend(Evaluated(y, nextEval), nextEval)}

(* A resend may be missing when the alert changes soon, by the timestamps  *)
(* of the samples: the suite cannot tell (CanBeIgnored).                   *)
MayBeMissed(x, t) ==
    \E y \in IF Sums[x] = {} THEN {x} ELSE Sums[x] :
        Value(y, t) # Value(y, t + sampleDelay + EvalInterval + 2 * MaxRTT)

LoseAlert ==
    MayCommit /\ \E x \in Ids : LET a == Evaluated(x, nextEval) IN
        /\ MustSend(a, nextEval)
        /\ IsFirstSend(a) \/ ~MayBeMissed(x, nextEval)
        /\ Commit(CASE ~IsFirstSend(a) -> "loseResend"
                    [] IsFirstSend(a) /\ a.state = "firing" -> "loseFiring"
                    [] OTHER -> "loseResolved")
        /\ Evaluate(Evaluation, SentWith(x), Messages(Evaluation, SentWith(x) \ {x}), TRUE)

SendEarly ==
    MayCommit /\ \E x \in Ids : LET a == Evaluated(x, nextEval) IN
        /\ Sendable(a) /\ ~IsFirstSend(a) /\ nextEval - a.lastSentAt < ResendDelay
        /\ Commit("sendEarly")
        /\ Evaluate(Evaluation, SentWith(x), Messages(Evaluation, SentWith(x)), TRUE)

(* Before the rule's "for" is over. *)
FireEarly ==
    MayCommit /\ \E x \in Ids :
        LET ev == [Evaluation EXCEPT ![x].state = "firing", ![x].firedAt = nextEval] IN
        /\ Evaluation[x].state = "pending"
        /\ Commit("fireEarly")
        /\ Evaluate(ev, SentWith(x), Messages(ev, SentWith(x)), TRUE)

SendWrongAnnotations ==
    MayCommit /\ \E x \in Ids :
        /\ MustSend(Evaluated(x, nextEval), nextEval)
        /\ Commit("wrongAnnotations")
        /\ Evaluate(Evaluation, SentWith(x),
                    {[m EXCEPT !.annotations = IF m.id = x THEN -1 ELSE @] :
                        m \in Messages(Evaluation, SentWith(x))}, TRUE)

SendUnparsable ==
    MayCommit /\ \E x \in Ids : LET a == Evaluated(x, nextEval) IN
        /\ MustSend(a, nextEval) /\ a.state = "firing"
        /\ IsFirstSend(a) \/ ~MayBeMissed(x, nextEval)
        /\ Commit("unparsable")
        /\ Evaluate(Evaluation, SentWith(x), Messages(Evaluation, SentWith(x)), FALSE)

(* A rule over alerts that is evaluated before the rule of those alerts    *)
(* has written them, when that delays it.                                  *)
EvaluateInWrongOrder ==
    MayCommit /\ \E x \in Ids :
        LET ev == [Evaluation EXCEPT ![x] = OfAlerts(x, nextEval, alert)]
            send == {y \in Ids : MustSend(ev[y], nextEval)}
        IN
        /\ Sums[x] # {} /\ AllFire(x, Evaluation) /\ ~AllFire(x, alert)
        /\ Commit("wrongOrder")
        /\ Evaluate(ev, send, Messages(ev, send), TRUE)

-----------------------------------------------------------------------------
(* The server's events. *)

(* During a clean-up only if CleanupOverlaps.                              *)
Arrive ==
    /\ inFlight # NoMessage /\ At(inFlight.at)
    /\ ServerRests \/ (CleanupOverlaps /\ cleanup.now = inFlight.at)
    /\ \E h \in Handlers : ReceiveRequest(h, inFlight.at, inFlight.alerts, inFlight.parsable)
    /\ inFlight' = NoMessage
    /\ UNCHANGED <<sampleDelay, resends, nextEval, alert, fault, nextCleanup>>

CleanupTick ==
    /\ At(nextCleanup)
    /\ ServerRests
    /\ CleanupStarts(nextCleanup)
    /\ nextCleanup' = nextCleanup + CleanupInterval
    /\ UNCHANGED genVars

ServerSteps ==
    /\ (\E h \in Handlers : HandlerStep(h)) \/ CleanupStep
    /\ UNCHANGED <<case, now, genVars, nextCleanup>>

(* The test of the group is over. *)
Over == ~Running /\ ServerRests /\ UNCHANGED vars

Next ==
    \/ EvaluateCompliantly \/ LoseAlert \/ SendEarly \/ FireEarly
    \/ SendWrongAnnotations \/ SendUnparsable \/ EvaluateInWrongOrder
    \/ Arrive \/ CleanupTick \/ ServerSteps
    \/ Over

Spec == Init /\ [][Next]_vars

-----------------------------------------------------------------------------
(* An evaluation took place, and what the API tells of it.                 *)
APIAlerts ==
    {[id |-> x, state |-> alert[x].state, value |-> alert[x].value,
      activeAt |-> alert[x].activeAt] :
        x \in {y \in Ids : alert[y].state \in {"pending", "firing"}}}

APISamples == {[id |-> a.id, state |-> a.state] : a \in APIAlerts}
LastEval == nextEval - EvalInterval

(* When the suite may have read its clock before a request that the API    *)
(* answered between the last evaluation and the next, up to AnswerTime     *)
(* later; before the end of the test, and, for a rule group, after two     *)
(* intervals.                                                              *)
PollTimes == {t \in {LastEval, nextEval - 1} \cup
                   {Second * s : s \in (LastEval - AnswerTime) \div Second .. nextEval \div Second} :
                t > 0 /\ t >= LastEval - AnswerTime /\ t < nextEval /\ t <= CaseUntil[case]}

(* The timestamp of the last sample that the last evaluation could see.    *)
LastSampleAt == SampleInterval * ((LastEval - sampleDelay) \div SampleInterval)

(* No evaluation comes between the timestamp of a sample and the time from *)
(* which it can be queried.                                                *)
NoSampleIsMissed == sampleDelay <= nextEval % SampleInterval

TypeOK ==
    /\ case \in Cases /\ now \in Nat /\ sampleDelay \in SampleDelays /\ nextEval \in Nat /\ nextCleanup \in Nat
    /\ inFlight # NoMessage => inFlight.at \in Nat \ {0}
    /\ Ids = LabelSets[case]
    /\ fault \in FaultKinds \cup {"none"}
    /\ mtx \in Handlers \cup {NoHandler}
    /\ DOMAIN handler = Handlers
    /\ \A h \in Handlers :
        DOMAIN handler[h] = DOMAIN IdleHandler /\ handler[h].pc \in {"idle", "received", "serving"}
    /\ DOMAIN cleanup = DOMAIN IdleCleanup /\ cleanup.pc \in {"idle", "pick", "write"}

(* Who serves a request holds expectedAlertsMtx, and nobody else does.     *)
ServersExclude == \A h \in Handlers : handler[h].pc = "serving" <=> mtx = h

(* The server works at the time it read when it began, and no event passes *)
(* while it does.                                                          *)
ClockStands ==
    /\ \A t \in NextEvent : now <= t
    /\ \A h \in Handlers : handler[h].pc # "idle" => handler[h].now = now
    /\ cleanup.now = IF cleanup.pc = "idle" THEN 0 ELSE now

(* A clean-up that no request overlaps replaces each list by what is in    *)
(* time of the same list: between its read and its write nothing changes.  *)
NoUpdateIsLost ==
    ~CleanupOverlaps =>
        /\ HandlersIdle \/ CleanupIdle
        /\ cleanup.pc = "write" =>
             cleanup.newExpAlerts = InTime(expectedAlerts[cleanup.id], cleanup.now)

(* Nothing that may be missing is reported as missed, whether the clean-up *)
(* or a request finds it late, or a later alert comes before it.           *)
IgnorableIsNotMissed ==
    \A ea \in missedAlerts \cup cleanup.missed \cup UNION {handler[h].missed : h \in Handlers} :
        ~CanBeIgnored(ea)

ServerInv == TypeOK /\ ServersExclude /\ ClockStands /\ NoUpdateIsLost /\ IgnorableIsNotMissed

(* Each list holds alerts of its label set, in order; and what a request   *)
(* has taken out of the lists to put it back is not in them, nor twice     *)
(* among what it has taken out.                                            *)
ListsAscend ==
    \A x \in Ids :
        Ascending(expectedAlerts[x]) /\ \A ea \in ToSet(expectedAlerts[x]) : ea.id = x

TakenOutApart ==
    \A h \in Handlers :
        /\ handler[h].pc # "serving" => handler[h].addBack = {}
        /\ IsFiniteSet(handler[h].addBack)
        /\ \A ea \in handler[h].addBack : IsNumbered(ea)
        /\ \A ea, eb \in handler[h].addBack :
              ea.id = eb.id /\ ea.orderingID = eb.orderingID => ea = eb
        /\ \A ea \in handler[h].addBack, x \in Ids : \A eb \in ToSet(expectedAlerts[x]) :
              ea.id = x => ea.orderingID # eb.orderingID

(* Only who works has something to report, and the clean-up knows of what  *)
(* its write will take out of a list.                                      *)
ReportsAreHeld ==
    /\ \A h \in Handlers : handler[h].pc # "serving" => handler[h].missed = {}
    /\ cleanup.pc = "idle" => cleanup.missed = {}
    /\ ~CleanupOverlaps /\ cleanup.pc = "write" =>
          MissedAmong(expectedAlerts[cleanup.id], cleanup.now) \subseteq cleanup.missed

IInv == ServerInv /\ ReportsAreHeld /\ (~CleanupOverlaps => ListsAscend /\ TakenOutApart)

(* The alerts of a label set that the server waits for, in a list or in    *)
(* the hands of a request that puts them back, and those that it has found *)
(* to be missed.                                                           *)
Awaited(x) ==
    ToSet(expectedAlerts[x]) \cup {ea \in UNION {handler[h].addBack : h \in Handlers} : ea.id = x}
Reported == missedAlerts \cup cleanup.missed \cup UNION {handler[h].missed : h \in Handlers}

(* A step that serves an alert which matches ea. *)
Receives(ea) ==
    \E h \in Handlers : \E al \in handler[h].alerts \ handler'[h].alerts :
        handler[h].pc = "serving" /\ Matches(ea, handler[h].now, al)

(* It may be that ea is a resend whose time nobody adjusted. *)
FollowsIgnoredResend(ea, x) ==
    /\ ea.resend
    /\ \E eb \in ToSet(expectedAlerts[x]) :
          eb.orderingID < ea.orderingID /\ eb.resend /\ CanBeIgnored(eb)

(* The server stops waiting for an alert only when that should be ignored, *)
(* when its time is over, or when it or a later one is received; and then, *)
(* unless it was received itself, may be missing, or follows a resend that *)
(* may, it is reported as missed, which is never taken back. Requests that *)
(* take alerts out and put them back, and the clean-up, lose none.         *)
AlertsLeaveForAReason ==
    [][ /\ Reported \subseteq Reported'
        /\ ~CleanupOverlaps =>
            \A x \in Ids : \A ea \in Awaited(x) \ Awaited(x)' :
                \/ \E eb \in Awaited(x)' : eb.orderingID = ea.orderingID
                \/ ShouldBeIgnored(ea) \/ Receives(ea)
                \/ /\ CanBeIgnored(ea) \/ ea \in Reported' \/ FollowsIgnoredResend(ea, x)
                   /\ Late(ea, now) \/ \E eb \in ToSet(expectedAlerts[x]) :
                                           ea.orderingID < eb.orderingID /\ Receives(eb) ]_vars

(* The lists of expected alerts are in the order of the case, though       *)
(* requests take alerts out and put some of them back.                     *)
ListsInOrder ==
    \A x \in Ids : \A i, j \in DOMAIN expectedAlerts[x] :
        i < j => expectedAlerts[x][i].orderingID < expectedAlerts[x][j].orderingID

(* A generator that does as the case says is never reported, whenever it   *)
(* evaluates, whenever the clean-up runs, however long the POSTs take, and *)
(* however late samples arrive before the next evaluation: nothing is      *)
(* missed, unexpected or mismatching, nor is a first send left over at the *)
(* end.                                                                    *)
CompliantIsNotReported ==
    fault = "none" /\ NoSampleIsMissed =>
        ~FacesErrors /\ (now >= CaseUntil[case] /\ ServerRests => LeftOver = {})

(* The faults that the suite is there to find are in the errors when the   *)
(* test is over.                                                           *)
FaultsAreReported ==
    now >= CaseUntil[case] /\ ServerRests /\ fault # "none" => FacesErrors \/ LeftOver # {}

(* A resolved alert is no error if it is not received when its Ts plus its *)
(* TimeTolerance crosses ResolvedTime + 15 min, as the comment of          *)
(* ExpectedAlert says.                                                     *)
RetentionEndIsTolerated ==
    \A ea \in missedAlerts :
        ea.resolved => ea.ts + ea.tolerance <= ea.resolvedTime + ResolvedRetention

(* The polling loops do not fail a compliant generator, however late       *)
(* samples arrive and the API answers: what it tells is possible for the   *)
(* time that the suite read before it asked, even if the group was         *)
(* evaluated in between, unless that evaluation saw a sample that was not  *)
(* due when the clock was read (between has no tolerance at its start).    *)
ApiChecksPass ==
    fault = "none" /\ now \in {0, LastEval} => \A t \in {p \in PollTimes : p > LastSampleAt} :
        /\ checkExpectedAlerts(PossibleAlerts(case, t), APIAlerts, EvalInterval)
        /\ t < 2 * EvalInterval \/
           checkExpectedRuleGroup(t, PossibleAlerts(case, t), APIAlerts, LastEval, EvalInterval)
        /\ checkExpectedSamples(PossibleMetrics(case, t), APISamples)
=============================================================================
