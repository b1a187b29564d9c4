------------------------------ MODULE CaseUtils ------------------------------
(***************************************************************************)
(* What the test cases of the alert generator suite share                  *)
(* (alert_generator/cases/interface.go and utils.go): the delays they      *)
(* allow, the notation of their samples, and the checks of what the        *)
(* software under test answers.  Time is since the zero time, in quarters  *)
(* of a second: the suite's instants are whole seconds, and what other     *)
(* processes do can fall between them, as it does in the code's clock of   *)
(* nanoseconds.                                                            *)
(***************************************************************************)
EXTENDS Integers, Sequences, FiniteSets, SequencesExt

Second      == 4
ResendDelay == 60 * Second  \* a generator sends an active alert again after this
MaxRTT      == 5 * Second   \* the longest a request from or to a generator may take

(* The values of sampleSlice.  A notation is [add, v, times]: "V" is       *)
(* V(v), and "AxB" is AxB(a, b).                                           *)
V(v)      == [add |-> FALSE, v |-> v, times |-> 1]
AxB(a, b) == [add |-> TRUE, v |-> a, times |-> b]

sampleSlice(notations) ==
    LET LastVal(s) == IF s = <<>> THEN 0 ELSE s[Len(s)]
        From(s, n) == IF n.add THEN [i \in 1..n.times |-> LastVal(s) + i * n.v] ELSE <<n.v>>
    IN  FoldLeft(LAMBDA s, n : s \o From(s, n), <<>>, notations)

(* The example of the comment, which TestSampleSlice checks. *)
ASSUME SampleSliceExample ==
    sampleSlice(<<AxB(1, 1), AxB(0, 3), AxB(5, 3), V(9), V(8), AxB(-2, 2)>>) =
        <<1, 1, 1, 1, 6, 11, 16, 9, 8, 6, 4>>

(* betweenFunc: ts in (start, end], the end later by what a remote write   *)
(* may take.                                                               *)
between(ts, start, end) == ts > start /\ ts <= end + 2 * MaxRTT

(* areAlertsEqual, for sets of alerts [id, state, value, activeAt]: an     *)
(* expected alert stands for itself up to how late it became active.       *)
areAlertsEqual(exp, act, interval) ==
    /\ Cardinality(exp) = Cardinality(act)
    /\ \A a \in act : \E e \in exp :
        /\ e.id = a.id /\ e.state = a.state /\ e.value = a.value
        /\ a.activeAt \in e.activeAt..(e.activeAt + interval + 2 * MaxRTT)

(* checkExpectedAlerts: one of the possible sets of alerts matches.        *)
checkExpectedAlerts(expAlerts, act, interval) ==
    \E exp \in expAlerts : areAlertsEqual(exp, act, interval)

(* checkExpectedRuleGroup: the last evaluation, of the group and of each   *)
(* rule, is at most one interval and one request old; the state of a rule  *)
(* and its alerts match one possibility.                                   *)
checkExpectedRuleGroup(now, expAlerts, act, lastEvaluation, interval) ==
    /\ lastEvaluation >= now - MaxRTT - interval
    /\ checkExpectedAlerts(expAlerts, act, interval)

(* checkExpectedSamples: one possible set of ALERTS series is the one there *)
(* is, which tells an alert's id and state only.                           *)
checkExpectedSamples(expSamples, act) == \E exp \in expSamples : exp = act
=============================================================================
