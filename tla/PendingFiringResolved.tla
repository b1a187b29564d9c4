------------------------ MODULE PendingFiringResolved ------------------------
(***************************************************************************)
(* The test case PendingAndFiringAndResolved                               *)
(* (alert_generator/cases/case_pending_firing_resolved.go): one alert that *)
(* goes from pending to firing to resolved, and from pending to firing to  *)
(* resolved again.  Its single alert is named id.                          *)
(***************************************************************************)
EXTENDS ExpectedAlert

CONSTANT id

rwInterval    == 15 * Second
groupInterval == 30 * Second
forDuration   == 24 * rwInterval
threshold     == 10

SamplesToRemoteWrite == sampleSlice(<<
    V(3), V(5), AxB(0, 2), V(9), AxB(0, 3), V(11), AxB(0, 12),
    V(15), AxB(0, 11), AxB(0, 20), V(19), AxB(0, 15),
    V(9), AxB(0, 19),
    V(15), AxB(0, 24), AxB(0, 20), V(8), AxB(0, 15)>>)

TestUntil == Len(SamplesToRemoteWrite) * rwInterval

(* The timestamp of the n-th sample: what the case calls _nth. *)
Nth(n) == n * rwInterval

-----------------------------------------------------------------------------
(* allPossibleStates, for ts relative to the zero time. *)
canBeInactive(ts) ==
    \/ between(ts, 0, Nth(8) + groupInterval)
    \/ between(ts, Nth(69) - Second, Nth(89) + groupInterval)
    \/ between(ts, Nth(134), Nth(240))
canBePending1WithoutInterval(ts) == between(ts, Nth(8) - Second, Nth(21))
canBePending1(ts) == between(ts, Nth(8) - Second, Nth(21) + groupInterval)
canBePending2(ts) == between(ts, Nth(21) - Second, Nth(32) + groupInterval)
canBeFiring1(ts)  == between(ts, Nth(32) - Second, Nth(53) + groupInterval)
canBeFiring2(ts)  == between(ts, Nth(53) - Second, Nth(69) + groupInterval)
pendingAgain(ts)  == between(ts, Nth(89) - Second, Nth(113) + groupInterval)
firingAgain(ts)   == between(ts, Nth(113) - Second, Nth(134) + groupInterval)

(* expAlerts, and the alerts of expRuleGroups: the sets of alerts that the *)
(* API may return.                                                         *)
Active(state, value, activeAt) ==
    {[id |-> id, state |-> state, value |-> value, activeAt |-> activeAt]}
activeAt1 == Nth(8)
activeAt2 == Nth(89)

expAlerts(ts) ==
    (IF canBeInactive(ts) THEN {{}} ELSE {}) \cup
    (IF canBePending1(ts) THEN {Active("pending", 11, activeAt1)} ELSE {}) \cup
    (IF canBePending2(ts) \/ pendingAgain(ts)
     THEN {Active("pending", 15, IF pendingAgain(ts) THEN activeAt2 ELSE activeAt1)}
     ELSE {}) \cup
    (IF canBeFiring1(ts) \/ firingAgain(ts)
     THEN {Active("firing", 15, IF firingAgain(ts) THEN activeAt2 ELSE activeAt1)}
     ELSE {}) \cup
    (IF canBeFiring2(ts) THEN {Active("firing", 19, activeAt1)} ELSE {})

(* expMetrics: the ALERTS series that there may be. *)
expMetrics(ts) ==
    (IF canBeInactive(ts) THEN {{}} ELSE {}) \cup
    (IF canBePending1(ts) \/ canBePending2(ts) \/ pendingAgain(ts)
     THEN {{[id |-> id, state |-> "pending"]}} ELSE {}) \cup
    (IF canBeFiring1(ts) \/ canBeFiring2(ts) \/ firingAgain(ts)
     THEN {{[id |-> id, state |-> "firing"]}} ELSE {})

-----------------------------------------------------------------------------
(* ExpectedAlerts *)
ExpectedAlerts ==
    LET first == Expected(id, 15, Nth(32), groupInterval)
        changed == [first EXCEPT !.annotations = 19]
        again == Expected(id, 15, Nth(113), groupInterval)
    IN Numbered(
        Every(Nth(32), Nth(53), groupInterval, FALSE,
              [first EXCEPT !.nextState = Nth(53), !.resolvedTime = Nth(69)]) \o
        \* With the value changed: no send of its own, a resend.
        Every(Nth(53), Nth(69), groupInterval, TRUE,
              [changed EXCEPT !.nextState = Nth(69), !.resolvedTime = Nth(69)]) \o
        Resolved(Nth(69), Nth(89), Nth(89), changed) \o
        Firing(Nth(113), Nth(134), again) \o
        Resolved(Nth(134), Nth(134) + ResolvedRetention, Never, again))
=============================================================================
