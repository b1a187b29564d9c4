------------------------- MODULE NewAlertsOrderCheck -------------------------
(***************************************************************************)
(* The test case NewAlerts_OrderCheck                                      *)
(* (alert_generator/cases/case_new_alerts_and_order_check.go).  The first  *)
(* rule has two alerts: r12 becomes active while r11 fires.  The second    *)
(* rule's alert r2 is active while both fire, which its query reads from   *)
(* the ALERTS series that the first rule wrote in the same evaluation.     *)
(***************************************************************************)
EXTENDS ExpectedAlert

CONSTANTS r11, r12, r2

rwInterval    == 15 * Second
groupInterval == 30 * Second
forDuration   == 12 * rwInterval   \* of the first rule
threshold     == 10

(* Of the series with variant one, and with variant two. *)
samples1 == sampleSlice(<<V(1), AxB(0, 7), V(11), AxB(0, 64), V(9), AxB(0, 20)>>)
samples2 == sampleSlice(<<V(1), AxB(0, 31), V(11), AxB(0, 32), V(9), AxB(0, 20)>>)

TestUntil ==
    LET totalSamples == IF Len(samples2) > Len(samples1) THEN Len(samples2) ELSE Len(samples1)
    IN  totalSamples * rwInterval

Nth(n) == n * rwInterval

-----------------------------------------------------------------------------
(* allPossibleStates, for ts relative to the zero time.  The code lets r12 *)
(* fire to the 73rd sample, though it resolves at the 65th.                *)
r11Inactive(ts) ==
    between(ts, 0, Nth(8) + groupInterval) \/ between(ts, Nth(73), Nth(240))
r11Pending(ts) == between(ts, Nth(8) - Second, Nth(20) + groupInterval)
r11Firing(ts)  == between(ts, Nth(20) - Second, Nth(73) + groupInterval)
r12Inactive(ts) ==
    between(ts, 0, Nth(32) + groupInterval) \/ between(ts, Nth(65), Nth(240))
r12Pending(ts) == between(ts, Nth(32) - Second, Nth(44) + groupInterval)
r12Firing(ts)  == between(ts, Nth(44) - Second, Nth(73) + groupInterval)

(* expAlerts, and the alerts of expRuleGroups. *)
R11(state) == [id |-> r11, state |-> state, value |-> 11, activeAt |-> Nth(8)]
R12(state) == [id |-> r12, state |-> state, value |-> 11, activeAt |-> Nth(32)]
R2 == [id |-> r2, state |-> "firing", value |-> 2, activeAt |-> Nth(44)]

expAlerts(ts) ==
    (IF r11Inactive(ts) /\ r12Inactive(ts) THEN {{}} ELSE {}) \cup
    (IF r11Pending(ts) /\ r12Inactive(ts) THEN {{R11("pending")}} ELSE {}) \cup
    (IF r11Firing(ts) /\ r12Inactive(ts) THEN {{R11("firing")}} ELSE {}) \cup
    (IF r11Firing(ts) /\ r12Pending(ts) THEN {{R11("firing"), R12("pending")}} ELSE {}) \cup
    (IF r11Firing(ts) /\ r12Firing(ts) THEN {{R11("firing"), R12("firing"), R2}} ELSE {})

expMetrics(ts) ==
    {{[id |-> a.id, state |-> a.state] : a \in possible} : possible \in expAlerts(ts)}

-----------------------------------------------------------------------------
(* The loops over r12 and r2 add one alert of each in turn. *)
ExpectedAlerts ==
    LET one   == Expected(r11, 11, Nth(20), groupInterval)
        two   == Expected(r12, 11, Nth(44), groupInterval)
        order == Expected(r2, 2, Nth(44), groupInterval)
    IN Numbered(
        Firing(Nth(20), Nth(73), one) \o
        Resolved(Nth(73), Nth(73) + ResolvedRetention, Never, one) \o
        FlattenSeq(Interleave(Firing(Nth(44), Nth(65), two), Firing(Nth(44), Nth(65), order))) \o
        FlattenSeq(Interleave(Resolved(Nth(65), Nth(65) + ResolvedRetention, Never, two),
                              Resolved(Nth(65), Nth(65) + ResolvedRetention, Never, order))))
=============================================================================
