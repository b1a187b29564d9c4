--------------------------- MODULE ZeroForSmallFor ---------------------------
(***************************************************************************)
(* The test case ZeroFor_SmallFor                                          *)
(* (alert_generator/cases/case_zero_for_and_small_for.go): two rules over  *)
(* the same samples.  The alert zf has no "for": it never is pending, and  *)
(* fires again after it was resolved and no longer sent.  The alert sf has *)
(* a "for" shorter than the evaluation interval, and fires at the second   *)
(* evaluation.  An annotation of zf shows what other series say at the     *)
(* time, which differs between its two firings as its value does: the      *)
(* value stands for the annotations.                                       *)
(***************************************************************************)
EXTENDS ExpectedAlert

CONSTANTS zf, sf

rwInterval    == 15 * Second
groupInterval == 30 * Second
forDuration   == groupInterval \div 2   \* of sf
zfThreshold   == 10
sfThreshold   == 13

(* Of both series. *)
SamplesToRemoteWrite == sampleSlice(<<
    V(3), V(5), AxB(0, 2), V(9), AxB(0, 3), V(15), AxB(0, 12),
    V(9), AxB(0, 71),
    V(11), AxB(0, 12),
    V(9)>>)

(* Five minutes more, to see resolved alerts.                              *)
TestUntil == (Len(SamplesToRemoteWrite) + 20) * rwInterval

Nth(n) == n * rwInterval

-----------------------------------------------------------------------------
(* allPossibleStates, for ts relative to the zero time. *)
canBeInactive(ts) ==
    \/ between(ts, 0, Nth(8) + groupInterval)
    \/ between(ts, Nth(21) - Second, Nth(93) + groupInterval)
    \/ between(ts, Nth(106), Nth(240))
zfFiring(ts)      == between(ts, Nth(8) - Second, Nth(21) + groupInterval)
zfFiringAgain(ts) == between(ts, Nth(93) - Second, Nth(106) + groupInterval)
sfPending(ts)     == between(ts, Nth(8) - Second, Nth(8) + 2 * groupInterval)
sfFiring(ts)      == between(ts, Nth(8) + groupInterval, Nth(21) + groupInterval)

(* expAlerts, and the alerts of expRuleGroups. *)
Is(x, state, value, activeAt) ==
    [id |-> x, state |-> state, value |-> value, activeAt |-> activeAt]

expAlerts(ts) ==
    (IF canBeInactive(ts) THEN {{}} ELSE {}) \cup
    (IF zfFiring(ts) /\ sfPending(ts)
     THEN {{Is(zf, "firing", 15, Nth(8)), Is(sf, "pending", 15, Nth(8))}} ELSE {}) \cup
    (IF zfFiring(ts) /\ sfFiring(ts)
     THEN {{Is(zf, "firing", 15, Nth(8)), Is(sf, "firing", 15, Nth(8))}} ELSE {}) \cup
    (IF zfFiringAgain(ts) THEN {{Is(zf, "firing", 11, Nth(93))}} ELSE {})

expMetrics(ts) ==
    {{[id |-> a.id, state |-> a.state] : a \in possible} : possible \in expAlerts(ts)}

-----------------------------------------------------------------------------
ExpectedAlerts ==
    LET zfFirst == Expected(zf, 15, Nth(8), groupInterval)
        zfAgain == Expected(zf, 11, Nth(93), groupInterval)
        sfOnly  == Expected(sf, 15, Nth(8) + groupInterval, groupInterval)
    IN Numbered(
        Firing(Nth(8), Nth(21), zfFirst) \o
        Resolved(Nth(21), Nth(21) + ResolvedRetention, Nth(93), zfFirst) \o
        Firing(Nth(93), Nth(106), zfAgain) \o
        Resolved(Nth(106), Nth(106) + ResolvedRetention, Never, zfAgain) \o
        Firing(Nth(8) + groupInterval, Nth(21), sfOnly) \o
        Resolved(Nth(21), Nth(21) + ResolvedRetention, Never, sfOnly))
=============================================================================
