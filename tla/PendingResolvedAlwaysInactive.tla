-------------------- MODULE PendingResolvedAlwaysInactive --------------------
(***************************************************************************)
(* The test case PendingAndResolved_AlwaysInactive                         *)
(* (alert_generator/cases/case_pending_resolved_and_always_inactive.go):   *)
(* an alert that is pending for less than its rule's "for", named id, and  *)
(* a rule over the same samples whose threshold they never reach.  No      *)
(* alert is ever to be sent.                                               *)
(***************************************************************************)
EXTENDS CaseUtils

CONSTANT id

rwInterval    == 15 * Second
groupInterval == 30 * Second
forDuration   == 12 * rwInterval
pendingThreshold  == 10
inactiveThreshold == 99

(* Of both series. *)
SamplesToRemoteWrite == sampleSlice(<<
    V(3), V(5), AxB(0, 2), V(9), AxB(0, 3), V(11), AxB(0, 10), V(9)>>)

(* Forty samples longer than there are, to see the alert stay inactive. *)
TestUntil == (Len(SamplesToRemoteWrite) + 40) * rwInterval

Nth(n) == n * rwInterval

(* allPossibleStates, for ts relative to the zero time. *)
canBeInactive(ts) ==
    between(ts, 0, Nth(8) + groupInterval) \/ between(ts, Nth(19), Nth(240))
canBePending(ts) == between(ts, Nth(8) - Second, Nth(19) + groupInterval)

(* expAlerts, and the alerts of expRuleGroups. *)
expAlerts(ts) ==
    (IF canBeInactive(ts) THEN {{}} ELSE {}) \cup
    (IF canBePending(ts)
     THEN {{[id |-> id, state |-> "pending", value |-> 11, activeAt |-> Nth(8)]}} ELSE {})

expMetrics(ts) ==
    (IF canBeInactive(ts) THEN {{}} ELSE {}) \cup
    (IF canBePending(ts) THEN {{[id |-> id, state |-> "pending"]}} ELSE {})

(* No alert is expected to be sent. *)
ExpectedAlerts == <<>>
=============================================================================
