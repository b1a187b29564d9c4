-------------------------- MODULE MCAlertReception --------------------------
(* Instances of AlertReception for TLC: the test cases, in full. *)
EXTENDS AlertReception, TLC

CONSTANTS simple, pending, inactive, zf, sf, r11, r12, r2

PFR == INSTANCE PendingFiringResolved WITH id <- simple
PRI == INSTANCE PendingResolvedAlwaysInactive WITH id <- pending
ZF  == INSTANCE ZeroForSmallFor
NA  == INSTANCE NewAlertsOrderCheck

CaseLabelSets == "PFR" :> {simple} @@ "PRI" :> {pending, inactive}
              @@ "ZF" :> {zf, sf} @@ "NA" :> {r11, r12, r2}
CaseExpectedAlerts == "PFR" :> PFR!ExpectedAlerts @@ "PRI" :> PRI!ExpectedAlerts
              @@ "ZF" :> ZF!ExpectedAlerts @@ "NA" :> NA!ExpectedAlerts
CaseTestUntil == "PFR" :> PFR!TestUntil @@ "PRI" :> PRI!TestUntil
              @@ "ZF" :> ZF!TestUntil @@ "NA" :> NA!TestUntil

Samples == simple :> PFR!SamplesToRemoteWrite
        @@ pending :> PRI!SamplesToRemoteWrite @@ inactive :> PRI!SamplesToRemoteWrite
        @@ zf :> ZF!SamplesToRemoteWrite @@ sf :> ZF!SamplesToRemoteWrite
        @@ r11 :> NA!samples1 @@ r12 :> NA!samples2
For == simple :> PFR!forDuration @@ pending :> PRI!forDuration @@ inactive :> PRI!forDuration
    @@ zf :> 0 @@ sf :> ZF!forDuration @@ r11 :> NA!forDuration @@ r12 :> NA!forDuration
    @@ r2 :> 0
Thresholds == simple :> PFR!threshold
           @@ pending :> PRI!pendingThreshold @@ inactive :> PRI!inactiveThreshold
           @@ zf :> ZF!zfThreshold @@ sf :> ZF!sfThreshold
           @@ r11 :> NA!threshold @@ r12 :> NA!threshold
SumsOf == [x \in {simple, pending, inactive, zf, sf, r11, r12} |-> {}] @@ r2 :> {r11, r12}

(* Resending once ResendDelay has passed, for less than the retention; and *)
(* once more than it has passed, to the end of the retention, as           *)
(* Prometheus does.                                                        *)
AtLeastDelay  == [interval |-> 60 * Second, atEnd |-> FALSE]
MoreThanDelay == [interval |-> 90 * Second, atEnd |-> TRUE]
UsualPolicies == {AtLeastDelay, MoreThanDelay}

(* "More than ResendDelay" after the last send, and "less than 15 minutes" *)
(* after ResolvedAt: the condition of specification.md taken at its word.  *)
SpecifiedPolicy == {[interval |-> 90 * Second, atEnd |-> FALSE]}

ExpAlerts(c, ts) == CASE c = "PFR" -> PFR!expAlerts(ts) [] c = "PRI" -> PRI!expAlerts(ts)
                      [] c = "ZF" -> ZF!expAlerts(ts)   [] c = "NA" -> NA!expAlerts(ts)
ExpMetrics(c, ts) == CASE c = "PFR" -> PFR!expMetrics(ts) [] c = "PRI" -> PRI!expMetrics(ts)
                       [] c = "ZF" -> ZF!expMetrics(ts)   [] c = "NA" -> NA!expMetrics(ts)
=============================================================================
