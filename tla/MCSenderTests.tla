---------------------------- MODULE MCSenderTests ----------------------------
(* Instances of SenderTests for TLC. *)
EXTENDS SenderTests

CONSTANTS s1, s2, f, n

None == {}
TwoScenarios == {s1, s2}
OneScenario == {s1}
OneFallback == {f}
OneNoFallback == {n}

V2 == [version |-> "2.0", decodes |-> TRUE]
V1 == [V2 EXCEPT !.version = "0.1.0"]
Garbage == [V2 EXCEPT !.decodes = FALSE]

(* A scenario's target sends what decodes, of one version. *)
BothVersions == [t \in Tests |-> IF t \in Tracked THEN {V1, V2} ELSE {V2}]
SomeGarbage == [t \in Tests |-> {V1, V2, Garbage}]

(* One run has two requests, in whatever order; another is short. *)
TwoRequests == <<2, 0>>
=============================================================================
