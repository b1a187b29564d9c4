--------------------------- MODULE ComparisonRun ---------------------------
(***************************************************************************)
(* What a run of the PromQL tester promises: each test is compared once,   *)
(* no more than Parallelism of them at a time, and the run is declared     *)
(* passed or failed by the outcomes of all of them. It may be aborted by a *)
(* test that is under way.                                                 *)
(***************************************************************************)
EXTENDS Integers, FiniteSets

CONSTANT Parallelism

VARIABLES tests,     \* what is to be compared
          running,   \* the tests under way
          outcome,   \* test -> "none", "success" or "failure"
          verdict    \* "none", "passed", "failed" or "aborted"

avars == <<tests, running, outcome, verdict>>

AInit ==
    /\ running = {}
    /\ outcome = [i \in tests |-> "none"]
    /\ verdict = "none"

Begin(i) ==
    /\ verdict = "none"
    /\ outcome[i] = "none" /\ i \notin running
    /\ Cardinality(running) < Parallelism
    /\ running' = running \cup {i}
    /\ UNCHANGED <<tests, outcome, verdict>>

Finish(i) ==
    /\ verdict = "none"
    /\ i \in running
    /\ running' = running \ {i}
    /\ \E o \in {"success", "failure"} : outcome' = [outcome EXCEPT ![i] = o]
    /\ UNCHANGED <<tests, verdict>>

Abort ==
    /\ verdict = "none" /\ running # {}
    /\ verdict' = "aborted"
    /\ UNCHANGED <<tests, running, outcome>>

Declare ==
    /\ verdict = "none"
    /\ \A i \in tests : outcome[i] # "none"
    /\ verdict' = IF \E i \in tests : outcome[i] = "failure" THEN "failed" ELSE "passed"
    /\ UNCHANGED <<tests, running, outcome>>

ANext ==
    \/ \E i \in tests : Begin(i) \/ Finish(i)
    \/ Abort
    \/ Declare

ASpec == AInit /\ [][ANext]_avars
=============================================================================
