--------------------------- MODULE ConformanceRun ---------------------------
(***************************************************************************)
(* What a run of the alert generator compliance test promises, whatever    *)
(* goroutines carry it out: every rule group is under test until it has    *)
(* failed a check or its test time is over, it is concluded once, and the  *)
(* run is declared passed only when every group passed.                    *)
(***************************************************************************)
CONSTANT Groups

VARIABLES ended,    \* groups whose test time is over
          status,   \* group -> "testing", "passed" or "failed"
          verdict   \* "none", "passed" or "notPassed"

avars == <<ended, status, verdict>>

AInit ==
    /\ ended = {}
    /\ status = [g \in Groups |-> "testing"]
    /\ verdict = "none"

End(g) ==
    /\ verdict = "none"
    /\ ended' = ended \cup {g}
    /\ UNCHANGED <<status, verdict>>

(* Some groups are concluded at once: passing needs the time to be over. *)
Conclude(passing, failing) ==
    /\ verdict = "none"
    /\ passing \cap failing = {}
    /\ \A g \in passing \cup failing : status[g] = "testing"
    /\ passing \subseteq ended
    /\ status' = [g \in Groups |->
           IF g \in passing THEN "passed"
           ELSE IF g \in failing THEN "failed" ELSE status[g]]
    /\ UNCHANGED <<ended, verdict>>

DeclarePassed ==
    /\ verdict = "none"
    /\ \A g \in Groups : status[g] = "passed"
    /\ verdict' = "passed"
    /\ UNCHANGED <<ended, status>>

(* Interrupted, out of order, or some group failed. *)
DeclareNotPassed ==
    /\ verdict = "none"
    /\ verdict' = "notPassed"
    /\ UNCHANGED <<ended, status>>

ANext ==
    \/ \E g \in Groups : End(g)
    \/ \E passing, failing \in SUBSET Groups : Conclude(passing, failing)
    \/ DeclarePassed
    \/ DeclareNotPassed

ASpec == AInit /\ [][ANext]_avars
=============================================================================
