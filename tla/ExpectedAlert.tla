---------------------------- MODULE ExpectedAlert ----------------------------
(***************************************************************************)
(* The description of one alert that the server expects to receive         *)
(* (alert_generator/cases/expected_alert.go): when a received alert        *)
(* matches it, and when it may be, or has to be, ignored.                  *)
(***************************************************************************)
EXTENDS CaseUtils

Never == -1                        \* time.Time{}
ResolvedRetention == 900 * Second  \* 15 min: how long a resolved alert is sent

MatchesWithinTolerance(ea, exp, act) == exp < act /\ act < exp + ea.tolerance
MatchesWithinToleranceAndTwiceSendDelay(ea, exp, act) ==
    exp < act /\ act < exp + ea.tolerance + 2 * MaxRTT

(* EndsAt is EndsAtDelta after the sender's clock for a firing alert, which *)
(* is up to 2*MaxRTT behind the server's, and ResolvedTime for a resolved  *)
(* one.  The two lines of the code's condition come down to this.          *)
EndsAtMatches(ea, now, endsAt) ==
    LET expEndsAt == IF ea.resolved THEN ea.resolvedTime ELSE now + ea.endsAtDelta
    IN  \/ MatchesWithinTolerance(ea, expEndsAt, endsAt)
        \/ MatchesWithinTolerance(ea, expEndsAt - 2 * MaxRTT, endsAt)

(* A received alert is [id, annotations, startsAt, endsAt]; id is its whole *)
(* label set.                                                              *)
MatchesAtAnyTime(ea, now, a) ==
    /\ ea.id = a.id
    /\ ea.annotations = a.annotations
    /\ a.startsAt # Never => MatchesWithinTolerance(ea, ea.startsAt, a.startsAt)
    /\ a.endsAt # Never => EndsAtMatches(ea, now, a.endsAt)

MatchesWhateverTheAnnotations(ea, now, a) ==
    /\ ea.id = a.id
    /\ MatchesWithinToleranceAndTwiceSendDelay(ea, ea.ts, now)
    /\ a.startsAt # Never => MatchesWithinTolerance(ea, ea.startsAt, a.startsAt)
    /\ a.endsAt # Never => EndsAtMatches(ea, now, a.endsAt)

Matches(ea, now, a) ==
    /\ MatchesAtAnyTime(ea, now, a)
    /\ MatchesWithinToleranceAndTwiceSendDelay(ea, ea.ts, now)

TimeCanBeIgnored(ea, t) ==
    MatchesWithinToleranceAndTwiceSendDelay(ea, ea.ts, t) \/ ea.ts > t

TooLongResolved(ea) == ea.resolved /\ ea.ts - ea.resolvedTime > ResolvedRetention

(* No error if it does not come. *)
CanBeIgnored(ea) ==
    \/ TooLongResolved(ea)
    \/ ea.nextState # Never /\ TimeCanBeIgnored(ea, ea.nextState)
    \/ ea.resolvedTime # Never /\ ~ea.resolved /\ TimeCanBeIgnored(ea, ea.resolvedTime)

(* An error, unless another expectation matches, if it does come. *)
ShouldBeIgnored(ea) ==
    \/ TooLongResolved(ea)
    \/ ea.nextState # Never /\ ea.ts > ea.nextState

(* What the cases' ExpectedAlerts have in common.  An expected alert of the *)
(* label set x, and one of it every ResendDelay in first <= ts < next, the *)
(* first of them with a tolerance of its own.                              *)
Expected(x, annotations, startsAt, groupInterval) ==
    [orderingID |-> 0, ts |-> 0, tolerance |-> groupInterval, resend |-> TRUE,
     resolved |-> FALSE, nextState |-> Never, resolvedTime |-> Never,
     endsAtDelta |-> 4 * (IF ResendDelay < groupInterval THEN groupInterval ELSE ResendDelay),
     id |-> x, annotations |-> annotations, startsAt |-> startsAt]

Every(first, next, firstTol, firstIsResend, ea) ==
    [i \in 1..((next - first + ResendDelay - 1) \div ResendDelay) |->
        IF i = 1 THEN [ea EXCEPT !.ts = first, !.tolerance = firstTol, !.resend = firstIsResend]
                 ELSE [ea EXCEPT !.ts = first + (i - 1) * ResendDelay]]

Firing(first, next, ea) ==
    Every(first, next, ea.tolerance, FALSE,
          [ea EXCEPT !.nextState = next, !.resolvedTime = next])

(* The first send of a resolved alert may be an interval late.             *)
Resolved(first, next, nextState, ea) ==
    Every(first, next, 2 * ea.tolerance, FALSE,
          [ea EXCEPT !.resolved = TRUE, !.nextState = nextState, !.resolvedTime = first])

(* The alerts of a list that are in the set S, in the order of the list.   *)
Only(eas, S) ==
    LET kept[n \in 0..Len(eas)] ==
            IF n = 0 THEN <<>>
            ELSE IF eas[n] \in S THEN Append(kept[n - 1], eas[n])
            ELSE kept[n - 1]
    IN kept[Len(eas)]

(* A list that is sorted by OrderingID, without a number twice.            *)
IsNumbered(ea) == {"id", "orderingID"} \subseteq DOMAIN ea /\ ea.orderingID \in Nat
Ascending(eas) ==
    /\ eas \in Seq(ToSet(eas))
    /\ \A i \in DOMAIN eas : IsNumbered(eas[i])
    /\ \A j \in DOMAIN eas : \A i \in 1..(j - 1) : eas[i].orderingID < eas[j].orderingID

(* addAlert numbers them.                                                  *)
Numbered(eas) == [i \in DOMAIN eas |-> [eas[i] EXCEPT !.orderingID = i]]

(* Ts adjusted from the reception of the alert before a resend. *)
AdjustedTs(now) == now + ResendDelay - MaxRTT
=============================================================================
