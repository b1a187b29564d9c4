----------------------------- MODULE AlertServer -----------------------------
(***************************************************************************)
(* The server that receives the alerts (alert_generator/server.go).  It    *)
(* holds the expected alerts of every label set, matches what it receives  *)
(* against them, and records what was missed, unexpected or mismatching.   *)
(*                                                                         *)
(* ServeHTTP runs in one goroutine per request (Handlers), reads the clock *)
(* first and does its work under expectedAlertsMtx.  missedAlertCleanup    *)
(* runs in a goroutine of its own, without that mutex.  All label sets     *)
(* belong to one rule group, so its errs are three sets.  The actions take *)
(* the clock and the alerts of a request from the module that composes     *)
(* them.                                                                   *)
(***************************************************************************)
EXTENDS ExpectedAlert, FiniteSetsExt

CONSTANT Handlers  \* the goroutines that can serve requests at a time

NoHandler == "none"

ASSUME HandlersAssumption == NoHandler \notin Handlers

VARIABLES
    expectedAlerts,   \* label set -> its expected alerts, by OrderingID
    missedAlerts,     \* errs: the expected alerts that did not come
    unexpectedAlerts, \* errs: received alerts that nothing expected
    matchingErrs,     \* errs: received alerts that matched no possible alert
    mtx,              \* who holds expectedAlertsMtx
    handler,          \* handler -> its locals
    cleanup           \* the locals of missedAlertCleanup

errs == <<missedAlerts, unexpectedAlerts, matchingErrs>>
serverVars == <<expectedAlerts, errs, mtx, handler, cleanup>>

(* pc: "idle", "received" (now is read), "serving" (holds the mutex).      *)
IdleHandler == [pc |-> "idle", now |-> 0, parsable |-> TRUE, alerts |-> {},
                addBack |-> {}, missed |-> {}, success |-> {}]
(* pc: "idle", "pick" the next label set, "write" its list back.           *)
IdleCleanup == [pc |-> "idle", now |-> 0, todo |-> {}, id |-> NoHandler,
                newExpAlerts |-> <<>>, missed |-> {}]

(* The label sets whose alerts are expected.                               *)
Ids == DOMAIN expectedAlerts

SInit(expected) ==
    /\ expectedAlerts = expected
    /\ missedAlerts = {} /\ unexpectedAlerts = {} /\ matchingErrs = {}
    /\ mtx = NoHandler
    /\ handler = [h \in Handlers |-> IdleHandler]
    /\ cleanup = IdleCleanup

-----------------------------------------------------------------------------
(* What getPossibleAlert and missedAlertCleanup do with a list: they keep  *)
(* some of its alerts, in order.                                           *)

Late(ea, now) == ea.ts + ea.tolerance + 2 * MaxRTT < now

InTime(eas, now) == Only(eas, {ea \in ToSet(eas) : ~ShouldBeIgnored(ea) /\ ~Late(ea, now)})

LateAmong(eas, now) == {ea \in ToSet(eas) : ~ShouldBeIgnored(ea) /\ Late(ea, now)}
MissedAmong(eas, now) ==
    {ea \in ToSet(eas) : ~ShouldBeIgnored(ea) /\ Late(ea, now) /\ ~CanBeIgnored(ea)}

Possible(ea, now) == ea.ts < now /\ now < ea.ts + ea.tolerance + 2 * MaxRTT

possibleAlerts(now, lbls) ==
    LET eas == IF lbls \in Ids THEN InTime(expectedAlerts[lbls], now) ELSE <<>>
    IN  Only(eas, {ea \in ToSet(eas) : Possible(ea, now)})

(* The lists that getPossibleAlert leaves: without what is late and what   *)
(* it returns.                                                             *)
afterGetPossibleAlert(now, lbls) ==
    [x \in Ids |->
        LET eas == InTime(expectedAlerts[x], now)
        IN  Only(eas, {ea \in ToSet(eas) : x # lbls \/ ~Possible(ea, now)})]

-----------------------------------------------------------------------------
(* ServeHTTP *)

(* The clock is read before the body, and before the mutex.                *)
ReceiveRequest(h, now, alerts, parsable) ==
    /\ handler[h].pc = "idle"
    /\ handler' = [handler EXCEPT ![h] =
                     [IdleHandler EXCEPT !.pc = "received", !.now = now,
                                         !.alerts = alerts, !.parsable = parsable]]
    /\ UNCHANGED <<expectedAlerts, errs, mtx, cleanup>>

(* The body cannot be read or parsed: 400, and nothing is done.            *)
Reject(h) ==
    /\ handler[h].pc = "received" /\ ~handler[h].parsable
    /\ handler' = [handler EXCEPT ![h] = IdleHandler]
    /\ UNCHANGED <<expectedAlerts, errs, mtx, cleanup>>

Lock(h) ==
    /\ handler[h].pc = "received" /\ handler[h].parsable
    /\ mtx = NoHandler
    /\ mtx' = h
    /\ handler' = [handler EXCEPT ![h].pc = "serving"]
    /\ UNCHANGED <<expectedAlerts, errs, cleanup>>

(* The possible alerts before the one that matched are missed, unless they *)
(* may be ignored, or are resends that follow an ignored resend, whose     *)
(* time would have been adjusted.                                          *)
IgnoredAfterResend(exp, i) ==
    /\ exp[i].resend
    /\ \E j \in 1..(i - 1) :
        /\ CanBeIgnored(exp[j]) /\ exp[j].resend
        /\ \A k \in (j + 1)..(i - 1) : exp[k].resend /\ ~CanBeIgnored(exp[k])

MissedBefore(exp, idx) ==
    {exp[i] : i \in {n \in 1..(idx - 1) :
        ~CanBeIgnored(exp[n]) /\ ~IgnoredAfterResend(exp, n)}}

(* The possible alerts after the one that matched may still come. *)
MayStillComeButTheNext(exp, idx) == {exp[i] : i \in (idx + 2)..Len(exp)}
MayStillCome(exp, idx) == {exp[i] : i \in (idx + 1)..Len(exp)}

(* An alert for a label set of which nothing is expected now.              *)
UnexpectedAt(now, al) == {[alert |-> al, t |-> now]}

(* One alert of the request.                                               *)
ServeAlert(h, al) == \E exp \in {possibleAlerts(handler[h].now, al.id)} :
    LET now == handler[h].now
        matching == {i \in DOMAIN exp : Matches(exp[i], now, al)}
        idx == CHOOSE i \in matching : \A j \in matching : i <= j
        Locals(addBack, missed, success) ==
            handler' = [handler EXCEPT ![h].alerts = @ \ {al},
                                       ![h].addBack = @ \cup addBack,
                                       ![h].missed = @ \cup missed,
                                       ![h].success = @ \cup success]
    IN
    /\ handler[h].pc = "serving" /\ al \in handler[h].alerts
    /\ expectedAlerts' = afterGetPossibleAlert(now, al.id)
    /\ missedAlerts' = missedAlerts \cup UNION {MissedAmong(expectedAlerts[x], now) : x \in Ids}
    /\ \/ /\ exp = <<>>
          /\ unexpectedAlerts' = unexpectedAlerts \cup UnexpectedAt(now, al)
          /\ Locals({}, {}, {})
          /\ UNCHANGED matchingErrs
       \/ /\ matching # {}
          /\ Locals(MayStillCome(exp, idx), MissedBefore(exp, idx), {al.id})
          /\ UNCHANGED <<unexpectedAlerts, matchingErrs>>
       \/ /\ exp # <<>> /\ matching = {}
          /\ matchingErrs' = matchingErrs \cup {[alert |-> al, t |-> now]}
          /\ Locals(ToSet(exp), {}, {})
          /\ UNCHANGED unexpectedAlerts
    /\ UNCHANGED <<mtx, cleanup>>

(* addExpectedAlerts: add, and sort by OrderingID.                         *)
inserted(ea, eas) ==
    Only(eas, {e \in ToSet(eas) : e.orderingID <= ea.orderingID}) \o <<ea>> \o
    Only(eas, {e \in ToSet(eas) : e.orderingID > ea.orderingID})
withAdded(eas, added) == FoldSet(inserted, eas, added)

(* The resends up to the next alert that is none are now expected after    *)
(* the reception of this one.                                              *)
AdjustFirst(eas, now) ==
    [i \in DOMAIN eas |-> IF i = 1 /\ eas[i].resend
                          THEN [eas[i] EXCEPT !.ts = AdjustedTs(now)] ELSE eas[i]]
AdjustResends(eas, now) ==
    [i \in DOMAIN eas |-> IF \A j \in 1..i : eas[j].resend
                          THEN [eas[i] EXCEPT !.ts = AdjustedTs(now)] ELSE eas[i]]

Unlock(h) ==
    LET added(x) == {ea \in handler[h].addBack : ea.id = x}
        eas(x) == withAdded(expectedAlerts[x], added(x))
    IN
    /\ handler[h].pc = "serving" /\ handler[h].alerts = {}
    /\ expectedAlerts' = [x \in Ids |-> IF x \in handler[h].success
                                        THEN AdjustResends(eas(x), handler[h].now)
                                        ELSE eas(x)]
    /\ missedAlerts' = missedAlerts \cup handler[h].missed
    /\ mtx' = NoHandler
    /\ handler' = [handler EXCEPT ![h] = IdleHandler]
    /\ UNCHANGED <<unexpectedAlerts, matchingErrs, cleanup>>

-----------------------------------------------------------------------------
(* missedAlertCleanup, which holds no mutex: each list is read, and later  *)
(* replaced by what was kept of it.                                        *)

CleanupStarts(now) ==
    /\ cleanup.pc = "idle"
    /\ cleanup' = [IdleCleanup EXCEPT !.pc = "pick", !.now = now, !.todo = Ids]
    /\ UNCHANGED <<expectedAlerts, errs, mtx, handler>>

CleanupReads(x) ==
    /\ cleanup.pc = "pick" /\ x \in cleanup.todo
    /\ cleanup' = [cleanup EXCEPT
                      !.pc = "write", !.id = x,
                      !.newExpAlerts = InTime(expectedAlerts[x], cleanup.now),
                      !.missed = @ \cup MissedAmong(expectedAlerts[x], cleanup.now)]
    /\ UNCHANGED <<expectedAlerts, errs, mtx, handler>>

CleanupWrites ==
    /\ cleanup.pc = "write"
    /\ expectedAlerts' = [expectedAlerts EXCEPT ![cleanup.id] = cleanup.newExpAlerts]
    /\ cleanup' = [cleanup EXCEPT !.pc = "pick", !.todo = @ \ {cleanup.id},
                                  !.newExpAlerts = <<>>]
    /\ UNCHANGED <<errs, mtx, handler>>

CleanupEnds ==
    /\ cleanup.pc = "pick" /\ cleanup.todo = {}
    /\ missedAlerts' = missedAlerts \cup cleanup.missed
    /\ cleanup' = IdleCleanup
    /\ UNCHANGED <<expectedAlerts, unexpectedAlerts, matchingErrs, mtx, handler>>

HandlerStep(h) ==
    Reject(h) \/ Lock(h) \/ (\E al \in handler[h].alerts : ServeAlert(h, al)) \/ Unlock(h)
CleanupStep == (\E x \in Ids : CleanupReads(x)) \/ CleanupWrites \/ CleanupEnds

HandlersIdle == \A h \in Handlers : handler[h].pc = "idle"
CleanupIdle  == cleanup.pc = "idle"

(* groupsFacingErrors, for the rule group of the label sets.               *)
FacesErrors == missedAlerts # {} \/ unexpectedAlerts # {} \/ matchingErrs # {}

(* expectedAlertsError: first sends that have not come. *)
LeftOver == {ea \in UNION {ToSet(expectedAlerts[x]) : x \in Ids} : ~ea.resend}
=============================================================================
