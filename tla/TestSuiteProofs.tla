--------------------------- MODULE TestSuiteProofs ---------------------------
(* Proofs about TestSuite, for any groups, loops and bounds. *)
EXTENDS TestSuite, TLAPS

(* The state the process starts in has the right types. *)
LEMMA TypeOKInit == ASSUME Init PROVE TypeOK
<1>1. /\ ruleGroupTestErrors \in [RuleGroupLabels -> Seq(Loops)]
      /\ pc \in [Actors -> LoopStates \cup StopStates \cup {"off", "waiting", "done"}]
      /\ nowTs \in [Loops -> SUBSET Groups]
      /\ groupsToRemove \in [Loops -> [RuleGroupLabels -> {"keep", "pass", "fail"}]]
  BY DEF Init, NothingToRemove
<1>2. /\ errc \in 0..1
      /\ writeErrors \in 0..MaxWriteErrors
      /\ interrupts \in 0..MaxInterrupts
  BY BoundsAssumption DEF Init
<1>3. QED
  BY <1>1, <1>2
  DEF Init, TypeOK, LoopsTypeOK, ServerTypeOK, WriterTypeOK, MainTypeOK, MainStates

(* Every step of every goroutine keeps the types; errc stays within its   *)
(* capacity of 1.                                                          *)
LEMMA TypeOKNext == TypeOK /\ [Next]_vars => TypeOK'
<1> SUFFICES ASSUME TypeOK, [Next]_vars PROVE TypeOK'
  OBVIOUS
<1> USE DEF TypeOK, LoopsTypeOK, ServerTypeOK, WriterTypeOK, MainTypeOK, Actors, testVars, loopVars, serverVars, writerVars, mainVars
<1>1. ASSUME NEW g \in Groups, Expire(g) PROVE TypeOK'
  BY <1>1 DEF Expire
<1>2. ASSUME NEW l \in Loops, LoopStep(l) PROVE TypeOK'
  <2>1. CASE IsOver(l)
    BY <2>1 DEF IsOver, LoopStates, StopStates
  <2>2. CASE SelectStop(l)
    BY <2>2 DEF SelectStop, LoopStates, StopStates
  <2>3. CASE SelectTimer(l)
    BY <2>3 DEF SelectTimer, LoopStates, StopStates, NothingToRemove
  <2>4. CASE GetFails(l)
    BY <2>4 DEF GetFails, AfterFailedGet, LoopStates, StopStates
  <2>5. ASSUME NEW bad \in SUBSET Groups, Check(l, bad) PROVE TypeOK'
    BY <2>5 DEF Check, LoopStates, StopStates
  <2>6. CASE ReadFacing(l)
    BY <2>6 DEF ReadFacing, LoopStates, StopStates
  <2>7. CASE CheckReception(l)
    BY <2>7 DEF CheckReception, LoopStates, StopStates
  <2>8. CASE RemoveGroups(l)
    BY <2>8 DEF RemoveGroups, LoopStates, StopStates
  <2>9. QED
    BY <1>2, <2>1, <2>2, <2>3, <2>4, <2>5, <2>6, <2>7, <2>8 DEF LoopStep, OwnStep, RequestEnds
<1>3. ASSUME NEW a \in Actors, StopStep(a) PROVE TypeOK'
  <2>1. CASE Stop(a)
    BY <2>1 DEF Stop, LoopStates, StopStates
  <2>2. CASE CloseStopc(a)
    <3>1. CASE stopc
      BY <2>2, <3>1 DEF CloseStopc
    <3>2. CASE ~stopc
      <4>1. /\ stopc' = TRUE
            /\ pc' = [pc EXCEPT ![a] = "closeServer"]
            /\ UNCHANGED <<expired, testVars, loopVars, serverVars, writerVars, mainVars, panicked>>
        BY <2>2, <3>2 DEF CloseStopc
      <4>2. QED
        BY <4>1 DEF LoopStates, StopStates
    <3>3. QED
      BY <3>1, <3>2
  <2>3. CASE CloseServer(a)
    BY <2>3 DEF CloseServer, LoopStates, StopStates
  <2>4. CASE CloseWriter(a)
    BY <2>4 DEF CloseWriter, LoopStates, StopStates
  <2>5. QED
    BY <1>3, <2>1, <2>2, <2>3, <2>4 DEF StopStep
<1>4. CASE Interrupt
  BY <1>4, BoundsAssumption DEF Interrupt, LoopStates, StopStates
<1>5. CASE InterruptAfterClose
  BY <1>5, BoundsAssumption DEF InterruptAfterClose
<1>6. CASE ServerStep
  <2>1. CASE ServerFails
    BY <2>1 DEF ServerFails
  <2>2. CASE AcceptAlerts
    BY <2>2 DEF AcceptAlerts
  <2>3. ASSUME NEW over \in SUBSET Groups, NEW bad \in SUBSET RuleGroupLabels,
               HandleAlerts(over, bad)
        PROVE TypeOK'
    <3>1. /\ outstanding' \in SUBSET Groups
          /\ facing' \in SUBSET RuleGroupLabels
          /\ handling' = FALSE
      BY <2>3, GroupsAssumption DEF HandleAlerts
    <3>2. UNCHANGED <<expired, testVars, pc, loopVars, stopc, server, serverErr,
                      writerVars, mainVars, panicked>>
      BY <2>3 DEF HandleAlerts
    <3>3. LoopsTypeOK' /\ WriterTypeOK' /\ MainTypeOK'
      BY <3>2
    <3>4. ServerTypeOK'
      BY <3>1, <3>2
    <3>5. QED
      BY <3>3, <3>4
  <2>4. ASSUME NEW over \in SUBSET Groups, NEW late \in SUBSET Groups,
               MissedAlertCleanup(over, late)
        PROVE TypeOK'
    BY <2>4, GroupsAssumption DEF MissedAlertCleanup
  <2>5. QED
    BY <1>6, <2>1, <2>2, <2>3, <2>4 DEF ServerStep
<1>7. CASE WriterStep
  <2>1. CASE WriterWrites
    BY <2>1 DEF WriterWrites
  <2>2. ASSUME NEW tried \in BOOLEAN, WriterFails(tried) PROVE TypeOK'
    BY <2>2, BoundsAssumption DEF WriterFails, ErrcHasRoom
  <2>3. CASE WriterEnds
    BY <2>3 DEF WriterEnds
  <2>4. QED
    BY <1>7, <2>1, <2>2, <2>3 DEF WriterStep
<1>8. CASE MainStep
  <2> USE DEF GoTo, Exit, MainStates
  <2>1. CASE StartServer
    BY <2>1 DEF StartServer
  <2>2. CASE WriterStarted
    BY <2>2 DEF WriterStarted
  <2>3. CASE InitCases
    BY <2>3, GroupsAssumption DEF InitCases
  <2>4. CASE Spawn
    BY <2>4 DEF Spawn, LoopStates, StopStates
  <2>5. CASE WaitServer
    BY <2>5 DEF WaitServer
  <2>6. CASE WaitWriter
    BY <2>6 DEF WaitWriter
  <2>7. CASE WaitLoops
    BY <2>7 DEF WaitLoops, LoopsDone
  <2>8. CASE CloseSignals
    BY <2>8 DEF CloseSignals, LoopStates, StopStates
  <2>9. CASE WaitSignals
    BY <2>9 DEF WaitSignals
  <2>10. CASE CheckError
    BY <2>10 DEF CheckError
  <2>11. CASE ReadGroupsFacingErrors
    BY <2>11 DEF ReadGroupsFacingErrors
  <2>12. CASE WasTestSuccessful
    BY <2>12 DEF WasTestSuccessful, VerdictOfMain
  <2>13. QED
    BY <1>8, <2>1, <2>2, <2>3, <2>4, <2>5, <2>6, <2>7, <2>8, <2>9, <2>10, <2>11, <2>12
    DEF MainStep
<1>9. CASE Ended
  BY <1>9 DEF Ended, vars
<1>10. CASE UNCHANGED vars
  BY <1>10 DEF vars
<1>11. QED
  BY <1>1, <1>2, <1>3, <1>4, <1>5, <1>6, <1>7, <1>8, <1>9, <1>10 DEF Next

(* Every variable keeps its type. *)
THEOREM TypeCorrect == Spec => []TypeOK
<1>1. Init => TypeOK
  BY TypeOKInit
<1>2. TypeOK /\ [Next]_vars => TypeOK'
  BY TypeOKNext
<1>3. QED
  BY <1>1, <1>2, PTL DEF Spec

-----------------------------------------------------------------------------
(* Who writes what: time only advances, the groups' bookkeeping is written *)
(* by removeGroups alone, and a loop's locals by its own iteration.        *)

(* No goroutine turns the clock back. *)
LEMMA TimeAdvances == ASSUME [Next]_vars PROVE expired \subseteq expired'
<1> USE DEF vars, testVars, loopVars
<1>1. ASSUME NEW g \in Groups, Expire(g) PROVE expired \subseteq expired'
  BY <1>1 DEF Expire
<1>2. ASSUME NEW l \in Loops, LoopStep(l) PROVE expired \subseteq expired'
  BY <1>2 DEF LoopStep, OwnStep, RequestEnds, IsOver, SelectStop, SelectTimer, GetFails, Check, ReadFacing,
              CheckReception, RemoveGroups
<1>3. ASSUME NEW a \in Actors, StopStep(a) PROVE expired \subseteq expired'
  BY <1>3 DEF StopStep, Stop, CloseStopc, CloseServer, CloseWriter
<1>4. CASE Interrupt \/ InterruptAfterClose
  BY <1>4 DEF Interrupt, InterruptAfterClose
<1>5. CASE ServerStep
  BY <1>5 DEF ServerStep, ServerFails, AcceptAlerts, HandleAlerts, MissedAlertCleanup
<1>6. CASE WriterStep
  BY <1>6 DEF WriterStep, WriterWrites, WriterFails, WriterEnds
<1>7. CASE MainStep
  BY <1>7 DEF MainStep, StartServer, WriterStarted, InitCases, Spawn, WaitServer,
              WaitWriter, WaitLoops, CloseSignals, WaitSignals, CheckError,
              ReadGroupsFacingErrors, WasTestSuccessful
<1>8. CASE Ended \/ UNCHANGED vars
  BY <1>8 DEF Ended
<1>9. QED
  BY <1>1, <1>2, <1>3, <1>4, <1>5, <1>6, <1>7, <1>8 DEF Next

(* ruleGroupTests and ruleGroupTestErrors are written by removeGroups alone. *)
LEMMA OnlyRemoveGroups ==
    ASSUME [Next]_vars PROVE UNCHANGED testVars \/ \E r \in Loops : RemoveGroups(r)
<1> USE DEF vars, testVars, loopVars
<1>1. ASSUME NEW g \in Groups, Expire(g) PROVE (UNCHANGED testVars \/ \E r \in Loops : RemoveGroups(r))
  BY <1>1 DEF Expire
<1>2. ASSUME NEW l \in Loops, LoopStep(l) PROVE (UNCHANGED testVars \/ \E r \in Loops : RemoveGroups(r))
  BY <1>2 DEF LoopStep, OwnStep, RequestEnds, IsOver, SelectStop, SelectTimer, GetFails, Check, ReadFacing,
              CheckReception
<1>3. ASSUME NEW a \in Actors, StopStep(a) PROVE (UNCHANGED testVars \/ \E r \in Loops : RemoveGroups(r))
  BY <1>3 DEF StopStep, Stop, CloseStopc, CloseServer, CloseWriter
<1>4. CASE Interrupt \/ InterruptAfterClose
  BY <1>4 DEF Interrupt, InterruptAfterClose
<1>5. CASE ServerStep
  BY <1>5 DEF ServerStep, ServerFails, AcceptAlerts, HandleAlerts, MissedAlertCleanup
<1>6. CASE WriterStep
  BY <1>6 DEF WriterStep, WriterWrites, WriterFails, WriterEnds
<1>7. CASE MainStep
  BY <1>7 DEF MainStep, StartServer, WriterStarted, InitCases, Spawn, WaitServer,
              WaitWriter, WaitLoops, CloseSignals, WaitSignals, CheckError,
              ReadGroupsFacingErrors, WasTestSuccessful
<1>8. CASE Ended \/ UNCHANGED vars
  BY <1>8 DEF Ended
<1>9. QED
  BY <1>1, <1>2, <1>3, <1>4, <1>5, <1>6, <1>7, <1>8 DEF Next

(* nowTs and groupsToRemove are written by the iterations of the loops alone. *)
LEMMA OnlyLoopsWriteLocals ==
    ASSUME [Next]_vars PROVE UNCHANGED loopVars \/ \E r \in Loops : LoopStep(r)
<1> USE DEF vars, testVars, loopVars
<1>1. ASSUME NEW g \in Groups, Expire(g) PROVE (UNCHANGED loopVars \/ \E r \in Loops : LoopStep(r))
  BY <1>1 DEF Expire
<1>2. ASSUME NEW l \in Loops, LoopStep(l) PROVE (UNCHANGED loopVars \/ \E r \in Loops : LoopStep(r))
  BY <1>2
<1>3. ASSUME NEW a \in Actors, StopStep(a) PROVE (UNCHANGED loopVars \/ \E r \in Loops : LoopStep(r))
  BY <1>3 DEF StopStep, Stop, CloseStopc, CloseServer, CloseWriter
<1>4. CASE Interrupt \/ InterruptAfterClose
  BY <1>4 DEF Interrupt, InterruptAfterClose
<1>5. CASE ServerStep
  BY <1>5 DEF ServerStep, ServerFails, AcceptAlerts, HandleAlerts, MissedAlertCleanup
<1>6. CASE WriterStep
  BY <1>6 DEF WriterStep, WriterWrites, WriterFails, WriterEnds
<1>7. CASE MainStep
  BY <1>7 DEF MainStep, StartServer, WriterStarted, InitCases, Spawn, WaitServer,
              WaitWriter, WaitLoops, CloseSignals, WaitSignals, CheckError,
              ReadGroupsFacingErrors, WasTestSuccessful
<1>8. CASE Ended \/ UNCHANGED vars
  BY <1>8 DEF Ended
<1>9. QED
  BY <1>1, <1>2, <1>3, <1>4, <1>5, <1>6, <1>7, <1>8 DEF Next

-----------------------------------------------------------------------------
(* What an iteration read of the clock stays true until it is acted upon. *)
LEMMA ClocksNext ==
    ASSUME TypeOK, ClocksAreInThePast, [Next]_vars PROVE ClocksAreInThePast'
<1>1. expired \subseteq expired'
  BY TimeAdvances
<1>2. CASE UNCHANGED loopVars
  BY <1>1, <1>2 DEF ClocksAreInThePast, loopVars
<1>3. ASSUME NEW l \in Loops, LoopStep(l) PROVE ClocksAreInThePast'
  <2> USE <1>1 DEF ClocksAreInThePast, loopVars, TypeOK, LoopsTypeOK
  <2>1. CASE IsOver(l) \/ SelectStop(l) \/ RemoveGroups(l)
    BY <2>1 DEF IsOver, SelectStop, RemoveGroups
  <2>2. CASE SelectTimer(l)
    BY <2>2 DEF SelectTimer, NothingToRemove
  <2>3. CASE GetFails(l)
    BY <2>3 DEF GetFails
  <2>4. ASSUME NEW bad \in SUBSET Groups, Check(l, bad) PROVE ClocksAreInThePast'
    BY <2>4 DEF Check, TimeIsOver
  <2>5. CASE ReadFacing(l)
    BY <2>5 DEF ReadFacing
  <2>6. CASE CheckReception(l)
    BY <2>6 DEF CheckReception, TimeIsOver
  <2>7. QED
    BY <1>3, <2>1, <2>2, <2>3, <2>4, <2>5, <2>6 DEF LoopStep, OwnStep, RequestEnds
<1>4. QED
  BY <1>2, <1>3, OnlyLoopsWriteLocals

(* removeGroups keeps what is said of concluded groups. *)
LEMMA ConcludedNext ==
    ASSUME TypeOK, ClocksAreInThePast, ConcludedOnce, PassedOnlyAfterItsTime, [Next]_vars
    PROVE  ConcludedOnce' /\ PassedOnlyAfterItsTime'
<1>1. expired \subseteq expired'
  BY TimeAdvances
<1>2. CASE UNCHANGED testVars
  BY <1>1, <1>2 DEF ConcludedOnce, PassedOnlyAfterItsTime, testVars
<1>3. ASSUME NEW l \in Loops, RemoveGroups(l)
      PROVE  ConcludedOnce' /\ PassedOnlyAfterItsTime'
  <2>1. ruleGroupTests' = {g \in ruleGroupTests : groupsToRemove[l][g] = "keep"}
    BY <1>3 DEF RemoveGroups
  <2>2. ASSUME NEW g \in RuleGroupLabels
        PROVE  ruleGroupTestErrors'[g] =
                   IF g \in ruleGroupTests /\ groupsToRemove[l][g] = "fail"
                   THEN Append(ruleGroupTestErrors[g], l) ELSE ruleGroupTestErrors[g]
    BY <1>3 DEF RemoveGroups, StillUnderTest
  <2>3. \A g \in RuleGroupLabels : ruleGroupTestErrors[g] \in Seq(Loops)
    BY DEF TypeOK, LoopsTypeOK
  <2>4. ConcludedOnce'
    <3>1. ASSUME NEW g \in RuleGroupLabels,
                 g \in ruleGroupTests, groupsToRemove[l][g] = "fail"
          PROVE  /\ Len(ruleGroupTestErrors'[g]) <= 1
                 /\ g \in Groups \ ruleGroupTests'
      <4>1. ruleGroupTestErrors[g] = <<>>
        BY <3>1 DEF ConcludedOnce
      <4>2. Len(Append(ruleGroupTestErrors[g], l)) = 1
        BY <4>1
      <4>3. ruleGroupTestErrors'[g] = Append(ruleGroupTestErrors[g], l)
        BY <2>2, <3>1
      <4>4. g \in Groups \ ruleGroupTests'
        BY <2>1, <3>1 DEF TypeOK, LoopsTypeOK
      <4>5. QED
        BY <4>2, <4>3, <4>4
    <3>2. ASSUME NEW g \in RuleGroupLabels,
                 ~(g \in ruleGroupTests /\ groupsToRemove[l][g] = "fail")
          PROVE  /\ Len(ruleGroupTestErrors'[g]) <= 1
                 /\ ruleGroupTestErrors'[g] # <<>> => g \in Groups \ ruleGroupTests'
      BY <2>1, <2>2, <3>2 DEF ConcludedOnce
    <3>3. QED
      BY <3>1, <3>2 DEF ConcludedOnce
  <2>5. PassedOnlyAfterItsTime'
    <3>1. SUFFICES ASSUME NEW g \in Groups, g \notin ruleGroupTests',
                          ruleGroupTestErrors'[g] = <<>>
                   PROVE  g \in expired'
      BY DEF PassedOnlyAfterItsTime
    <3>2. g \in RuleGroupLabels
      BY GroupsAssumption
    <3>3. CASE g \notin ruleGroupTests
      BY <1>1, <2>2, <3>1, <3>2, <3>3 DEF PassedOnlyAfterItsTime
    <3>4. CASE g \in ruleGroupTests
      <4>1. groupsToRemove[l][g] # "keep"
        BY <2>1, <3>1, <3>4
      <4>2. groupsToRemove[l][g] # "fail"
        <5>1. ruleGroupTestErrors[g] \in Seq(Loops)
          BY <2>3, <3>2
        <5>2. Len(Append(ruleGroupTestErrors[g], l)) = Len(ruleGroupTestErrors[g]) + 1
          BY <5>1
        <5>3. Append(ruleGroupTestErrors[g], l) # <<>>
          BY <5>1, <5>2
        <5>4. QED
          BY <2>2, <3>1, <3>2, <3>4, <5>3
      <4>3. groupsToRemove[l][g] = "pass"
        BY <3>2, <4>1, <4>2 DEF TypeOK, LoopsTypeOK
      <4>4. QED
        BY <1>1, <3>2, <4>3 DEF ClocksAreInThePast
    <3>5. QED
      BY <3>3, <3>4
  <2>6. QED
    BY <2>4, <2>5
<1>4. QED
  BY <1>2, <1>3, OnlyRemoveGroups

-----------------------------------------------------------------------------
(* main's goroutine for SIGINT is distinct from the loops. *)
LEMMA SigIntIsNoLoop == SigInt \notin Loops /\ Actors = Loops \cup {SigInt}
  BY LoopsAssumption DEF SigInt, Loops, Reception, Actors

(* A removed group is never put back under test. *)
LEMMA TestsShrink == ASSUME [Next]_vars PROVE ruleGroupTests' \subseteq ruleGroupTests
  BY OnlyRemoveGroups DEF RemoveGroups, testVars

(* Every step keeps what a stop, or a loop inside Stop, tells. *)
LEMMA StopNext ==
    ASSUME TypeOK, StopHasAReason, [Next]_vars PROVE StopHasAReason'
<1> USE TestsShrink, SigIntIsNoLoop
    DEF StopHasAReason, TypeOK, LoopsTypeOK, StopStates, mainVars, writerVars
<1>1. ASSUME NEW g \in Groups, Expire(g) PROVE StopHasAReason'
  BY <1>1 DEF Expire
<1>2. ASSUME NEW l \in Loops, LoopStep(l) PROVE StopHasAReason'
  <2>1. CASE IsOver(l)
    BY <2>1 DEF IsOver, isOver
  <2>2. CASE SelectStop(l)
    BY <2>2 DEF SelectStop, StopSeen
  <2>3. CASE SelectTimer(l)
    BY <2>3 DEF SelectTimer
  <2>4. CASE GetFails(l)
    BY <2>4 DEF GetFails, AfterFailedGet
  <2>5. ASSUME NEW bad \in SUBSET Groups, Check(l, bad) PROVE StopHasAReason'
    BY <2>5 DEF Check
  <2>6. CASE ReadFacing(l)
    BY <2>6 DEF ReadFacing
  <2>7. CASE CheckReception(l)
    BY <2>7 DEF CheckReception
  <2>8. CASE RemoveGroups(l)
    BY <2>8 DEF RemoveGroups
  <2>9. QED
    BY <1>2, <2>1, <2>2, <2>3, <2>4, <2>5, <2>6, <2>7, <2>8 DEF LoopStep, OwnStep, RequestEnds
<1>3. ASSUME NEW a \in Actors, StopStep(a) PROVE StopHasAReason'
  <2>1. CASE Stop(a)
    BY <2>1 DEF Stop
  <2>2. CASE CloseStopc(a)
    BY <2>2 DEF CloseStopc
  <2>3. CASE CloseServer(a)
    BY <2>3 DEF CloseServer
  <2>4. CASE CloseWriter(a)
    BY <2>4 DEF CloseWriter
  <2>5. QED
    BY <1>3, <2>1, <2>2, <2>3, <2>4 DEF StopStep
<1>4. CASE Interrupt
  BY <1>4 DEF Interrupt
<1>5. CASE InterruptAfterClose
  BY <1>5 DEF InterruptAfterClose
<1>6. CASE ServerStep
  BY <1>6 DEF ServerStep, ServerFails, AcceptAlerts, HandleAlerts, MissedAlertCleanup
<1>7. CASE WriterStep
  BY <1>7 DEF WriterStep, WriterWrites, WriterFails, WriterEnds
<1>8. CASE Spawn
  BY <1>8 DEF Spawn, GoTo
<1>9. CASE CloseSignals
  BY <1>9 DEF CloseSignals, GoTo
<1>10. CASE MainStep /\ ~Spawn /\ ~CloseSignals
  BY <1>10
  DEF MainStep, GoTo, Exit, StartServer, WriterStarted, InitCases, WaitServer,
      WaitWriter, WaitLoops, WaitSignals, CheckError, ReadGroupsFacingErrors,
      WasTestSuccessful
<1>11. CASE Ended \/ UNCHANGED vars
  BY <1>11 DEF Ended, vars
<1>12. QED
  BY <1>1, <1>2, <1>3, <1>4, <1>5, <1>6, <1>7, <1>8, <1>9, <1>10, <1>11 DEF Next

-----------------------------------------------------------------------------
(* Every step keeps what main knows from having waited. *)
LEMMA MainNext ==
    ASSUME TypeOK, MainHasWaited, [Next]_vars PROVE MainHasWaited'
<1> USE SigIntIsNoLoop
    DEF MainHasWaited, TypeOK, LoopsTypeOK, MainTypeOK, MainStates, Alive, mainVars,
        serverVars, writerVars
<1>1. ASSUME NEW g \in Groups, Expire(g) PROVE MainHasWaited'
  BY <1>1 DEF Expire
<1>2. ASSUME NEW l \in Loops, LoopStep(l) PROVE MainHasWaited'
  <2>1. /\ pc[l] # "done"
        /\ pc'[SigInt] = pc[SigInt] /\ \A k \in Loops \ {l} : pc'[k] = pc[k]
        /\ UNCHANGED <<serverVars, writerVars, mainVars>>
    BY <1>2 DEF LoopStep, OwnStep, RequestEnds, IsOver, SelectStop, StopSeen, SelectTimer, GetFails, Check,
                ReadFacing, CheckReception, RemoveGroups
  <2>2. QED
    BY <2>1
<1>3. ASSUME NEW a \in Actors, StopStep(a) PROVE MainHasWaited'
  BY <1>3 DEF StopStep, Stop, CloseStopc, CloseServer, CloseWriter
<1>4. CASE Interrupt
  BY <1>4 DEF Interrupt
<1>5. CASE InterruptAfterClose
  BY <1>5 DEF InterruptAfterClose
<1>6. CASE ServerStep
  BY <1>6 DEF ServerStep, ServerFails, AcceptAlerts, HandleAlerts, MissedAlertCleanup
<1>7. CASE WriterStep
  BY <1>7 DEF WriterStep, WriterWrites, WriterFails, WriterEnds
<1>8. CASE MainStep
  <2> USE DEF GoTo, Exit
  <2>1. CASE StartServer
    BY <2>1 DEF StartServer
  <2>2. CASE WriterStarted
    BY <2>2 DEF WriterStarted
  <2>3. CASE InitCases
    BY <2>3 DEF InitCases
  <2>4. CASE Spawn
    BY <2>4 DEF Spawn
  <2>5. CASE WaitServer
    BY <2>5 DEF WaitServer
  <2>6. CASE WaitWriter
    BY <2>6 DEF WaitWriter
  <2>7. CASE WaitLoops
    BY <2>7 DEF WaitLoops, LoopsDone
  <2>8. CASE CloseSignals
    BY <2>8 DEF CloseSignals
  <2>9. CASE WaitSignals
    BY <2>9 DEF WaitSignals
  <2>10. CASE CheckError
    BY <2>10 DEF CheckError
  <2>11. CASE ReadGroupsFacingErrors
    BY <2>11 DEF ReadGroupsFacingErrors
  <2>12. CASE WasTestSuccessful
    BY <2>12 DEF WasTestSuccessful, VerdictOfMain
  <2>13. QED
    BY <1>8, <2>1, <2>2, <2>3, <2>4, <2>5, <2>6, <2>7, <2>8, <2>9, <2>10, <2>11, <2>12
    DEF MainStep
<1>9. CASE Ended \/ UNCHANGED vars
  BY <1>9 DEF Ended, vars
<1>10. QED
  BY <1>1, <1>2, <1>3, <1>4, <1>5, <1>6, <1>7, <1>8, <1>9 DEF Next

(* The channel is closed whenever main is past its waits. *)
LEMMA StoppedWhenWaited ==
    ASSUME StopHasAReason, MainHasWaited,
           main \in {"closeSignals", "signalWait", "error", "facing", "leftover", "exited"}
    PROVE  stopc
<1>1. PICK l \in Loops : TRUE
  BY LoopsAssumption
<1>2. pc[l] = "done"
  BY DEF MainHasWaited
<1>3. QED
  BY <1>2 DEF StopHasAReason

(* Nothing happens once main has exited. *)
LEMMA ExitIsFinal == ASSUME main = "exited", [Next]_vars PROVE UNCHANGED vars
<1>1. ~Alive
  BY DEF Alive
<1>2. ASSUME NEW g \in Groups, Expire(g) PROVE FALSE
  BY <1>1, <1>2 DEF Expire
<1>3. ASSUME NEW l \in Loops, LoopStep(l) PROVE FALSE
  BY <1>1, <1>3 DEF LoopStep, OwnStep, RequestEnds, IsOver, SelectStop, SelectTimer, GetFails, Check, ReadFacing,
                    CheckReception, RemoveGroups
<1>4. ASSUME NEW a \in Actors, StopStep(a) PROVE FALSE
  BY <1>1, <1>4 DEF StopStep, Stop, CloseStopc, CloseServer, CloseWriter
<1>5. ASSUME Interrupt \/ InterruptAfterClose PROVE FALSE
  BY <1>1, <1>5 DEF Interrupt, InterruptAfterClose
<1>6. ASSUME ServerStep PROVE FALSE
  BY <1>1, <1>6 DEF ServerStep, ServerFails, AcceptAlerts, HandleAlerts, MissedAlertCleanup
<1>7. ASSUME WriterStep PROVE FALSE
  BY <1>1, <1>7 DEF WriterStep, WriterWrites, WriterFails, WriterEnds
<1>8. ASSUME MainStep PROVE FALSE
  BY <1>1, <1>8
  DEF MainStep, GoTo, StartServer, WriterStarted, InitCases, Spawn, WaitServer,
      WaitWriter, WaitLoops, CloseSignals, WaitSignals, CheckError,
      ReadGroupsFacingErrors, WasTestSuccessful
<1>9. CASE Ended \/ UNCHANGED vars
  BY <1>9 DEF Ended
<1>10. QED
  BY <1>2, <1>3, <1>4, <1>5, <1>6, <1>7, <1>8, <1>9 DEF Next

(* Only the step that states the verdict says "passed". *)
LEMMA OnlyTheVerdictPasses ==
    ASSUME [Next]_vars, outcome # "passed", outcome' = "passed" PROVE WasTestSuccessful
<1> USE DEF mainVars
<1>1. ASSUME NEW g \in Groups, Expire(g) PROVE FALSE
  BY <1>1 DEF Expire
<1>2. ASSUME NEW l \in Loops, LoopStep(l) PROVE FALSE
  BY <1>2 DEF LoopStep, OwnStep, RequestEnds, IsOver, SelectStop, SelectTimer, GetFails, Check, ReadFacing,
              CheckReception, RemoveGroups
<1>3. ASSUME NEW a \in Actors, StopStep(a) PROVE FALSE
  BY <1>3 DEF StopStep, Stop, CloseStopc, CloseServer, CloseWriter
<1>4. ASSUME Interrupt \/ InterruptAfterClose PROVE FALSE
  BY <1>4 DEF Interrupt, InterruptAfterClose
<1>5. ASSUME ServerStep PROVE FALSE
  BY <1>5 DEF ServerStep, ServerFails, AcceptAlerts, HandleAlerts, MissedAlertCleanup
<1>6. ASSUME WriterStep PROVE FALSE
  BY <1>6 DEF WriterStep, WriterWrites, WriterFails, WriterEnds
<1>7. ASSUME MainStep, ~WasTestSuccessful PROVE FALSE
  BY <1>7
  DEF MainStep, GoTo, Exit, StartServer, WriterStarted, InitCases, Spawn, WaitServer,
      WaitWriter, WaitLoops, CloseSignals, WaitSignals, CheckError,
      ReadGroupsFacingErrors
<1>8. ASSUME Ended \/ UNCHANGED vars PROVE FALSE
  BY <1>8 DEF Ended, vars
<1>9. QED
  BY <1>1, <1>2, <1>3, <1>4, <1>5, <1>6, <1>7, <1>8 DEF Next

(* Every step keeps that "passed" is said only of a complete run. *)
LEMMA PassedNext == ASSUME IInv, [Next]_vars PROVE PassedMeansComplete'
<1>1. CASE outcome = "passed"
  <2>1. main = "exited"
    BY <1>1 DEF IInv, MainHasWaited
  <2>2. UNCHANGED vars
    BY <2>1, ExitIsFinal
  <2>3. QED
    BY <2>2 DEF IInv, PassedMeansComplete, vars, testVars, mainVars
<1>2. CASE outcome # "passed" /\ outcome' = "passed"
  <2>1. WasTestSuccessful
    BY <1>2, OnlyTheVerdictPasses
  <2>2. NoErrorsSeen /\ ~interrupted /\ main = "leftover"
    BY <1>2, <2>1 DEF WasTestSuccessful, Exit, VerdictOfMain
  <2>3. stopc
    BY <2>2, StoppedWhenWaited DEF IInv
  <2>4. ruleGroupTests = {}
    BY <2>2, <2>3 DEF IInv, StopHasAReason
  <2>5. \A g \in Groups : ruleGroupTestErrors[g] = <<>>
    BY <2>2, GroupsAssumption DEF NoErrorsSeen
  <2>6. \A g \in Groups : g \in expired
    BY <2>4, <2>5 DEF IInv, PassedOnlyAfterItsTime
  <2>7. UNCHANGED <<expired, ruleGroupTests, ruleGroupTestErrors>>
    BY <2>1 DEF WasTestSuccessful, testVars
  <2>8. QED
    BY <2>4, <2>5, <2>6, <2>7 DEF PassedMeansComplete
<1>3. CASE outcome' # "passed"
  BY <1>3 DEF PassedMeansComplete
<1>4. QED
  BY <1>1, <1>2, <1>3

-----------------------------------------------------------------------------
(* The inductive invariant holds at the start. *)
LEMMA IInvInit == ASSUME Init PROVE IInv
<1>1. TypeOK
  BY TypeOKInit
<1>2. ConcludedOnce /\ PassedOnlyAfterItsTime /\ PassedMeansComplete
  BY DEF Init, ConcludedOnce, PassedOnlyAfterItsTime, PassedMeansComplete
<1>3. ClocksAreInThePast
  BY DEF Init, ClocksAreInThePast, NothingToRemove
<1>4. StopHasAReason
  BY SigIntIsNoLoop DEF Init, StopHasAReason, StopStates
<1>5. MainHasWaited
  BY DEF Init, MainHasWaited
<1>6. QED
  BY <1>1, <1>2, <1>3, <1>4, <1>5 DEF IInv

(* The inductive invariant is kept by every step. *)
LEMMA IInvNext == ASSUME IInv, [Next]_vars PROVE IInv'
  BY TypeOKNext, ConcludedNext, PassedNext, ClocksNext, StopNext, MainNext DEF IInv

(* IInv holds in every reachable state. *)
THEOREM InductiveInvariant == Spec => []IInv
<1>1. Init => IInv
  BY IInvInit
<1>2. IInv /\ [Next]_vars => IInv'
  BY IInvNext
<1>3. QED
  BY <1>1, <1>2, PTL DEF Spec

(* removeGroups concludes a group once, whatever loops race to do it. *)
THEOREM GroupsConcludedOnce == Spec => []ConcludedOnce
<1>1. IInv => ConcludedOnce
  BY DEF IInv
<1>2. QED
  BY <1>1, InductiveInvariant, PTL

(* No group passes before its TestUntil(). *)
THEOREM NoEarlyPass == Spec => []PassedOnlyAfterItsTime
<1>1. IInv => PassedOnlyAfterItsTime
  BY DEF IInv
<1>2. QED
  BY <1>1, InductiveInvariant, PTL

(* "Congrats! All tests passed" is only said of a complete run. *)
THEOREM CompletePass == Spec => []PassedMeansComplete
<1>1. IInv => PassedMeansComplete
  BY DEF IInv
<1>2. QED
  BY <1>1, InductiveInvariant, PTL

(* The verdict is read when every goroutine that could change it has ended. *)
THEOREM QuietVerdict == Spec => []QuietAtVerdict
<1>1. IInv => QuietAtVerdict
  <2>1. SUFFICES ASSUME IInv, main \in {"error", "facing", "leftover", "exited"}
                 PROVE  /\ \A a \in Actors : pc[a] = "done"
                        /\ writer = "done" /\ rwStopc
                        /\ ReceptionEnabled => server = "closed"
    BY DEF QuietAtVerdict
  <2>2. \A a \in Actors : pc[a] = "done"
    BY <2>1, SigIntIsNoLoop DEF IInv, MainHasWaited
  <2>3. stopc
    BY <2>1, StoppedWhenWaited DEF IInv
  <2>4. rwStopc
    BY <2>1, <2>2, <2>3 DEF IInv, StopHasAReason
  <2>5. QED
    BY <2>1, <2>2, <2>4 DEF IInv, MainHasWaited
<1>2. QED
  BY <1>1, InductiveInvariant, PTL

-----------------------------------------------------------------------------
(* The refinement: what ConformanceRun sees of a state. *)
Status == [g \in Groups |->
               IF g \in ruleGroupTests THEN "testing"
               ELSE IF ruleGroupTestErrors[g] = <<>> THEN "passed" ELSE "failed"]
Verdict == IF outcome = "none" THEN "none"
           ELSE IF outcome = "passed" THEN "passed" ELSE "notPassed"

(* removeGroups is a Conclude step of ConformanceRun. *)
LEMMA RemoveGroupsConcludes ==
    ASSUME IInv, NEW l \in Loops, RemoveGroups(l)
    PROVE  \E P, F \in SUBSET Groups : Run!Conclude(P, F)
<1> DEFINE removed == {g \in ruleGroupTests : groupsToRemove[l][g] # "keep"}
           failing == {g \in removed : groupsToRemove[l][g] = "fail"}
           passing == {g \in removed : groupsToRemove[l][g] = "pass"}
<1>1. failing \in SUBSET Groups /\ passing \in SUBSET Groups
  BY DEF IInv, TypeOK, LoopsTypeOK
<1>2. outcome = "none"
  BY DEF RemoveGroups, Alive, IInv, MainHasWaited
<1>3. passing \cap failing = {}
  OBVIOUS
<1>4. \A g \in passing \cup failing : Status[g] = "testing"
  BY <1>1 DEF Status
<1>5. passing \subseteq expired
  BY <1>1, GroupsAssumption DEF IInv, ClocksAreInThePast
<1>6. Status' = [g \in Groups |-> IF g \in passing THEN "passed"
                                  ELSE IF g \in failing THEN "failed" ELSE Status[g]]
  <2>1. ASSUME NEW g \in Groups
        PROVE  Status'[g] = IF g \in passing THEN "passed"
                            ELSE IF g \in failing THEN "failed" ELSE Status[g]
    <3>1. g \in RuleGroupLabels /\ ruleGroupTestErrors[g] \in Seq(Loops)
      BY GroupsAssumption DEF IInv, TypeOK, LoopsTypeOK
    <3>2. g \in ruleGroupTests' <=> g \in ruleGroupTests /\ groupsToRemove[l][g] = "keep"
      BY DEF RemoveGroups
    <3>3. ruleGroupTestErrors'[g] =
              IF g \in ruleGroupTests /\ groupsToRemove[l][g] = "fail"
              THEN Append(ruleGroupTestErrors[g], l) ELSE ruleGroupTestErrors[g]
      BY <3>1 DEF RemoveGroups, StillUnderTest
    <3>4. g \in ruleGroupTests => ruleGroupTestErrors[g] = <<>>
      BY <3>1 DEF IInv, ConcludedOnce
    <3>5. Append(ruleGroupTestErrors[g], l) # <<>>
      <4>1. Len(Append(ruleGroupTestErrors[g], l)) = Len(ruleGroupTestErrors[g]) + 1
        BY <3>1
      <4>2. QED
        BY <3>1, <4>1
    <3>6. groupsToRemove[l][g] \in {"keep", "pass", "fail"}
      BY <3>1 DEF IInv, TypeOK, LoopsTypeOK
    <3>7. CASE g \notin ruleGroupTests
      BY <3>2, <3>3, <3>7 DEF Status
    <3>8. CASE g \in ruleGroupTests /\ groupsToRemove[l][g] = "keep"
      BY <3>2, <3>3, <3>8 DEF Status
    <3>9. CASE g \in ruleGroupTests /\ groupsToRemove[l][g] = "pass"
      BY <3>2, <3>3, <3>4, <3>9 DEF Status
    <3>10. CASE g \in ruleGroupTests /\ groupsToRemove[l][g] = "fail"
      BY <3>2, <3>3, <3>5, <3>10 DEF Status
    <3>11. QED
      BY <3>6, <3>7, <3>8, <3>9, <3>10
  <2>2. QED
    BY <2>1 DEF Status
<1>7. UNCHANGED <<expired, outcome>>
  BY DEF RemoveGroups, mainVars
<1>8. Run!Conclude(passing, failing)
  BY <1>2, <1>3, <1>4, <1>5, <1>6, <1>7 DEF Run!Conclude, Status
<1> HIDE DEF removed, failing, passing
<1>9. QED
  BY <1>1, <1>8 DEF Run!Conclude

(* Every step of the suite is a step of ConformanceRun or a stutter. *)
LEMMA StepImplements == ASSUME IInv, [Next]_vars PROVE [Run!ANext]_(Run!avars)
<1> DEFINE Same == UNCHANGED <<expired, testVars, outcome>>
<1>1. ASSUME Same PROVE [Run!ANext]_(Run!avars)
  BY <1>1 DEF Run!avars, testVars
<1>2. ASSUME NEW g \in Groups, Expire(g) PROVE [Run!ANext]_(Run!avars)
  <2>1. outcome = "none"
    BY <1>2 DEF Expire, Alive, IInv, MainHasWaited
  <2>2. Run!End(g)
    BY <1>2, <2>1 DEF Expire, Run!End, testVars, mainVars
  <2>3. QED
    BY <2>2 DEF Run!ANext
<1>3. ASSUME NEW l \in Loops, LoopStep(l) PROVE [Run!ANext]_(Run!avars)
  <2>1. CASE RemoveGroups(l)
    BY <2>1, RemoveGroupsConcludes DEF Run!ANext
  <2>2. CASE ~RemoveGroups(l)
    <3>1. Same
      BY <1>3, <2>2
      DEF LoopStep, OwnStep, RequestEnds, IsOver, SelectStop, SelectTimer, GetFails, Check, ReadFacing,
          CheckReception, mainVars
    <3>2. QED
      BY <1>1, <3>1
  <2>3. QED
    BY <2>1, <2>2
<1>4. ASSUME NEW a \in Actors, StopStep(a) PROVE Same
  BY <1>4 DEF StopStep, Stop, CloseStopc, CloseServer, CloseWriter, mainVars
<1>5. ASSUME Interrupt \/ InterruptAfterClose PROVE Same
  BY <1>5 DEF Interrupt, InterruptAfterClose
<1>6. ASSUME ServerStep \/ WriterStep PROVE Same
  BY <1>6 DEF ServerStep, ServerFails, AcceptAlerts, HandleAlerts, MissedAlertCleanup,
              WriterStep, WriterWrites, WriterFails, WriterEnds, mainVars
<1>7. ASSUME MainStep PROVE [Run!ANext]_(Run!avars)
  <2>1. UNCHANGED <<expired, testVars>>
    BY <1>7
    DEF MainStep, StartServer, WriterStarted, InitCases, Spawn, WaitServer, WaitWriter,
        WaitLoops, CloseSignals, WaitSignals, CheckError, ReadGroupsFacingErrors,
        WasTestSuccessful
  <2>2. outcome = "none"
    BY <1>7
    DEF MainStep, GoTo, Alive, StartServer, WriterStarted, InitCases, Spawn, WaitServer,
        WaitWriter, WaitLoops, CloseSignals, WaitSignals, CheckError,
        ReadGroupsFacingErrors, WasTestSuccessful, IInv, MainHasWaited
  <2>3. CASE outcome' = "none"
    BY <1>1, <2>1, <2>2, <2>3
  <2>4. CASE outcome' = "passed"
    <3>1. PassedMeansComplete'
      BY PassedNext
    <3>2. \A g \in Groups : g \notin ruleGroupTests /\ ruleGroupTestErrors[g] = <<>>
      BY <2>1, <2>4, <3>1 DEF PassedMeansComplete, testVars
    <3>3. Run!DeclarePassed
      BY <2>1, <2>2, <2>4, <3>2 DEF Run!DeclarePassed, testVars
    <3>4. QED
      BY <3>3 DEF Run!ANext
  <2>5. CASE outcome' \notin {"none", "passed"}
    <3>1. Run!DeclareNotPassed
      BY <2>1, <2>2, <2>5 DEF Run!DeclareNotPassed, testVars
    <3>2. QED
      BY <3>1 DEF Run!ANext
  <2>6. QED
    BY <2>3, <2>4, <2>5
<1>8. ASSUME Ended \/ UNCHANGED vars PROVE Same
  BY <1>8 DEF Ended, vars, mainVars
<1>9. QED
  BY <1>1, <1>2, <1>3, <1>4, <1>5, <1>6, <1>7, <1>8 DEF Next

(* The test suite implements ConformanceRun. *)
THEOREM SuiteImplementsRun == Spec => ImplementsRun
<1>1. Init => Run!AInit
  BY DEF Init, Run!AInit
<1>2. IInv /\ [Next]_vars => [Run!ANext]_(Run!avars)
  BY StepImplements
<1>3. QED
  BY <1>1, <1>2, InductiveInvariant, PTL DEF Spec, ImplementsRun, Run!ASpec
=============================================================================
