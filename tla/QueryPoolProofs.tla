-------------------------- MODULE QueryPoolProofs --------------------------
(* Proofs about QueryPool, for any suites, answers and parallelism. *)
EXTENDS QueryPool, ExpansionProofs

(* What a suite tests, from what its test cases expand to. *)
LEMMA SuiteTypes ==
    ASSUME NEW s \in Suites
    PROVE  /\ Len(s.tests) \in Nat
           /\ \A t \in 1..Len(s.tests) :
                  s.tests[t].shouldFail \in BOOLEAN /\ s.tests[t].skipComparison \in BOOLEAN
  BY SuitesAssumption, EveryCombinationIsExpanded

(* A comparison has a Boolean in each field of its result. *)
LEMMA CompareType ==
    ASSUME NEW tc, NEW tweaks, NEW ref, NEW test, test.says501 \in BOOLEAN, NEW m, NEW n
    PROVE  Compare(tc, tweaks, ref, test, m, n) \in BooleanResults
<1> DEFINE differ == /\ IsCompared(tc, ref, test)
                     /\ ~EqualMatrices(tweaks, IgnoreFirstSteps(tweaks, m, tc.start), Sorted(n))
<1>1. differ \in BOOLEAN
  OBVIOUS
<1>2. Passed \in BooleanResults
  BY DEF Passed, BooleanResults
<1> HIDE DEF differ
<1>3. [Passed EXCEPT !.diff = differ] \in BooleanResults
  BY <1>1 DEF Passed, BooleanResults
<1>4. [Passed EXCEPT !.unexpectedFailure = TRUE, !.unsupported = test.says501] \in BooleanResults
  BY DEF Passed, BooleanResults
<1>5. [Passed EXCEPT !.unexpectedSuccess = TRUE] \in BooleanResults
  BY DEF Passed, BooleanResults
<1>6. QED
  BY <1>3, <1>4, <1>5 DEF Compare, differ

(* The answer of the test API says whether it mentions 501, late or not. *)
LEMMA TestAnswerSays ==
    ASSUME TypeOK, NEW t \in Tests, answer[t] # NoAnswer
    PROVE  TestAnswer(t).says501 \in BOOLEAN
<1>1. answer[t].test.says501 \in BOOLEAN
  BY AnswersAssumption DEF TypeOK, Tests
<1>2. QED
  BY <1>1 DEF TestAnswer, InTime

(* A result is never the mark of a missing one. *)
LEMMA NoResultIsNone == NoResult \notin BooleanResults
<1>1. "none" \in DOMAIN NoResult
  BY DEF NoResult
<1>2. \A r \in BooleanResults : "none" \notin DOMAIN r
  BY DEF BooleanResults
<1>3. QED
  BY <1>1, <1>2

(* The tests are finitely many, and so is every set of them. *)
LEMMA TestsAreFinite ==
    ASSUME TypeOK
    PROVE  /\ Len(suite.tests) \in Nat
           /\ IsFiniteSet(Tests)
           /\ Cardinality(Tests) = Len(suite.tests)
           /\ \A S \in SUBSET Tests : IsFiniteSet(S) /\ Cardinality(S) \in 0..Len(suite.tests)
<1>1. Len(suite.tests) \in Nat
  BY SuiteTypes DEF TypeOK
<1>2. IsFiniteSet(Tests) /\ Cardinality(Tests) = Len(suite.tests)
  BY <1>1, FS_Interval DEF Tests
<1>3. ASSUME NEW S \in SUBSET Tests
      PROVE  IsFiniteSet(S) /\ Cardinality(S) \in 0..Len(suite.tests)
  <2>1. IsFiniteSet(S) /\ Cardinality(S) <= Cardinality(Tests)
    BY <1>2, FS_Subset
  <2>2. Cardinality(S) \in Nat
    BY <2>1, FS_CardinalityType
  <2>3. QED
    BY <1>1, <1>2, <2>1, <2>2
<1>4. QED
  BY <1>1, <1>2, <1>3

(* The invariant holds when the process starts. *)
LEMMA IInvInit == ASSUME Init PROVE IInv
<1>1. Len(suite.tests) \in Nat
  BY SuiteTypes DEF Init
<1>2. TypeOK
  BY <1>1, ParallelismAssumption DEF Init, TypeOK, Tests
<1>3. {t \in Tests : pc[t] \in Holding} = {}
  BY DEF Init, Holding
<1>4. {t \in Tests : pc[t] \in Unfinished} = Tests
  BY DEF Init, Unfinished
<1>5. workCh = Tokens
  BY <1>3, FS_EmptySet DEF Init, Tokens
<1>6. wg = Pending
  BY <1>2, <1>4, TestsAreFinite DEF Init, Pending
<1>7. QED
  BY <1>1, <1>2, <1>5, <1>6 DEF Init, IInv, ResultsAreOwn, Tests, Marked

(* Moving test t between stages moves it in and out of a set of tests that *)
(* is given by stages.                                                     *)
LEMMA CountMoves ==
    ASSUME TypeOK, NEW t \in Tests, NEW stage, NEW Stages,
           suite' = suite, To(t, stage)
    PROVE  Cardinality({u \in Tests : pc[u] \in Stages}') =
               Cardinality({u \in Tests : pc[u] \in Stages})
               + (IF stage \in Stages /\ pc[t] \notin Stages THEN 1 ELSE 0)
               - (IF stage \notin Stages /\ pc[t] \in Stages THEN 1 ELSE 0)
<1> DEFINE S == {u \in Tests : pc[u] \in Stages}
           T == {u \in Tests : pc[u] \in Stages}'
<1>1. IsFiniteSet(S) /\ Cardinality(S) \in 0..Len(suite.tests) /\ Len(suite.tests) \in Nat
  BY TestsAreFinite
<1>2. T = IF stage \in Stages THEN S \cup {t} ELSE S \ {t}
  BY DEF To, Tests, TypeOK
<1>3. Cardinality(T) = IF stage \in Stages
                       THEN IF t \in S THEN Cardinality(S) ELSE Cardinality(S) + 1
                       ELSE IF t \in S THEN Cardinality(S) - 1 ELSE Cardinality(S)
  <2> HIDE DEF S, T
  <2>1. QED
    BY <1>1, <1>2, FS_AddElement, FS_RemoveElement
<1>4. t \in S <=> pc[t] \in Stages
  OBVIOUS
<1>5. Cardinality(T) = Cardinality(S)
                       + (IF stage \in Stages /\ pc[t] \notin Stages THEN 1 ELSE 0)
                       - (IF stage \notin Stages /\ pc[t] \in Stages THEN 1 ELSE 0)
  <2> HIDE DEF S, T
  <2>1. Cardinality(S) \in Int
    BY <1>1
  <2>2. QED
    BY <1>3, <1>4, <2>1
<1>6. QED
  BY <1>5

(* The same of the sets the channel and the wait group count. *)
LEMMA CountersMove ==
    ASSUME IInv, NEW t \in Tests, NEW stage, suite' = suite, To(t, stage)
    PROVE  /\ Tokens' = workCh + (IF stage \in Holding /\ pc[t] \notin Holding THEN 1 ELSE 0)
                               - (IF stage \notin Holding /\ pc[t] \in Holding THEN 1 ELSE 0)
           /\ Pending' = wg + (IF stage \in Unfinished /\ pc[t] \notin Unfinished THEN 1 ELSE 0)
                            - (IF stage \notin Unfinished /\ pc[t] \in Unfinished THEN 1 ELSE 0)
<1>1. TypeOK /\ workCh = Tokens /\ wg = Pending
  BY DEF IInv
<1>2. Tokens' = Tokens
          + (IF stage \in Holding /\ pc[t] \notin Holding THEN 1 ELSE 0)
          - (IF stage \notin Holding /\ pc[t] \in Holding THEN 1 ELSE 0)
  BY <1>1, CountMoves DEF Tokens
<1>3. Pending' = Pending
          + (IF stage \in Unfinished /\ pc[t] \notin Unfinished THEN 1 ELSE 0)
          - (IF stage \notin Unfinished /\ pc[t] \in Unfinished THEN 1 ELSE 0)
  BY <1>1, CountMoves DEF Pending
<1>4. QED
  BY <1>1, <1>2, <1>3

(* An answer is never the mark of a missing one. *)
LEMMA AnswersAreAnswers ==
    ASSUME TypeOK, NEW t \in Tests, NEW a \in Answers(suite.tests[t])
    PROVE  a # NoAnswer
BY AnswersAssumption DEF TypeOK, Tests

(* A stored result is a result; the goroutine that stores one was answered. *)
LEMMA StoreTypes ==
    ASSUME IInv, NEW t \in Tests, Store(t)
    PROVE  results' \in [Tests -> BooleanResults \cup {NoResult}] /\ results'[t] \in BooleanResults
<1>1. answer[t] # NoAnswer
  BY DEF IInv, Store, At
<1>2. TestAnswer(t).says501 \in BOOLEAN
  BY <1>1, TestAnswerSays DEF IInv
<1>3. Compare(suite.tests[t], suite.tweaks, RefAnswer(t), TestAnswer(t), RefResult(t), TestResult(t))
          \in BooleanResults
  BY <1>2, CompareType
<1>4. results \in [Tests -> BooleanResults \cup {NoResult}]
  BY DEF IInv, TypeOK
<1>5. QED
  BY <1>3, <1>4 DEF Store

(* The steps of a goroutine: what the counters and the types become. *)
LEMMA GoroutineKeepsCounts ==
    ASSUME IInv, NEW t \in Tests, Goroutine(t)
    PROVE  /\ TypeOK'
           /\ (workCh = Tokens)'
           /\ (wg = Pending)'
<1>0. /\ TypeOK
      /\ workCh = Tokens
      /\ wg = Pending
      /\ workCh \in Int /\ wg \in Int
      /\ Len(suite.tests) \in Nat
      /\ pc[t] \in {"off", "released", "done"} \cup Holding
      /\ suite' = suite
      /\ Tests' = Tests
  BY TestsAreFinite, ParallelismAssumption, SMTT(30)
  DEF IInv, TypeOK, Tests, Goroutine, QueryReference, QueryTest, Die, Store, Mark, AllResults, Release, OneLess, Done
<1>1. CASE QueryReference(t)
  <2>1. To(t, "test") /\ pc[t] = "reference"
    BY <1>1 DEF QueryReference, At
  <2>2. Tokens' = workCh
    BY <1>0, <2>1, CountersMove DEF Holding
  <2>3. Pending' = wg
    BY <1>0, <2>1, CountersMove DEF Unfinished, Holding
  <2>4. TypeOK'
    BY <1>0, <1>1 DEF QueryReference, To, TypeOK, Holding
  <2>5. QED
    BY <1>0, <1>1, <2>2, <2>3, <2>4 DEF QueryReference
<1>2. CASE QueryTest(t)
  <2>1. To(t, "compared") /\ pc[t] = "test"
    BY <1>2 DEF QueryTest, At
  <2>2. Tokens' = workCh
    BY <1>0, <2>1, CountersMove DEF Holding
  <2>3. Pending' = wg
    BY <1>0, <2>1, CountersMove DEF Unfinished, Holding
  <2>4. TypeOK'
    BY <1>0, <1>2 DEF QueryTest, To, TypeOK, Holding
  <2>5. QED
    BY <1>0, <1>2, <2>2, <2>3, <2>4 DEF QueryTest
<1>3. CASE Die(t)
  BY <1>0, <1>3 DEF Die, TypeOK, Tokens, Pending
<1>4. CASE Store(t)
  <2>1. To(t, "stored") /\ pc[t] = "compared"
    BY <1>4 DEF Store, At
  <2>2. Tokens' = workCh
    BY <1>0, <2>1, CountersMove DEF Holding
  <2>3. Pending' = wg
    BY <1>0, <2>1, CountersMove DEF Unfinished, Holding
  <2>4. TypeOK'
    BY <1>0, <1>4, StoreTypes DEF Store, To, TypeOK, Holding
  <2>5. QED
    BY <1>0, <1>4, <2>2, <2>3, <2>4 DEF Store
<1>5. CASE Mark(t)
  <2>1. To(t, "marked") /\ pc[t] = "stored"
    BY <1>5 DEF Mark, AllResults, At
  <2>2. Tokens' = workCh
    BY <1>0, <2>1, CountersMove DEF Holding
  <2>3. Pending' = wg
    BY <1>0, <2>1, CountersMove DEF Unfinished, Holding
  <2>4. TypeOK'
    BY <1>0, <1>5 DEF Mark, AllResults, To, TypeOK, Holding
  <2>5. QED
    BY <1>0, <1>5, <2>2, <2>3, <2>4 DEF Mark, AllResults
<1>6. CASE Release(t)
  <2>1. To(t, "released") /\ pc[t] = "marked"
    BY <1>6 DEF Release, OneLess, At
  <2>2. Tokens' = workCh - 1
    BY <1>0, <2>1, CountersMove DEF Holding
  <2>3. Pending' = wg
    BY <1>0, <2>1, CountersMove DEF Unfinished, Holding
  <2>4. TypeOK'
    BY <1>0, <1>6, ParallelismAssumption DEF Release, OneLess, To, TypeOK, Holding
  <2>5. QED
    BY <1>0, <1>6, <2>2, <2>3, <2>4 DEF Release, OneLess
<1>7. CASE Done(t)
  <2>1. To(t, "done") /\ pc[t] = "released"
    BY <1>7 DEF Done, At
  <2>2. Tokens' = workCh
    BY <1>0, <2>1, CountersMove DEF Holding
  <2>3. Pending' = wg - 1
    BY <1>0, <2>1, CountersMove DEF Unfinished, Holding
  <2>4. t \in {u \in Tests : pc[u] \in Unfinished}
    BY <2>1 DEF Unfinished
  <2>5. wg > 0
    <3>1. IsFiniteSet({u \in Tests : pc[u] \in Unfinished})
      BY <1>0, TestsAreFinite
    <3>2. Cardinality({u \in Tests : pc[u] \in Unfinished}) # 0
      BY <2>4, <3>1, FS_EmptySet
    <3>3. QED
      BY <1>0, <3>2 DEF TypeOK, Pending
  <2>6. TypeOK'
    BY <1>0, <1>7, <2>5 DEF Done, To, TypeOK, Holding
  <2>7. QED
    BY <1>0, <1>7, <2>2, <2>3, <2>6 DEF Done
<1>8. QED
  BY <1>1, <1>2, <1>3, <1>4, <1>5, <1>6, <1>7 DEF Goroutine

(* The other parts of the invariant after a step of a goroutine. *)
LEMMA GoroutineKeepsResults ==
    ASSUME IInv, NEW t \in Tests, Goroutine(t)
    PROVE  /\ (\A u \in Tests : pc[u] = "off" <=> u > started)'
           /\ (\A u \in Tests : pc[u] \in {"test", "compared"} => answer[u] # NoAnswer)'
           /\ (\A u \in Tests : pc[u] \in Marked \cup {"stored"} => results[u] \in BooleanResults)'
           /\ (allSuccess <=> \A u \in Tests : pc[u] \in Marked => Success(results[u]))'
<1>0. /\ TypeOK
      /\ Tests' = Tests
      /\ \A u \in Tests : pc[u] = "off" <=> u > started
      /\ \A u \in Tests : pc[u] \in {"test", "compared"} => answer[u] # NoAnswer
      /\ \A u \in Tests : pc[u] \in Marked \cup {"stored"} => results[u] \in BooleanResults
      /\ allSuccess <=> \A u \in Tests : pc[u] \in Marked => Success(results[u])
      /\ pc \in [Tests -> {"off", "released", "done"} \cup Holding]
  BY DEF IInv, TypeOK, Tests, Goroutine, QueryReference, QueryTest, Die, Store, Mark, AllResults, Release, OneLess, Done
<1>1. CASE QueryReference(t)
  <2>1. /\ pc[t] = "reference" /\ pc' = [pc EXCEPT ![t] = "test"]
        /\ \E a \in Answers(suite.tests[t]) : answer' = [answer EXCEPT ![t] = a]
        /\ UNCHANGED <<started, results, allSuccess>>
    BY <1>1 DEF QueryReference, At, To
  <2>2. \A a \in Answers(suite.tests[t]) : a # NoAnswer
    BY AnswersAreAnswers DEF IInv
  <2>3. QED
    BY <1>0, <2>1, <2>2 DEF Marked, TypeOK
<1>2. CASE QueryTest(t)
  <2>1. /\ pc[t] = "test" /\ pc' = [pc EXCEPT ![t] = "compared"]
        /\ UNCHANGED <<started, answer, results, allSuccess>>
    BY <1>2 DEF QueryTest, At, To
  <2>2. QED
    BY <1>0, <2>1 DEF Marked
<1>3. CASE Die(t)
  BY <1>0, <1>3 DEF Die
<1>4. CASE Store(t)
  <2>1. /\ pc[t] = "compared" /\ pc' = [pc EXCEPT ![t] = "stored"]
        /\ UNCHANGED <<started, answer, allSuccess>>
        /\ \A u \in Tests \ {t} : results'[u] = results[u]
    BY <1>0, <1>4 DEF Store, At, To, TypeOK
  <2>2. results'[t] \in BooleanResults
    BY <1>4, StoreTypes
  <2>3. QED
    BY <1>0, <2>1, <2>2 DEF Marked
<1>5. CASE Mark(t)
  <2>1. /\ pc[t] = "stored" /\ pc' = [pc EXCEPT ![t] = "marked"]
        /\ UNCHANGED <<started, answer, results>>
        /\ allSuccess' <=> allSuccess /\ Success(results[t])
    BY <1>5 DEF Mark, AllResults, At, To
  <2>2. \A u \in Tests : pc'[u] \in Marked <=> pc[u] \in Marked \/ u = t
    BY <1>0, <2>1 DEF Marked
  <2>3. (allSuccess <=> \A u \in Tests : pc[u] \in Marked => Success(results[u]))'
    BY <1>0, <2>1, <2>2 DEF Success
  <2>4. QED
    BY <1>0, <2>1, <2>3 DEF Marked
<1>6. CASE Release(t)
  <2>1. /\ pc[t] = "marked" /\ pc' = [pc EXCEPT ![t] = "released"]
        /\ UNCHANGED <<started, answer, results, allSuccess>>
    BY <1>6 DEF Release, OneLess, At, To
  <2>2. QED
    BY <1>0, <2>1 DEF Marked
<1>7. CASE Done(t)
  <2>1. /\ pc[t] = "released" /\ pc' = [pc EXCEPT ![t] = "done"]
        /\ UNCHANGED <<started, answer, results, allSuccess>>
    BY <1>7 DEF Done, At, To
  <2>2. QED
    BY <1>0, <2>1 DEF Marked
<1>8. QED
  BY <1>1, <1>2, <1>3, <1>4, <1>5, <1>6, <1>7 DEF Goroutine

(* What a result depends on stays as it is. *)
LEMMA ResultsStay ==
    ASSUME NEW t, UNCHANGED <<suite, answer[t]>>
    PROVE  UNCHANGED <<RefAnswer(t), TestAnswer(t), RefResult(t), TestResult(t), suite.tests[t], suite.tweaks>>
BY DEF RefAnswer, TestAnswer, RefResult, TestResult

(* Nobody but its goroutine touches a test's answer and result, and that   *)
(* stores the comparison of the two answers it got.                        *)
LEMMA OwnStays ==
    ASSUME IInv, NEW u \in Tests, UNCHANGED <<suite, answer[u], results[u]>>,
           pc'[u] \in Marked \cup {"stored"} => pc[u] \in Marked \cup {"stored"}
    PROVE  (pc[u] \in Marked \cup {"stored"} =>
                /\ answer[u] # NoAnswer
                /\ ~ReferenceIsOff(suite.tests[u], RefAnswer(u))
                /\ results[u] = Compare(suite.tests[u], suite.tweaks, RefAnswer(u), TestAnswer(u),
                                       RefResult(u), TestResult(u)))'
BY ResultsStay DEF IInv, ResultsAreOwn

LEMMA GoroutineKeepsOwn ==
    ASSUME IInv, NEW t \in Tests, Goroutine(t)
    PROVE  ResultsAreOwn'
<1>1. /\ UNCHANGED <<suite, Tests>>
      /\ pc \in [Tests -> {"off", "released", "done"} \cup Holding]
      /\ DOMAIN answer = Tests
      /\ results \in [Tests -> BooleanResults \cup {NoResult}]
  BY DEF IInv, TypeOK, Tests, Goroutine, QueryReference, QueryTest, Die, Store, Mark, Release, Done
<1>2. ASSUME NEW u \in Tests, u # t PROVE UNCHANGED <<answer[u], results[u], pc[u]>>
  BY <1>1, <1>2 DEF Goroutine, QueryReference, QueryTest, Die, Store, Mark, Release, Done, To
<1>3. CASE Store(t)
  <2>1. /\ answer[t] # NoAnswer /\ ~ReferenceIsOff(suite.tests[t], RefAnswer(t))
        /\ results'[t] = Compare(suite.tests[t], suite.tweaks, RefAnswer(t), TestAnswer(t),
                                RefResult(t), TestResult(t))
        /\ answer'[t] = answer[t]
    BY <1>1, <1>3 DEF IInv, Store, At
  <2>2. UNCHANGED <<RefAnswer(t), TestAnswer(t), RefResult(t), TestResult(t)>>
    BY <1>1, <2>1, ResultsStay
  <2> QED
    BY <1>1, <1>2, <2>1, <2>2, OwnStays DEF ResultsAreOwn
<1>4. CASE QueryReference(t) \/ QueryTest(t) \/ Die(t)
  <2>1. pc'[t] \notin Marked \cup {"stored"}
    BY <1>1, <1>4 DEF QueryReference, QueryTest, Die, At, To, Marked
  <2> QED
    BY <1>1, <1>2, <2>1, OwnStays DEF ResultsAreOwn
<1>5. CASE Mark(t) \/ Release(t) \/ Done(t)
  <2>1. UNCHANGED <<answer[t], results[t]>> /\ pc[t] \in Marked \cup {"stored"}
    BY <1>5 DEF Mark, Release, Done, At, Marked
  <2> QED
    BY <1>1, <1>2, <2>1, OwnStays DEF ResultsAreOwn
<1> QED
  BY <1>3, <1>4, <1>5 DEF Goroutine

(* The main goroutine keeps the invariant: a token goes with each start. *)
LEMMA StartKeepsInvariant == ASSUME IInv, Start PROVE IInv'
<1> DEFINE t == started + 1
<1>1. /\ TypeOK /\ Len(suite.tests) \in Nat
      /\ t \in Tests /\ pc[t] = "off"
      /\ suite' = suite /\ Tests' = Tests
  BY TestsAreFinite DEF IInv, Start, HasRoom, TypeOK, Tests
<1>2. To(t, "reference")
  BY DEF Start, HasRoom, To
<1> HIDE DEF t
<1>3. Tokens' = workCh + 1 /\ Pending' = wg
  BY <1>1, <1>2, CountersMove DEF Holding, Unfinished, TypeOK
<1>4. TypeOK'
  BY <1>1, <1>2, ParallelismAssumption DEF Start, HasRoom, To, TypeOK, Holding, Tests
<1>5. (\A u \in Tests : pc[u] = "off" <=> u > started)'
  BY <1>1, <1>2 DEF IInv, Start, HasRoom, To, TypeOK, Tests, t
<1>6. \A u \in Tests : pc'[u] \in Marked \cup {"stored", "test", "compared"} => pc'[u] = pc[u]
  BY <1>1, <1>2 DEF To, TypeOK, Marked
<1>7. \A u \in Tests : pc'[u] \in Marked <=> pc[u] \in Marked
  BY <1>1, <1>2 DEF To, TypeOK, Marked
<1>8. ResultsAreOwn'
  BY <1>1, <1>7, <1>6, OwnStays DEF Start, ResultsAreOwn
<1>9. QED
  BY <1>1, <1>3, <1>4, <1>5, <1>6, <1>7, <1>8 DEF IInv, Start, HasRoom

LEMMA OutputKeepsInvariant == ASSUME IInv, Output PROVE IInv'
<1>1. UNCHANGED <<Tests, Tokens, Pending>>
  BY DEF Output, AllDone, Tests, Tokens, Pending
<1>2. TypeOK'
  BY <1>1 DEF IInv, Output, AllDone, TypeOK
<1>3. ResultsAreOwn'
  BY <1>1, OwnStays DEF Output, ResultsAreOwn
<1>4. QED
  BY <1>1, <1>2, <1>3 DEF IInv, Output, AllDone

(* The invariant is inductive. *)
LEMMA IInvNext == ASSUME IInv, [Next]_vars PROVE IInv'
<1>1. CASE Start
  BY <1>1, StartKeepsInvariant
<1>2. CASE Output
  BY <1>2, OutputKeepsInvariant
<1>3. ASSUME NEW t \in Tests, Goroutine(t) PROVE IInv'
  <2>1. exit = "no" /\ exit' \notin {"0", "1"}
    BY <1>3
    DEF Goroutine, At, QueryReference, QueryTest, Die, Store, Mark, AllResults, Release, OneLess, Done
  <2>2. QED
    BY <1>3, <2>1, GoroutineKeepsCounts, GoroutineKeepsResults, GoroutineKeepsOwn DEF IInv
<1>4. CASE UNCHANGED vars
  <2>1. UNCHANGED <<Tests, Tokens, Pending>>
    BY <1>4 DEF vars, Tests, Tokens, Pending
  <2>2. ResultsAreOwn'
    BY <1>4, <2>1, OwnStays DEF vars, ResultsAreOwn
  <2>3. QED
    BY <1>4, <2>1, <2>2 DEF vars, IInv, TypeOK
<1>5. QED
  BY <1>1, <1>2, <1>3, <1>4 DEF Next, Main

(* Every reachable state satisfies the invariant. *)
THEOREM InductiveInvariant == Spec => []IInv
BY IInvInit, IInvNext, PTL DEF Spec

(* The variables keep their types; the channel never holds more tokens than *)
(* it has room for, and the wait group is never negative.                   *)
THEOREM TypesAreRight == Spec => []TypeOK
<1>1. IInv => TypeOK
  BY DEF IInv
<1>2. QED
  BY <1>1, InductiveInvariant, PTL

(* At most query-parallelism goroutines query the APIs at a time. *)
THEOREM ParallelismIsBounded == Spec => []BoundedParallelism
<1>1. ASSUME IInv PROVE BoundedParallelism
  <2> DEFINE H == {t \in Tests : pc[t] \in Holding}
             Q == {t \in Tests : pc[t] \in {"reference", "test"}}
  <2>1. IsFiniteSet(H) /\ Cardinality(H) \in Int /\ Q \in SUBSET H
    BY <1>1, TestsAreFinite DEF IInv, Holding
  <2>2. Cardinality(Q) <= Cardinality(H) /\ Cardinality(Q) \in Int
    BY <2>1, FS_Subset, FS_CardinalityType
  <2>3. Cardinality(H) <= Parallelism
    BY <1>1, ParallelismAssumption DEF IInv, TypeOK, Tokens
  <2>4. QED
    BY <2>1, <2>2, <2>3, ParallelismAssumption DEF BoundedParallelism
<1>2. QED
  BY <1>1, InductiveInvariant, PTL

(* When the wait is over no goroutine is left and allSuccess has them all. *)
LEMMA WaitIsOver ==
    ASSUME IInv, wg = 0
    PROVE  /\ \A t \in Tests : pc[t] = "done" /\ results[t] # NoResult
           /\ allSuccess <=> \A t \in Tests : Success(results[t])
<1> DEFINE U == {t \in Tests : pc[t] \in Unfinished}
<1>1. IsFiniteSet(U) /\ Cardinality(U) = 0
  BY TestsAreFinite DEF IInv, Pending
<1>2. U = {}
  BY <1>1, FS_EmptySet
<1>3. \A t \in Tests : pc[t] = "done"
  BY <1>2 DEF IInv, TypeOK, Unfinished
<1>4. \A t \in Tests : results[t] \in BooleanResults
  BY <1>3 DEF IInv, Marked
<1>5. \A t \in Tests : results[t] # NoResult
  BY <1>4, NoResultIsNone
<1>6. allSuccess <=> \A t \in Tests : Success(results[t])
  BY <1>3 DEF IInv, Marked
<1>7. QED
  BY <1>3, <1>5, <1>6

(* Results are printed when there is one of each test, with the right status. *)
THEOREM VerdictsAreComplete == Spec => []VerdictIsComplete
<1>1. IInv => VerdictIsComplete
  BY WaitIsOver DEF IInv, VerdictIsComplete
<1>2. QED
  BY <1>1, InductiveInvariant, PTL

(* When the process ends by itself each template has been compared with    *)
(* every combination of the values of its arguments, and once with each,   *)
(* whatever the table of arguments, the templates and the query tweaks.    *)
THEOREM VariantsAreTested == Spec => []EveryVariantIsTested
<1>1. IInv /\ VerdictIsComplete => EveryVariantIsTested
  <2> SUFFICES ASSUME IInv, VerdictIsComplete, exit \in {"0", "1"}, NEW c \in DOMAIN suite.cases
               PROVE  LET mine == {t \in Tests : suite.tests[t].case = c /\ results[t] # NoResult}
                          combinations == Combinations(Range(suite.cases[c].variantArgs))
                      IN /\ {suite.tests[t].args : t \in mine} = combinations
                         /\ Cardinality(mine) = Cardinality(combinations)
    BY DEF EveryVariantIsTested
  <2>1. \A t \in Tests : results[t] # NoResult
    BY DEF VerdictIsComplete
  <2>2. /\ suite.cases \in Seq(Templates)
        /\ suite.tests = ExpandTestCases(suite.cases, suite.tweaks, suite.start, suite.end,
                                         suite.resolution)
    BY SuitesAssumption DEF IInv, TypeOK
  <2> DEFINE mine == {t \in 1..Len(suite.tests) : suite.tests[t].case = c}
             combinations == Combinations(Range(suite.cases[c].variantArgs))
  <2>3. {suite.tests[t].args : t \in mine} = combinations /\ Cardinality(mine) = Cardinality(combinations)
    <3>1. Covers(suite.tests, c, combinations)
      BY <2>2, EveryCombinationIsExpanded
    <3> QED
      BY <3>1 DEF Covers
  <2> HIDE DEF combinations
  <2>4. {t \in Tests : suite.tests[t].case = c /\ results[t] # NoResult} = mine
    BY <2>1 DEF Tests
  <2> QED
    BY <2>3, <2>4 DEF combinations
<1>2. QED
  BY <1>1, InductiveInvariant, VerdictsAreComplete, PTL

(* Of answers that are compared at all, when the test passes.              *)
LEMMA SuccessOfAnswers ==
    ASSUME TypeOK, NEW t \in Tests, answer[t] # NoAnswer,
           ~ReferenceIsOff(suite.tests[t], RefAnswer(t))
    PROVE  Success(Compare(suite.tests[t], suite.tweaks, RefAnswer(t), TestAnswer(t),
                           RefResult(t), TestResult(t)))
               <=> AnsweredAsExpected(t)
<1> DEFINE tc == suite.tests[t]
           a == answer[t]
           late == a.ref.latency + a.test.latency >= Deadline
           equal == EqualMatrices(suite.tweaks, IgnoreFirstSteps(suite.tweaks, RefResult(t), tc.start),
                                  Sorted(TestResult(t)))
           result == Compare(tc, suite.tweaks, RefAnswer(t), TestAnswer(t), RefResult(t), TestResult(t))
<1>1. /\ tc.shouldFail \in BOOLEAN /\ tc.skipComparison \in BOOLEAN
      /\ a.ref.latency \in Nat /\ a.ref.failed \in BOOLEAN
      /\ a.test.latency \in Nat /\ a.test.failed \in BOOLEAN
  BY SuiteTypes, AnswersAssumption DEF TypeOK, Tests
<1>2. RefAnswer(t).failed = tc.shouldFail
  BY DEF ReferenceIsOff
<1>3. ~tc.shouldFail => a.ref.latency < Deadline
  <2>1. ~(0 + a.ref.latency < Deadline) => RefAnswer(t).failed = TRUE
    BY DEF RefAnswer, InTime
  <2> QED
    BY <1>1, <1>2, <2>1 DEF Deadline
<1>4. TestAnswer(t).failed <=> a.test.failed \/ late
  BY <1>1 DEF TestAnswer, RefAnswer, InTime, Deadline
<1>5. TestAnswer(t).failed \in BOOLEAN
  BY <1>1 DEF TestAnswer, InTime
<1> HIDE DEF late, equal
<1>6. CASE TestAnswer(t).failed # tc.shouldFail
  <2>1. ~Success(result)
    BY <1>6 DEF Compare, Success, Passed
  <2>2. ~AnsweredAsExpected(t)
    BY <1>1, <1>4, <1>5, <1>6 DEF AnsweredAsExpected, late
  <2> QED
    BY <2>1, <2>2
<1>7. CASE TestAnswer(t).failed = tc.shouldFail /\ tc.shouldFail
  <2>1. Success(result)
    BY <1>7 DEF Compare, Success, Passed, IsCompared
  <2>2. AnsweredAsExpected(t)
    BY <1>1, <1>4, <1>5, <1>7 DEF AnsweredAsExpected, late
  <2> QED
    BY <2>1, <2>2
<1>8. CASE TestAnswer(t).failed = tc.shouldFail /\ ~tc.shouldFail
  <2>1. Success(result) <=> tc.skipComparison \/ equal
    BY <1>1, <1>2, <1>8 DEF Compare, Success, Passed, IsCompared, ReferenceIsOff, equal
  <2>2. AnsweredAsExpected(t) <=> tc.skipComparison \/ equal
    BY <1>1, <1>4, <1>5, <1>8 DEF AnsweredAsExpected, late, equal
  <2> QED
    BY <2>1, <2>2
<1> QED
  BY <1>6, <1>7, <1>8

(* The status is about what each query was answered, in its time, and      *)
(* about nothing else, in whatever order the goroutines run.               *)
THEOREM VerdictsAreAboutTheAnswers == Spec => []VerdictIsAboutTheAnswers
<1>1. ASSUME IInv, exit \in {"0", "1"} PROVE exit = "0" <=> \A t \in Tests : AnsweredAsExpected(t)
  <2>1. TypeOK /\ wg = 0 /\ (exit = "0" <=> allSuccess)
    BY <1>1 DEF IInv
  <2>2. /\ \A t \in Tests : pc[t] = "done"
        /\ allSuccess <=> \A t \in Tests : Success(results[t])
    BY <1>1, <2>1, WaitIsOver
  <2>3. ASSUME NEW t \in Tests PROVE Success(results[t]) <=> AnsweredAsExpected(t)
    BY <1>1, <2>1, <2>2, SuccessOfAnswers DEF IInv, ResultsAreOwn, Marked
  <2> QED
    BY <2>1, <2>2, <2>3
<1>2. IInv => VerdictIsAboutTheAnswers
  BY <1>1 DEF VerdictIsAboutTheAnswers
<1>3. QED
  BY <1>2, InductiveInvariant, PTL

----------------------------------------------------------------------------
(* What the tweaks make of the answers that are compared. *)

(* A tolerance is that of a tweak, if one sets it, and else the default.   *)
LEMMA AdjustedIsSet ==
    ASSUME NEW tweaks \in Seq(Tweaks), NEW which, NEW default
    PROVE  IF \A w \in DOMAIN tweaks : tweaks[w].tolerance[which] = Nil
           THEN Adjusted(tweaks, which, default) = default
           ELSE \E w \in DOMAIN tweaks :
                   /\ tweaks[w].tolerance[which] # Nil
                   /\ Adjusted(tweaks, which, default) = tweaks[w].tolerance[which]
<1> DEFINE adjusting == {w \in DOMAIN tweaks : tweaks[w].tolerance[which] # Nil}
<1>1. Adjusted(tweaks, which, default)
        = IF adjusting = {} THEN default ELSE tweaks[Max(adjusting)].tolerance[which]
  BY DEF Adjusted
<1>2. CASE adjusting = {}
  BY <1>1, <1>2
<1>3. CASE adjusting # {}
  <2>1. Len(tweaks) \in Nat /\ adjusting \in SUBSET (0..Len(tweaks))
    OBVIOUS
  <2>2. \E x \in adjusting : \A y \in adjusting : x >= y
    BY <1>3, <2>1, GreatestExists
  <2> HIDE DEF adjusting
  <2>3. Max(adjusting) \in adjusting
    BY <2>2 DEF Max
  <2> QED
    BY <1>1, <1>3, <2>3 DEF adjusting
<1> QED
  BY <1>2, <1>3

(* However many tweaks ignore the first step, each series loses it once.   *)
FirstDropped(ref) == [i \in DOMAIN ref |-> [ref[i] EXCEPT !.values = Tail(@)]]
DropsFirst(tweaks) == \E w \in DOMAIN tweaks : tweaks[w].ignoreFirstStep

LEMMA FirstStepIsDropped ==
    ASSUME NEW start \in Int, NEW ref, IsReference(ref, start)
    PROVE  /\ [i \in DOMAIN ref |-> WithoutFirstStep(ref[i], start)] = FirstDropped(ref)
           /\ [i \in DOMAIN FirstDropped(ref) |-> WithoutFirstStep(FirstDropped(ref)[i], start)]
                = FirstDropped(ref)
<1> DEFINE S == [metric : [series : Int, extra : {FALSE}, upper : {FALSE}], values : SeriesValues]
           D == FirstDropped(ref)
<1>1. ref \in Seq(S) /\ DOMAIN D = DOMAIN ref
  <2>1. ref \in Seq(S)
    BY DEF IsReference
  <2> QED
    BY <2>1, Zenon DEF FirstDropped
<1>2. ASSUME NEW i \in DOMAIN ref
      PROVE  /\ WithoutFirstStep(ref[i], start) = D[i]
             /\ WithoutFirstStep(D[i], start) = D[i]
  <2> DEFINE vs == ref[i].values
  <2>1. ref[i] \in S
    <3> HIDE DEF S
    <3> QED
      BY <1>1
  <2>2. vs \in SeriesValues /\ Len(vs) > 1
    BY <2>1 DEF IsReference
  <2>3. vs[1].timestamp - start <= FirstStepDelta /\ ~(vs[2].timestamp - start <= FirstStepDelta)
    BY <2>2 DEF IsReference, SeriesValues
  <2>4. Tail(vs) # <<>> /\ Tail(vs)[1] = vs[2] /\ vs # <<>>
    <3>1. \A V : vs \in Seq(V) /\ Len(vs) > 1 => Tail(vs) # <<>> /\ Tail(vs)[1] = vs[2] /\ vs # <<>>
      <4> HIDE DEF vs
      <4>1. ASSUME NEW V, vs \in Seq(V), Len(vs) > 1
            PROVE  Tail(vs) # <<>> /\ Tail(vs)[1] = vs[2] /\ vs # <<>>
        <5>1. Len(Tail(vs)) # 0 /\ Tail(vs)[1] = vs[2] /\ vs # <<>>
          BY <4>1
        <5>2. Len(<<>>) = 0
          OBVIOUS
        <5> QED
          BY <5>1, <5>2, Zenon
      <4> QED
        BY <4>1
    <3> QED
      BY <2>2, <3>1, Zenon DEF SeriesValues
  <2>5. D[i] = [ref[i] EXCEPT !.values = Tail(@)]
    BY DEF FirstDropped
  <2>6. D[i].values = Tail(vs)
    BY <2>1, <2>5
  <2>7. WithoutFirstStep(ref[i], start) = D[i]
    BY <2>3, <2>4, <2>5 DEF WithoutFirstStep
  <2>8. WithoutFirstStep(D[i], start) = D[i]
    BY <2>3, <2>4, <2>6 DEF WithoutFirstStep
  <2> QED
    BY <2>7, <2>8
<1> QED
  BY <1>1, <1>2, Zenon DEF FirstDropped

LEMMA IgnoringFirstSteps ==
    ASSUME NEW tweaks \in Seq(Tweaks), NEW start \in Int, NEW ref, IsReference(ref, start)
    PROVE  IgnoreFirstSteps(tweaks, ref, start) = IF DropsFirst(tweaks) THEN FirstDropped(ref) ELSE ref
<1> DEFINE len == Len(tweaks)
           T == {ref, FirstDropped(ref)}
           Without(m) == [i \in DOMAIN m |-> WithoutFirstStep(m[i], start)]
           Step(m, n) == IF tweaks[n].ignoreFirstStep THEN Without(m) ELSE m
           Upto(n) == \E w \in 1..n : tweaks[w].ignoreFirstStep
           Good == [n \in 0..len |-> {IF Upto(n) THEN FirstDropped(ref) ELSE ref}]
           left[n \in 0..len] ==
             IF n = 0 THEN ref
             ELSE IF tweaks[n].ignoreFirstStep
             THEN [i \in DOMAIN left[n - 1] |-> WithoutFirstStep(left[n - 1][i], start)]
             ELSE left[n - 1]
<1>1. IgnoreFirstSteps(tweaks, ref, start) = left[len]
  BY DEF IgnoreFirstSteps
<1>2. len \in Nat /\ DOMAIN tweaks = 1..len
  OBVIOUS
<1>3. Without(ref) = FirstDropped(ref) /\ Without(FirstDropped(ref)) = FirstDropped(ref)
  BY FirstStepIsDropped
<1> HIDE DEF len
<1>4. left = [n \in 0..len |-> IF n = 0 THEN ref ELSE Step(left[n - 1], n)]
  <2> DEFINE step == [n \in 1..len |-> [m \in T |-> Step(m, n)]]
  <2>1. step \in Steps(T, len) /\ ref \in T
    <3>1. \A n \in 1..len : \A m \in T : Step(m, n) \in T
      <4> HIDE DEF Without
      <4> QED
        BY <1>3
    <3> HIDE DEF Step, T
    <3>2. step \in Steps(T, len)
      BY <3>1 DEF Steps
    <3> QED
      BY <3>2 DEF T
  <2> HIDE DEF Step, step, T
  <2>2. PICK f : Iterates(f, T, len, ref, step)
    BY <1>2, <2>1, IterationExists
  <2>3. ASSUME NEW n \in 0..len, n # 0 PROVE step[n][f[n - 1]] = Step(f[n - 1], n)
    <3>1. n \in 1..len /\ n - 1 \in 0..len
      BY <1>2, <2>3
    <3> QED
      BY <3>1, <2>2 DEF Iterates, step
  <2>4. \A n \in 0..len : f[n] = IF n = 0 THEN ref ELSE Step(f[n - 1], n)
    BY <2>2, <2>3 DEF Iterates
  <2>5. f = [n \in 0..len |-> f[n]]
    BY <2>2 DEF Iterates
  <2>6. f = [n \in 0..len |-> IF n = 0 THEN ref
                             ELSE IF tweaks[n].ignoreFirstStep
                             THEN [i \in DOMAIN f[n - 1] |-> WithoutFirstStep(f[n - 1][i], start)]
                             ELSE f[n - 1]]
    BY <2>4, <2>5 DEF Step
  <2> QED
    BY <2>6 DEF Step
<1> HIDE DEF left, Without
<1>5. left[0] \in Good[0]
  <2>1. left[0] = ref /\ 0 \in 0..len /\ ~Upto(0)
    BY <1>2, <1>4
  <2> QED
    BY <2>1
<1>6. ASSUME NEW n \in 1..len, left[n - 1] \in Good[n - 1] PROVE left[n] \in Good[n]
  <2>1. n \in 0..len /\ n - 1 \in 0..len /\ n # 0
    BY <1>2
  <2>2. left[n] = Step(left[n - 1], n)
    <3> HIDE DEF Step
    <3> QED
      BY <1>4, <2>1
  <2>3. left[n - 1] = IF Upto(n - 1) THEN FirstDropped(ref) ELSE ref
    BY <1>6, <2>1
  <2>4. Upto(n) <=> Upto(n - 1) \/ tweaks[n].ignoreFirstStep
    <3>1. 1..n = 1..(n - 1) \cup {n}
      BY <1>2
    <3> QED
      BY <3>1
  <2> HIDE DEF Upto
  <2> QED
    BY <1>3, <2>1, <2>2, <2>3, <2>4
<1>7. left[len] \in Good[len]
  <2> HIDE DEF Good
  <2> QED
    BY <1>2, <1>5, <1>6, IterationStays
<1>8. left[len] = IF Upto(len) THEN FirstDropped(ref) ELSE ref
  BY <1>2, <1>7
<1>9. Upto(len) <=> DropsFirst(tweaks)
  BY <1>2 DEF DropsFirst
<1> QED
  BY <1>1, <1>8, <1>9

(* Sorting takes series that came in any order back to that of the         *)
(* reference: the i-th of the sorted series is the one of its i-th.        *)
Restores(p, of, matrix, n) ==
    \A i \in 1..n : Sorted(matrix)[i] = matrix[p[i]] /\ of[p[i]] = i

LEMMA SortedIsInOrder ==
    ASSUME NEW n \in Nat, NEW matrix, DOMAIN matrix = 1..n,
           NEW num \in [1..n -> Int], \A i, j \in 1..n : i < j => num[i] < num[j],
           NEW of \in Injection(1..n, 1..n), \A i \in 1..n : matrix[i].metric.series = num[of[i]]
    PROVE  \E p \in [1..n -> 1..n] : Restores(p, of, matrix, n)
<1> DEFINE Perms == Bijection(1..n, 1..n)
           p == CHOOSE q \in Perms : Sorts(q, matrix)
           inv == [k \in 1..n |-> CHOOSE i \in 1..n : of[i] = k]
<1>1. /\ of \in [1..n -> 1..n]
      /\ \A i, j \in 1..n : of[i] = of[j] => i = j
      /\ \A k \in 1..n : \E i \in 1..n : of[i] = k
  <2>1. IsFiniteSet(1..n)
    BY FS_Interval
  <2>2. of \in Surjection(1..n, 1..n)
    BY <2>1, FS_Injection
  <2> QED
    BY <2>2 DEF Injection, Surjection, IsInjective
<1>2. \A k \in 1..n : inv[k] \in 1..n /\ of[inv[k]] = k
  BY <1>1
<1> HIDE DEF inv
<1>3. inv \in Perms /\ Sorts(inv, matrix)
  <2>1. inv \in [1..n -> 1..n]
    BY <1>2 DEF inv
  <2>2. \A i, j \in 1..n : inv[i] = inv[j] => i = j
    BY <1>2
  <2>3. \A i \in 1..n : \E k \in 1..n : inv[k] = i
    <3>1. \A i \in 1..n : of[i] \in 1..n
      BY <1>1
    <3>2. \A i \in 1..n : inv[of[i]] = i
      BY <1>1, <1>2, <3>1
    <3> QED
      BY <3>1, <3>2
  <2>4. inv \in Perms
    BY <2>1, <2>2, <2>3 DEF Bijection, Injection, Surjection, IsInjective
  <2>5. \A i \in 1..n : matrix[inv[i]].metric.series = num[i]
    BY <1>2
  <2>6. \A i, j \in 1..n : i < j => num[i] <= num[j]
    OBVIOUS
  <2>7. Sorts(inv, matrix)
    BY <2>5, <2>6 DEF Sorts
  <2> QED
    BY <2>4, <2>7
<1>4. p \in Perms /\ Sorts(p, matrix)
  <2> HIDE DEF Perms
  <2> QED
    BY <1>3
<1>5. Sorted(matrix) = [i \in 1..n |-> matrix[p[i]]]
  BY DEF Sorted
<1> HIDE DEF p
<1>6. /\ p \in [1..n -> 1..n]
      /\ \A i, j \in 1..n : p[i] = p[j] => i = j
      /\ \A i \in 1..n : \E j \in 1..n : p[j] = i
  BY <1>4 DEF Bijection, Injection, Surjection, IsInjective
<1> DEFINE k == [i \in 1..n |-> of[p[i]]]
<1>7. k \in Surjection(1..n, 1..n)
  <2>1. k \in [1..n -> 1..n]
    BY <1>1, <1>6
  <2>2. \A i \in 1..n : \E j \in 1..n : k[j] = i
    BY <1>1, <1>6
  <2> QED
    BY <2>1, <2>2 DEF Surjection
<1>8. ASSUME NEW i \in 1..n, NEW j \in 1..n, i < j PROVE k[i] < k[j]
  <2>1. p[i] \in 1..n /\ p[j] \in 1..n /\ k[i] \in 1..n /\ k[j] \in 1..n
    BY <1>1, <1>6
  <2>2. matrix[p[i]].metric.series <= matrix[p[j]].metric.series
    BY <1>4, <1>8 DEF Sorts
  <2>3. num[k[i]] <= num[k[j]]
    BY <2>1, <2>2
  <2>4. k[i] # k[j]
    <3>1. i # j /\ p[i] # p[j]
      BY <1>6, <1>8
    <3> QED
      BY <1>1, <2>1, <3>1
  <2> HIDE DEF k
  <2>5. k[j] < k[i] => num[k[j]] < num[k[i]]
    BY <2>1
  <2>6. num[k[i]] \in Int /\ num[k[j]] \in Int
    BY <2>1
  <2> QED
    BY <2>1, <2>3, <2>4, <2>5, <2>6
<1> HIDE DEF k
<1>9. \A i \in 1..n : k[i] = i
  BY <1>7, <1>8, IncreasingIsIdentity
<1>10. Restores(p, of, matrix, n)
  BY <1>5, <1>9 DEF k, Restores
<1> QED
  BY <1>6, <1>10

(* Two metrics of one series are equal unless they differ in what no tweak *)
(* takes out of both.                                                      *)
LEMMA MetricsAreEqual ==
    ASSUME NEW tweaks \in Seq(Tweaks), NEW series, NEW extra \in BOOLEAN, NEW upper \in BOOLEAN
    PROVE  EqualMetrics(tweaks, [series |-> series, extra |-> FALSE, upper |-> FALSE],
                                [series |-> series, extra |-> extra, upper |-> upper])
             <=> /\ extra => \E w \in DOMAIN tweaks : tweaks[w].dropLabels
                 /\ upper => \E w \in DOMAIN tweaks : tweaks[w].ignoreCase
<1> DEFINE metric(e, u) == [series |-> series, extra |-> e, upper |-> u]
           drop == \E w \in DOMAIN tweaks : tweaks[w].dropLabels
           ignore == \E w \in DOMAIN tweaks : tweaks[w].ignoreCase
<1>1. /\ (\E t \in Range(tweaks) : t.dropLabels) <=> drop
      /\ (\E t \in Range(tweaks) : t.ignoreCase) <=> ignore
  BY DEF Range
<1>2. PICK no : no = FALSE
  OBVIOUS
<1> HIDE DEF metric, drop, ignore
<1>3. ASSUME NEW e, NEW u
      PROVE  TranslateToLowerCase(tweaks, DropResultLabels(tweaks, metric(e, u)))
               = metric(IF drop THEN no ELSE e, IF ignore THEN no ELSE u)
  <2>1. PICK x, y : x = (IF drop THEN no ELSE e) /\ y = (IF ignore THEN no ELSE u)
    OBVIOUS
  <2>2. DropResultLabels(tweaks, metric(e, u))
          = IF drop THEN [metric(e, u) EXCEPT !.extra = no] ELSE metric(e, u)
    BY <1>1, <1>2 DEF DropResultLabels
  <2>3. DropResultLabels(tweaks, metric(e, u)) = metric(x, u)
    BY <2>1, <2>2 DEF metric
  <2>4. TranslateToLowerCase(tweaks, metric(x, u))
          = IF ignore THEN [metric(x, u) EXCEPT !.upper = no] ELSE metric(x, u)
    BY <1>1, <1>2 DEF TranslateToLowerCase
  <2>5. TranslateToLowerCase(tweaks, metric(x, u)) = metric(x, y)
    BY <2>1, <2>4 DEF metric
  <2> QED
    BY <2>1, <2>3, <2>5
<1>4. \A e, u, f, v : metric(e, u) = metric(f, v) <=> e = f /\ u = v
  BY DEF metric
<1>5. EqualMetrics(tweaks, metric(no, no), metric(extra, upper))
        <=> /\ no = (IF drop THEN no ELSE extra)
            /\ no = (IF ignore THEN no ELSE upper)
  BY <1>3, <1>4 DEF EqualMetrics
<1>6. EqualMetrics(tweaks, metric(no, no), metric(extra, upper))
        <=> (extra => drop) /\ (upper => ignore)
  BY <1>2, <1>5
<1>7. metric(FALSE, FALSE) = metric(no, no)
  BY <1>2
<1> QED
  BY <1>6, <1>7 DEF metric, drop, ignore

(* Rounding is seen unless a tweak sets a fraction.                        *)
LEMMA RoundingIsSeen ==
    ASSUME NEW tweaks \in Seq(Tweaks), NEW x, NEW y, IsRounded(x, y, tweaks)
    PROVE  EqualValues(tweaks, x, y) <=> \E w \in DOMAIN tweaks : tweaks[w].tolerance.fraction # Nil
<1> DEFINE off == Magnitude(x - y)
           margin == Adjusted(tweaks, "margin", 0)
           fraction == Adjusted(tweaks, "fraction", 1)
<1>1. /\ x \in Int /\ y \in Int /\ off \in Nat /\ NaN \notin {x, y}
      /\ \A z \in {x, y} : Magnitude(z) \in Nat
  BY DEF IsRounded, Magnitude
<1>2. PICK z \in {x, y} : off * PerUnit > Magnitude(z)
  BY DEF IsRounded
<1>3. off # 0 /\ x # y
  BY <1>1, <1>2 DEF Magnitude, PerUnit
<1>4. off > margin
  <2>1. CASE \A w \in DOMAIN tweaks : tweaks[w].tolerance["margin"] = Nil
    <3>1. margin = 0
      BY <2>1, AdjustedIsSet
    <3> QED
      BY <1>1, <1>3, <3>1
  <2>2. CASE \E w \in DOMAIN tweaks : tweaks[w].tolerance["margin"] # Nil
    <3>1. PICK w \in DOMAIN tweaks : /\ tweaks[w].tolerance["margin"] # Nil
                                     /\ margin = tweaks[w].tolerance["margin"]
      BY <2>2, AdjustedIsSet
    <3> HIDE DEF margin
    <3> QED
      BY <3>1 DEF IsRounded
  <2> QED
    BY <2>1, <2>2
<1>5. margin \in Int
  <2>1. \A w \in DOMAIN tweaks : tweaks[w].tolerance["margin"] \in Int
    <3>1. \A t \in Tweaks : t.tolerance.margin \in Int
      BY DEF Tweaks, Nil
    <3> HIDE DEF Tweaks
    <3> QED
      BY <3>1
  <2> QED
    BY <2>1, AdjustedIsSet
<1> HIDE DEF off, margin, fraction
<1>6. EqualValues(tweaks, x, y) <=> \A u \in {x, y} : off * PerUnit <= fraction * Magnitude(u)
  BY <1>1, <1>3, <1>4, <1>5 DEF EqualValues, off, margin, fraction
<1>7. CASE \A w \in DOMAIN tweaks : tweaks[w].tolerance["fraction"] = Nil
  <2>1. fraction = 1
    BY <1>7, AdjustedIsSet DEF fraction
  <2>2. ~(off * PerUnit <= fraction * Magnitude(z))
    BY <1>1, <1>2, <2>1 DEF off, PerUnit
  <2> QED
    BY <1>6, <1>7, <2>2
<1>8. CASE \E w \in DOMAIN tweaks : tweaks[w].tolerance["fraction"] # Nil
  <2>1. PICK w \in DOMAIN tweaks : /\ tweaks[w].tolerance["fraction"] # Nil
                                   /\ fraction = tweaks[w].tolerance["fraction"]
    BY <1>8, AdjustedIsSet DEF fraction
  <2>2. \A u \in {x, y} : off * PerUnit <= fraction * Magnitude(u)
    BY <2>1 DEF IsRounded, off
  <2> QED
    BY <1>6, <1>8, <2>2
<1> QED
  BY <1>7, <1>8

(* The samples of a series are equal when none has moved, when both or     *)
(* neither have lost the first, and when rounding is tolerated.            *)
SameValues(tweaks, xs, ys) ==
    /\ Len(xs) = Len(ys)
    /\ \A j \in DOMAIN xs : /\ xs[j].timestamp = ys[j].timestamp
                            /\ EqualValues(tweaks, xs[j].value, ys[j].value)

KeptValues(tweaks, xs) == IF DropsFirst(tweaks) THEN Tail(xs) ELSE xs
HasValue(xs) == \E j \in DOMAIN xs : xs[j].value # NaN
Tolerates(tweaks) == \E w \in DOMAIN tweaks : tweaks[w].tolerance.fraction # Nil

LEMMA ValuesAreEqual ==
    ASSUME NEW tweaks \in Seq(Tweaks), NEW xs \in SeriesValues, Len(xs) > 1,
           NEW ys, NEW d, NEW shift \in Int, ValuesDeviate(xs, ys, d, shift, tweaks),
           NEW zs, zs = KeptValues(tweaks, xs)
    PROVE  SameValues(tweaks, zs, ys)
             <=> /\ DropsFirst(tweaks) <=> "firstStep" \in d
                 /\ shift = 0
                 /\ "rounding" \in d /\ HasValue(zs) => Tolerates(tweaks)
<1> DEFINE X == [timestamp : Int, value : Int \cup {NaN}]
           seen == IF "firstStep" \in d THEN Tail(xs) ELSE xs
<1>1. xs \in Seq(X)
  BY DEF SeriesValues
<1>2. /\ ys \in Seq(X) /\ Len(ys) = Len(seen)
      /\ \A j \in DOMAIN ys :
          /\ ys[j].timestamp = seen[j].timestamp - shift
          /\ shift = 0 => IF "rounding" \in d /\ seen[j].value # NaN
                          THEN IsRounded(seen[j].value, ys[j].value, tweaks)
                          ELSE ys[j].value = seen[j].value
  BY DEF ValuesDeviate, SeriesValues
<1> HIDE DEF X
<1>3. /\ Tail(xs) \in Seq(X) /\ Len(Tail(xs)) = Len(xs) - 1 /\ Len(xs) \in Nat
  BY <1>1
<1>4. Len(zs) = Len(ys) <=> (DropsFirst(tweaks) <=> "firstStep" \in d)
  <2>1. Len(zs) = (IF DropsFirst(tweaks) THEN Len(xs) - 1 ELSE Len(xs))
    BY <1>3 DEF KeptValues
  <2>2. Len(ys) = (IF "firstStep" \in d THEN Len(xs) - 1 ELSE Len(xs))
    BY <1>2, <1>3
  <2>3. Len(xs) - 1 # Len(xs)
    <3>1. \A n \in Nat : n - 1 # n
      OBVIOUS
    <3> QED
      BY <1>3, <3>1, Zenon
  <2> QED
    BY <2>1, <2>2, <2>3
<1>5. CASE ~(DropsFirst(tweaks) <=> "firstStep" \in d)
  BY <1>4, <1>5 DEF SameValues
<1>6. CASE DropsFirst(tweaks) <=> "firstStep" \in d
  <2>1. seen = zs /\ zs \in Seq(X) /\ Len(zs) \in Nat /\ Len(zs) > 0
    BY <1>1, <1>3, <1>6 DEF KeptValues
  <2> HIDE DEF seen
  <2>2. DOMAIN zs = 1..Len(zs) /\ DOMAIN ys = DOMAIN zs /\ 1 \in DOMAIN zs
    BY <1>2, <2>1
  <2>3. \A j \in DOMAIN zs : zs[j].timestamp \in Int
    <3>1. \A j \in DOMAIN zs : zs[j] \in X
      BY <2>1
    <3> QED
      BY <3>1 DEF X
  <2>4. (\A j \in DOMAIN zs : zs[j].timestamp = ys[j].timestamp) <=> shift = 0
    <3>1. \A j \in DOMAIN zs : ys[j].timestamp = zs[j].timestamp - shift
      BY <1>2, <2>1, <2>2
    <3>2. \A u \in Int : u = u - shift <=> shift = 0
      OBVIOUS
    <3>3. ASSUME \A j \in DOMAIN zs : zs[j].timestamp = ys[j].timestamp PROVE shift = 0
      <4>1. zs[1].timestamp \in Int /\ zs[1].timestamp = zs[1].timestamp - shift
        BY <2>2, <2>3, <3>1, <3>3, Zenon
      <4> QED
        BY <3>2, <4>1, Zenon
    <3>4. ASSUME shift = 0, NEW j \in DOMAIN zs PROVE zs[j].timestamp = ys[j].timestamp
      BY <2>3, <3>1, <3>2, <3>4, Zenon
    <3> QED
      BY <3>3, <3>4, Zenon
  <2>5. ASSUME shift = 0, NEW j \in DOMAIN zs
        PROVE  EqualValues(tweaks, zs[j].value, ys[j].value)
                 <=> ("rounding" \in d /\ zs[j].value # NaN => Tolerates(tweaks))
    <3>1. CASE "rounding" \in d /\ zs[j].value # NaN
      <4>1. IsRounded(zs[j].value, ys[j].value, tweaks)
        BY <1>2, <2>1, <2>2, <2>5, <3>1
      <4> QED
        BY <3>1, <4>1, RoundingIsSeen DEF Tolerates
    <3>2. CASE ~("rounding" \in d /\ zs[j].value # NaN)
      <4>1. ys[j].value = zs[j].value
        BY <1>2, <2>1, <2>2, <2>5, <3>2
      <4> QED
        BY <3>2, <4>1 DEF EqualValues
    <3> QED
      BY <3>1, <3>2
  <2> QED
    BY <1>4, <1>6, <2>4, <2>5 DEF SameValues, HasValue
<1> QED
  BY <1>5, <1>6

(* A function of 1..n is a sequence of that length.                        *)
LEMMA LengthOf ==
    ASSUME NEW n \in Nat, NEW f, f = [i \in 1..n |-> f[i]]
    PROVE  Len(f) = n
<1> DEFINE S == {f[i] : i \in 1..n}
<1>1. f \in [1..n -> S]
  OBVIOUS
<1> HIDE DEF S
<1> QED
  BY <1>1

(* The metrics of what the reference returns, and its values.              *)
LEMMA ReferenceSeries ==
    ASSUME NEW start \in Int, NEW ref, IsReference(ref, start)
    PROVE  /\ Len(ref) \in Nat /\ DOMAIN ref = 1..Len(ref)
           /\ \A i \in DOMAIN ref :
               /\ ref[i] = [metric |-> ref[i].metric, values |-> ref[i].values]
               /\ ref[i].metric.series \in Int
               /\ ref[i].metric = [series |-> ref[i].metric.series, extra |-> FALSE, upper |-> FALSE]
               /\ ref[i].values \in SeriesValues /\ Len(ref[i].values) > 1
<1>1. PICK no : no = FALSE
  OBVIOUS
<1>2. {FALSE} = {no}
  BY <1>1
<1> DEFINE S == [metric : [series : Int, extra : {no}, upper : {no}], values : SeriesValues]
<1>3. ref \in Seq(S) /\ \A i \in DOMAIN ref : Len(ref[i].values) > 1
  BY <1>2 DEF IsReference
<1>4. \A x \in S : /\ x.metric.series \in Int /\ x.values \in SeriesValues
                   /\ x = [metric |-> x.metric, values |-> x.values]
                   /\ x.metric = [series |-> x.metric.series, extra |-> no, upper |-> no]
  OBVIOUS
<1> HIDE DEF S
<1>5. Len(ref) \in Nat /\ DOMAIN ref = 1..Len(ref) /\ \A i \in DOMAIN ref : ref[i] \in S
  BY <1>3
<1>6. \A x : [series |-> x, extra |-> no, upper |-> no] = [series |-> x, extra |-> FALSE, upper |-> FALSE]
  BY <1>1
<1>7. \A i \in DOMAIN ref : ref[i].metric = [series |-> ref[i].metric.series, extra |-> FALSE, upper |-> FALSE]
  BY <1>4, <1>5, <1>6, Zenon
<1>8. \A i \in DOMAIN ref : /\ ref[i] = [metric |-> ref[i].metric, values |-> ref[i].values]
                            /\ ref[i].metric.series \in Int /\ ref[i].values \in SeriesValues
  BY <1>4, <1>5, Zenon
<1> QED
  BY <1>3, <1>5, <1>7, <1>8, Zenon

(* The answers to one query are equal exactly when every way in which the  *)
(* target deviates is one that a tweak takes out, and when it leaves out   *)
(* the first steps if, and only if, a tweak drops those of the reference.  *)
LEMMA DeviationsAreSeen ==
    ASSUME NEW tweaks \in Seq(Tweaks), NEW start \in Int, NEW ref, IsReference(ref, start),
           NEW matrix, NEW d, NEW shift \in Int, Deviates(ref, matrix, d, shift, tweaks)
    PROVE  EqualMatrices(tweaks, IgnoreFirstSteps(tweaks, ref, start), Sorted(matrix))
             <=> /\ "missing" \notin d
                 /\ "extraLabel" \in d => \E w \in DOMAIN tweaks : tweaks[w].dropLabels
                 /\ "upperCase" \in d => \E w \in DOMAIN tweaks : tweaks[w].ignoreCase
                 /\ "firstStep" \in d <=> DropsFirst(tweaks)
                 /\ shift = 0
                 /\ "rounding" \in d => Tolerates(tweaks)
<1> DEFINE n == Len(ref)
           kept == IgnoreFirstSteps(tweaks, ref, start)
           sorted == Sorted(matrix)
           labels == /\ "extraLabel" \in d => \E w \in DOMAIN tweaks : tweaks[w].dropLabels
                     /\ "upperCase" \in d => \E w \in DOMAIN tweaks : tweaks[w].ignoreCase
           first == "firstStep" \in d <=> DropsFirst(tweaks)
<1>1. /\ n \in Nat /\ DOMAIN ref = 1..n
      /\ \A i \in 1..n : /\ ref[i] = [metric |-> ref[i].metric, values |-> ref[i].values]
                         /\ ref[i].metric.series \in Int
                         /\ ref[i].metric = [series |-> ref[i].metric.series, extra |-> FALSE, upper |-> FALSE]
                         /\ ref[i].values \in SeriesValues /\ Len(ref[i].values) > 1
  BY ReferenceSeries
<1>2. Len(matrix) \in Nat /\ DOMAIN matrix = 1..Len(matrix)
  <2>1. matrix \in Seq(Range(matrix))
    BY DEF Deviates
  <2> QED
    BY <2>1
<1>3. kept = IF DropsFirst(tweaks) THEN FirstDropped(ref) ELSE ref
  BY IgnoringFirstSteps
<1>4. DOMAIN kept = 1..n /\ Len(kept) = n
  <2>1. kept = [i \in 1..n |-> kept[i]]
    <3>1. ref = [i \in 1..n |-> ref[i]]
      <4>1. \A T : ref \in Seq(T) => ref = [i \in 1..Len(ref) |-> ref[i]]
        OBVIOUS
      <4> QED
        BY <4>1 DEF IsReference
    <3> QED
      BY <1>1, <1>3, <3>1 DEF FirstDropped
  <2> HIDE DEF n, kept
  <2> QED
    BY <1>1, <2>1, LengthOf
<1>5. Len(sorted) = Len(matrix)
  <2> DEFINE p == CHOOSE q \in Bijection(DOMAIN matrix, DOMAIN matrix) : Sorts(q, matrix)
  <2>1. sorted = [i \in DOMAIN matrix |-> matrix[p[i]]]
    BY DEF Sorted
  <2> HIDE DEF p
  <2>2. sorted = [i \in 1..Len(matrix) |-> sorted[i]]
    BY <1>2, <2>1
  <2> HIDE DEF sorted
  <2> QED
    BY <1>2, <2>2, LengthOf
<1> HIDE DEF n, kept, sorted
<1>6. ASSUME NEW i \in 1..n
      PROVE  /\ kept[i].metric = ref[i].metric
             /\ kept[i].values = IF DropsFirst(tweaks) THEN Tail(ref[i].values) ELSE ref[i].values
  <2>1. CASE ~DropsFirst(tweaks)
    BY <1>3, <2>1
  <2>2. CASE DropsFirst(tweaks)
    <3>1. kept[i] = [ref[i] EXCEPT !.values = Tail(@)]
      BY <1>1, <1>3, <2>2 DEF FirstDropped
    <3>2. PICK m, v : ref[i] = [metric |-> m, values |-> v]
      BY <1>1
    <3> QED
      BY <2>2, <3>1, <3>2
  <2> QED
    BY <2>1, <2>2
<1>7. CASE Len(matrix) # n
  <2>1. "missing" \in d
    BY <1>7 DEF Deviates, n
  <2>2. ~EqualMatrices(tweaks, kept, sorted)
    BY <1>4, <1>5, <1>7 DEF EqualMatrices
  <2> QED
    BY <2>1, <2>2 DEF kept, sorted
<1>8. CASE Len(matrix) = n
  <2>1. "missing" \notin d
    BY <1>8 DEF Deviates, n
  <2>2. PICK of \in Injection(1..n, 1..n) : \A i \in 1..n :
            /\ matrix[i].metric = [series |-> ref[of[i]].metric.series,
                                   extra |-> "extraLabel" \in d, upper |-> "upperCase" \in d]
            /\ ValuesDeviate(ref[of[i]].values, matrix[i].values, d, shift, tweaks)
    BY <1>1, <1>2, <1>8, Zenon DEF Deviates
  <2>3. ASSUME NEW i \in 1..n
        PROVE  /\ EqualMetrics(tweaks, kept[i].metric, sorted[i].metric) <=> labels
               /\ SameValues(tweaks, kept[i].values, sorted[i].values)
                    <=> /\ first /\ shift = 0
                        /\ "rounding" \in d /\ HasValue(kept[i].values) => Tolerates(tweaks)
    <3>1. PICK p \in [1..n -> 1..n] : \A k \in 1..n : sorted[k] = matrix[p[k]] /\ of[p[k]] = k
      <4> DEFINE num == [k \in 1..n |-> ref[k].metric.series]
      <4>1. num \in [1..n -> Int]
        BY <1>1
      <4>2. \A k, l \in 1..n : k < l => num[k] < num[l]
        BY <1>1 DEF IsReference
      <4>3. \A k \in 1..n : matrix[k].metric.series = num[of[k]]
        <5>1. \A k \in 1..n : of[k] \in 1..n
          BY DEF Injection
        <5>3. ASSUME NEW k \in 1..n PROVE matrix[k].metric.series = ref[of[k]].metric.series
          <6>1. PICK e, u : matrix[k].metric
                              = [series |-> ref[of[k]].metric.series, extra |-> e, upper |-> u]
            BY <2>2, Zenon
          <6> QED
            BY <6>1
        <5> QED
          BY <5>1, <5>3
      <4>4. n \in Nat /\ DOMAIN matrix = 1..n
        BY <1>1, <1>2, <1>8
      <4> HIDE DEF num
      <4>5. PICK p \in [1..n -> 1..n] : Restores(p, of, matrix, n)
        BY <4>1, <4>2, <4>3, <4>4, SortedIsInOrder
      <4> QED
        BY <4>5 DEF sorted, Restores
    <3>2. p[i] \in 1..n /\ of[p[i]] = i /\ sorted[i] = matrix[p[i]]
      BY <3>1
    <3>3. /\ sorted[i].metric = [series |-> ref[i].metric.series,
                                 extra |-> "extraLabel" \in d, upper |-> "upperCase" \in d]
          /\ ValuesDeviate(ref[i].values, sorted[i].values, d, shift, tweaks)
      BY <2>2, <3>2, Zenon
    <3>4. /\ kept[i].metric = ref[i].metric
          /\ kept[i].values = IF DropsFirst(tweaks) THEN Tail(ref[i].values) ELSE ref[i].values
      BY <1>6
    <3>6. EqualMetrics(tweaks, kept[i].metric, sorted[i].metric) <=> labels
      <4>1. ("extraLabel" \in d) \in BOOLEAN /\ ("upperCase" \in d) \in BOOLEAN
        OBVIOUS
      <4>2. EqualMetrics(tweaks, [series |-> ref[i].metric.series, extra |-> FALSE, upper |-> FALSE],
                                 [series |-> ref[i].metric.series,
                                  extra |-> "extraLabel" \in d, upper |-> "upperCase" \in d])
              <=> labels
        BY <4>1, MetricsAreEqual, Zenon
      <4> QED
        BY <1>1, <3>3, <3>4, <4>2, Zenon
    <3>7. SameValues(tweaks, kept[i].values, sorted[i].values)
            <=> /\ first /\ shift = 0
                /\ "rounding" \in d /\ HasValue(kept[i].values) => Tolerates(tweaks)
      <4>1. ref[i].values \in SeriesValues /\ Len(ref[i].values) > 1
        BY <1>1
      <4>2. kept[i].values = KeptValues(tweaks, ref[i].values)
        BY <3>4 DEF KeptValues
      <4>3. ValuesDeviate(ref[i].values, sorted[i].values, d, shift, tweaks)
        BY <3>3, Zenon
      <4> QED
        BY <4>1, <4>2, <4>3, ValuesAreEqual
    <3> QED
      BY <3>6, <3>7
  <2>4. PICK i \in 1..n : HasValue(kept[i].values)
    <3>1. PICK i \in 1..n : \E j \in 2..Len(ref[i].values) : ref[i].values[j].value # NaN
      BY <1>1 DEF IsReference
    <3>2. PICK j \in 2..Len(ref[i].values) : ref[i].values[j].value # NaN
      BY <3>1
    <3> DEFINE xs == ref[i].values
    <3>3. \A X : xs \in Seq(X) /\ Len(xs) > 1 =>
              j \in DOMAIN xs /\ j - 1 \in DOMAIN Tail(xs) /\ Tail(xs)[j - 1] = xs[j]
      BY <3>2
    <3>4. j \in DOMAIN xs /\ j - 1 \in DOMAIN Tail(xs) /\ Tail(xs)[j - 1] = xs[j]
      BY <1>1, <3>3, Zenon DEF SeriesValues
    <3>5. kept[i].values = IF DropsFirst(tweaks) THEN Tail(xs) ELSE xs
      BY <1>6
    <3> QED
      BY <3>2, <3>4, <3>5 DEF HasValue
  <2>5. EqualMatrices(tweaks, kept, sorted)
          <=> \A k \in 1..n : /\ EqualMetrics(tweaks, kept[k].metric, sorted[k].metric)
                              /\ SameValues(tweaks, kept[k].values, sorted[k].values)
    BY <1>4, <1>5, <1>8 DEF EqualMatrices, SameValues
  <2> HIDE DEF labels, first
  <2>6. EqualMatrices(tweaks, kept, sorted)
          <=> labels /\ first /\ shift = 0 /\ ("rounding" \in d => Tolerates(tweaks))
    BY <2>3, <2>4, <2>5
  <2> QED
    BY <2>1, <2>6 DEF labels, first, kept, sorted
<1> QED
  BY <1>7, <1>8

(* What a configuration excuses and what it needs, one deviation at a      *)
(* time.                                                                   *)
LEMMA ExcusedAndNeeded ==
    ASSUME NEW tweaks,
           NEW d, d \subseteq {"extraLabel", "upperCase", "firstStep", "grid", "rounding", "missing"}
    PROVE  d \subseteq Excused(tweaks) /\ Needed(tweaks) \subseteq d
             <=> /\ "missing" \notin d
                 /\ "extraLabel" \in d => \E w \in DOMAIN tweaks : tweaks[w].dropLabels
                 /\ "upperCase" \in d => \E w \in DOMAIN tweaks : tweaks[w].ignoreCase
                 /\ "firstStep" \in d <=> DropsFirst(tweaks)
                 /\ "grid" \in d => \E w \in DOMAIN tweaks : tweaks[w].align
                 /\ "rounding" \in d => Tolerates(tweaks)
<1> DEFINE E == Excused(tweaks)
<1>1. /\ "missing" \notin E
      /\ "extraLabel" \in E <=> \E w \in DOMAIN tweaks : tweaks[w].dropLabels
      /\ "upperCase" \in E <=> \E w \in DOMAIN tweaks : tweaks[w].ignoreCase
      /\ "firstStep" \in E <=> DropsFirst(tweaks)
      /\ "grid" \in E <=> \E w \in DOMAIN tweaks : tweaks[w].align
      /\ "rounding" \in E <=> Tolerates(tweaks)
  BY DEF Excused, DropsFirst, Tolerates
<1>2. Needed(tweaks) = E \cap {"firstStep"}
  BY DEF Needed
<1> HIDE DEF E
<1>3. d \subseteq E <=> \A x \in {"extraLabel", "upperCase", "firstStep", "grid", "rounding", "missing"} :
                           x \in d => x \in E
  OBVIOUS
<1>4. Needed(tweaks) \subseteq d <=> ("firstStep" \in E => "firstStep" \in d)
  BY <1>2
<1> QED
  BY <1>1, <1>3, <1>4 DEF E

(* What is answered as expected is what complies, and nothing else.        *)
LEMMA CompliesAsAnswered ==
    ASSUME TypeOK, NEW t \in Tests, answer[t] # NoAnswer
    PROVE  AnsweredAsExpected(t) <=> Complies(t)
<1> DEFINE tc == suite.tests[t]
           d == answer[t].deviations
           equal == EqualMatrices(suite.tweaks, IgnoreFirstSteps(suite.tweaks, RefResult(t), tc.start),
                                  Sorted(TestResult(t)))
           allowed == d \subseteq Excused(suite.tweaks) /\ Needed(suite.tweaks) \subseteq d
           offGrid == tc.start % suite.resolution
           shift == IF "grid" \in d THEN offGrid ELSE 0
<1>1. suite \in Suites /\ t \in 1..Len(suite.tests) /\ answer[t] \in Answers(tc)
  BY DEF TypeOK, Tests
<1>2. suite.tweaks \in Seq(Tweaks) /\ suite.resolution \in Nat \ {0}
  BY <1>1, SuitesAssumption
<1>3. /\ tc.start \in Int
      /\ offGrid = 0 <=> \E w \in DOMAIN suite.tweaks : suite.tweaks[w].align
      /\ IsReference(RefResult(t), tc.start)
      /\ d \subseteq {"extraLabel", "upperCase", "firstStep", "grid", "rounding", "missing"}
      /\ Deviates(RefResult(t), TestResult(t), d, shift, suite.tweaks)
  BY <1>1, DeviationsAssumption, Zenon DEF RefResult, TestResult
<1>4. shift \in Int
  BY <1>2, <1>3
<1>5. shift = 0 <=> ("grid" \in d => \E w \in DOMAIN suite.tweaks : suite.tweaks[w].align)
  BY <1>3
<1> HIDE DEF tc, shift, d
<1>6. equal <=> allowed
  <2> DEFINE others ==
        /\ "missing" \notin d
        /\ "extraLabel" \in d => \E w \in DOMAIN suite.tweaks : suite.tweaks[w].dropLabels
        /\ "upperCase" \in d => \E w \in DOMAIN suite.tweaks : suite.tweaks[w].ignoreCase
        /\ "firstStep" \in d <=> DropsFirst(suite.tweaks)
        /\ "rounding" \in d => Tolerates(suite.tweaks)
  <2>1. equal <=> others /\ shift = 0
    BY <1>2, <1>3, <1>4, DeviationsAreSeen
  <2>2. allowed <=> others /\ ("grid" \in d => \E w \in DOMAIN suite.tweaks : suite.tweaks[w].align)
    BY <1>3, ExcusedAndNeeded
  <2> QED
    BY <1>5, <2>1, <2>2
<1> QED
  BY <1>6, Zenon DEF AnsweredAsExpected, Complies, tc, d

(* Whatever the order of the goroutines and of the series, the status is   *)
(* about what the target does other than the reference and the tweaks of   *)
(* its configuration are not there for.                                    *)
THEOREM VerdictsAreAboutTheTarget == Spec => []VerdictIsAboutTheTarget
<1>1. ASSUME IInv, VerdictIsAboutTheAnswers, exit \in {"0", "1"}
      PROVE  exit = "0" <=> \A t \in Tests : Complies(t)
  <2>1. TypeOK /\ wg = 0
    BY <1>1 DEF IInv
  <2>2. \A t \in Tests : pc[t] = "done"
    BY <1>1, <2>1, WaitIsOver
  <2>3. ASSUME NEW t \in Tests PROVE AnsweredAsExpected(t) <=> Complies(t)
    BY <1>1, <2>1, <2>2, CompliesAsAnswered DEF IInv, ResultsAreOwn, Marked
  <2> QED
    BY <1>1, <2>3 DEF VerdictIsAboutTheAnswers
<1>2. IInv /\ VerdictIsAboutTheAnswers => VerdictIsAboutTheTarget
  BY <1>1 DEF VerdictIsAboutTheTarget
<1>3. QED
  BY <1>2, InductiveInvariant, VerdictsAreAboutTheAnswers, PTL

----------------------------------------------------------------------------
(* What the refinement sees of a state. *)
running == {t \in Tests : pc[t] \in Holding}
outcome == [t \in Tests |-> IF ~HasOutcome(t) THEN "none"
                            ELSE IF Success(results[t]) THEN "success" ELSE "failure"]
verdict == CASE exit = "no" -> "none"
             [] exit = "0"  -> "passed"
             [] exit = "1"  -> "failed"
             [] exit \in {"fatal", "panic"} -> "aborted"

Same == UNCHANGED <<Tests, running, outcome, verdict>>

(* ComparisonRun counts with the Cardinality of its own FiniteSets. *)
LEMMA SameCardinality == ASSUME NEW S PROVE Run!Cardinality(S) = Cardinality(S)
BY DEF Run!Cardinality, Cardinality

(* Each step of the process is a step of ComparisonRun, or none. *)
LEMMA StepImplements == ASSUME IInv, [Next]_vars PROVE [Run!ANext]_(Run!avars)
<1>0. Same => UNCHANGED Run!avars
  BY DEF Same, running, outcome, verdict, Run!avars
<1>1. /\ TypeOK
      /\ pc \in [Tests -> {"off", "released", "done"} \cup Holding]
  BY DEF IInv, TypeOK
<1>2. CASE Start
  <2>0. started + 1 \in Tests
    BY <1>1, <1>2, TestsAreFinite DEF Start, HasRoom, TypeOK, Tests
  <2> PICK t \in Tests : t = started + 1
    BY <2>0
  <2>1. pc[t] = "off" /\ Tests' = Tests /\ exit = "no" /\ exit' = exit
    BY <1>1, <1>2, TestsAreFinite DEF IInv, Start, HasRoom, TypeOK, Tests
  <2>2. pc' = [pc EXCEPT ![t] = "reference"] /\ results' = results
    BY <1>2 DEF Start, HasRoom
  <2>3. Cardinality(running) < Parallelism
    BY <1>2 DEF IInv, Start, HasRoom, Tokens, running
  <2>4. running' = running \cup {t} /\ t \notin running
    BY <1>1, <2>1, <2>2 DEF running, Holding
  <2>5. outcome[t] = "none" /\ outcome' = outcome
    BY <1>1, <2>1, <2>2 DEF outcome, HasOutcome
  <2>6. verdict = "none" /\ verdict' = "none"
    BY <2>1 DEF verdict
  <2>7. Run!Begin(t)
    <3>1. Run!Cardinality({u \in Tests : pc[u] \in Holding}) < Parallelism
      BY <2>3, SameCardinality DEF running
    <3>2. QED
      BY <2>1, <2>4, <2>5, <2>6, <3>1 DEF Run!Begin, running, outcome, verdict
  <2>8. QED
    BY <2>7 DEF Run!ANext
<1>3. CASE Output
  <2>1. UNCHANGED <<Tests, running, outcome>> /\ exit = "no"
    BY <1>3 DEF Output, AllDone, Tests, running, outcome, HasOutcome
  <2>2. IInv' /\ exit' \in {"0", "1"}
    BY <1>3, OutputKeepsInvariant DEF Output, AllDone
  <2>3. /\ \A t \in Tests : pc[t] = "done"
        /\ exit' = "0" <=> \A t \in Tests : Success(results[t])
    BY <1>3, WaitIsOver DEF Output, AllDone
  <2>4. /\ \A t \in Tests : outcome[t] # "none"
        /\ (\E t \in Tests : outcome[t] = "failure") <=> exit' = "1"
    BY <2>2, <2>3 DEF outcome, HasOutcome
  <2>5. verdict = "none" /\ verdict' = IF exit' = "1" THEN "failed" ELSE "passed"
    BY <2>1, <2>2 DEF verdict
  <2>6. Run!Declare
    BY <2>1, <2>4, <2>5 DEF Run!Declare, running, outcome, verdict
  <2>7. QED
    BY <2>6 DEF Run!ANext
<1>4. ASSUME NEW t \in Tests, Release(t) PROVE Run!Finish(t)
  <2>1. /\ Tests' = Tests /\ exit = "no" /\ exit' = exit /\ results' = results
        /\ pc[t] = "marked" /\ pc' = [pc EXCEPT ![t] = "released"]
    BY <1>4 DEF Release, OneLess, At, To, Tests
  <2>2. running' = running \ {t} /\ t \in running
    BY <1>1, <1>4, <2>1 DEF running, Holding
  <2>3. outcome' = [outcome EXCEPT ![t] = IF Success(results[t]) THEN "success" ELSE "failure"]
    BY <1>1, <1>4, <2>1 DEF outcome, HasOutcome
  <2>4. \E o \in {"success", "failure"} : outcome' = [outcome EXCEPT ![t] = o]
    BY <2>3
  <2>5. verdict = "none" /\ verdict' = verdict
    BY <2>1 DEF verdict
  <2>6. QED
    BY <2>1, <2>2, <2>4, <2>5 DEF Run!Finish, running, outcome, verdict
<1>5. ASSUME NEW t \in Tests, Die(t) PROVE Run!Abort
  <2>1. /\ UNCHANGED <<Tests, running, outcome>>
        /\ pc[t] = "compared" /\ exit = "no" /\ exit' \in {"fatal", "panic"}
    BY <1>5 DEF Die, At, Tests, running, outcome, HasOutcome
  <2>2. running # {}
    BY <1>5, <2>1 DEF running, Holding
  <2>3. verdict = "none" /\ verdict' = "aborted"
    BY <2>1 DEF verdict
  <2>4. QED
    BY <2>1, <2>2, <2>3 DEF Run!Abort, running, outcome, verdict
<1>6. ASSUME NEW t \in Tests, QueryReference(t) \/ QueryTest(t) \/ Store(t) \/ Mark(t) \/ Done(t)
      PROVE Same
  <2>1. /\ Tests' = Tests /\ exit' = exit
        /\ \E stage : pc' = [pc EXCEPT ![t] = stage]
                      /\ (pc[t] \in Holding <=> stage \in Holding)
                      /\ (pc[t] \in {"released", "done"} <=> stage \in {"released", "done"})
    BY <1>6 DEF QueryReference, QueryTest, Store, Mark, AllResults, Done, At, To, Tests, Holding
  <2>2. \A u \in Tests : results'[u] = results[u] \/ ~HasOutcome(u)
    BY <1>1, <1>6 DEF QueryReference, QueryTest, Store, Mark, AllResults, Done, At, HasOutcome, TypeOK
  <2>3. \A u \in Tests : /\ pc'[u] \in Holding <=> pc[u] \in Holding
                         /\ HasOutcome(u)' <=> HasOutcome(u)
    BY <1>1, <1>6, <2>1 DEF HasOutcome
  <2>4. QED
    BY <2>1, <2>2, <2>3 DEF Same, running, outcome, verdict
<1>7. ASSUME UNCHANGED vars PROVE Same
  BY <1>7 DEF vars, Same, Tests, running, outcome, HasOutcome, verdict
<1>8. QED
  <2>1. ASSUME NEW t \in Tests, Goroutine(t) PROVE [Run!ANext]_(Run!avars)
    BY <1>0, <1>4, <1>5, <1>6, <2>1 DEF Goroutine, Run!ANext
  <2>2. QED
    BY <1>0, <1>2, <1>3, <1>7, <2>1 DEF Next, Main

(* The parallel run implements ComparisonRun. *)
THEOREM PoolImplementsRun == Spec => ImplementsRun
<1>1. Init => Run!AInit
  BY DEF Init, Run!AInit, HasOutcome, Holding
<1>2. IInv /\ [Next]_vars => [Run!ANext]_(Run!avars)
  BY StepImplements
<1>3. QED
  BY <1>1, <1>2, InductiveInvariant, PTL DEF Spec, ImplementsRun, Run!ASpec
=============================================================================
