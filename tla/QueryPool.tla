------------------------------ MODULE QueryPool ------------------------------
(***************************************************************************)
(* The parallel run of the PromQL tester (promql-compliance-tester,        *)
(* main.go): main starts one goroutine per expanded test case, bounded by  *)
(* a channel with room for query-parallelism tokens, waits for all of them *)
(* and prints the results. A goroutine compares the answers of the two     *)
(* APIs to its query.                                                      *)
(***************************************************************************)
EXTENDS Comparer, TestCaseExpansion

CONSTANTS Suites,       \* what a configuration tests: cases, tweaks and the range of time
                        \* from start to end, with the tests they expand to
          Answers(_),   \* test case -> the pairs of answers it may be given
          MatrixOf(_, _),  \* test case, deviations -> what a target that deviates so returns
          Parallelism   \* query-parallelism

ASSUME ParallelismAssumption == Parallelism \in Nat

Tweaks ==
    [truncate : Nat, align : BOOLEAN, offset : Int,
     dropLabels : BOOLEAN, ignoreCase : BOOLEAN, ignoreFirstStep : BOOLEAN,
     tolerance : [margin : Nat \cup {Nil}, fraction : Nat \cup {Nil}]]

ASSUME SuitesAssumption ==
    \A s \in Suites :
        /\ s.cases \in Seq(Templates) /\ s.tweaks \in Seq(Tweaks)
        /\ s.resolution \in Nat \ {0}
        /\ s.tests = ExpandTestCases(s.cases, s.tweaks, s.start, s.end, s.resolution)

NoAnswer == [none |-> TRUE]

ASSUME AnswersAssumption ==
    \A s \in Suites : \A t \in 1..Len(s.tests) : \A a \in Answers(s.tests[t]) :
        /\ a # NoAnswer
        /\ \A api \in {a.ref, a.test} :
            api.latency \in Nat /\ api.failed \in BOOLEAN /\ api.says501 \in BOOLEAN

VARIABLES suite,        \* what is tested
          started,      \* tests the loop of main has started
          workCh,       \* tokens in the channel
          wg,           \* what the wait group still waits for
          pc,           \* test -> where its goroutine is
          answer,       \* test -> the pair of answers it is being or was given
          results,      \* test -> its result
          allSuccess,
          exit          \* "no", or the status the process ended with

vars == <<suite, started, workCh, wg, pc, answer, results, allSuccess, exit>>

NoResult == [none |-> TRUE]

Tests == 1..Len(suite.tests)

BooleanResults ==
    [diff : BOOLEAN, unexpectedFailure : BOOLEAN, unexpectedSuccess : BOOLEAN, unsupported : BOOLEAN]

(* Stages of a goroutine that holds a token. *)
Holding == {"reference", "test", "compared", "stored", "marked"}

TypeOK ==
    /\ suite \in Suites
    /\ started \in 0..Len(suite.tests)
    /\ workCh \in 0..Parallelism
    /\ wg \in 0..Len(suite.tests)
    /\ pc \in [Tests -> {"off", "released", "done"} \cup Holding]
    /\ DOMAIN answer = Tests
    /\ \A t \in Tests : answer[t] \in Answers(suite.tests[t]) \cup {NoAnswer}
    /\ results \in [Tests -> BooleanResults \cup {NoResult}]
    /\ allSuccess \in BOOLEAN
    /\ exit \in {"no", "0", "1", "fatal", "panic"}

Init ==
    /\ suite \in Suites
    /\ started = 0
    /\ workCh = 0
    /\ wg = Len(suite.tests)
    /\ pc = [t \in Tests |-> "off"]
    /\ answer = [t \in Tests |-> NoAnswer]
    /\ results = [t \in Tests |-> NoResult]
    /\ allSuccess = TRUE
    /\ exit = "no"

----------------------------------------------------------------------------
(* main *)

IsUnbounded == TRUE
HasRoom == workCh < Parallelism

(* A token goes into the channel, when there is room, and the next goroutine starts. *)
Start ==
    /\ exit = "no"
    /\ started < Len(suite.tests)
    /\ HasRoom
    /\ workCh' = workCh + 1
    /\ started' = started + 1
    /\ pc' = [pc EXCEPT ![started + 1] = "reference"]
    /\ UNCHANGED <<suite, wg, answer, results, allSuccess, exit>>

AllStarted == TRUE
AllDone == wg = 0

(* The wait is over: the results are printed and the process ends. *)
Output ==
    /\ exit = "no"
    /\ started = Len(suite.tests)
    /\ AllDone
    /\ exit' = IF allSuccess THEN "0" ELSE "1"
    /\ UNCHANGED <<suite, started, workCh, wg, pc, answer, results, allSuccess>>

----------------------------------------------------------------------------
(* The goroutine of test t *)

At(t, stage) == exit = "no" /\ pc[t] = stage

To(t, stage) == pc' = [pc EXCEPT ![t] = stage]

(* The reference API answers, or the deadline passes. *)
QueryReference(t) ==
    /\ At(t, "reference")
    /\ \E a \in Answers(suite.tests[t]) : answer' = [answer EXCEPT ![t] = a]
    /\ To(t, "test")
    /\ UNCHANGED <<suite, started, workCh, wg, results, allSuccess, exit>>

RefAnswer(t) == InTime(answer[t].ref, 0)

TestAnswerInItsOwnTime(t) == InTime(answer[t].test, 0)

(* The test API has what the reference API left of the deadline. *)
TestAnswer(t) == InTime(answer[t].test, RefAnswer(t).latency)

RefResult(t) == MatrixOf(suite.tests[t], {})
TestResult(t) == MatrixOf(suite.tests[t], answer[t].deviations)

QueryTest(t) ==
    /\ At(t, "test")
    /\ To(t, "compared")
    /\ UNCHANGED <<suite, started, workCh, wg, answer, results, allSuccess, exit>>

(* log.Fatalf or a panic ends the process, whatever the others are doing. *)
Die(t) ==
    /\ At(t, "compared")
    /\ \/ /\ ReferenceIsOff(suite.tests[t], RefAnswer(t))
          /\ exit' = "fatal"
       \/ /\ Panics(suite.tests[t], suite.tweaks, RefAnswer(t), TestAnswer(t),
                     RefResult(t), TestResult(t))
          /\ exit' = "panic"
    /\ UNCHANGED <<suite, started, workCh, wg, pc, answer, results, allSuccess>>

Store(t) ==
    /\ At(t, "compared")
    /\ ~ReferenceIsOff(suite.tests[t], RefAnswer(t))
    /\ ~Panics(suite.tests[t], suite.tweaks, RefAnswer(t), TestAnswer(t),
                     RefResult(t), TestResult(t))
    /\ results' = [results EXCEPT ![t] =
           Compare(suite.tests[t], suite.tweaks, RefAnswer(t), TestAnswer(t),
                     RefResult(t), TestResult(t))]
    /\ To(t, "stored")
    /\ UNCHANGED <<suite, started, workCh, wg, answer, allSuccess, exit>>

LastResult(t) == Success(results[t])
AllResults(t) == allSuccess /\ Success(results[t])

Mark(t) ==
    /\ At(t, "stored")
    /\ allSuccess' = AllResults(t)
    /\ To(t, "marked")
    /\ UNCHANGED <<suite, started, workCh, wg, answer, results, exit>>

AsMany == workCh
OneLess == workCh - 1

Release(t) ==
    /\ At(t, "marked")
    /\ workCh > 0
    /\ workCh' = OneLess
    /\ To(t, "released")
    /\ UNCHANGED <<suite, started, wg, answer, results, allSuccess, exit>>

Done(t) ==
    /\ At(t, "released")
    /\ wg' = wg - 1
    /\ To(t, "done")
    /\ UNCHANGED <<suite, started, workCh, answer, results, allSuccess, exit>>

Goroutine(t) ==
    \/ QueryReference(t) \/ QueryTest(t) \/ Die(t)
    \/ Store(t) \/ Mark(t) \/ Release(t) \/ Done(t)

Main == Start \/ Output

Next == Main \/ \E t \in Tests : Goroutine(t)

Spec == Init /\ [][Next]_vars

(* Something that can run does run; the deadline bounds every query. *)
FairSpec == Spec /\ WF_vars(Next)

----------------------------------------------------------------------------
(* Properties *)

(* README.md:45: no more than query-parallelism comparisons run at a time. *)
BoundedParallelism ==
    Cardinality({t \in Tests : pc[t] \in {"reference", "test"}}) <= Parallelism

(* The process prints results only when it has all of them, when no        *)
(* goroutine is left, and with a status that sums them up.                 *)
VerdictIsComplete ==
    exit \in {"0", "1"} =>
        /\ \A t \in Tests : pc[t] = "done" /\ results[t] # NoResult
        /\ exit = "0" <=> \A t \in Tests : Success(results[t])

(* How an answer may differ from the reference without failing the test. *)
Excused(tweaks) ==
    {d \in {"extraLabel", "upperCase", "firstStep", "grid", "rounding"} :
        \E w \in DOMAIN tweaks :
            \/ d = "extraLabel" /\ tweaks[w].dropLabels
            \/ d = "upperCase" /\ tweaks[w].ignoreCase
            \/ d = "firstStep" /\ tweaks[w].ignoreFirstStep
            \/ d = "grid" /\ tweaks[w].align
            \/ d = "rounding" /\ tweaks[w].tolerance.fraction # Nil}

(* A target that leaves out no first step cannot be compared once the      *)
(* tweaks drop the first step of the reference.                            *)
Needed(tweaks) == Excused(tweaks) \cap {"firstStep"}

(* What the reference returns to a range query: series in the order of     *)
(* their labels, each with its first step, and no other, at the start.     *)
SeriesValues == Seq([timestamp : Int, value : Int \cup {NaN}])

IsReference(ref, start) ==
    /\ ref \in Seq([metric : [series : Int, extra : {FALSE}, upper : {FALSE}], values : SeriesValues])
    /\ \A i, j \in DOMAIN ref : i < j => ref[i].metric.series < ref[j].metric.series
    /\ \A i \in DOMAIN ref :
        /\ Len(ref[i].values) > 1
        /\ \A j \in DOMAIN ref[i].values :
            ref[i].values[j].timestamp - start <= FirstStepDelta <=> j = 1
    /\ \E i \in DOMAIN ref : \E j \in 2..Len(ref[i].values) : ref[i].values[j].value # NaN

(* Rounding exceeds the fraction that is tolerated by default, and every   *)
(* margin that a tweak sets, but no fraction that a tweak sets.            *)
IsRounded(x, y, tweaks) ==
    LET off == Magnitude(x - y) IN
    /\ x \in Int /\ y \in Int /\ NaN \notin {x, y}
    /\ \E z \in {x, y} : off * PerUnit > Magnitude(z)
    /\ \A w \in DOMAIN tweaks :
        /\ tweaks[w].tolerance.margin # Nil => off > tweaks[w].tolerance.margin
        /\ tweaks[w].tolerance.fraction # Nil =>
             \A z \in {x, y} : off * PerUnit <= tweaks[w].tolerance.fraction * Magnitude(z)

(* The values ys for the values xs of the reference, each earlier by shift. *)
ValuesDeviate(xs, ys, d, shift, tweaks) ==
    LET seen == IF "firstStep" \in d THEN Tail(xs) ELSE xs IN
    /\ ys \in SeriesValues /\ Len(ys) = Len(seen)
    /\ \A j \in DOMAIN ys :
        /\ ys[j].timestamp = seen[j].timestamp - shift
        /\ shift = 0 => IF "rounding" \in d /\ seen[j].value # NaN
                        THEN IsRounded(seen[j].value, ys[j].value, tweaks)
                        ELSE ys[j].value = seen[j].value

(* What a target that deviates as in d returns for what the reference does: *)
(* the same series, or fewer, in any order.                                *)
Deviates(ref, matrix, d, shift, tweaks) ==
    /\ matrix \in Seq(Range(matrix))
    /\ "missing" \in d <=> Len(matrix) # Len(ref)
    /\ \E of \in Injection(DOMAIN matrix, DOMAIN ref) : \A i \in DOMAIN matrix :
        /\ matrix[i].metric = [series |-> ref[of[i]].metric.series,
                               extra |-> "extraLabel" \in d, upper |-> "upperCase" \in d]
        /\ ValuesDeviate(ref[of[i]].values, matrix[i].values, d, shift, tweaks)

(* A target on a grid answers at multiples of the resolution, where the    *)
(* range of a test starts only if a tweak aligns it.                       *)
ASSUME DeviationsAssumption ==
    \A s \in Suites : \A t \in 1..Len(s.tests) :
        LET tc == s.tests[t]
            offGrid == tc.start % s.resolution
        IN
        /\ tc.start \in Int
        /\ offGrid = 0 <=> \E w \in DOMAIN s.tweaks : s.tweaks[w].align
        /\ IsReference(MatrixOf(tc, {}), tc.start)
        /\ \A a \in Answers(tc) :
            /\ a.deviations \subseteq {"extraLabel", "upperCase", "firstStep", "grid", "rounding", "missing"}
            /\ Deviates(MatrixOf(tc, {}), MatrixOf(tc, a.deviations), a.deviations,
                        IF "grid" \in a.deviations THEN offGrid ELSE 0, s.tweaks)

Complies(t) ==
    LET tc == suite.tests[t]  a == answer[t]
        late == a.ref.latency + a.test.latency >= Deadline
    IN \/ tc.shouldFail /\ (a.test.failed \/ late)
       \/ /\ ~tc.shouldFail /\ ~a.test.failed /\ ~late
          /\ \/ tc.skipComparison
             \/ /\ a.deviations \subseteq Excused(suite.tweaks)
                /\ Needed(suite.tweaks) \subseteq a.deviations

(* A target passes exactly when each of its answers came within what the   *)
(* reference API left of the 10 seconds and deviates from the reference by *)
(* nothing but what the query tweaks of its configuration are there for.   *)
VerdictIsAboutTheTarget ==
    exit \in {"0", "1"} => (exit = "0" <=> \A t \in Tests : Complies(t))

(* The same of whatever the APIs return: the target passes exactly when     *)
(* each of its answers came in what the reference API left of the 10       *)
(* seconds, failed where the test case is to fail, and otherwise is, with  *)
(* the tweaks applied, that of the reference to the same query; no result  *)
(* is another query's or of an answer that came too late.                  *)
AnsweredAsExpected(t) ==
    LET tc == suite.tests[t]  a == answer[t]
        late == a.ref.latency + a.test.latency >= Deadline
    IN \/ tc.shouldFail /\ (a.test.failed \/ late)
       \/ /\ ~tc.shouldFail /\ ~a.test.failed /\ ~late
          /\ \/ tc.skipComparison
             \/ EqualMatrices(suite.tweaks, IgnoreFirstSteps(suite.tweaks, RefResult(t), tc.start),
                              Sorted(TestResult(t)))

VerdictIsAboutTheAnswers ==
    exit \in {"0", "1"} => (exit = "0" <=> \A t \in Tests : AnsweredAsExpected(t))

(* When the process ends by itself every combination of the values of a    *)
(* template's arguments has been compared, and compared once.              *)
EveryVariantIsTested ==
    exit \in {"0", "1"} =>
        \A c \in DOMAIN suite.cases :
            LET mine == {t \in Tests : suite.tests[t].case = c /\ results[t] # NoResult}
                combinations == Combinations(Range(suite.cases[c].variantArgs))
            IN /\ {suite.tests[t].args : t \in mine} = combinations
               /\ Cardinality(mine) = Cardinality(combinations)

(* With room for a token in the channel, the process ends. *)
RunEnds == <>(exit # "no")

(* What every step keeps and the properties follow from: the channel and   *)
(* the wait group count the goroutines that hold a token and that are not  *)
(* done, and allSuccess sums up the results that have been marked.         *)
Unfinished == Holding \cup {"off", "released"}
Marked == {"marked", "released", "done"}

Tokens == Cardinality({t \in Tests : pc[t] \in Holding})
Pending == Cardinality({t \in Tests : pc[t] \in Unfinished})

(* A result is that of the answers the test's own query was given. *)
ResultsAreOwn ==
    \A t \in Tests : pc[t] \in Marked \cup {"stored"} =>
        /\ answer[t] # NoAnswer
        /\ ~ReferenceIsOff(suite.tests[t], RefAnswer(t))
        /\ results[t] = Compare(suite.tests[t], suite.tweaks, RefAnswer(t), TestAnswer(t),
                               RefResult(t), TestResult(t))

IInv ==
    /\ TypeOK
    /\ ResultsAreOwn
    /\ workCh = Tokens
    /\ wg = Pending
    /\ \A t \in Tests : pc[t] = "off" <=> t > started
    /\ \A t \in Tests : pc[t] \in {"test", "compared"} => answer[t] # NoAnswer
    /\ \A t \in Tests : pc[t] \in Marked \cup {"stored"} => results[t] \in BooleanResults
    /\ allSuccess <=> \A t \in Tests : pc[t] \in Marked => Success(results[t])
    /\ exit \in {"0", "1"} =>
           started = Len(suite.tests) /\ wg = 0 /\ (exit = "0" <=> allSuccess)

----------------------------------------------------------------------------
(* The promise of ComparisonRun: a test is under way while its goroutine   *)
(* holds a token, and its outcome counts once the token is given back.     *)
HasOutcome(t) == pc[t] \in {"released", "done"}

Run == INSTANCE ComparisonRun WITH
    tests <- Tests,
    running <- {t \in Tests : pc[t] \in Holding},
    outcome <- [t \in Tests |-> IF ~HasOutcome(t) THEN "none"
                                ELSE IF Success(results[t]) THEN "success" ELSE "failure"],
    verdict <- CASE exit = "no" -> "none"
                 [] exit = "0"  -> "passed"
                 [] exit = "1"  -> "failed"
                 [] exit \in {"fatal", "panic"} -> "aborted"

ImplementsRun == Run!ASpec
=============================================================================
