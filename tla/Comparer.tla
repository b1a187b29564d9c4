------------------------------ MODULE Comparer ------------------------------
(***************************************************************************)
(* What a comparison makes of the answers of the reference API and of the  *)
(* test API to the same range query (comparer.go).                         *)
(*                                                                         *)
(* An answer is [latency, failed, says501]: seconds, whether it is an error *)
(* and whether its text contains "501". A success carries a matrix, a      *)
(* sequence of [metric, values]. A metric is [series, extra, upper]: the   *)
(* labels both APIs know, whether a label of the target's own comes on top *)
(* and whether the target writes it in upper case. A sample is [timestamp, *)
(* value] with the timestamp in milliseconds.                              *)
(***************************************************************************)
EXTENDS Integers, Sequences, SequencesExt

CONSTANT NaN

Nil == -1                \* a tolerance that a tweak does not adjust
Deadline == 10          \* seconds both queries have together
FirstStepDelta == 2     \* milliseconds
PerUnit == 100000       \* fractions are counted in defaultFraction, 1/100000

(* The answer a query gets when `elapsed` seconds of the deadline are gone. *)
InTime(answer, elapsed) ==
    IF elapsed + answer.latency < Deadline THEN answer
    ELSE [latency |-> Deadline - elapsed, failed |-> TRUE, says501 |-> FALSE]

(* The last tweak that adjusts one of the two tolerances wins. *)
Adjusted(tweaks, which, default) ==
    LET adjusting == {w \in DOMAIN tweaks : tweaks[w].tolerance[which] # Nil}
    IN IF adjusting = {} THEN default ELSE tweaks[Max(adjusting)].tolerance[which]

Magnitude(x) == IF x < 0 THEN -x ELSE x

EqualValues(tweaks, x, y) ==
    \/ x = y
    \/ /\ NaN \notin {x, y}
       /\ \/ Magnitude(x - y) <= Adjusted(tweaks, "margin", 0)
          \/ \A z \in {x, y} :
                 Magnitude(x - y) * PerUnit <= Adjusted(tweaks, "fraction", 1) * Magnitude(z)

DropResultLabels(tweaks, metric) ==
    IF \E t \in Range(tweaks) : t.dropLabels THEN [metric EXCEPT !.extra = FALSE] ELSE metric

TranslateToLowerCase(tweaks, metric) ==
    IF \E t \in Range(tweaks) : t.ignoreCase THEN [metric EXCEPT !.upper = FALSE] ELSE metric

EqualMetrics(tweaks, m, n) ==
    TranslateToLowerCase(tweaks, DropResultLabels(tweaks, m))
        = TranslateToLowerCase(tweaks, DropResultLabels(tweaks, n))

EqualMatrices(tweaks, ref, test) ==
    /\ Len(ref) = Len(test)
    /\ \A i \in DOMAIN ref :
        /\ EqualMetrics(tweaks, ref[i].metric, test[i].metric)
        /\ Len(ref[i].values) = Len(test[i].values)
        /\ \A j \in DOMAIN ref[i].values :
            /\ ref[i].values[j].timestamp = test[i].values[j].timestamp
            /\ EqualValues(tweaks, ref[i].values[j].value, test[i].values[j].value)

(* cmp panics when two transformers apply to one value: two tweaks that    *)
(* transform metrics do, on the first two series compared.                 *)
Ambiguous(tweaks, ref, test) ==
    /\ ref # <<>> /\ test # <<>>
    /\ Len(SelectSeq(tweaks, LAMBDA t : t.dropLabels))
           + Len(SelectSeq(tweaks, LAMBDA t : t.ignoreCase)) > 1

(* A series that had only its first step stays, without a sample. *)
WithoutFirstStep(series, start) ==
    IF series.values # <<>> /\ series.values[1].timestamp - start <= FirstStepDelta
    THEN [series EXCEPT !.values = Tail(@)] ELSE series

(* Every tweak that ignores the first step takes its turn. *)
IgnoreFirstSteps(tweaks, matrix, start) ==
    LET left[n \in 0..Len(tweaks)] ==
            IF n = 0 THEN matrix
            ELSE IF tweaks[n].ignoreFirstStep
            THEN [i \in DOMAIN left[n - 1] |-> WithoutFirstStep(left[n - 1][i], start)]
            ELSE left[n - 1]
    IN left[Len(tweaks)]

(* Only the test result is sorted: its series p[1], p[2], ... *)
Sorts(p, matrix) ==
    \A i, j \in DOMAIN matrix :
        i < j => matrix[p[i]].metric.series <= matrix[p[j]].metric.series
Sorted(matrix) ==
    LET p == CHOOSE p \in Bijection(DOMAIN matrix, DOMAIN matrix) : Sorts(p, matrix)
    IN [i \in DOMAIN matrix |-> matrix[p[i]]]

Passed == [diff |-> FALSE, unexpectedFailure |-> FALSE,
           unexpectedSuccess |-> FALSE, unsupported |-> FALSE]

Success(result) ==
    ~result.diff /\ ~result.unexpectedFailure /\ ~result.unexpectedSuccess

(* The reference API itself does not do what the test case says it does. *)
ReferenceIsOff(tc, ref) == ref.failed # tc.shouldFail

IsCompared(tc, ref, test) ==
    ~ReferenceIsOff(tc, ref) /\ ~test.failed /\ ~tc.skipComparison /\ ~tc.shouldFail

Panics(tc, tweaks, ref, test, refResult, testResult) ==
    IsCompared(tc, ref, test) /\ Ambiguous(tweaks, refResult, testResult)

Compare(tc, tweaks, ref, test, refResult, testResult) ==
    IF test.failed # tc.shouldFail
    THEN IF test.failed
         THEN [Passed EXCEPT !.unexpectedFailure = TRUE, !.unsupported = test.says501]
         ELSE [Passed EXCEPT !.unexpectedSuccess = TRUE]
    ELSE [Passed EXCEPT !.diff =
             /\ IsCompared(tc, ref, test)
             /\ ~EqualMatrices(tweaks, IgnoreFirstSteps(tweaks, refResult, tc.start),
                               Sorted(testResult))]
=============================================================================
