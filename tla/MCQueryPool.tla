---------------------------- MODULE MCQueryPool ----------------------------
(* Instances of QueryPool for TLC: a short table of arguments, the tweaks of *)
(* the vendors' configurations and targets that deviate in the ways these    *)
(* are there for.                                                            *)
EXTENDS QueryPool

VariantArgs == [op |-> <<"sum", "avg">>, range |-> <<"1m", "5m">>]

NoTweak ==
    [truncate |-> 0, align |-> FALSE, offset |-> 0, dropLabels |-> FALSE, ignoreCase |-> FALSE,
     ignoreFirstStep |-> FALSE, tolerance |-> [margin |-> Nil, fraction |-> Nil]]

NewRelic == << [NoTweak EXCEPT !.truncate = 1000], [NoTweak EXCEPT !.dropLabels = TRUE],
               [NoTweak EXCEPT !.ignoreFirstStep = TRUE] >>
Sysdig == << [NoTweak EXCEPT !.align = TRUE], [NoTweak EXCEPT !.dropLabels = TRUE] >>
Tolerant == << [NoTweak EXCEPT !.tolerance = [margin |-> 0, fraction |-> Nil]],
               [NoTweak EXCEPT !.tolerance = [margin |-> Nil, fraction |-> 2000]] >>
Caseless == << [NoTweak EXCEPT !.ignoreCase = TRUE] >>
TwoTransformers == << [NoTweak EXCEPT !.dropLabels = TRUE], [NoTweak EXCEPT !.ignoreCase = TRUE] >>

Template(variantArgs, skip, fail) ==
    [variantArgs |-> variantArgs, skipComparison |-> skip, shouldFail |-> fail]

Start0 == 61003
Resolution == 10000

SuiteOf(cases, tweaks) ==
    [cases |-> cases, tweaks |-> tweaks, start |-> Start0, end |-> Start0 + 2 * Resolution,
     resolution |-> Resolution,
     tests |-> ExpandTestCases(cases, tweaks, Start0, Start0 + 2 * Resolution, Resolution)]

OneQuery == << Template(<<>>, FALSE, FALSE) >>

MCSuites ==
    {SuiteOf(<< Template(<<"op", "range", "op">>, FALSE, FALSE) >>, <<>>),
     SuiteOf(<< Template(<<>>, TRUE, FALSE), Template(<<>>, FALSE, TRUE),
                Template(<<>>, FALSE, FALSE) >>, <<>>)}
    \cup {SuiteOf(OneQuery, w) : w \in {<<>>, NewRelic, Sysdig, Tolerant, Caseless, TwoTransformers}}

(* What the target puts into its answer when it deviates in the given ways. *)
Grid == 10000
Samples(tc, s, deviations) ==
    LET start == IF "grid" \in deviations THEN Truncate(tc.start, Grid) ELSE tc.start
        all == [k \in 1..3 |->
                   LET ts == start + (k - 1) * Resolution
                   IN [timestamp |-> ts,
                       value |-> (ts \div 1000) + s + (IF "rounding" \in deviations THEN 1 ELSE 0)]]
    IN IF "firstStep" \in deviations THEN Tail(all) ELSE all

MCMatrixOf(tc, deviations) ==
    LET ofSeries == [s \in 1..2 |->
            [metric |-> [series |-> s, extra |-> "extraLabel" \in deviations,
                         upper |-> "upperCase" \in deviations],
             values |-> IF s = 1 THEN Samples(tc, 1, deviations)
                        ELSE [j \in DOMAIN Samples(tc, 2, deviations) |->
                                 [Samples(tc, 2, deviations)[j] EXCEPT !.value = NaN]]]]
    IN IF "missing" \in deviations THEN SubSeq(ofSeries, 2, 2)
       ELSE IF deviations = {} THEN ofSeries ELSE Reverse(ofSeries)

Succeeds(latency) == [latency |-> latency, failed |-> FALSE, says501 |-> FALSE]
Fails(says501) == [latency |-> 0, failed |-> TRUE, says501 |-> says501]

Pair(ref, test, deviations) == [ref |-> ref, test |-> test, deviations |-> deviations]

Agrees == Pair(Succeeds(0), Succeeds(0), {})
Misses == Pair(Succeeds(0), Succeeds(0), {"missing"})
BothFail == Pair(Fails(FALSE), Fails(FALSE), {})
Few == {Agrees, Misses, BothFail, Pair(Succeeds(0), Fails(TRUE), {}),
        Pair(Succeeds(6), Succeeds(6), {}), Pair(Succeeds(12), Succeeds(0), {})}

Deviations ==
    {d \in SUBSET {"extraLabel", "upperCase", "firstStep", "grid", "rounding", "missing"} :
        Cardinality(d) <= 2}

MCAnswers(tc) ==
    IF tc.args # <<>> THEN {Agrees, Misses, BothFail}
    ELSE IF tc.case > 1 \/ tc.skipComparison THEN Few
    ELSE Few \cup {Pair(Succeeds(0), Succeeds(9), d) : d \in Deviations}
=============================================================================
