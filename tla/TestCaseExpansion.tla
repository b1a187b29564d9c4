-------------------------- MODULE TestCaseExpansion --------------------------
(***************************************************************************)
(* Expansion of templated PromQL test cases (testcases/expand.go): every   *)
(* combination of the values of a query's variant arguments, each over the *)
(* time range that the vendor's query tweaks leave of the configured one.  *)
(* Times are in milliseconds, counted from a multiple of every duration a  *)
(* tweak truncates to.                                                     *)
(***************************************************************************)
EXTENDS Integers, Sequences, SequencesExt

CONSTANT testVariantArgs   \* variant argument -> the sequence of its values

(* Every argument has values, each of them once.  *)
ASSUME VariantArgsAssumption ==
    \A vArg \in DOMAIN testVariantArgs :
        /\ testVariantArgs[vArg] \in Seq(Range(testVariantArgs[vArg])) \ {<<>>}
        /\ IsInjective(testVariantArgs[vArg])

(* The test cases of a configuration: templates that name known arguments. *)
Argument == DOMAIN testVariantArgs
Templates == [variantArgs : Seq(Argument), skipComparison : BOOLEAN, shouldFail : BOOLEAN]

(* args[vArg] = variantVal *)
Assigned(args, vArg, variantVal) ==
    [a \in DOMAIN args \cup {vArg} |-> IF a = vArg THEN variantVal ELSE args[a]]

VaryButTheLast(queries, vArg) ==
    FlattenSeq([q \in 1..Len(queries) |->
        [v \in 1..Len(testVariantArgs[vArg]) - 1 |->
            Assigned(queries[q], vArg, testVariantArgs[vArg][v])]])

(* Each of queries once per value of vArg, in order. *)
Vary(queries, vArg) ==
    FlattenSeq([q \in 1..Len(queries) |->
        [v \in 1..Len(testVariantArgs[vArg]) |->
            Assigned(queries[q], vArg, testVariantArgs[vArg][v])]])

(* An argument named again is dropped with its first occurrence. *)
Unrepeated(variantArgs) ==
    LET named[n \in 0..Len(variantArgs)] ==
            IF n = 0 THEN <<>>
            ELSE IF Contains(named[n - 1], variantArgs[n]) THEN named[n - 1]
            ELSE Append(named[n - 1], variantArgs[n])
    IN named[Len(variantArgs)]

(* The instantiations of a template's arguments, the first argument varying *)
(* slowest: the code's recursion, from its first level to its last.        *)
getVariants(variantArgs) ==
    LET args == Unrepeated(variantArgs)
        variants[n \in 0..Len(args)] ==
            IF n = 0 THEN << <<>> >> ELSE Vary(variants[n - 1], args[n])
    IN variants[Len(args)]

Truncate(ts, d) == ts - (ts % d)

(* One tweak truncates, then aligns, then shifts an end of the range. *)
Tweaked(ts, tweak, resolution) ==
    LET truncated == IF tweak.truncate = 0 THEN ts ELSE Truncate(ts, tweak.truncate)
        aligned   == IF tweak.align THEN Truncate(truncated, resolution) ELSE truncated
    IN aligned + tweak.offset

applyQueryTweaks(ts, tweaks, resolution) ==
    FoldLeft(LAMBDA t, tweak : Tweaked(t, tweak, resolution), ts, tweaks)

ExpandTestCases(cases, tweaks, start, end, resolution) ==
    FlattenSeq([c \in 1..Len(cases) |->
        LET variants == getVariants(cases[c].variantArgs)
        IN [v \in 1..Len(variants) |->
               [case |-> c, args |-> variants[v],
                skipComparison |-> cases[c].skipComparison,
                shouldFail |-> cases[c].shouldFail,
                start |-> applyQueryTweaks(start, tweaks, resolution),
                end |-> applyQueryTweaks(end, tweaks, resolution)]]])

(* What the instantiations of a template are to be: one for each            *)
(* combination of the values of its arguments.                              *)
Combinations(args) ==
    {f \in [args -> UNION {Range(testVariantArgs[a]) : a \in args}] :
        \A a \in args : f[a] \in Range(testVariantArgs[a])}
=============================================================================
