-------------------------- MODULE ExpansionProofs --------------------------
(***************************************************************************)
(* What getVariants and ExpandTestCases return for any table of arguments, *)
(* any templates and any query tweaks. Both are made of recursive          *)
(* functions, the library's FlattenSeq included; what holds of them        *)
(* follows by induction (SequenceLemmas).                                  *)
(***************************************************************************)
EXTENDS TestCaseExpansion, SequenceLemmas, FunctionTheorems, FiniteSetTheorems

(* A name that was named before is dropped, and nothing else.              *)
LEMMA UnrepeatedNames ==
    ASSUME NEW A, NEW variantArgs \in Seq(A)
    PROVE  /\ Unrepeated(variantArgs) \in Seq(A)
           /\ Range(Unrepeated(variantArgs)) = Range(variantArgs)
           /\ IsInjective(Unrepeated(variantArgs))
<1> DEFINE len == Len(variantArgs)
           Step(w, e) == IF Contains(w, e) THEN w ELSE Append(w, e)
           Prefix(n) == {variantArgs[i] : i \in 1..n}
           Holds(w, n) == w \in Seq(A) /\ Range(w) = Prefix(n) /\ IsInjective(w)
           Good == [n \in 0..len |-> {w \in Seq(A) : Holds(w, n)}]
           named[n \in 0..len] ==
             IF n = 0 THEN <<>>
             ELSE IF Contains(named[n - 1], variantArgs[n]) THEN named[n - 1]
             ELSE Append(named[n - 1], variantArgs[n])
<1>1. len \in Nat /\ DOMAIN variantArgs = 1..len /\ \A n \in 1..len : variantArgs[n] \in A
  OBVIOUS
<1> HIDE DEF len
<1>2. named = [n \in 0..len |-> IF n = 0 THEN <<>> ELSE Step(named[n - 1], variantArgs[n])]
  <2> DEFINE step == [n \in 1..len |-> [w \in Seq(A) |-> Step(w, variantArgs[n])]]
  <2>1. step \in [1..len -> [Seq(A) -> Seq(A)]] /\ <<>> \in Seq(A)
    BY <1>1
  <2> HIDE DEF Step
  <2>2. PICK f : Iterates(f, Seq(A), len, <<>>, step)
    <3> DEFINE T == Seq(A)
               init == <<>>
    <3>1. step \in Steps(T, len) /\ init \in T
      BY <2>1 DEF Steps
    <3> HIDE DEF step, T, init
    <3>2. \E f : Iterates(f, T, len, init, step)
      BY <1>1, <3>1, IterationExists
    <3> QED
      BY <3>2 DEF T, init
  <2>3. ASSUME NEW n \in 0..len, n # 0 PROVE step[n][f[n - 1]] = Step(f[n - 1], variantArgs[n])
    <3>1. n \in 1..len /\ n - 1 \in 0..len
      BY <1>1, <2>3
    <3> QED
      BY <3>1, <2>2 DEF Iterates
  <2> HIDE DEF step
  <2>4. \A n \in 0..len : f[n] = IF n = 0 THEN <<>> ELSE Step(f[n - 1], variantArgs[n])
    BY <2>2, <2>3 DEF Iterates
  <2>5. f = [n \in 0..len |-> f[n]]
    BY <2>2 DEF Iterates
  <2> USE DEF Step
  <2>6. f = [n \in 0..len |-> IF n = 0 THEN <<>>
                             ELSE IF Contains(f[n - 1], variantArgs[n]) THEN f[n - 1]
                             ELSE Append(f[n - 1], variantArgs[n])]
    BY <2>4, <2>5
  <2> QED
    BY <2>6
<1>3. Unrepeated(variantArgs) = named[len]
  BY DEF Unrepeated, len
<1> HIDE DEF named
<1>4. named[0] \in Good[0]
  <2>1. named[0] = <<>> /\ 0 \in 0..len
    BY <1>1, <1>2
  <2>2. <<>> \in Seq(A) /\ DOMAIN <<>> = {} /\ Prefix(0) = {}
    OBVIOUS
  <2>3. Holds(<<>>, 0)
    BY <2>2 DEF Range, IsInjective
  <2> HIDE DEF Holds
  <2> QED
    BY <2>1, <2>2, <2>3
<1>5. ASSUME NEW n \in 1..len, named[n - 1] \in Good[n - 1] PROVE named[n] \in Good[n]
  <2> DEFINE w == named[n - 1]
             e == variantArgs[n]
  <2>1. n \in 0..len /\ n - 1 \in 0..len /\ n # 0 /\ e \in A
    BY <1>1
  <2>2. named[n] = Step(w, e)
    <3> HIDE DEF Step
    <3> QED
      BY <1>2, <2>1
  <2>3. Holds(w, n - 1)
    <3> HIDE DEF Holds
    <3> QED
      BY <1>5, <2>1
  <2>4. Prefix(n) = Prefix(n - 1) \cup {e}
    <3>1. 1..n = 1..(n - 1) \cup {n}
      BY <1>1
    <3> QED
      BY <3>1
  <2>5. w \in Seq(A) /\ Range(w) = Prefix(n - 1) /\ IsInjective(w)
    BY <2>3
  <2> HIDE DEF Prefix, w, e
  <2>6. Contains(w, e) <=> e \in Prefix(n - 1)
    <3>1. DOMAIN w = 1..Len(w)
      BY <2>5
    <3> QED
      BY <2>5, <3>1 DEF Contains, Range
  <2>7. CASE e \in Prefix(n - 1)
    <3>1. Step(w, e) = w
      BY <2>6, <2>7
    <3> QED
      BY <2>1, <2>2, <2>4, <2>5, <2>7, <3>1
  <2>8. CASE e \notin Prefix(n - 1)
    <3>1. Step(w, e) = w \o <<e>> /\ <<e>> \in Seq(A) /\ w \o <<e>> \in Seq(A)
      <4>1. Step(w, e) = Append(w, e)
        BY <2>6, <2>8
      <4>2. Append(w, e) = w \o <<e>>
        BY <2>1, <2>5
      <4> HIDE DEF Step
      <4> QED
        BY <2>1, <2>5, <4>1, <4>2
    <3>2. Range(<<e>>) = {e} /\ IsInjective(<<e>>)
      BY DEF Range, IsInjective
    <3>3. /\ Range(w \o <<e>>) = Range(w) \cup Range(<<e>>)
          /\ IsInjective(w) /\ IsInjective(<<e>>) /\ Range(w) \cap Range(<<e>>) = {}
               => IsInjective(w \o <<e>>)
      BY <2>5, <3>1, ConcatenationHolds
    <3>4. Range(w) \cap Range(<<e>>) = {}
      BY <2>5, <2>8, <3>2
    <3>5. Holds(w \o <<e>>, n)
      BY <2>4, <2>5, <3>1, <3>2, <3>3, <3>4
    <3> HIDE DEF Holds, Step
    <3> QED
      BY <2>1, <2>2, <3>1, <3>5
  <2> QED
    BY <2>7, <2>8
<1>6. named[len] \in Good[len]
  <2> HIDE DEF Good
  <2> QED
    BY <1>1, <1>4, <1>5, IterationStays
<1>7. Holds(named[len], len) /\ Prefix(len) = Range(variantArgs)
  <2>1. Prefix(len) = Range(variantArgs)
    BY <1>1 DEF Range
  <2> HIDE DEF Holds
  <2>2. len \in 0..len
    BY <1>1
  <2> QED
    BY <1>6, <2>1, <2>2
<1> HIDE DEF Prefix
<1> QED
  BY <1>3, <1>7

(* Assigning values to one more argument makes every combination of the    *)
(* longer list, and makes it of one shorter combination and one value.     *)
Values(vArg) == Range(testVariantArgs[vArg])

LEMMA AssignedCombines ==
    ASSUME NEW A, NEW vArg, NEW f \in Combinations(A), NEW x \in Values(vArg)
    PROVE  Assigned(f, vArg, x) \in Combinations(A \cup {vArg})
<1> DEFINE B == A \cup {vArg}
           h == Assigned(f, vArg, x)
<1>1. DOMAIN f = A /\ \A a \in A : f[a] \in Range(testVariantArgs[a])
  BY DEF Combinations
<1>2. h = [a \in B |-> IF a = vArg THEN x ELSE f[a]]
  BY <1>1 DEF Assigned
<1> HIDE DEF h
<1>3. \A a \in B : h[a] \in Range(testVariantArgs[a])
  BY <1>1, <1>2 DEF Values
<1>4. h \in [B -> UNION {Range(testVariantArgs[a]) : a \in B}]
  BY <1>2, <1>3
<1> HIDE DEF B
<1>5. h \in Combinations(B)
  BY <1>3, <1>4 DEF Combinations
<1> QED
  BY <1>5 DEF B, h

LEMMA AssignedIsOneToOne ==
    ASSUME NEW A, NEW vArg, vArg \notin A, NEW f \in Combinations(A), NEW g \in Combinations(A),
           NEW x, NEW y, Assigned(f, vArg, x) = Assigned(g, vArg, y)
    PROVE  f = g /\ x = y
<1>1. f = [a \in A |-> f[a]] /\ g = [a \in A |-> g[a]] /\ DOMAIN f = A /\ DOMAIN g = A
  BY DEF Combinations
<1>2. Assigned(f, vArg, x) = [a \in A \cup {vArg} |-> IF a = vArg THEN x ELSE f[a]]
  BY <1>1 DEF Assigned
<1>3. Assigned(g, vArg, y) = [a \in A \cup {vArg} |-> IF a = vArg THEN y ELSE g[a]]
  BY <1>1 DEF Assigned
<1>4. Assigned(f, vArg, x)[vArg] = x /\ Assigned(g, vArg, y)[vArg] = y
  BY <1>2, <1>3
<1>5. ASSUME NEW a \in A PROVE f[a] = g[a]
  <2>1. Assigned(f, vArg, x)[a] = f[a] /\ Assigned(g, vArg, y)[a] = g[a]
    BY <1>2, <1>3
  <2> QED
    BY <2>1
<1> QED
  BY <1>1, <1>4, <1>5

LEMMA CombinationsAreAssigned ==
    ASSUME NEW A, NEW vArg, vArg \notin A, NEW h \in Combinations(A \cup {vArg})
    PROVE  \E f \in Combinations(A), x \in Values(vArg) : h = Assigned(f, vArg, x)
<1> DEFINE f == [a \in A |-> h[a]]
<1>1. /\ h = [a \in A \cup {vArg} |-> h[a]]
      /\ \A a \in A \cup {vArg} : h[a] \in Range(testVariantArgs[a])
  BY DEF Combinations
<1>2. f \in [A -> UNION {Range(testVariantArgs[a]) : a \in A}]
  BY <1>1
<1>3. f \in Combinations(A)
  BY <1>1, <1>2 DEF Combinations
<1>4. h[vArg] \in Values(vArg)
  BY <1>1 DEF Values
<1>5. Assigned(f, vArg, h[vArg]) = [a \in A \cup {vArg} |-> h[a]]
  BY DEF Assigned
<1> HIDE DEF f
<1>6. h = Assigned(f, vArg, h[vArg])
  BY <1>1, <1>5
<1> QED
  BY <1>3, <1>4, <1>6

(* Vary makes of all combinations of some arguments, each once, all those  *)
(* of one more argument, each once.                                        *)
IsAll(queries, A) ==
    /\ queries \in Seq(Combinations(A))
    /\ Range(queries) = Combinations(A)
    /\ IsInjective(queries)

Varied(queries, vArg) ==
    [q \in 1..Len(queries) |->
        [v \in 1..Len(testVariantArgs[vArg]) |->
            Assigned(queries[q], vArg, testVariantArgs[vArg][v])]]

LEMMA VaryIsAll ==
    ASSUME NEW A, NEW vArg \in Argument, vArg \notin A, NEW queries, IsAll(queries, A)
    PROVE  IsAll(Vary(queries, vArg), A \cup {vArg})
<1> DEFINE B == A \cup {vArg}
           vals == testVariantArgs[vArg]
           seqs == Varied(queries, vArg)
<1>1. /\ vals \in Seq(Values(vArg)) /\ IsInjective(vals) /\ DOMAIN vals = 1..Len(vals)
      /\ Len(vals) \in Nat /\ \A v \in 1..Len(vals) : vals[v] \in Values(vArg)
  BY VariantArgsAssumption DEF Argument, Values
<1>2. /\ DOMAIN queries = 1..Len(queries) /\ Len(queries) \in Nat
      /\ \A q \in 1..Len(queries) : queries[q] \in Combinations(A)
  BY DEF IsAll
<1> HIDE DEF vals
<1>3. seqs = [q \in 1..Len(queries) |-> [v \in 1..Len(vals) |-> Assigned(queries[q], vArg, vals[v])]]
  BY DEF Varied, vals
<1> HIDE DEF seqs
<1>4. /\ DOMAIN seqs = 1..Len(queries)
      /\ \A q \in 1..Len(queries) :
            /\ DOMAIN seqs[q] = 1..Len(vals)
            /\ \A v \in 1..Len(vals) : seqs[q][v] = Assigned(queries[q], vArg, vals[v])
  BY <1>3
<1> HIDE DEF B
<1>5. \A q \in 1..Len(queries), v \in 1..Len(vals) :
        Assigned(queries[q], vArg, vals[v]) \in Combinations(B)
  BY <1>1, <1>2, AssignedCombines DEF B
<1>6. seqs \in Seq(Seq(Combinations(B)))
  BY <1>1, <1>2, <1>3, <1>5
<1>7. Vary(queries, vArg) = FlattenSeq(seqs)
  BY DEF Vary, seqs, Varied
<1>8. /\ FlattenSeq(seqs) \in Seq(Combinations(B))
      /\ Range(FlattenSeq(seqs)) = UNION {Range(seqs[i]) : i \in DOMAIN seqs}
      /\ Separate(seqs) => IsInjective(FlattenSeq(seqs))
  BY <1>6, FlattenSeqHolds
<1>9. Range(FlattenSeq(seqs)) = Combinations(B)
  <2>1. Range(FlattenSeq(seqs)) \subseteq Combinations(B)
    BY <1>4, <1>5, <1>8 DEF Range
  <2>2. ASSUME NEW h \in Combinations(B) PROVE h \in Range(FlattenSeq(seqs))
    <3>1. PICK f \in Combinations(A), x \in Values(vArg) : h = Assigned(f, vArg, x)
      BY <2>2, CombinationsAreAssigned DEF B
    <3>2. PICK q \in 1..Len(queries) : queries[q] = f
      BY <1>2 DEF IsAll, Range
    <3>3. PICK v \in 1..Len(vals) : vals[v] = x
      BY <1>1 DEF Values, Range, vals
    <3>4. h = seqs[q][v] /\ q \in DOMAIN seqs /\ v \in DOMAIN seqs[q]
      BY <1>4, <3>1, <3>2, <3>3
    <3>5. h \in Range(seqs[q])
      BY <3>4 DEF Range
    <3> QED
      BY <1>8, <3>4, <3>5
  <2> QED
    BY <2>1, <2>2
<1>10. Separate(seqs)
  <2>1. ASSUME NEW i \in 1..Len(queries), NEW j \in 1..Len(queries),
               NEW v \in 1..Len(vals), NEW w \in 1..Len(vals), seqs[i][v] = seqs[j][w]
        PROVE  i = j /\ v = w
    <3>1. Assigned(queries[i], vArg, vals[v]) = Assigned(queries[j], vArg, vals[w])
      BY <1>4, <2>1
    <3>2. queries[i] = queries[j] /\ vals[v] = vals[w]
      BY <1>2, <3>1, AssignedIsOneToOne
    <3>3. IsInjective(queries)
      BY DEF IsAll
    <3> QED
      BY <1>1, <1>2, <3>2, <3>3 DEF IsInjective
  <2>2. ASSUME NEW i \in DOMAIN seqs PROVE IsInjective(seqs[i])
    BY <1>4, <2>1 DEF IsInjective
  <2>3. ASSUME NEW i \in DOMAIN seqs, NEW j \in DOMAIN seqs, i # j
        PROVE  Range(seqs[i]) \cap Range(seqs[j]) = {}
    BY <1>4, <2>1, <2>3 DEF Range
  <2> QED
    BY <2>2, <2>3 DEF Separate
<1> QED
  BY <1>7, <1>8, <1>9, <1>10 DEF IsAll, B

(* The combinations of any arguments. *)
SomeCombinations == UNION {Combinations(A) : A \in SUBSET Argument}

LEMMA VaryType ==
    ASSUME NEW vArg \in Argument, NEW queries \in Seq(SomeCombinations)
    PROVE  Vary(queries, vArg) \in Seq(SomeCombinations)
<1> DEFINE vals == testVariantArgs[vArg]
           seqs == Varied(queries, vArg)
<1>1. Len(vals) \in Nat /\ \A v \in 1..Len(vals) : vals[v] \in Values(vArg)
  BY VariantArgsAssumption DEF Argument, Values
<1> HIDE DEF vals
<1>2. ASSUME NEW q \in 1..Len(queries), NEW v \in 1..Len(vals)
      PROVE  Assigned(queries[q], vArg, vals[v]) \in SomeCombinations
  <2>1. queries[q] \in SomeCombinations
    OBVIOUS
  <2>2. PICK A \in SUBSET Argument : queries[q] \in Combinations(A)
    BY <2>1 DEF SomeCombinations
  <2>3. Assigned(queries[q], vArg, vals[v]) \in Combinations(A \cup {vArg})
    BY <1>1, <2>2, AssignedCombines
  <2>4. A \cup {vArg} \in SUBSET Argument
    OBVIOUS
  <2> QED
    BY <2>3, <2>4 DEF SomeCombinations
<1>3. seqs = [q \in 1..Len(queries) |-> [v \in 1..Len(vals) |-> Assigned(queries[q], vArg, vals[v])]]
  BY DEF Varied, vals
<1> HIDE DEF seqs
<1>4. seqs \in Seq(Seq(SomeCombinations))
  BY <1>1, <1>2, <1>3
<1>5. Vary(queries, vArg) = FlattenSeq(seqs)
  BY DEF Vary, seqs, Varied
<1> QED
  BY <1>4, <1>5, FlattenSeqHolds

(* getVariants returns all combinations of the values of the arguments of  *)
(* a template, each once, whatever the arguments and however often they    *)
(* are named.                                                              *)
THEOREM VariantsAreAll ==
    ASSUME NEW variantArgs \in Seq(Argument)
    PROVE  IsAll(getVariants(variantArgs), Range(variantArgs))
<1> DEFINE args == Unrepeated(variantArgs)
           len == Len(args)
           T == Seq(SomeCombinations)
           init == << <<>> >>
           Named(n) == {args[i] : i \in 1..n}
           Good == [n \in 0..len |-> {w \in T : IsAll(w, Named(n))}]
           variants[n \in 0..len] ==
             IF n = 0 THEN << <<>> >> ELSE Vary(variants[n - 1], args[n])
<1>1. getVariants(variantArgs) = variants[len]
  BY DEF getVariants
<1>2. args \in Seq(Argument) /\ Range(args) = Range(variantArgs) /\ IsInjective(args)
  BY UnrepeatedNames
<1> HIDE DEF args
<1>3. len \in Nat /\ DOMAIN args = 1..len /\ \A n \in 1..len : args[n] \in Argument
  BY <1>2
<1> HIDE DEF len
<1>4. <<>> \in Combinations({}) /\ Combinations({}) = {<<>>}
  <2>1. <<>> \in Combinations({})
    <3>1. <<>> \in [{} -> UNION {Range(testVariantArgs[a]) : a \in {}}]
      OBVIOUS
    <3> QED
      BY <3>1 DEF Combinations
  <2>2. ASSUME NEW f \in Combinations({}) PROVE f = <<>>
    <3>1. f \in [{} -> UNION {Range(testVariantArgs[a]) : a \in {}}]
      BY DEF Combinations
    <3>2. f = [a \in {} |-> f[a]] /\ <<>> = [a \in {} |-> f[a]]
      BY <3>1
    <3> QED
      BY <3>2
  <2> QED
    BY <2>1, <2>2
<1>5. init \in T /\ IsAll(init, {})
  <2>1. init \in Seq(Combinations({})) /\ <<>> \in SomeCombinations
    BY <1>4 DEF SomeCombinations
  <2>2. Range(init) = {<<>>} /\ IsInjective(init)
    BY DEF Range, IsInjective
  <2> QED
    BY <1>4, <2>1, <2>2, SMTT(30) DEF IsAll
<1>6. variants = [n \in 0..len |-> IF n = 0 THEN << <<>> >> ELSE Vary(variants[n - 1], args[n])]
  <2> DEFINE step == [n \in 1..len |-> [w \in T |-> Vary(w, args[n])]]
  <2>1. \A n \in 1..len, w \in T : Vary(w, args[n]) \in T
    BY <1>3, VaryType
  <2>2. step \in Steps(T, len)
    <3> HIDE DEF T
    <3> QED
      BY <2>1 DEF Steps
  <2> HIDE DEF T, init, step
  <2>3. PICK f : Iterates(f, T, len, init, step)
    BY <1>3, <1>5, <2>2, IterationExists
  <2>4. ASSUME NEW n \in 0..len, n # 0 PROVE step[n][f[n - 1]] = Vary(f[n - 1], args[n])
    <3>1. n \in 1..len /\ n - 1 \in 0..len
      BY <1>3, <2>4
    <3>2. f[n - 1] \in T
      BY <2>3, <3>1 DEF Iterates
    <3> QED
      BY <3>1, <3>2 DEF step
  <2>5. \A n \in 0..len : f[n] = IF n = 0 THEN init ELSE Vary(f[n - 1], args[n])
    BY <2>3, <2>4 DEF Iterates
  <2>6. f = [n \in 0..len |-> f[n]]
    BY <2>3 DEF Iterates
  <2>7. f = [n \in 0..len |-> IF n = 0 THEN << <<>> >> ELSE Vary(f[n - 1], args[n])]
    BY <2>5, <2>6 DEF init
  <2> QED
    BY <2>7
<1> HIDE DEF variants, T
<1>7. variants[0] \in Good[0]
  <2>1. variants[0] = init /\ 0 \in 0..len /\ Named(0) = {}
    BY <1>3, <1>6
  <2> HIDE DEF init
  <2> QED
    BY <1>5, <2>1
<1>8. ASSUME NEW n \in 1..len, variants[n - 1] \in Good[n - 1] PROVE variants[n] \in Good[n]
  <2>1. n \in 0..len /\ n - 1 \in 0..len /\ n # 0 /\ args[n] \in Argument
    BY <1>3
  <2>2. variants[n] = Vary(variants[n - 1], args[n])
    BY <1>6, <2>1
  <2>3. variants[n - 1] \in T /\ IsAll(variants[n - 1], Named(n - 1))
    BY <1>8, <2>1
  <2>4. Named(n) = Named(n - 1) \cup {args[n]} /\ args[n] \notin Named(n - 1)
    <3>1. 1..n = 1..(n - 1) \cup {n} /\ n \in DOMAIN args /\ 1..(n - 1) \subseteq DOMAIN args
      BY <1>3
    <3>2. \A i \in 1..(n - 1) : i # n
      BY <1>3
    <3> QED
      BY <1>2, <3>1, <3>2 DEF IsInjective
  <2> HIDE DEF Named
  <2>5. IsAll(variants[n], Named(n))
    BY <2>1, <2>2, <2>3, <2>4, VaryIsAll
  <2>6. variants[n] \in T
    BY <2>1, <2>2, <2>3, VaryType DEF T
  <2> QED
    BY <2>1, <2>5, <2>6
<1>9. variants[len] \in Good[len]
  <2> HIDE DEF Good
  <2> QED
    BY <1>3, <1>7, <1>8, IterationStays
<1>10. IsAll(variants[len], Named(len))
  <2>1. len \in 0..len
    BY <1>3
  <2> QED
    BY <1>9, <2>1
<1>11. Named(len) = Range(variantArgs)
  BY <1>2, <1>3 DEF Range
<1> QED
  BY <1>1, <1>10, <1>11

(* The tests of template c have the given arguments, and no two the same.  *)
Covers(tests, c, combinations) ==
    LET mine == {t \in 1..Len(tests) : tests[t].case = c}
    IN {tests[t].args : t \in mine} = combinations /\ Cardinality(mine) = Cardinality(combinations)

(* What ExpandTestCases returns: for each template one test per combination *)
(* of the values of its arguments, and no two for the same.                *)
THEOREM EveryCombinationIsExpanded ==
    ASSUME NEW cases \in Seq(Templates), NEW tweaks, NEW start, NEW end, NEW resolution,
           NEW tests, tests = ExpandTestCases(cases, tweaks, start, end, resolution)
    PROVE  /\ Len(tests) \in Nat
           /\ \A t \in 1..Len(tests) :
                  tests[t].shouldFail \in BOOLEAN /\ tests[t].skipComparison \in BOOLEAN
           /\ \A c \in DOMAIN cases :
                  Covers(tests, c, Combinations(Range(cases[c].variantArgs)))
<1> DEFINE from == applyQueryTweaks(start, tweaks, resolution)
           to == applyQueryTweaks(end, tweaks, resolution)
           Args(c) == getVariants(cases[c].variantArgs)
           Test(c, v) == [case |-> c, args |-> Args(c)[v],
                          skipComparison |-> cases[c].skipComparison,
                          shouldFail |-> cases[c].shouldFail, start |-> from, end |-> to]
           seqs == [c \in 1..Len(cases) |-> [v \in 1..Len(Args(c)) |-> Test(c, v)]]
           All(c) == Combinations(Range(cases[c].variantArgs))
           TestSet == [case : 1..Len(cases), args : SomeCombinations, skipComparison : BOOLEAN,
                       shouldFail : BOOLEAN, start : {from}, end : {to}]
<1>1. tests = FlattenSeq(seqs)
  BY DEF ExpandTestCases
<1> HIDE DEF from, to
<1>2. /\ Len(cases) \in Nat /\ DOMAIN cases = 1..Len(cases)
      /\ \A c \in 1..Len(cases) :
            /\ cases[c].variantArgs \in Seq(Argument)
            /\ cases[c].skipComparison \in BOOLEAN /\ cases[c].shouldFail \in BOOLEAN
  <2>1. \A c \in 1..Len(cases) : cases[c] \in Templates
    OBVIOUS
  <2> QED
    BY <2>1 DEF Templates
<1>3. ASSUME NEW c \in 1..Len(cases)
      PROVE  /\ Args(c) \in Seq(All(c)) /\ Range(Args(c)) = All(c) /\ IsInjective(Args(c))
             /\ Len(Args(c)) \in Nat /\ DOMAIN Args(c) = 1..Len(Args(c))
             /\ All(c) \subseteq SomeCombinations
  <2>1. IsAll(Args(c), Range(cases[c].variantArgs))
    BY <1>2, VariantsAreAll
  <2>2. Args(c) \in Seq(All(c)) /\ Range(Args(c)) = All(c) /\ IsInjective(Args(c))
    BY <2>1 DEF IsAll
  <2>3. Range(cases[c].variantArgs) \in SUBSET Argument
    BY <1>2 DEF Range
  <2>4. All(c) \subseteq SomeCombinations
    BY <2>3 DEF SomeCombinations
  <2> HIDE DEF All, Args
  <2> QED
    BY <2>2, <2>4
<1> HIDE DEF All, Args
<1>4. ASSUME NEW c \in 1..Len(cases), NEW v \in 1..Len(Args(c)) PROVE Test(c, v) \in TestSet
  <2>1. Args(c)[v] \in SomeCombinations
    BY <1>3
  <2> QED
    BY <1>2, <2>1
<1> HIDE DEF Test, TestSet
<1>5. seqs \in Seq(Seq(TestSet))
  <2>1. \A c \in 1..Len(cases) : [v \in 1..Len(Args(c)) |-> Test(c, v)] \in Seq(TestSet)
    BY <1>3, <1>4
  <2> QED
    BY <1>2, <2>1
<1>6. /\ DOMAIN seqs = 1..Len(cases)
      /\ \A c \in 1..Len(cases) : /\ DOMAIN seqs[c] = 1..Len(Args(c))
                                  /\ \A v \in 1..Len(Args(c)) : seqs[c][v] = Test(c, v)
  OBVIOUS
<1> HIDE DEF seqs
<1>7. /\ tests \in Seq(TestSet)
      /\ Range(tests) = UNION {Range(seqs[c]) : c \in DOMAIN seqs}
      /\ Separate(seqs) => IsInjective(tests)
  BY <1>1, <1>5, FlattenSeqHolds
<1>8. \A c, v : Test(c, v).case = c /\ Test(c, v).args = Args(c)[v]
  BY DEF Test
<1>9. Separate(seqs)
  <2>1. ASSUME NEW c \in DOMAIN seqs PROVE IsInjective(seqs[c])
    <3> SUFFICES ASSUME NEW v \in 1..Len(Args(c)), NEW w \in 1..Len(Args(c)),
                        Test(c, v) = Test(c, w)
                 PROVE  v = w
      BY <1>6 DEF IsInjective
    <3>1. Args(c)[v] = Args(c)[w]
      BY <1>8
    <3> QED
      BY <1>3, <1>6, <3>1 DEF IsInjective
  <2>2. ASSUME NEW c \in DOMAIN seqs, NEW d \in DOMAIN seqs, c # d
        PROVE  Range(seqs[c]) \cap Range(seqs[d]) = {}
    <3>1. \A test \in Range(seqs[c]) : test.case = c
      BY <1>6, <1>8 DEF Range
    <3>2. \A test \in Range(seqs[d]) : test.case = d
      BY <1>6, <1>8 DEF Range
    <3> QED
      BY <2>2, <3>1, <3>2
  <2> QED
    BY <2>1, <2>2 DEF Separate
<1>10. Len(tests) \in Nat /\ DOMAIN tests = 1..Len(tests) /\ IsInjective(tests)
       /\ \A t \in 1..Len(tests) : tests[t] \in TestSet
  BY <1>7, <1>9
<1>11. \A t \in 1..Len(tests) :
          tests[t].shouldFail \in BOOLEAN /\ tests[t].skipComparison \in BOOLEAN
  BY <1>10 DEF TestSet
<1>12. ASSUME NEW t \in 1..Len(tests)
       PROVE  \E c \in 1..Len(cases) : \E v \in 1..Len(Args(c)) : tests[t] = Test(c, v)
  <2>1. tests[t] \in Range(tests)
    BY <1>10 DEF Range
  <2>2. PICK c \in DOMAIN seqs : tests[t] \in Range(seqs[c])
    BY <1>7, <2>1
  <2> QED
    BY <1>6, <2>2 DEF Range
<1>13. ASSUME NEW c \in 1..Len(cases), NEW v \in 1..Len(Args(c))
       PROVE  \E t \in 1..Len(tests) : tests[t] = Test(c, v)
  <2>1. Test(c, v) \in Range(seqs[c]) /\ c \in DOMAIN seqs
    BY <1>6 DEF Range
  <2>2. Test(c, v) \in Range(tests)
    BY <1>7, <2>1
  <2> QED
    BY <1>10, <2>2 DEF Range
<1>14. ASSUME NEW c \in DOMAIN cases PROVE Covers(tests, c, All(c))
  <2> DEFINE mine == {t \in 1..Len(tests) : tests[t].case = c}
             argsOf == [t \in mine |-> tests[t].args]
  <2>1. c \in 1..Len(cases)
    BY <1>2
  <2>2. ASSUME NEW t \in mine
        PROVE  \E v \in 1..Len(Args(c)) : tests[t] = Test(c, v) /\ tests[t].args = Args(c)[v]
    BY <1>8, <1>12, SMTT(30)
  <2>3. \A t \in mine : tests[t].args \in All(c)
    BY <1>3, <2>1, <2>2 DEF Range
  <2>4. ASSUME NEW f \in All(c) PROVE \E t \in mine : tests[t].args = f
    <3>1. PICK v \in 1..Len(Args(c)) : Args(c)[v] = f
      BY <1>3, <2>1 DEF Range
    <3>2. PICK t \in 1..Len(tests) : tests[t] = Test(c, v)
      BY <1>13, <2>1
    <3> QED
      BY <1>8, <3>1, <3>2
  <2>5. ASSUME NEW t \in mine, NEW u \in mine, tests[t].args = tests[u].args PROVE t = u
    <3>1. PICK v \in 1..Len(Args(c)) : tests[t] = Test(c, v) /\ tests[t].args = Args(c)[v]
      BY <2>2
    <3>2. PICK w \in 1..Len(Args(c)) : tests[u] = Test(c, w) /\ tests[u].args = Args(c)[w]
      BY <2>2
    <3>3. v = w
      BY <1>3, <2>1, <2>5, <3>1, <3>2 DEF IsInjective
    <3>4. tests[t] = tests[u] /\ t \in DOMAIN tests /\ u \in DOMAIN tests
      BY <1>10, <3>1, <3>2, <3>3
    <3> QED
      BY <1>10, <3>4 DEF IsInjective
  <2>6. IsFiniteSet(mine)
    <3>1. IsFiniteSet(1..Len(tests)) /\ mine \subseteq 1..Len(tests)
      BY <1>10, FS_Interval
    <3> QED
      BY <3>1, FS_Subset
  <2> HIDE DEF mine
  <2>7. argsOf \in Bijection(mine, All(c))
    <3>1. argsOf \in [mine -> All(c)]
      BY <2>3
    <3>2. \A t, u \in mine : argsOf[t] = argsOf[u] => t = u
      BY <2>5
    <3>3. \A f \in All(c) : \E t \in mine : argsOf[t] = f
      BY <2>4
    <3> HIDE DEF argsOf
    <3> QED
      BY <3>1, <3>2, <3>3 DEF Bijection, Injection, Surjection, IsInjective
  <2>8. Cardinality(All(c)) = Cardinality(mine)
    BY <2>6, <2>7, FS_Bijection DEF ExistsBijection
  <2>9. {tests[t].args : t \in mine} = All(c)
    BY <2>3, <2>4
  <2> QED
    BY <2>8, <2>9 DEF mine, Covers
<1> QED
  BY <1>10, <1>11, <1>14 DEF All
=============================================================================
