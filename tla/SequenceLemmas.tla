--------------------------- MODULE SequenceLemmas ---------------------------
(***************************************************************************)
(* Induction for recursive functions, and what follows of sequences that   *)
(* are made by them. The library's theorems of induction take an operator  *)
(* as a parameter, which the provers cannot instantiate; its theorem that  *)
(* a set of naturals has a least number (WFMin) takes none. With it a      *)
(* recursive function exists, so it satisfies its equation, and its values *)
(* stay in the sets that no step leaves.                                   *)
(***************************************************************************)
EXTENDS Integers, Sequences, SequencesExt, FiniteSetTheorems, SequenceTheorems,
        WellFoundedInduction, TLAPS

(* Some natural numbers have a least one,                                  *)
LEMMA LeastExists ==
    ASSUME NEW T \in SUBSET Nat, T # {}
    PROVE  \E x \in T : \A y \in T : x <= y
<1>1. IsWellFoundedOn(OpToRel(<, Nat), Nat)
  BY NatLessThanWellFounded
<1>2. PICK x \in T : \A y \in T : ~(<<y, x>> \in OpToRel(<, Nat))
  BY <1>1, WFMin
<1>3. \A y \in T : ~(y < x)
  BY <1>2 DEF OpToRel
<1>4. \A y \in T : x <= y
  BY <1>3
<1> QED
  BY <1>4

(* and those up to a number have a greatest one,                           *)
LEMMA GreatestExists ==
    ASSUME NEW n \in Nat, NEW T \in SUBSET (0..n), T # {}
    PROVE  \E x \in T : \A y \in T : x >= y
<1> DEFINE U == {n - x : x \in T}
<1>1. U \in SUBSET Nat /\ U # {}
  <2>1. \A x \in 0..n : n - x \in Nat
    OBVIOUS
  <2>2. U \subseteq Nat
    BY <2>1
  <2>3. U # {}
    OBVIOUS
  <2> QED
    BY <2>2, <2>3
<1> HIDE DEF U
<1>2. PICK u \in U : \A v \in U : u <= v
  BY <1>1, LeastExists
<1>3. PICK x \in T : u = n - x
  BY DEF U
<1>4. ASSUME NEW y \in T PROVE x >= y
  <2>1. n - y \in U
    BY DEF U
  <2> QED
    BY <1>2, <1>3, <2>1
<1> QED
  BY <1>4

(* so a set with 0, and with the next of each number in it, has them all.  *)
LEMMA Induction ==
    ASSUME NEW S, 0 \in S, \A n \in Nat : n \in S => n + 1 \in S
    PROVE  Nat \subseteq S
<1> DEFINE T == Nat \ S
<1> SUFFICES ASSUME T # {} PROVE FALSE
  OBVIOUS
<1>1. PICK x \in T : \A y \in T : x <= y
  BY LeastExists
<1>2. x \in Nat /\ x # 0 /\ x - 1 \in Nat /\ ~(x <= x - 1)
  OBVIOUS
<1>3. x - 1 \in S
  BY <1>1, <1>2
<1> QED
  BY <1>2, <1>3

(* The only permutation of 1..n that puts no number after a greater one.   *)
LEMMA IncreasingIsIdentity ==
    ASSUME NEW n \in Nat, NEW k \in Surjection(1..n, 1..n),
           \A i, j \in 1..n : i < j => k[i] < k[j]
    PROVE  \A i \in 1..n : k[i] = i
<1> DEFINE T == {i \in 1..n : k[i] # i}
<1> SUFFICES ASSUME T # {} PROVE FALSE
  OBVIOUS
<1>1. k \in [1..n -> 1..n] /\ \A i \in 1..n : \E j \in 1..n : k[j] = i
  BY DEF Surjection
<1>2. T \in SUBSET Nat
  OBVIOUS
<1>3. PICK i \in T : \A j \in T : i <= j
  BY <1>2, LeastExists
<1>4. i \in 1..n /\ k[i] # i /\ k[i] \in 1..n
  BY <1>1
<1>5. \A j \in 1..n : j < i => k[j] = j
  BY <1>3, <1>4
<1>6. k[i] > i
  <2>1. CASE i = 1
    BY <1>4, <2>1
  <2>2. CASE i # 1
    <3>1. i - 1 \in 1..n /\ i - 1 < i
      BY <1>4, <2>2
    <3>2. k[i - 1] = i - 1 /\ k[i - 1] < k[i]
      BY <1>4, <1>5, <3>1
    <3> QED
      BY <1>4, <3>2
  <2> QED
    BY <2>1, <2>2
<1>7. PICK j \in 1..n : k[j] = i
  BY <1>1, <1>4
<1>8. j > i
  BY <1>4, <1>5, <1>6, <1>7
<1>9. k[i] < k[j]
  BY <1>4, <1>8
<1> QED
  BY <1>4, <1>6, <1>7, <1>9

(* What FlattenSeq makes of each prefix. *)
Flattens(f, seqs) ==
    f = [i \in 1..Len(seqs) |-> IF i = 1 THEN seqs[i] ELSE f[i - 1] \o seqs[i]]

LEMMA FlattenSeqUnfolds ==
    ASSUME NEW T, NEW seqs \in Seq(Seq(T)), seqs # <<>>
    PROVE  \E f : Flattens(f, seqs) /\ FlattenSeq(seqs) = f[Len(seqs)]
<1> DEFINE Unfolds(f, n) == \A i \in 1..n :
                               f[i] \in Seq(T) /\ f[i] = IF i = 1 THEN seqs[i] ELSE f[i - 1] \o seqs[i]
           Upto(n) == \E f : Unfolds(f, n) /\ DOMAIN f = 1..n /\ f = [i \in 1..n |-> f[i]]
           D == {n \in Nat : n + 1 <= Len(seqs) => Upto(n + 1)}
<1>0. \A i \in 1..Len(seqs) : seqs[i] \in Seq(T)
  OBVIOUS
<1>1. 0 \in D
  <2> DEFINE f == [i \in 1..1 |-> seqs[1]]
  <2>1. f = [i \in 1..1 |-> f[i]] /\ DOMAIN f = 1..1 /\ Unfolds(f, 1)
    BY <1>0
  <2>2. Upto(1)
    BY <2>1
  <2> HIDE DEF Upto
  <2> QED
    BY <2>2
<1>2. ASSUME NEW n \in Nat, n \in D PROVE n + 1 \in D
  <2> HIDE DEF Upto
  <2> SUFFICES ASSUME n + 2 <= Len(seqs) PROVE Upto(n + 2)
    OBVIOUS
  <2>1. Upto(n + 1)
    BY <1>2
  <2>2. PICK f : Unfolds(f, n + 1)
    BY <2>1 DEF Upto
  <2> DEFINE g == [i \in 1..(n + 2) |-> IF i = n + 2 THEN f[n + 1] \o seqs[n + 2] ELSE f[i]]
  <2>3. f[n + 1] \in Seq(T) /\ seqs[n + 2] \in Seq(T) /\ f[n + 1] \o seqs[n + 2] \in Seq(T)
    BY <1>0, <2>2
  <2>4. ASSUME NEW i \in 1..(n + 2)
        PROVE  g[i] \in Seq(T) /\ g[i] = IF i = 1 THEN seqs[i] ELSE g[i - 1] \o seqs[i]
    <3>1. CASE i = n + 2
      <4>1. i # 1 /\ i - 1 = n + 1 /\ i - 1 \in 1..(n + 2) /\ i - 1 # n + 2
        BY <3>1
      <4> QED
        BY <3>1, <4>1, <2>3
    <3>2. CASE i # n + 2
      <4>1. i \in 1..(n + 1) /\ (i # 1 => i - 1 \in 1..(n + 2) /\ i - 1 # n + 2)
        BY <3>2
      <4> QED
        BY <3>2, <4>1, <2>2
    <3> QED
      BY <3>1, <3>2
  <2>5. Unfolds(g, n + 2)
    BY <2>4
  <2> QED
    BY <2>5 DEF Upto
<1>3. Nat \subseteq D
  <2> HIDE DEF D
  <2> QED
    BY <1>1, <1>2, Induction
<1>4. Len(seqs) \in Nat /\ Len(seqs) > 0 /\ Len(seqs) # 0
  OBVIOUS
<1>5. PICK f : f = [i \in 1..Len(seqs) |-> IF i = 1 THEN seqs[i] ELSE f[i - 1] \o seqs[i]]
  <2>1. Upto(Len(seqs))
    <3> HIDE DEF Upto
    <3>1. Len(seqs) - 1 \in Nat /\ (Len(seqs) - 1) + 1 <= Len(seqs) /\ (Len(seqs) - 1) + 1 = Len(seqs)
      BY <1>4
    <3>2. Len(seqs) - 1 \in D
      <4> HIDE DEF D
      <4> QED
        BY <3>1, <1>3
    <3>3. Upto((Len(seqs) - 1) + 1)
      BY <3>1, <3>2
    <3> QED
      BY <3>1, <3>3
  <2>2. PICK f : Unfolds(f, Len(seqs)) /\ f = [i \in 1..Len(seqs) |-> f[i]]
    BY <2>1
  <2>3. f = [i \in 1..Len(seqs) |-> IF i = 1 THEN seqs[i] ELSE f[i - 1] \o seqs[i]]
    BY <2>2
  <2> QED
    BY <2>3
<1> DEFINE flatten[i \in 1..Len(seqs)] == IF i = 1 THEN seqs[i] ELSE flatten[i - 1] \o seqs[i]
<1>6. flatten = [i \in 1..Len(seqs) |-> IF i = 1 THEN seqs[i] ELSE flatten[i - 1] \o seqs[i]]
  BY <1>5
<1>7. FlattenSeq(seqs) = flatten[Len(seqs)]
  BY <1>4 DEF FlattenSeq
<1> QED
  BY <1>6, <1>7 DEF Flattens

(* What a concatenation holds; and it holds nothing twice if its parts do  *)
(* not, and have nothing in common.                                        *)
LEMMA ConcatenationHolds ==
    ASSUME NEW T, NEW u \in Seq(T), NEW v \in Seq(T)
    PROVE  /\ Range(u \o v) = Range(u) \cup Range(v)
           /\ IsInjective(u) /\ IsInjective(v) /\ Range(u) \cap Range(v) = {} => IsInjective(u \o v)
<1> DEFINE w == u \o v
           m == Len(u)
<1>1. /\ Len(w) = m + Len(v) /\ m \in Nat /\ Len(v) \in Nat
      /\ DOMAIN u = 1..m /\ DOMAIN v = 1..Len(v) /\ DOMAIN w = 1..(m + Len(v))
      /\ \A k \in 1..(m + Len(v)) : w[k] = IF k <= m THEN u[k] ELSE v[k - m]
  OBVIOUS
<1> HIDE DEF w, m
<1>2. ASSUME NEW k \in DOMAIN w
      PROVE  \/ k \in DOMAIN u /\ w[k] = u[k]
             \/ k - m \in DOMAIN v /\ w[k] = v[k - m]
  BY <1>1
<1>3. ASSUME NEW k \in DOMAIN u PROVE k \in DOMAIN w /\ w[k] = u[k]
  BY <1>1
<1>4. ASSUME NEW k \in DOMAIN v PROVE m + k \in DOMAIN w /\ w[m + k] = v[k]
  <2>1. m + k \in 1..(m + Len(v)) /\ ~(m + k <= m) /\ (m + k) - m = k
    BY <1>1
  <2> QED
    BY <1>1, <2>1
<1>5. Range(w) \subseteq Range(u) \cup Range(v)
  BY <1>2 DEF Range
<1>6. Range(u) \subseteq Range(w)
  BY <1>3 DEF Range
<1>7. Range(v) \subseteq Range(w)
  BY <1>4 DEF Range
<1>8. ASSUME IsInjective(u), IsInjective(v), Range(u) \cap Range(v) = {} PROVE IsInjective(w)
  <2> SUFFICES ASSUME NEW j \in DOMAIN w, NEW k \in DOMAIN w, w[j] = w[k] PROVE j = k
    BY DEF IsInjective
  <2>1. j \in Int /\ k \in Int /\ m \in Int
    BY <1>1
  <2>2. CASE j \in DOMAIN u /\ w[j] = u[j] /\ k \in DOMAIN u /\ w[k] = u[k]
    BY <2>2, <1>8 DEF IsInjective
  <2>3. CASE j - m \in DOMAIN v /\ w[j] = v[j - m] /\ k - m \in DOMAIN v /\ w[k] = v[k - m]
    <3>1. j - m = k - m
      BY <2>3, <1>8 DEF IsInjective
    <3> QED
      BY <3>1, <2>1
  <2>4. CASE j \in DOMAIN u /\ w[j] = u[j] /\ k - m \in DOMAIN v /\ w[k] = v[k - m]
    BY <2>4, <1>8 DEF Range
  <2>5. CASE j - m \in DOMAIN v /\ w[j] = v[j - m] /\ k \in DOMAIN u /\ w[k] = u[k]
    BY <2>5, <1>8 DEF Range
  <2> QED
    BY <1>2, <2>2, <2>3, <2>4, <2>5
<1> QED
  BY <1>5, <1>6, <1>7, <1>8 DEF w

(* A flattened sequence holds what the sequences in it hold, and nothing   *)
(* twice if they do not and have nothing in common.                        *)
Separate(seqs) ==
    /\ \A i \in DOMAIN seqs : IsInjective(seqs[i])
    /\ \A i, j \in DOMAIN seqs : i # j => Range(seqs[i]) \cap Range(seqs[j]) = {}

LEMMA FlattenSeqHolds ==
    ASSUME NEW T, NEW seqs \in Seq(Seq(T))
    PROVE  /\ FlattenSeq(seqs) \in Seq(T)
           /\ Range(FlattenSeq(seqs)) = UNION {Range(seqs[i]) : i \in DOMAIN seqs}
           /\ Separate(seqs) => IsInjective(FlattenSeq(seqs))
<1>1. CASE seqs = <<>>
  <2>1. FlattenSeq(seqs) = <<>>
    BY <1>1 DEF FlattenSeq
  <2>2. <<>> \in Seq(T) /\ DOMAIN <<>> = {} /\ DOMAIN seqs = {}
    BY <1>1
  <2>3. Range(<<>>) = {} /\ UNION {Range(seqs[i]) : i \in DOMAIN seqs} = {} /\ IsInjective(<<>>)
    BY <2>2 DEF Range, IsInjective
  <2> QED
    BY <2>1, <2>2, <2>3
<1>2. CASE seqs # <<>>
  <2>1. PICK f : Flattens(f, seqs) /\ FlattenSeq(seqs) = f[Len(seqs)]
    BY <1>2, FlattenSeqUnfolds
  <2>2. Len(seqs) \in Nat /\ Len(seqs) > 0 /\ DOMAIN seqs = 1..Len(seqs)
    BY <1>2
  <2>3. \A i \in 1..Len(seqs) : seqs[i] \in Seq(T)
    BY <2>2
  <2>4. \A i \in 1..Len(seqs) : f[i] = IF i = 1 THEN seqs[i] ELSE f[i - 1] \o seqs[i]
    BY <2>1 DEF Flattens
  <2> DEFINE Parts(n) == UNION {Range(seqs[i]) : i \in 1..n}
             Holds(n) == /\ f[n] \in Seq(T) /\ Range(f[n]) = Parts(n)
                         /\ Separate(seqs) => IsInjective(f[n])
             D == {n \in Nat : n + 1 <= Len(seqs) => Holds(n + 1)}
  <2>5. 0 \in D
    <3>1. f[1] = seqs[1] /\ f[1] \in Seq(T) /\ 1 \in DOMAIN seqs /\ 1..1 = {1}
      BY <2>2, <2>3, <2>4
    <3>2. Parts(1) = Range(seqs[1])
      BY <3>1
    <3>3. Separate(seqs) => IsInjective(seqs[1])
      BY <3>1 DEF Separate
    <3>4. Holds(1)
      BY <3>1, <3>2, <3>3
    <3> HIDE DEF Holds
    <3> QED
      BY <3>4
  <2>6. ASSUME NEW n \in Nat, n \in D PROVE n + 1 \in D
    <3> HIDE DEF Holds
    <3> SUFFICES ASSUME n + 2 <= Len(seqs) PROVE Holds(n + 2)
      OBVIOUS
    <3>1. Holds(n + 1)
      BY <2>6
    <3>2. n + 2 \in DOMAIN seqs /\ (n + 2) - 1 = n + 1 /\ n + 2 # 1
      BY <2>2
    <3>3. f[n + 2] = f[n + 1] \o seqs[n + 2] /\ seqs[n + 2] \in Seq(T) /\ f[n + 1] \in Seq(T)
      BY <2>2, <2>3, <2>4, <3>1, <3>2 DEF Holds
    <3>4. 1..(n + 2) = 1..(n + 1) \cup {n + 2} /\ n + 2 \notin 1..(n + 1) /\ 1..(n + 1) \subseteq DOMAIN seqs
      BY <2>2
    <3>5. Parts(n + 2) = Parts(n + 1) \cup Range(seqs[n + 2])
      BY <3>4
    <3>6. ASSUME Separate(seqs)
          PROVE  IsInjective(seqs[n + 2]) /\ Parts(n + 1) \cap Range(seqs[n + 2]) = {}
      <4>1. IsInjective(seqs[n + 2])
        BY <3>2, <3>6 DEF Separate
      <4>2. ASSUME NEW i \in 1..(n + 1) PROVE Range(seqs[i]) \cap Range(seqs[n + 2]) = {}
        <5>1. i \in DOMAIN seqs /\ i # n + 2
          BY <3>4
        <5> QED
          BY <5>1, <3>2, <3>6 DEF Separate
      <4> QED
        BY <4>1, <4>2
    <3>7. /\ Range(f[n + 2]) = Range(f[n + 1]) \cup Range(seqs[n + 2])
          /\ IsInjective(f[n + 1]) /\ IsInjective(seqs[n + 2]) /\ Range(f[n + 1]) \cap Range(seqs[n + 2]) = {}
               => IsInjective(f[n + 2])
      BY <3>3, ConcatenationHolds
    <3>8. f[n + 2] \in Seq(T)
      BY <3>3
    <3> HIDE DEF Parts
    <3> QED
      BY <3>1, <3>5, <3>6, <3>7, <3>8 DEF Holds
  <2>7. Holds(Len(seqs))
    <3> HIDE DEF Holds
    <3>1. Len(seqs) - 1 \in Nat /\ (Len(seqs) - 1) + 1 <= Len(seqs) /\ (Len(seqs) - 1) + 1 = Len(seqs)
      BY <2>2
    <3>2. Len(seqs) - 1 \in D
      <4> HIDE DEF D
      <4> QED
        BY <3>1, <2>5, <2>6, Induction
    <3>3. Holds((Len(seqs) - 1) + 1)
      BY <3>1, <3>2
    <3> QED
      BY <3>1, <3>3
  <2> QED
    BY <2>1, <2>2, <2>7
<1> QED
  BY <1>1, <1>2

(* f starts with init and takes the steps 1 to len.                        *)
Iterates(f, T, len, init, step) ==
    /\ f \in [0..len -> T]
    /\ \A n \in 0..len : f[n] = IF n = 0 THEN init ELSE step[n][f[n - 1]]

Steps(T, len) == [1..len -> [T -> T]]

(* Such a function exists,                                                 *)
LEMMA IterationExists ==
    ASSUME NEW T, NEW len \in Nat, NEW init \in T, NEW step \in Steps(T, len)
    PROVE  \E f : Iterates(f, T, len, init, step)
<1> DEFINE Follows(f, n) == \A i \in 0..n : f[i] = IF i = 0 THEN init ELSE step[i][f[i - 1]]
           Upto(n) == \E f \in [0..n -> T] : Follows(f, n)
           D == {n \in Nat : n <= len => Upto(n)}
<1>1. 0 \in D
  <2> DEFINE f == [i \in 0..0 |-> init]
  <2>1. f \in [0..0 -> T] /\ Follows(f, 0)
    OBVIOUS
  <2>2. Upto(0)
    BY <2>1
  <2> HIDE DEF Upto
  <2> QED
    BY <2>2
<1>2. ASSUME NEW n \in Nat, n \in D PROVE n + 1 \in D
  <2> HIDE DEF Upto
  <2> SUFFICES ASSUME n + 1 <= len PROVE Upto(n + 1)
    OBVIOUS
  <2>1. Upto(n)
    BY <1>2
  <2>2. PICK f \in [0..n -> T] : Follows(f, n)
    BY <2>1 DEF Upto
  <2> DEFINE g == [i \in 0..(n + 1) |-> IF i = n + 1 THEN step[n + 1][f[n]] ELSE f[i]]
  <2>3. n \in 0..n /\ f[n] \in T /\ n + 1 \in 1..len /\ step[n + 1][f[n]] \in T
    BY DEF Steps
  <2>4. ASSUME NEW i \in 0..(n + 1)
        PROVE  g[i] \in T /\ g[i] = IF i = 0 THEN init ELSE step[i][g[i - 1]]
    <3>1. CASE i = n + 1
      <4>1. i # 0 /\ i - 1 = n /\ n \in 0..(n + 1) /\ n # n + 1
        BY <3>1
      <4> QED
        BY <3>1, <4>1, <2>3
    <3>2. CASE i # n + 1
      <4>1. i \in 0..n /\ (i # 0 => i - 1 \in 0..(n + 1) /\ i - 1 # n + 1)
        BY <3>2
      <4> QED
        BY <3>2, <4>1, <2>2
    <3> QED
      BY <3>1, <3>2
  <2>5. g \in [0..(n + 1) -> T] /\ Follows(g, n + 1)
    BY <2>4
  <2> QED
    BY <2>5 DEF Upto
<1>3. len \in D
  <2> HIDE DEF D
  <2> QED
    BY <1>1, <1>2, Induction
<1> QED
  BY <1>3 DEF Iterates

(* and keeps to the sets that no step leaves.                              *)
LEMMA IterationStays ==
    ASSUME NEW len \in Nat, NEW f, NEW Good, f[0] \in Good[0],
           \A n \in 1..len : f[n - 1] \in Good[n - 1] => f[n] \in Good[n]
    PROVE  f[len] \in Good[len]
<1> DEFINE D == {n \in Nat : n <= len => f[n] \in Good[n]}
<1>1. 0 \in D
  OBVIOUS
<1>2. ASSUME NEW n \in Nat, n \in D PROVE n + 1 \in D
  <2> SUFFICES ASSUME n + 1 <= len PROVE f[n + 1] \in Good[n + 1]
    OBVIOUS
  <2>1. n + 1 \in 1..len /\ (n + 1) - 1 = n /\ f[n] \in Good[n]
    BY <1>2
  <2> QED
    BY <2>1
<1>3. len \in D
  <2> HIDE DEF D
  <2> QED
    BY <1>1, <1>2, Induction
<1> QED
  BY <1>3

-----------------------------------------------------------------------------
(* A fold over a finite set takes one element of it after another. Such a  *)
(* function exists,                                                        *)
Pick(s) == CHOOSE x \in s : TRUE
FoldsOver(f, S, base, step) ==
    /\ f = [s \in SUBSET S |-> f[s]]
    /\ \A s \in SUBSET S :
          f[s] = IF s = {} THEN base ELSE step[Pick(s)][f[s \ {Pick(s)}]]

LEMMA FoldExists ==
    ASSUME NEW S, IsFiniteSet(S), NEW base, NEW step
    PROVE  \E f : FoldsOver(f, S, base, step)
<1> DEFINE Body(f, s) == IF s = {} THEN base ELSE step[Pick(s)][f[s \ {Pick(s)}]]
           Upto(n) == \E f : /\ f = [s \in SUBSET S |-> f[s]]
                             /\ \A s \in SUBSET S : Cardinality(s) <= n => f[s] = Body(f, s)
           D == {n \in Nat : Upto(n)}
<1>1. ASSUME NEW s \in SUBSET S
      PROVE  /\ Cardinality(s) \in Nat /\ Cardinality(s) <= Cardinality(S)
             /\ s = {} <=> Cardinality(s) = 0
             /\ s # {} => /\ s \ {Pick(s)} \in SUBSET S
                          /\ Cardinality(s \ {Pick(s)}) = Cardinality(s) - 1
  <2>1. IsFiniteSet(s) /\ Cardinality(s) <= Cardinality(S)
    BY FS_Subset
  <2>2. Cardinality(s) \in Nat /\ (s = {} <=> Cardinality(s) = 0)
    BY <2>1, FS_CardinalityType, FS_EmptySet
  <2>3. ASSUME s # {} PROVE Cardinality(s \ {Pick(s)}) = Cardinality(s) - 1
    <3>1. Pick(s) \in s
      BY <2>3 DEF Pick
    <3> QED
      BY <2>1, <3>1, FS_RemoveElement
  <2>4. s \ {Pick(s)} \in SUBSET S
    OBVIOUS
  <2> QED
    BY <2>1, <2>2, <2>3, <2>4, Zenon
<1>2. 0 \in D
  <2> DEFINE f == [s \in SUBSET S |-> base]
  <2>1. f = [s \in SUBSET S |-> f[s]]
    OBVIOUS
  <2>2. ASSUME NEW s \in SUBSET S, Cardinality(s) <= 0 PROVE f[s] = Body(f, s)
    <3>1. Cardinality(s) \in Nat /\ (Cardinality(s) = 0 => s = {})
      BY <1>1, Zenon
    <3> QED
      BY <2>2, <3>1
  <2> HIDE DEF f, Body
  <2> QED
    BY <2>1, <2>2
<1>3. ASSUME NEW n \in Nat, n \in D PROVE n + 1 \in D
  <2>1. PICK f : /\ f = [s \in SUBSET S |-> f[s]]
                 /\ \A s \in SUBSET S : Cardinality(s) <= n => f[s] = Body(f, s)
    BY <1>3
  <2> DEFINE g == [s \in SUBSET S |-> IF Cardinality(s) <= n THEN f[s] ELSE Body(f, s)]
  <2>2. g = [s \in SUBSET S |-> g[s]]
    OBVIOUS
  <2>3. ASSUME NEW s \in SUBSET S, Cardinality(s) <= n + 1 PROVE g[s] = Body(g, s)
    <3>1. g[s] = Body(f, s)
      <4> HIDE DEF Body
      <4> QED
        BY <2>1
    <3>2. CASE s = {}
      BY <3>1, <3>2
    <3>3. CASE s # {}
      <4>1. /\ s \ {Pick(s)} \in SUBSET S
            /\ Cardinality(s \ {Pick(s)}) <= n
        BY <1>1, <2>3, <3>3
      <4>2. g[s \ {Pick(s)}] = f[s \ {Pick(s)}]
        BY <4>1
      <4> HIDE DEF g
      <4> QED
        BY <3>1, <3>3, <4>2
    <3> QED
      BY <3>2, <3>3
  <2>4. Upto(n + 1)
    <3> HIDE DEF g, Body
    <3> QED
      BY <2>2, <2>3
  <2> HIDE DEF Upto
  <2> QED
    BY <2>4
<1>4. Cardinality(S) \in D
  <2>1. Cardinality(S) \in Nat
    BY FS_CardinalityType
  <2> HIDE DEF D
  <2> QED
    BY <1>2, <1>3, <2>1, Induction
<1>5. PICK f : /\ f = [s \in SUBSET S |-> f[s]]
               /\ \A s \in SUBSET S : Cardinality(s) <= Cardinality(S) => f[s] = Body(f, s)
  BY <1>4
<1>6. \A s \in SUBSET S : f[s] = Body(f, s)
  <2> HIDE DEF Body
  <2> QED
    BY <1>1, <1>5
<1> QED
  BY <1>5, <1>6 DEF FoldsOver

(* and keeps to the sets that no element leaves.                           *)
LEMMA FoldStays ==
    ASSUME NEW S, IsFiniteSet(S), NEW f, NEW Good, f[{}] \in Good[{}],
           \A s \in SUBSET S :
              s # {} /\ f[s \ {Pick(s)}] \in Good[s \ {Pick(s)}] => f[s] \in Good[s]
    PROVE  \A s \in SUBSET S : f[s] \in Good[s]
<1> DEFINE D == {n \in Nat : \A s \in SUBSET S : Cardinality(s) = n => f[s] \in Good[s]}
<1>1. ASSUME NEW s \in SUBSET S
      PROVE  /\ Cardinality(s) \in Nat
             /\ s = {} <=> Cardinality(s) = 0
             /\ s # {} => /\ s \ {Pick(s)} \in SUBSET S
                          /\ Cardinality(s \ {Pick(s)}) = Cardinality(s) - 1
  <2>1. IsFiniteSet(s)
    BY FS_Subset
  <2>2. Cardinality(s) \in Nat /\ (s = {} <=> Cardinality(s) = 0)
    BY <2>1, FS_CardinalityType, FS_EmptySet
  <2>3. ASSUME s # {} PROVE Cardinality(s \ {Pick(s)}) = Cardinality(s) - 1
    <3>1. Pick(s) \in s
      BY <2>3 DEF Pick
    <3> QED
      BY <2>1, <3>1, FS_RemoveElement
  <2>4. s \ {Pick(s)} \in SUBSET S
    OBVIOUS
  <2> QED
    BY <2>1, <2>2, <2>3, <2>4, Zenon
<1>2. 0 \in D
  BY <1>1
<1>3. ASSUME NEW n \in Nat, n \in D PROVE n + 1 \in D
  <2> SUFFICES ASSUME NEW s \in SUBSET S, Cardinality(s) = n + 1 PROVE f[s] \in Good[s]
    OBVIOUS
  <2>1. s # {} /\ s \ {Pick(s)} \in SUBSET S /\ Cardinality(s \ {Pick(s)}) = n
    <3>1. n + 1 # 0 /\ (n + 1) - 1 = n
      OBVIOUS
    <3>2. s # {}
      BY <1>1, <3>1, Zenon
    <3> QED
      BY <1>1, <3>1, <3>2, Zenon
  <2>2. f[s \ {Pick(s)}] \in Good[s \ {Pick(s)}]
    BY <1>3, <2>1
  <2> QED
    BY <2>1, <2>2
<1>4. Nat \subseteq D
  <2> HIDE DEF D
  <2> QED
    BY <1>2, <1>3, Induction
<1> QED
  BY <1>1, <1>4
=============================================================================
