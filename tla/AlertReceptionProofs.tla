------------------------ MODULE AlertReceptionProofs ------------------------
(***************************************************************************)
(* What holds of the server and the clock of AlertReception for any test   *)
(* cases, any generator and any number of handlers. The argument: the      *)
(* clock moves when the server rests, or to the time of a clean-up that is *)
(* under way, so who works does it at the time it read (ClockStands); and  *)
(* unless the two may overlap, requests and clean-ups begin only when the  *)
(* other is over (NoUpdateIsLost). Then what a request has taken out of a  *)
(* list is its own until it puts it back (TakenOutApart), so no number is  *)
(* in a list twice and the lists stay sorted (ListsAscend).                *)
(***************************************************************************)
EXTENDS AlertReception, SequenceLemmas, FiniteSetTheorems

(* Lists of expected alerts: what Ascending says of them.                  *)
LEMMA AscendingFacts ==
    ASSUME NEW eas, Ascending(eas)
    PROVE  /\ eas \in Seq(ToSet(eas)) /\ Len(eas) \in Nat /\ DOMAIN eas = 1..Len(eas)
           /\ \A i \in 1..Len(eas) : IsNumbered(eas[i]) /\ eas[i].orderingID \in Nat
           /\ \A i, j \in 1..Len(eas) : i < j => eas[i].orderingID < eas[j].orderingID
           /\ \A ea \in ToSet(eas) : \E i \in 1..Len(eas) : ea = eas[i]
           /\ \A ea \in ToSet(eas) : IsNumbered(ea) /\ ea.orderingID \in Nat
<1>1. eas \in Seq(ToSet(eas)) /\ Len(eas) \in Nat /\ DOMAIN eas = 1..Len(eas)
  BY DEF Ascending
<1>2. \A i \in 1..Len(eas) : IsNumbered(eas[i]) /\ eas[i].orderingID \in Nat
  BY <1>1 DEF Ascending, IsNumbered
<1>3. \A i, j \in 1..Len(eas) : i < j => eas[i].orderingID < eas[j].orderingID
  BY <1>1 DEF Ascending
<1>4. \A ea \in ToSet(eas) : \E i \in 1..Len(eas) : ea = eas[i]
  BY <1>1 DEF ToSet
<1> QED
  BY <1>1, <1>2, <1>3, <1>4

(* In such a list a number is of one alert.                                *)
LEMMA OneOfANumber ==
    ASSUME NEW eas, Ascending(eas), NEW ea \in ToSet(eas), NEW eb \in ToSet(eas),
           ea.orderingID = eb.orderingID
    PROVE  ea = eb
<1>1. PICK i \in 1..Len(eas) : ea = eas[i]
  BY AscendingFacts
<1>2. PICK j \in 1..Len(eas) : eb = eas[j]
  BY AscendingFacts
<1>3. /\ Len(eas) \in Nat /\ ea.orderingID \in Nat
      /\ i < j => eas[i].orderingID < eas[j].orderingID
      /\ j < i => eas[j].orderingID < eas[i].orderingID
  BY AscendingFacts
<1>4. ~(i < j) /\ ~(j < i)
  BY <1>1, <1>2, <1>3
<1>5. i = j
  BY <1>3, <1>4
<1> QED
  BY <1>1, <1>2, <1>5

(* Two lists one after the other, if every number of the first is lower.   *)
LEMMA ConcatenationAscends ==
    ASSUME NEW u, NEW v, Ascending(u), Ascending(v),
           \A ea \in ToSet(u), eb \in ToSet(v) : ea.orderingID < eb.orderingID
    PROVE  Ascending(u \o v) /\ ToSet(u \o v) = ToSet(u) \cup ToSet(v)
<1> DEFINE T == ToSet(u) \cup ToSet(v)
           w == u \o v
           m == Len(u)
<1>1. u \in Seq(T) /\ v \in Seq(T)
  <2>1. u \in Seq(ToSet(u)) /\ v \in Seq(ToSet(v))
    BY DEF Ascending
  <2> QED
    BY <2>1
<1>2. /\ Len(w) = m + Len(v) /\ m \in Nat /\ Len(v) \in Nat
      /\ DOMAIN u = 1..m /\ DOMAIN v = 1..Len(v) /\ DOMAIN w = 1..(m + Len(v)) /\ w \in Seq(T)
      /\ \A k \in 1..(m + Len(v)) : w[k] = IF k <= m THEN u[k] ELSE v[k - m]
  BY <1>1
<1>3. ToSet(w) = T
  <2>1. Range(w) = Range(u) \cup Range(v)
    BY <1>1, ConcatenationHolds
  <2>2. Range(u) = ToSet(u) /\ Range(v) = ToSet(v) /\ Range(w) = ToSet(w)
    BY DEF Range, ToSet
  <2> QED
    BY <2>1, <2>2
<1> HIDE DEF T, w, m
<1>4. ASSUME NEW k \in DOMAIN w
      PROVE  \/ k \in 1..m /\ w[k] = u[k] /\ u[k] \in ToSet(u)
             \/ k - m \in 1..Len(v) /\ w[k] = v[k - m] /\ v[k - m] \in ToSet(v) /\ k > m
  <2>1. CASE k <= m
    <3>1. k \in 1..m /\ w[k] = u[k]
      BY <1>2, <2>1
    <3> QED
      BY <1>2, <3>1 DEF ToSet
  <2>2. CASE ~(k <= m)
    <3>1. k - m \in 1..Len(v) /\ w[k] = v[k - m] /\ k > m
      BY <1>2, <2>2
    <3> QED
      BY <1>2, <3>1 DEF ToSet
  <2> QED
    BY <2>1, <2>2
<1>5. ASSUME NEW k \in DOMAIN w PROVE IsNumbered(w[k])
  BY <1>4, AscendingFacts
<1>6. ASSUME NEW j \in DOMAIN w, NEW k \in DOMAIN w, j < k
      PROVE  w[j].orderingID < w[k].orderingID
  <2>1. j \in Int /\ k \in Int /\ m \in Int
    BY <1>2
  <2>2. CASE j \in 1..m /\ w[j] = u[j] /\ k \in 1..m /\ w[k] = u[k]
    <3>1. Len(u) = m
      BY DEF m
    <3> QED
      BY <1>6, <2>2, <3>1, AscendingFacts
  <2>3. CASE j - m \in 1..Len(v) /\ w[j] = v[j - m] /\ k - m \in 1..Len(v) /\ w[k] = v[k - m]
    <3>1. j - m < k - m
      BY <1>6, <2>1
    <3> QED
      BY <2>3, <3>1, AscendingFacts
  <2>4. CASE w[j] \in ToSet(u) /\ w[k] \in ToSet(v)
    BY <2>4
  <2> QED
    BY <1>4, <1>6, <2>1, <2>2, <2>3, <2>4
<1>7. w \in Seq(ToSet(w))
  BY <1>2, <1>3
<1>8. Ascending(w)
  BY <1>5, <1>6, <1>7 DEF Ascending
<1> QED
  BY <1>3, <1>8 DEF w, T

(* The shortest lists.                                                     *)
LEMMA SingletonAscends ==
    ASSUME NEW ea, IsNumbered(ea)
    PROVE  Ascending(<<ea>>) /\ ToSet(<<ea>>) = {ea}
<1>1. ToSet(<<ea>>) = {ea} /\ <<ea>> \in Seq({ea}) /\ DOMAIN <<ea>> = {1} /\ <<ea>>[1] = ea
  BY DEF ToSet
<1> QED
  BY <1>1 DEF Ascending

LEMMA EmptyAscends == Ascending(<<>>) /\ ToSet(<<>>) = {}
<1>1. ToSet(<<>>) = {} /\ <<>> \in Seq({}) /\ DOMAIN <<>> = {}
  BY DEF ToSet
<1> QED
  BY <1>1 DEF Ascending

(* A part of a list is in the order of the list.                           *)
LEMMA OnlyAscends ==
    ASSUME NEW eas, Ascending(eas), NEW S
    PROVE  Ascending(Only(eas, S)) /\ ToSet(Only(eas, S)) = ToSet(eas) \cap S
<1> DEFINE len == Len(eas)
           T == Seq(ToSet(eas))
           Step(w, e) == IF e \in S THEN Append(w, e) ELSE w
           Prefix(n) == {eas[i] : i \in 1..n}
           Holds(w, n) == Ascending(w) /\ ToSet(w) = Prefix(n) \cap S
           Good == [n \in 0..len |-> {w \in T : Holds(w, n)}]
           kept[n \in 0..len] ==
             IF n = 0 THEN <<>>
             ELSE IF eas[n] \in S THEN Append(kept[n - 1], eas[n])
             ELSE kept[n - 1]
<1>1. /\ len \in Nat /\ DOMAIN eas = 1..len /\ ToSet(eas) = Prefix(len)
      /\ \A n \in 1..len : eas[n] \in ToSet(eas) /\ IsNumbered(eas[n])
      /\ \A i, j \in 1..len : i < j => eas[i].orderingID < eas[j].orderingID
  BY AscendingFacts DEF ToSet
<1>2. Only(eas, S) = kept[len]
  BY DEF Only
<1> HIDE DEF len
<1>3. kept = [n \in 0..len |-> IF n = 0 THEN <<>> ELSE Step(kept[n - 1], eas[n])]
  <2> DEFINE step == [n \in 1..len |-> [w \in T |-> Step(w, eas[n])]]
             init == <<>>
  <2>1. step \in Steps(T, len) /\ init \in T
    <3>1. \A n \in 1..len : \A w \in T : Step(w, eas[n]) \in T
      BY <1>1
    <3> HIDE DEF T, Step
    <3>2. step \in Steps(T, len)
      BY <3>1 DEF Steps
    <3> QED
      BY <3>2 DEF T
  <2> HIDE DEF Step, step, T, init
  <2>2. PICK f : Iterates(f, T, len, init, step)
    BY <1>1, <2>1, IterationExists
  <2>3. ASSUME NEW n \in 0..len, n # 0 PROVE step[n][f[n - 1]] = Step(f[n - 1], eas[n])
    <3>1. n \in 1..len /\ n - 1 \in 0..len
      BY <1>1, <2>3
    <3> QED
      BY <3>1, <2>2 DEF Iterates, step
  <2>4. \A n \in 0..len : f[n] = IF n = 0 THEN <<>> ELSE Step(f[n - 1], eas[n])
    BY <2>2, <2>3 DEF Iterates, init
  <2>5. f = [n \in 0..len |-> f[n]]
    BY <2>2 DEF Iterates
  <2>6. f = [n \in 0..len |-> IF n = 0 THEN <<>>
                             ELSE IF eas[n] \in S THEN Append(f[n - 1], eas[n])
                             ELSE f[n - 1]]
    BY <2>4, <2>5 DEF Step
  <2> QED
    BY <2>6 DEF Step
<1> HIDE DEF kept, T
<1>4. kept[0] \in Good[0]
  <2>1. kept[0] = <<>> /\ 0 \in 0..len /\ Prefix(0) = {} /\ <<>> \in T
    BY <1>1, <1>3 DEF T
  <2> QED
    BY <2>1, EmptyAscends
<1>5. ASSUME NEW n \in 1..len, kept[n - 1] \in Good[n - 1] PROVE kept[n] \in Good[n]
  <2> DEFINE w == kept[n - 1]
             e == eas[n]
  <2>1. n \in 0..len /\ n - 1 \in 0..len /\ n # 0 /\ e \in ToSet(eas) /\ IsNumbered(e)
    BY <1>1, SMTT(30)
  <2>2. kept[n] = Step(w, e)
    <3> HIDE DEF Step
    <3> QED
      BY <1>3, <2>1
  <2>3. w \in T /\ Ascending(w) /\ ToSet(w) = Prefix(n - 1) \cap S
    BY <1>5, <2>1
  <2>4. Prefix(n) = Prefix(n - 1) \cup {e}
    <3>1. 1..n = 1..(n - 1) \cup {n}
      BY <1>1
    <3> QED
      BY <3>1
  <2>5. \A ea \in Prefix(n - 1) : ea.orderingID < e.orderingID
    <3>1. \A i \in 1..(n - 1) : i \in 1..len /\ i < n
      BY <1>1
    <3> QED
      BY <1>1, <3>1
  <2> HIDE DEF Prefix, w, e
  <2>6. CASE e \in S
    <3>1. kept[n] = w \o <<e>> /\ w \o <<e>> \in T
      <4>1. kept[n] = Append(w, e)
        BY <2>2, <2>6
      <4>2. Append(w, e) = w \o <<e>> /\ Append(w, e) \in T
        BY <2>1, <2>3 DEF T
      <4> QED
        BY <4>1, <4>2
    <3>2. Ascending(<<e>>) /\ ToSet(<<e>>) = {e}
      BY <2>1, SingletonAscends
    <3>3. \A ea \in ToSet(w), eb \in ToSet(<<e>>) : ea.orderingID < eb.orderingID
      BY <2>3, <2>5, <3>2
    <3>4. Ascending(w \o <<e>>) /\ ToSet(w \o <<e>>) = ToSet(w) \cup {e}
      BY <2>3, <3>2, <3>3, ConcatenationAscends
    <3> HIDE DEF Step
    <3> QED
      BY <2>1, <2>3, <2>4, <2>6, <3>1, <3>4
  <2>7. CASE e \notin S
    <3>1. kept[n] = w
      BY <2>2, <2>7
    <3> HIDE DEF Step
    <3> QED
      BY <2>1, <2>3, <2>4, <2>7, <3>1
  <2> QED
    BY <2>6, <2>7
<1>6. kept[len] \in Good[len]
  <2> HIDE DEF Good
  <2> QED
    BY <1>1, <1>4, <1>5, IterationStays
<1>7. Ascending(kept[len]) /\ ToSet(kept[len]) = Prefix(len) \cap S
  <2>1. len \in 0..len
    BY <1>1
  <2> QED
    BY <1>6, <2>1
<1> HIDE DEF Prefix
<1> QED
  BY <1>1, <1>2, <1>7

(* An alert with a new number goes to its place.                           *)
LEMMA InsertedAscends ==
    ASSUME NEW eas, Ascending(eas), NEW ea, IsNumbered(ea),
           \A e \in ToSet(eas) : e.orderingID # ea.orderingID
    PROVE  Ascending(inserted(ea, eas)) /\ ToSet(inserted(ea, eas)) = ToSet(eas) \cup {ea}
<1> DEFINE A == {e \in ToSet(eas) : e.orderingID <= ea.orderingID}
           B == {e \in ToSet(eas) : e.orderingID > ea.orderingID}
           u == Only(eas, A)
           v == Only(eas, B)
<1>1. Ascending(u) /\ ToSet(u) = ToSet(eas) \cap A
  <2> HIDE DEF A
  <2> QED
    BY OnlyAscends
<1>2. Ascending(v) /\ ToSet(v) = ToSet(eas) \cap B
  <2> HIDE DEF B
  <2> QED
    BY OnlyAscends
<1>3. Ascending(<<ea>>) /\ ToSet(<<ea>>) = {ea}
  BY SingletonAscends
<1>4. /\ \A e \in ToSet(eas) : e.orderingID \in Nat
      /\ ea.orderingID \in Nat
  BY AscendingFacts DEF IsNumbered
<1>5. /\ \A e \in ToSet(u) : e.orderingID < ea.orderingID
      /\ \A e \in ToSet(v) : ea.orderingID < e.orderingID
      /\ \A e \in ToSet(u), f \in ToSet(v) : e.orderingID < f.orderingID
      /\ ToSet(u) \cup ToSet(v) = ToSet(eas)
  <2>1. \A e \in ToSet(eas) : \/ e.orderingID < ea.orderingID /\ e \in A /\ e \notin B
                              \/ ea.orderingID < e.orderingID /\ e \in B /\ e \notin A
    BY <1>4
  <2>2. \A e \in ToSet(u) : e \in ToSet(eas) /\ e.orderingID < ea.orderingID
    <3> HIDE DEF A, B, u
    <3> QED
      BY <1>1, <2>1
  <2>3. \A e \in ToSet(v) : e \in ToSet(eas) /\ ea.orderingID < e.orderingID
    <3> HIDE DEF A, B, v
    <3> QED
      BY <1>2, <2>1
  <2>4. \A e \in ToSet(u), f \in ToSet(v) : e.orderingID < f.orderingID
    <3> HIDE DEF u, v
    <3> QED
      BY <1>4, <2>2, <2>3
  <2>5. ToSet(u) \cup ToSet(v) = ToSet(eas)
    <3> HIDE DEF A, B, u, v
    <3> QED
      BY <1>1, <1>2, <2>1
  <2> QED
    BY <2>2, <2>3, <2>4, <2>5
<1> HIDE DEF u, v
<1>6. Ascending(u \o <<ea>>) /\ ToSet(u \o <<ea>>) = ToSet(u) \cup {ea}
  <2>1. \A e \in ToSet(u), f \in ToSet(<<ea>>) : e.orderingID < f.orderingID
    BY <1>3, <1>5
  <2> QED
    BY <1>1, <1>3, <2>1, ConcatenationAscends
<1>7. /\ Ascending((u \o <<ea>>) \o v)
      /\ ToSet((u \o <<ea>>) \o v) = ToSet(u \o <<ea>>) \cup ToSet(v)
  <2>1. \A e \in ToSet(u \o <<ea>>), f \in ToSet(v) : e.orderingID < f.orderingID
    BY <1>5, <1>6
  <2> QED
    BY <1>2, <1>6, <2>1, ConcatenationAscends
<1>8. inserted(ea, eas) = (u \o <<ea>>) \o v
  BY DEF inserted, u, v
<1> QED
  BY <1>5, <1>6, <1>7, <1>8

(* So do several, that have numbers of their own.                          *)
LEMMA AddedAscend ==
    ASSUME NEW eas, Ascending(eas), NEW added, IsFiniteSet(added),
           \A ea \in added : IsNumbered(ea),
           \A ea, eb \in added : ea.orderingID = eb.orderingID => ea = eb,
           \A ea \in added, eb \in ToSet(eas) : ea.orderingID # eb.orderingID
    PROVE  /\ Ascending(withAdded(eas, added))
           /\ ToSet(withAdded(eas, added)) = ToSet(eas) \cup added
<1> DEFINE T == Seq(ToSet(eas) \cup added)
           Holds(w, s) == Ascending(w) /\ ToSet(w) = ToSet(eas) \cup s
           Good == [s \in SUBSET added |-> {w \in T : Holds(w, s)}]
           step == [x \in added |-> [w \in T |-> inserted(x, w)]]
           iter[s \in SUBSET added] ==
             IF s = {} THEN eas
             ELSE inserted(CHOOSE x \in s : TRUE, iter[s \ {CHOOSE x \in s : TRUE}])
<1>1. withAdded(eas, added) = iter[added]
  BY DEF withAdded, FoldSet, MapThenFoldSet
<1>2. eas \in T /\ Holds(eas, {})
  <2>1. eas \in Seq(ToSet(eas))
    BY AscendingFacts
  <2> QED
    BY <2>1
<1>3. ASSUME NEW s \in SUBSET added, s # {}, NEW w \in T, Holds(w, s \ {Pick(s)})
      PROVE  /\ Pick(s) \in added
             /\ inserted(Pick(s), w) \in T /\ Holds(inserted(Pick(s), w), s)
  <2>1. Pick(s) \in s
    BY <1>3 DEF Pick
  <2>2. IsNumbered(Pick(s)) /\ Ascending(w) /\ ToSet(w) = ToSet(eas) \cup (s \ {Pick(s)})
    BY <1>3, <2>1
  <2>3. \A e \in ToSet(w) : e.orderingID # Pick(s).orderingID
    BY <2>1, <2>2
  <2>4. /\ Ascending(inserted(Pick(s), w))
        /\ ToSet(inserted(Pick(s), w)) = ToSet(eas) \cup s
    <3>1. ToSet(inserted(Pick(s), w)) = ToSet(w) \cup {Pick(s)} /\ Ascending(inserted(Pick(s), w))
      BY <2>2, <2>3, InsertedAscends
    <3> QED
      BY <2>1, <2>2, <3>1
  <2>5. inserted(Pick(s), w) \in Seq(ToSet(inserted(Pick(s), w)))
    BY <2>4, AscendingFacts
  <2>6. inserted(Pick(s), w) \in T
    <3>1. ToSet(eas) \cup s \subseteq ToSet(eas) \cup added
      OBVIOUS
    <3>2. \A P, Q : P \subseteq Q => Seq(P) \subseteq Seq(Q)
      OBVIOUS
    <3> QED
      BY <2>4, <2>5, <3>1, <3>2
  <2> QED
    BY <2>1, <2>4, <2>6
<1> HIDE DEF T, Holds
<1>4. PICK f : /\ f = [s \in SUBSET added |-> f[s]]
               /\ \A s \in SUBSET added :
                     f[s] = IF s = {} THEN eas ELSE step[Pick(s)][f[s \ {Pick(s)}]]
  <2> HIDE DEF step
  <2>1. \E f : FoldsOver(f, added, eas, step)
    BY FoldExists
  <2> QED
    BY <2>1, Zenon DEF FoldsOver
<1>5. ASSUME NEW s \in SUBSET added, s # {}, f[s \ {Pick(s)}] \in Good[s \ {Pick(s)}]
      PROVE  /\ f[s] = inserted(Pick(s), f[s \ {Pick(s)}])
             /\ f[s] \in Good[s]
  <2> DEFINE w == f[s \ {Pick(s)}]
  <2>1. w \in T /\ Holds(w, s \ {Pick(s)})
    BY <1>5
  <2>2. f[s] = step[Pick(s)][w]
    <3> HIDE DEF step
    <3> QED
      BY <1>4, <1>5
  <2> HIDE DEF w
  <2>3. Pick(s) \in added /\ inserted(Pick(s), w) \in T /\ Holds(inserted(Pick(s), w), s)
    BY <1>3, <1>5, <2>1
  <2>4. f[s] = inserted(Pick(s), w)
    BY <2>1, <2>2, <2>3
  <2> QED
    BY <2>3, <2>4 DEF w
<1>6. f[{}] \in Good[{}]
  BY <1>2, <1>4
<1>7. \A s \in SUBSET added : f[s] \in Good[s]
  <2> HIDE DEF Good
  <2> QED
    BY <1>5, <1>6, FoldStays
<1>8. f = [s \in SUBSET added |-> IF s = {} THEN eas ELSE inserted(Pick(s), f[s \ {Pick(s)}])]
  <2>1. \A s \in SUBSET added : f[s] = IF s = {} THEN eas ELSE inserted(Pick(s), f[s \ {Pick(s)}])
    <3>1. \A s \in SUBSET added : s \ {Pick(s)} \in SUBSET added
      OBVIOUS
    <3> HIDE DEF step, Good
    <3> QED
      BY <1>4, <1>5, <1>7, <3>1
  <2> QED
    BY <1>4, <2>1
<1>9. iter = [s \in SUBSET added |-> IF s = {} THEN eas ELSE inserted(Pick(s), iter[s \ {Pick(s)}])]
  <2>1. f = [s \in SUBSET added |->
               IF s = {} THEN eas
               ELSE inserted(CHOOSE x \in s : TRUE, f[s \ {CHOOSE x \in s : TRUE}])]
    BY <1>8, ZenonT(30) DEF Pick
  <2> QED
    BY <2>1, ZenonT(30) DEF Pick
<1> HIDE DEF iter
<1>10. iter[{}] \in Good[{}]
  BY <1>2, <1>9
<1>11. ASSUME NEW s \in SUBSET added, s # {}, iter[s \ {Pick(s)}] \in Good[s \ {Pick(s)}]
       PROVE  iter[s] \in Good[s]
  <2> DEFINE w == iter[s \ {Pick(s)}]
  <2>1. w \in T /\ Holds(w, s \ {Pick(s)})
    BY <1>11
  <2>2. iter[s] = inserted(Pick(s), w)
    BY <1>9, <1>11
  <2> HIDE DEF w
  <2> QED
    BY <1>3, <1>11, <2>1, <2>2
<1>12. iter[added] \in Good[added]
  <2>1. \A s \in SUBSET added : iter[s] \in Good[s]
    <3> HIDE DEF Good
    <3> QED
      BY <1>10, <1>11, FoldStays
  <2> HIDE DEF Good
  <2> QED
    BY <2>1
<1> QED
  BY <1>1, <1>12 DEF Holds

(* A list holds finitely many alerts.                                      *)
LEMMA FinitelyMany == ASSUME NEW eas, Ascending(eas) PROVE IsFiniteSet(ToSet(eas))
<1>1. eas \in Seq(ToSet(eas)) /\ \A ea \in ToSet(eas) : \E i \in 1..Len(eas) : eas[i] = ea
  BY AscendingFacts
<1> QED
  BY <1>1 DEF IsFiniteSet

(* Another time changes neither the order nor whose alert it is, and none  *)
(* is lost.                                                                *)
LEMMA AdjustedAscends ==
    ASSUME NEW eas, Ascending(eas), NEW t
    PROVE  /\ Ascending(AdjustResends(eas, t))
           /\ \A ea \in ToSet(AdjustResends(eas, t)) :
                 \E eb \in ToSet(eas) : ea.id = eb.id
           /\ \A ea \in ToSet(eas) :
                 \E eb \in ToSet(AdjustResends(eas, t)) : eb.orderingID = ea.orderingID
<1> DEFINE w == AdjustResends(eas, t)
<1>1. /\ Len(eas) \in Nat /\ DOMAIN eas = 1..Len(eas)
      /\ w = [i \in 1..Len(eas) |-> IF \A j \in 1..i : eas[j].resend
                                    THEN [eas[i] EXCEPT !.ts = AdjustedTs(t)] ELSE eas[i]]
  BY AscendingFacts DEF AdjustResends
<1>2. ASSUME NEW i \in 1..Len(eas)
      PROVE  IsNumbered(w[i]) /\ w[i].orderingID = eas[i].orderingID /\ w[i].id = eas[i].id
  <2> DEFINE ea == [eas[i] EXCEPT !.ts = AdjustedTs(t)]
  <2>1. IsNumbered(eas[i])
    BY AscendingFacts
  <2>2. IsNumbered(ea) /\ ea.orderingID = eas[i].orderingID /\ ea.id = eas[i].id
    BY <2>1 DEF IsNumbered
  <2> HIDE DEF ea
  <2>3. w[i] = ea \/ w[i] = eas[i]
    BY <1>1 DEF ea
  <2> QED
    BY <2>1, <2>2, <2>3
<1>3. DOMAIN w = 1..Len(eas) /\ ToSet(w) = {w[i] : i \in 1..Len(eas)} /\ w = [i \in 1..Len(eas) |-> w[i]]
  BY <1>1 DEF ToSet
<1> HIDE DEF w
<1>4. w \in Seq(ToSet(w))
  <2>1. w \in [1..Len(eas) -> ToSet(w)]
    BY <1>3
  <2>2. \A T, n : n \in Nat => [1..n -> T] \subseteq Seq(T)
    OBVIOUS
  <2>3. Len(eas) \in Nat
    BY <1>1
  <2> QED
    BY <2>1, <2>2, <2>3
<1>5. Ascending(w)
  <2>1. \A j \in 1..Len(eas) : \A i \in 1..(j - 1) : w[i].orderingID < w[j].orderingID
    <3>1. \A j \in 1..Len(eas) : \A i \in 1..(j - 1) : i \in 1..Len(eas) /\ i < j
      BY <1>1
    <3> QED
      BY <1>2, <3>1, AscendingFacts
  <2> QED
    BY <1>2, <1>3, <1>4, <2>1 DEF Ascending
<1>6. \A ea \in ToSet(w) : \E eb \in ToSet(eas) : ea.id = eb.id
  <2>1. \A i \in 1..Len(eas) : eas[i] \in ToSet(eas)
    BY <1>1 DEF ToSet
  <2> QED
    BY <1>2, <1>3, <2>1
<1>7. \A ea \in ToSet(eas) : \E eb \in ToSet(w) : eb.orderingID = ea.orderingID
  <2>1. \A ea \in ToSet(eas) : \E i \in 1..Len(eas) : ea = eas[i]
    BY <1>1 DEF ToSet
  <2>2. \A i \in 1..Len(eas) : w[i] \in ToSet(w) /\ w[i].orderingID = eas[i].orderingID
    BY <1>2, <1>3
  <2> QED
    BY <2>1, <2>2
<1> QED
  BY <1>5, <1>6, <1>7 DEF w

(* What is in time of a list, and of that what is possible.                *)
LEMMA InTimeAscends ==
    ASSUME NEW eas, Ascending(eas), NEW t
    PROVE  /\ Ascending(InTime(eas, t)) /\ ToSet(InTime(eas, t)) \subseteq ToSet(eas)
           /\ \A ea \in ToSet(eas) :
                 ShouldBeIgnored(ea) \/ Late(ea, t) \/ ea \in ToSet(InTime(eas, t))
<1> DEFINE S == {ea \in ToSet(eas) : ~ShouldBeIgnored(ea) /\ ~Late(ea, t)}
<1>1. InTime(eas, t) = Only(eas, S)
  BY DEF InTime
<1>2. \A ea \in ToSet(eas) : ShouldBeIgnored(ea) \/ Late(ea, t) \/ ea \in S
  OBVIOUS
<1> HIDE DEF S
<1> QED
  BY <1>1, <1>2, OnlyAscends

(* getPossibleAlert takes a part of one list out of it.                    *)
LEMMA PossibleTakenOut ==
    ASSUME ListsAscend, NEW t, NEW lbls, NEW exp, exp = possibleAlerts(t, lbls),
           NEW left, left = afterGetPossibleAlert(t, lbls)
    PROVE  /\ Ascending(exp)
           /\ ToSet(exp) # {} => lbls \in Ids /\ ToSet(exp) \subseteq ToSet(expectedAlerts[lbls])
           /\ DOMAIN left = Ids
           /\ \A x \in Ids : Ascending(left[x]) /\ ToSet(left[x]) \subseteq ToSet(expectedAlerts[x])
           /\ lbls \in Ids => ToSet(exp) \cap ToSet(left[lbls]) = {}
           /\ \A x \in Ids : \A ea \in ToSet(expectedAlerts[x]) :
                 \/ ShouldBeIgnored(ea) \/ Late(ea, t)
                 \/ ea \in ToSet(left[x]) \/ (x = lbls /\ ea \in ToSet(exp))
<1> DEFINE eas(x) == InTime(expectedAlerts[x], t)
           P(w) == {ea \in ToSet(w) : Possible(ea, t)}
           N(x) == {ea \in ToSet(eas(x)) : x # lbls \/ ~Possible(ea, t)}
<1>1. exp = IF lbls \in Ids THEN Only(eas(lbls), P(eas(lbls))) ELSE Only(<<>>, P(<<>>))
  BY DEF possibleAlerts
<1>2. DOMAIN left = Ids /\ \A x \in Ids : left[x] = Only(eas(x), N(x))
  BY DEF afterGetPossibleAlert
<1>3. \A x \in Ids : /\ Ascending(eas(x)) /\ ToSet(eas(x)) \subseteq ToSet(expectedAlerts[x])
                     /\ \A ea \in ToSet(expectedAlerts[x]) :
                           ShouldBeIgnored(ea) \/ Late(ea, t) \/ ea \in ToSet(eas(x))
  BY InTimeAscends DEF ListsAscend
<1>4. /\ lbls \in Ids => P(eas(lbls)) \cap N(lbls) = {}
      /\ \A x \in Ids : \A ea \in ToSet(eas(x)) : ea \in N(x) \/ (x = lbls /\ ea \in P(eas(lbls)))
  OBVIOUS
<1> HIDE DEF eas, P, N
<1>5. \A x \in Ids : Ascending(left[x]) /\ ToSet(left[x]) = ToSet(eas(x)) \cap N(x)
  BY <1>2, <1>3, OnlyAscends
<1>6. CASE lbls \in Ids
  <2>1. Ascending(exp) /\ ToSet(exp) = ToSet(eas(lbls)) \cap P(eas(lbls))
    BY <1>1, <1>3, <1>6, OnlyAscends
  <2> QED
    BY <1>2, <1>3, <1>4, <1>5, <1>6, <2>1
<1>7. CASE lbls \notin Ids
  <2>1. exp = Only(<<>>, P(<<>>))
    BY <1>1, <1>7
  <2>2. Ascending(exp) /\ ToSet(exp) = {}
    BY <2>1, OnlyAscends, EmptyAscends
  <2> QED
    BY <1>2, <1>3, <1>4, <1>5, <1>7, <2>2
<1> QED
  BY <1>6, <1>7

(* The locals of a handler after an alert of its request, whichever of the *)
(* three ways it goes.                                                     *)
LEMMA ServeAlertLocals ==
    ASSUME TypeOK, NEW h \in Handlers, NEW al, ServeAlert(h, al)
    PROVE  \E r :
              /\ handler' = [handler EXCEPT ![h] = r]
              /\ DOMAIN r = DOMAIN IdleHandler /\ r.pc = "serving" /\ r.now = handler[h].now
              /\ r.alerts = handler[h].alerts \ {al}
              /\ \A ea \in r.missed \ handler[h].missed : ~CanBeIgnored(ea)
              /\ handler[h].missed \subseteq r.missed
              /\ handler[h].addBack \subseteq r.addBack
              /\ ListsAscend => r.addBack \ handler[h].addBack \subseteq
                                   ToSet(possibleAlerts(handler[h].now, al.id))
<1> DEFINE exp == possibleAlerts(handler[h].now, al.id)
           matching == {i \in DOMAIN exp : Matches(exp[i], handler[h].now, al)}
           idx == CHOOSE i \in matching : \A j \in matching : i <= j
           after(addBack, missed, success) ==
               [handler[h] EXCEPT !.alerts = @ \ {al}, !.addBack = @ \cup addBack,
                                  !.missed = @ \cup missed, !.success = @ \cup success]
           Locals(addBack, missed, success) ==
               handler' = [handler EXCEPT ![h].alerts = @ \ {al}, ![h].addBack = @ \cup addBack,
                                          ![h].missed = @ \cup missed, ![h].success = @ \cup success]
           Back == MayStillCome(exp, idx)
           Fine(addBack, missed) ==
               /\ ListsAscend => addBack \subseteq ToSet(exp)
               /\ \A ea \in missed : ~CanBeIgnored(ea)
<1>1. /\ handler[h].pc = "serving" /\ DOMAIN handler = Handlers
      /\ DOMAIN handler[h] = DOMAIN IdleHandler
  BY DEF TypeOK, ServeAlert
<1>2. \/ Locals({}, {}, {})
      \/ matching # {} /\ Locals(Back, MissedBefore(exp, idx), {al.id})
      \/ Locals(ToSet(exp), {}, {})
  BY Zenon DEF ServeAlert
<1>3. Fine({}, {}) /\ Fine(ToSet(exp), {})
  OBVIOUS
<1>4. matching # {} => Fine(Back, MissedBefore(exp, idx))
  <2>1. \A ea \in MissedBefore(exp, idx) : ~CanBeIgnored(ea)
    BY DEF MissedBefore
  <2>2. ASSUME matching # {}, ListsAscend PROVE Back \subseteq ToSet(exp)
    <3>1. DOMAIN exp = 1..Len(exp) /\ Len(exp) \in Nat
      BY <2>2, PossibleTakenOut, AscendingFacts
    <3> HIDE DEF exp
    <3>2. matching \in SUBSET Nat /\ matching \subseteq 1..Len(exp)
      BY <3>1
    <3> HIDE DEF matching
    <3>3. \E i \in matching : \A j \in matching : i <= j
      BY <2>2, <3>2, LeastExists
    <3>4. idx \in 1..Len(exp)
      BY <3>2, <3>3
    <3> HIDE DEF idx
    <3>5. \A i \in (idx + 1)..Len(exp) : i \in 1..Len(exp)
      BY <3>1, <3>4
    <3> QED
      BY <3>1, <3>5 DEF ToSet, MayStillCome
  <2> QED
    BY <2>1, <2>2
<1>5. \E addBack, missed, success : Locals(addBack, missed, success) /\ Fine(addBack, missed)
  <2>1. \A a, m, t : Locals(a, m, t) /\ Fine(a, m) => \E b, n, u : Locals(b, n, u) /\ Fine(b, n)
    OBVIOUS
  <2> HIDE DEF Locals, Fine, Back, exp, idx, matching
  <2> QED
    BY <1>2, <1>3, <1>4, <2>1
<1>6. PICK addBack, missed, success : Locals(addBack, missed, success) /\ Fine(addBack, missed)
  BY <1>5
<1> DEFINE r == after(addBack, missed, success)
<1>7. handler' = [handler EXCEPT ![h] = r]
  <2> HIDE DEF Fine, exp
  <2> QED
    BY <1>1, <1>6 DEF IdleHandler
<1>8. /\ r.pc = "serving" /\ r.now = handler[h].now /\ r.missed = handler[h].missed \cup missed
      /\ r.addBack = handler[h].addBack \cup addBack /\ DOMAIN r = DOMAIN IdleHandler
      /\ r.alerts = handler[h].alerts \ {al}
  BY <1>1 DEF IdleHandler
<1>9. /\ ListsAscend => addBack \subseteq ToSet(exp)
      /\ \A ea \in missed : ~CanBeIgnored(ea)
  BY <1>6
<1> HIDE DEF r, exp
<1> QED
  <2>1. /\ \A ea \in r.missed \ handler[h].missed : ~CanBeIgnored(ea)
        /\ handler[h].addBack \subseteq r.addBack /\ handler[h].missed \subseteq r.missed
        /\ ListsAscend => r.addBack \ handler[h].addBack \subseteq ToSet(exp)
    BY <1>8, <1>9
  <2> QED
    BY <1>7, <1>8, <2>1 DEF exp

-----------------------------------------------------------------------------
(* The evaluations of the generator, with or without a fault.              *)

LEMMA EvaluateKeeps ==
    ASSUME ServerInv, NEW ev, NEW send, NEW posted, NEW parsable, Evaluate(ev, send, posted, parsable),
           fault' \in FaultKinds \cup {"none"}
    PROVE  ServerInv'
<1>1. TypeOK /\ ServersExclude /\ ClockStands /\ NoUpdateIsLost /\ IgnorableIsNotMissed
  BY DEF ServerInv
<1>2. /\ HandlersIdle /\ CleanupIdle /\ inFlight = NoMessage
      /\ nextEval <= nextCleanup /\ now' = nextEval /\ nextEval' = nextEval + EvalInterval
      /\ UNCHANGED <<case, sampleDelay, resends, nextCleanup, serverVars>>
  BY DEF Evaluate, EvaluationIsDue, At, IsNext, NextEvent, ServerRests
<1>3. /\ nextEval \in Nat /\ nextCleanup \in Nat /\ nextEval' \in Nat /\ nextEval < nextEval'
  BY <1>1, <1>2 DEF TypeOK, EvalInterval, Second
<1>4. inFlight' # NoMessage => inFlight'.at \in Nat \ {0} /\ nextEval < inFlight'.at
  <2>1. CASE posted = {}
    BY <1>2, <2>1 DEF Evaluate
  <2>2. CASE posted # {}
    <3>1. PICK l \in Latencies : inFlight' = [at |-> nextEval + l, alerts |-> posted, parsable |-> parsable]
      BY <2>2 DEF Evaluate
    <3>2. l \in Nat \ {0}
      BY DelaysAssumption DEF MaxRTT, Second
    <3> QED
      BY <1>3, <3>1, <3>2
  <2> QED
    BY <2>1, <2>2
<1>5. TypeOK'
  BY <1>1, <1>2, <1>3, <1>4 DEF TypeOK, Ids, serverVars, errs
<1>6. ClockStands'
  <2>1. \A t \in NextEvent' : now' <= t
    BY <1>2, <1>3, <1>4 DEF NextEvent
  <2> QED
    BY <1>1, <1>2, <2>1 DEF ClockStands, HandlersIdle, CleanupIdle, serverVars
<1>7. ServersExclude' /\ NoUpdateIsLost' /\ IgnorableIsNotMissed'
  BY <1>1, <1>2 DEF ServersExclude, NoUpdateIsLost, IgnorableIsNotMissed, HandlersIdle, CleanupIdle,
                    serverVars, errs
<1> QED
  BY <1>5, <1>6, <1>7 DEF ServerInv

LEMMA GeneratorKeeps ==
    ASSUME ServerInv,
           \/ EvaluateCompliantly \/ LoseAlert \/ SendEarly \/ FireEarly
           \/ SendWrongAnnotations \/ SendUnparsable \/ EvaluateInWrongOrder
    PROVE  ServerInv'
<1>1. \A kind : Commit(kind) => fault' \in FaultKinds \cup {"none"}
  BY DEF Commit
<1>2. UNCHANGED fault => fault' \in FaultKinds \cup {"none"}
  BY DEF ServerInv, TypeOK
<1>3. CASE EvaluateCompliantly
  BY <1>2, <1>3, EvaluateKeeps DEF EvaluateCompliantly
<1>4. CASE LoseAlert
  BY <1>1, <1>4, EvaluateKeeps DEF LoseAlert
<1>5. CASE SendEarly
  BY <1>1, <1>5, EvaluateKeeps DEF SendEarly
<1>6. CASE FireEarly
  BY <1>1, <1>6, EvaluateKeeps DEF FireEarly
<1>7. CASE SendWrongAnnotations
  BY <1>1, <1>7, EvaluateKeeps DEF SendWrongAnnotations
<1>8. CASE SendUnparsable
  BY <1>1, <1>8, EvaluateKeeps DEF SendUnparsable
<1>9. CASE EvaluateInWrongOrder
  BY <1>1, <1>9, EvaluateKeeps DEF EvaluateInWrongOrder
<1> QED
  BY <1>3, <1>4, <1>5, <1>6, <1>7, <1>8, <1>9

-----------------------------------------------------------------------------
(* What begins at the server when its time comes.                          *)

LEMMA ArriveKeeps == ASSUME ServerInv, Arrive PROVE ServerInv'
<1>1. TypeOK /\ ServersExclude /\ ClockStands /\ NoUpdateIsLost /\ IgnorableIsNotMissed
  BY DEF ServerInv
<1>2. PICK h \in Handlers : ReceiveRequest(h, inFlight.at, inFlight.alerts, inFlight.parsable)
  BY DEF Arrive
<1> DEFINE r == [IdleHandler EXCEPT !.pc = "received", !.now = inFlight.at,
                                    !.alerts = inFlight.alerts, !.parsable = inFlight.parsable]
<1>3. /\ inFlight # NoMessage /\ inFlight' = NoMessage /\ now' = inFlight.at
      /\ inFlight.at \in Nat \ {0} /\ now' \in Nat
      /\ now' <= nextEval /\ now' <= nextCleanup
      /\ ServerRests \/ (CleanupOverlaps /\ cleanup.now = inFlight.at)
      /\ UNCHANGED <<case, sampleDelay, nextEval, nextCleanup, fault, expectedAlerts, errs, mtx, cleanup>>
  BY <1>1, <1>2 DEF Arrive, At, IsNext, NextEvent, ReceiveRequest, TypeOK
<1>4. /\ handler[h].pc = "idle" /\ handler' = [handler EXCEPT ![h] = r]
  BY <1>2 DEF ReceiveRequest
<1>5. /\ r.pc = "received" /\ r.now = inFlight.at /\ r.missed = {} /\ DOMAIN r = DOMAIN IdleHandler
  BY DEF IdleHandler
<1> HIDE DEF r
<1>6. \A g \in Handlers : handler'[g] = IF g = h THEN r ELSE handler[g]
  BY <1>1, <1>4 DEF TypeOK
<1>7. DOMAIN handler' = Handlers
  BY <1>1, <1>4 DEF TypeOK
<1>8. TypeOK'
  BY <1>1, <1>3, <1>5, <1>6, <1>7 DEF TypeOK, Ids
<1>9. ServersExclude'
  BY <1>1, <1>3, <1>4, <1>5, <1>6 DEF ServersExclude
<1>10. ClockStands'
  <2>1. \A t \in NextEvent' : now' <= t
    BY <1>3 DEF NextEvent
  <2>2. ServerRests \/ now' = now
    BY <1>1, <1>3 DEF ClockStands
  <2> QED
    BY <1>1, <1>3, <1>5, <1>6, <2>1, <2>2 DEF ClockStands, ServerRests, HandlersIdle, CleanupIdle
<1>11. NoUpdateIsLost'
  BY <1>1, <1>3 DEF NoUpdateIsLost, ServerRests, CleanupIdle
<1>12. IgnorableIsNotMissed'
  BY <1>1, <1>3, <1>5, <1>6 DEF IgnorableIsNotMissed, errs
<1> QED
  BY <1>8, <1>9, <1>10, <1>11, <1>12 DEF ServerInv

LEMMA CleanupTickKeeps == ASSUME ServerInv, CleanupTick PROVE ServerInv'
<1>1. TypeOK /\ ServersExclude /\ ClockStands /\ NoUpdateIsLost /\ IgnorableIsNotMissed
  BY DEF ServerInv
<1>2. /\ HandlersIdle /\ CleanupIdle /\ now' = nextCleanup
      /\ nextCleanup \in Nat /\ nextCleanup' = nextCleanup + CleanupInterval
      /\ \A t \in NextEvent : nextCleanup <= t
      /\ UNCHANGED <<case, genVars, expectedAlerts, errs, mtx, handler>>
  BY <1>1 DEF CleanupTick, CleanupStarts, At, IsNext, ServerRests, TypeOK
<1>3. nextCleanup' \in Nat /\ nextCleanup < nextCleanup'
  BY <1>2 DEF CleanupInterval, Second
<1>4. /\ cleanup'.pc = "pick" /\ cleanup'.now = nextCleanup /\ cleanup'.missed = {}
      /\ DOMAIN cleanup' = DOMAIN IdleCleanup
  BY DEF CleanupTick, CleanupStarts, IdleCleanup
<1>5. TypeOK'
  BY <1>1, <1>2, <1>3, <1>4 DEF TypeOK, Ids, genVars
<1>6. ClockStands'
  <2>1. \A t \in NextEvent' : now' <= t
    BY <1>2, <1>3 DEF NextEvent, genVars
  <2> QED
    BY <1>2, <1>4, <2>1 DEF ClockStands, HandlersIdle
<1>7. ServersExclude' /\ NoUpdateIsLost'
  BY <1>1, <1>2, <1>4 DEF ServersExclude, NoUpdateIsLost, HandlersIdle
<1>8. IgnorableIsNotMissed'
  BY <1>1, <1>2, <1>4 DEF IgnorableIsNotMissed, errs
<1> QED
  BY <1>5, <1>6, <1>7, <1>8 DEF ServerInv

-----------------------------------------------------------------------------
(* The steps of the server. A step of a handler changes its locals, and    *)
(* may change the lists, while no clean-up is under way unless they may    *)
(* overlap.                                                                *)

LEMMA HandlerChangeKeeps ==
    ASSUME ServerInv, NEW h \in Handlers, handler[h].pc # "idle",
           NEW r, handler' = [handler EXCEPT ![h] = r],
           DOMAIN r = DOMAIN IdleHandler,
           r.pc \in {"idle", "received", "serving"},
           r.pc # "idle" => r.now = handler[h].now,
           IF r.pc = "serving" THEN mtx' = h /\ mtx \in {h, NoHandler}
           ELSE IF handler[h].pc = "serving" THEN mtx' = NoHandler ELSE UNCHANGED mtx,
           \A ea \in r.missed \cup missedAlerts' : ~CanBeIgnored(ea),
           DOMAIN expectedAlerts' = Ids,
           UNCHANGED <<cleanup, case, now, genVars, nextCleanup>>
    PROVE  ServerInv'
<1>1. TypeOK /\ ServersExclude /\ ClockStands /\ NoUpdateIsLost /\ IgnorableIsNotMissed
  BY DEF ServerInv
<1>2. \A g \in Handlers : handler'[g] = IF g = h THEN r ELSE handler[g]
  BY <1>1 DEF TypeOK
<1>3. DOMAIN handler' = Handlers /\ mtx' \in Handlers \cup {NoHandler}
  BY <1>1 DEF TypeOK
<1>4. TypeOK'
  BY <1>1, <1>2, <1>3 DEF TypeOK, Ids, genVars
<1>5. ServersExclude'
  <2>1. CASE r.pc = "serving"
    <3>1. mtx' = h /\ mtx \in {h, NoHandler}
      BY <2>1
    <3> QED
      BY <1>1, <1>2, <2>1, <3>1, HandlersAssumption DEF ServersExclude
  <2>2. CASE r.pc # "serving" /\ handler[h].pc = "serving"
    BY <1>1, <1>2, <2>2, HandlersAssumption DEF ServersExclude
  <2>3. CASE r.pc # "serving" /\ handler[h].pc # "serving"
    BY <1>1, <1>2, <2>3 DEF ServersExclude
  <2> QED
    BY <2>1, <2>2, <2>3
<1>6. ClockStands'
  BY <1>1, <1>2 DEF ClockStands, NextEvent, genVars
<1>7. NoUpdateIsLost'
  BY <1>1 DEF NoUpdateIsLost, HandlersIdle, CleanupIdle
<1>8. IgnorableIsNotMissed'
  BY <1>1, <1>2 DEF IgnorableIsNotMissed
<1> QED
  BY <1>4, <1>5, <1>6, <1>7, <1>8 DEF ServerInv

LEMMA RejectKeeps ==
    ASSUME ServerInv, NEW h \in Handlers, Reject(h), UNCHANGED <<case, now, genVars, nextCleanup>>
    PROVE  ServerInv'
<1>1. /\ handler[h].pc = "received" /\ handler' = [handler EXCEPT ![h] = IdleHandler]
      /\ UNCHANGED <<expectedAlerts, errs, mtx, cleanup>>
  BY DEF Reject
<1>2. IdleHandler.pc = "idle" /\ IdleHandler.missed = {}
  BY DEF IdleHandler
<1>3. \A ea \in IdleHandler.missed \cup missedAlerts' : ~CanBeIgnored(ea)
  BY <1>1, <1>2 DEF ServerInv, IgnorableIsNotMissed, errs
<1> QED
  BY <1>1, <1>2, <1>3, HandlerChangeKeeps DEF Ids

LEMMA LockKeeps ==
    ASSUME ServerInv, NEW h \in Handlers, Lock(h), UNCHANGED <<case, now, genVars, nextCleanup>>
    PROVE  ServerInv'
<1> DEFINE r == [handler[h] EXCEPT !.pc = "serving"]
<1>1. /\ handler[h].pc = "received" /\ handler' = [handler EXCEPT ![h] = r]
      /\ mtx = NoHandler /\ mtx' = h
      /\ UNCHANGED <<expectedAlerts, errs, cleanup>>
  BY DEF Lock
<1>2. DOMAIN handler[h] = DOMAIN IdleHandler
  BY DEF ServerInv, TypeOK
<1>3. r.pc = "serving" /\ r.now = handler[h].now /\ r.missed = handler[h].missed /\ DOMAIN r = DOMAIN IdleHandler
  BY <1>2 DEF IdleHandler
<1> HIDE DEF r
<1>4. \A ea \in r.missed \cup missedAlerts' : ~CanBeIgnored(ea)
  BY <1>1, <1>3 DEF ServerInv, IgnorableIsNotMissed, errs
<1> QED
  BY <1>1, <1>3, <1>4, HandlerChangeKeeps DEF Ids

LEMMA ServeAlertKeeps ==
    ASSUME ServerInv, NEW h \in Handlers, NEW al \in handler[h].alerts, ServeAlert(h, al),
           UNCHANGED <<case, now, genVars, nextCleanup>>
    PROVE  ServerInv'
<1>1. handler[h].pc = "serving" /\ TypeOK /\ mtx = h
  BY DEF ServerInv, ServersExclude, ServeAlert
<1>2. /\ expectedAlerts' = afterGetPossibleAlert(handler[h].now, al.id)
      /\ missedAlerts' = missedAlerts \cup UNION {MissedAmong(expectedAlerts[x], handler[h].now) : x \in Ids}
      /\ UNCHANGED <<mtx, cleanup>>
  BY DEF ServeAlert
<1>3. PICK r :
         /\ handler' = [handler EXCEPT ![h] = r]
         /\ DOMAIN r = DOMAIN IdleHandler /\ r.pc = "serving" /\ r.now = handler[h].now
         /\ \A ea \in r.missed \ handler[h].missed : ~CanBeIgnored(ea)
  BY <1>1, ServeAlertLocals
<1>4. \A x \in Ids : \A ea \in MissedAmong(expectedAlerts[x], handler[h].now) : ~CanBeIgnored(ea)
  BY DEF MissedAmong
<1>5. \A ea \in r.missed \cup missedAlerts' : ~CanBeIgnored(ea)
  BY <1>2, <1>3, <1>4 DEF ServerInv, IgnorableIsNotMissed
<1>6. DOMAIN expectedAlerts' = Ids
  BY <1>2 DEF afterGetPossibleAlert
<1> QED
  BY <1>1, <1>2, <1>3, <1>5, <1>6, HandlerChangeKeeps

LEMMA UnlockKeeps ==
    ASSUME ServerInv, NEW h \in Handlers, Unlock(h), UNCHANGED <<case, now, genVars, nextCleanup>>
    PROVE  ServerInv'
<1>1. /\ handler[h].pc = "serving" /\ handler' = [handler EXCEPT ![h] = IdleHandler]
      /\ missedAlerts' = missedAlerts \cup handler[h].missed /\ mtx' = NoHandler
      /\ DOMAIN expectedAlerts' = Ids /\ UNCHANGED cleanup
  BY DEF Unlock
<1>2. IdleHandler.pc = "idle" /\ IdleHandler.missed = {}
  BY DEF IdleHandler
<1>3. \A ea \in IdleHandler.missed \cup missedAlerts' : ~CanBeIgnored(ea)
  BY <1>1, <1>2 DEF ServerInv, IgnorableIsNotMissed
<1> QED
  BY <1>1, <1>2, <1>3, HandlerChangeKeeps

LEMMA CleanupKeeps ==
    ASSUME ServerInv, CleanupStep, UNCHANGED <<case, now, genVars, nextCleanup>>
    PROVE  ServerInv'
<1>1. TypeOK /\ ServersExclude /\ ClockStands /\ NoUpdateIsLost /\ IgnorableIsNotMissed
  BY DEF ServerInv
<1>2. /\ cleanup.pc \in {"pick", "write"} /\ cleanup.now = now
      /\ DOMAIN cleanup = DOMAIN IdleCleanup /\ UNCHANGED <<mtx, handler>>
      /\ ~CleanupOverlaps => HandlersIdle
  BY <1>1 DEF CleanupStep, CleanupReads, CleanupWrites, CleanupEnds, TypeOK, ClockStands, NoUpdateIsLost,
              CleanupIdle
<1>3. ServersExclude'
  BY <1>1, <1>2 DEF ServersExclude
<1>4. ASSUME DOMAIN expectedAlerts' = Ids, DOMAIN cleanup' = DOMAIN IdleCleanup,
             cleanup'.pc \in {"idle", "pick", "write"},
             cleanup'.now = IF cleanup'.pc = "idle" THEN 0 ELSE now
      PROVE  TypeOK' /\ ClockStands'
  BY <1>1, <1>2, <1>4 DEF TypeOK, ClockStands, NextEvent, Ids, genVars
<1>5. ASSUME NEW x \in Ids, CleanupReads(x) PROVE ServerInv'
  <2> DEFINE r == [cleanup EXCEPT !.pc = "write", !.id = x,
                      !.newExpAlerts = InTime(expectedAlerts[x], cleanup.now),
                      !.missed = @ \cup MissedAmong(expectedAlerts[x], cleanup.now)]
  <2>1. cleanup' = r /\ UNCHANGED <<expectedAlerts, errs>>
    BY <1>5 DEF CleanupReads
  <2>2. /\ r.pc = "write" /\ r.id = x /\ r.now = cleanup.now /\ DOMAIN r = DOMAIN IdleCleanup
        /\ r.newExpAlerts = InTime(expectedAlerts[x], cleanup.now)
        /\ r.missed = cleanup.missed \cup MissedAmong(expectedAlerts[x], cleanup.now)
    BY <1>2 DEF IdleCleanup
  <2> HIDE DEF r
  <2>3. TypeOK' /\ ClockStands'
    BY <1>2, <1>4, <2>1, <2>2 DEF Ids
  <2>4. NoUpdateIsLost'
    BY <1>2, <2>1, <2>2 DEF NoUpdateIsLost, HandlersIdle
  <2>5. IgnorableIsNotMissed'
    BY <1>1, <1>2, <2>1, <2>2 DEF IgnorableIsNotMissed, MissedAmong, errs
  <2> QED
    BY <1>3, <2>3, <2>4, <2>5 DEF ServerInv
<1>6. CASE CleanupWrites
  <2> DEFINE r == [cleanup EXCEPT !.pc = "pick", !.todo = @ \ {cleanup.id}, !.newExpAlerts = <<>>]
  <2>1. cleanup' = r /\ UNCHANGED errs /\ DOMAIN expectedAlerts' = Ids
    BY <1>6 DEF CleanupWrites, Ids
  <2>2. r.pc = "pick" /\ r.now = cleanup.now /\ DOMAIN r = DOMAIN IdleCleanup /\ r.missed = cleanup.missed
    BY <1>2 DEF IdleCleanup
  <2> HIDE DEF r
  <2>3. TypeOK' /\ ClockStands'
    BY <1>2, <1>4, <2>1, <2>2
  <2>4. NoUpdateIsLost' /\ IgnorableIsNotMissed'
    BY <1>1, <1>2, <2>1, <2>2 DEF NoUpdateIsLost, IgnorableIsNotMissed, HandlersIdle, errs
  <2> QED
    BY <1>3, <2>3, <2>4 DEF ServerInv
<1>7. CASE CleanupEnds
  <2>1. /\ cleanup' = IdleCleanup /\ missedAlerts' = missedAlerts \cup cleanup.missed
        /\ UNCHANGED expectedAlerts
    BY <1>7 DEF CleanupEnds
  <2>2. IdleCleanup.pc = "idle" /\ IdleCleanup.now = 0 /\ IdleCleanup.missed = {}
    BY DEF IdleCleanup
  <2>3. TypeOK' /\ ClockStands'
    BY <1>4, <2>1, <2>2 DEF Ids
  <2>4. NoUpdateIsLost' /\ IgnorableIsNotMissed'
    BY <1>1, <1>2, <2>1, <2>2 DEF NoUpdateIsLost, IgnorableIsNotMissed, HandlersIdle
  <2> QED
    BY <1>3, <2>3, <2>4 DEF ServerInv
<1> QED
  BY <1>5, <1>6, <1>7 DEF CleanupStep

(* Together: the invariant of the server and of the clock.                 *)
LEMMA ServerAtFirst == ASSUME Init PROVE ServerInv
<1>1. /\ nextEval \in Nat \ {0} /\ nextCleanup \in Nat \ {0}
  BY PhasesAssumption DEF Init, Second
<1>2. /\ \A h \in Handlers : handler[h] = IdleHandler
      /\ DOMAIN handler = Handlers /\ mtx = NoHandler /\ cleanup = IdleCleanup
      /\ missedAlerts = {} /\ Ids = LabelSets[case]
  BY DEF Init, SInit, Ids
<1>3. /\ IdleHandler.pc = "idle" /\ IdleHandler.missed = {}
      /\ IdleCleanup.pc = "idle" /\ IdleCleanup.now = 0 /\ IdleCleanup.missed = {}
  BY DEF IdleHandler, IdleCleanup
<1>4. TypeOK
  BY <1>1, <1>2, <1>3 DEF Init, TypeOK
<1>5. ServersExclude /\ NoUpdateIsLost /\ IgnorableIsNotMissed
  BY <1>2, <1>3, HandlersAssumption DEF ServersExclude, NoUpdateIsLost, IgnorableIsNotMissed, HandlersIdle
<1>6. ClockStands
  BY <1>1, <1>2, <1>3 DEF Init, ClockStands, NextEvent
<1> QED
  BY <1>4, <1>5, <1>6 DEF ServerInv

LEMMA ServerKeeps == ASSUME ServerInv, [Next]_vars PROVE ServerInv'
<1>1. CASE \/ EvaluateCompliantly \/ LoseAlert \/ SendEarly \/ FireEarly
           \/ SendWrongAnnotations \/ SendUnparsable \/ EvaluateInWrongOrder
  BY <1>1, GeneratorKeeps
<1>2. CASE Arrive
  BY <1>2, ArriveKeeps
<1>3. CASE CleanupTick
  BY <1>3, CleanupTickKeeps
<1>4. CASE ServerSteps
  BY <1>4, RejectKeeps, LockKeeps, ServeAlertKeeps, UnlockKeeps, CleanupKeeps DEF ServerSteps, HandlerStep
<1>5. CASE Over \/ UNCHANGED vars
  <2>1. UNCHANGED vars
    BY <1>5 DEF Over
  <2> QED
    BY <2>1 DEF vars, genVars, serverVars, errs, ServerInv, TypeOK, ServersExclude, ClockStands, NoUpdateIsLost,
                IgnorableIsNotMissed, NextEvent, Ids, HandlersIdle, CleanupIdle
<1> QED
  BY <1>1, <1>2, <1>3, <1>4, <1>5 DEF Next

-----------------------------------------------------------------------------
(* A request takes alerts out of the lists, and keeps them apart.          *)
LEMMA ServeAlertKeepsLists ==
    ASSUME ServerInv, ListsAscend, TakenOutApart, NEW h \in Handlers, NEW al, ServeAlert(h, al)
    PROVE  ListsAscend' /\ TakenOutApart'
<1> DEFINE exp == possibleAlerts(handler[h].now, al.id)
<1>1. TypeOK
  BY DEF ServerInv
<1>2. PICK r : /\ handler' = [handler EXCEPT ![h] = r] /\ r.pc = "serving"
               /\ handler[h].addBack \subseteq r.addBack
               /\ r.addBack \ handler[h].addBack \subseteq ToSet(exp)
  BY <1>1, ServeAlertLocals
<1>3. handler[h].pc = "serving" /\ expectedAlerts' = afterGetPossibleAlert(handler[h].now, al.id)
  BY DEF ServeAlert
<1>4. /\ Ascending(exp)
      /\ ToSet(exp) # {} => al.id \in Ids /\ ToSet(exp) \subseteq ToSet(expectedAlerts[al.id])
      /\ Ids' = Ids
      /\ \A x \in Ids : /\ Ascending(expectedAlerts'[x])
                        /\ ToSet(expectedAlerts'[x]) \subseteq ToSet(expectedAlerts[x])
      /\ al.id \in Ids => ToSet(exp) \cap ToSet(expectedAlerts'[al.id]) = {}
  BY <1>3, PossibleTakenOut DEF Ids
<1> HIDE DEF exp
<1>5. ListsAscend'
  BY <1>4 DEF ListsAscend
<1>6. /\ \A g \in Handlers : handler'[g] = IF g = h THEN r ELSE handler[g]
      /\ \A g \in Handlers : g # h => handler[g].pc # "serving"
  BY <1>1, <1>2, <1>3 DEF ServerInv, TypeOK, ServersExclude
<1>7. IsFiniteSet(r.addBack)
  <2>1. IsFiniteSet(ToSet(exp)) /\ IsFiniteSet(handler[h].addBack)
    BY <1>4, FinitelyMany DEF TakenOutApart
  <2>2. IsFiniteSet(ToSet(exp) \cup handler[h].addBack)
    BY <2>1, FS_Union
  <2> QED
    BY <1>2, <2>2, FS_Subset
<1>8. \A ea \in ToSet(exp) : IsNumbered(ea) /\ al.id \in Ids /\ ea \in ToSet(expectedAlerts[al.id]) /\ ea.id = al.id
  BY <1>4, AscendingFacts DEF ListsAscend
<1>9. ASSUME NEW ea \in r.addBack
      PROVE  IsNumbered(ea) /\ (ea \in handler[h].addBack \/ ea \in ToSet(exp))
  BY <1>2, <1>8 DEF TakenOutApart
<1>10. ASSUME NEW ea \in r.addBack, NEW eb \in r.addBack, ea.id = eb.id, ea.orderingID = eb.orderingID
       PROVE  ea = eb
  <2>1. CASE ea \in handler[h].addBack /\ eb \in handler[h].addBack
    BY <1>10, <2>1 DEF TakenOutApart
  <2>2. CASE ea \in ToSet(exp) /\ eb \in ToSet(exp)
    BY <1>4, <1>10, <2>2, OneOfANumber
  <2>3. CASE ea \in handler[h].addBack /\ eb \in ToSet(exp)
    BY <1>8, <1>10, <2>3 DEF TakenOutApart
  <2>4. CASE eb \in handler[h].addBack /\ ea \in ToSet(exp)
    BY <1>8, <1>10, <2>4 DEF TakenOutApart
  <2> QED
    BY <1>9, <2>1, <2>2, <2>3, <2>4
<1>11. ASSUME NEW ea \in r.addBack, NEW x \in Ids, NEW eb \in ToSet(expectedAlerts'[x]), ea.id = x
       PROVE  ea.orderingID # eb.orderingID
  <2>1. eb \in ToSet(expectedAlerts[x])
    BY <1>4
  <2>2. CASE ea \in handler[h].addBack
    BY <1>11, <2>1, <2>2 DEF TakenOutApart
  <2>3. CASE ea \in ToSet(exp)
    <3>1. x = al.id /\ ea \in ToSet(expectedAlerts[x]) /\ ea # eb
      BY <1>4, <1>8, <1>11, <2>3
    <3>2. Ascending(expectedAlerts[x])
      BY DEF ListsAscend
    <3> QED
      BY <2>1, <3>1, <3>2, OneOfANumber
  <2> QED
    BY <1>9, <2>2, <2>3
<1>12. TakenOutApart'
  <2>1. ASSUME NEW g \in Handlers
        PROVE /\ handler'[g].pc # "serving" => handler'[g].addBack = {}
              /\ IsFiniteSet(handler'[g].addBack)
              /\ \A ea \in handler'[g].addBack : IsNumbered(ea)
              /\ \A ea, eb \in handler'[g].addBack :
                    ea.id = eb.id /\ ea.orderingID = eb.orderingID => ea = eb
              /\ \A ea \in handler'[g].addBack, x \in Ids : \A eb \in ToSet(expectedAlerts'[x]) :
                    ea.id = x => ea.orderingID # eb.orderingID
    <3>1. CASE g = h
      BY <1>2, <1>6, <1>7, <1>9, <1>10, <1>11, <3>1
    <3>2. CASE g # h
      <4>1. handler'[g] = handler[g] /\ handler[g].addBack = {}
        BY <1>6, <3>2 DEF TakenOutApart
      <4> QED
        BY <4>1, FS_EmptySet
    <3> QED
      BY <3>1, <3>2
  <2> QED
    BY <1>4, <2>1 DEF TakenOutApart
<1> QED
  BY <1>5, <1>12

(* and puts them back where they were.                                     *)
LEMMA UnlockKeepsLists ==
    ASSUME ServerInv, ListsAscend, TakenOutApart, NEW h \in Handlers, Unlock(h)
    PROVE  ListsAscend' /\ TakenOutApart'
<1> DEFINE added(x) == {ea \in handler[h].addBack : ea.id = x}
           eas(x) == withAdded(expectedAlerts[x], added(x))
<1>1. /\ handler[h].pc = "serving" /\ handler' = [handler EXCEPT ![h] = IdleHandler]
      /\ expectedAlerts' = [x \in Ids |-> IF x \in handler[h].success
                                          THEN AdjustResends(eas(x), handler[h].now)
                                          ELSE eas(x)]
  BY DEF Unlock
<1>2. ASSUME NEW x \in Ids
      PROVE  Ascending(eas(x)) /\ \A ea \in ToSet(eas(x)) : ea.id = x
  <2>1. Ascending(expectedAlerts[x]) /\ \A ea \in ToSet(expectedAlerts[x]) : ea.id = x
    BY DEF ListsAscend
  <2>2. IsFiniteSet(added(x))
    BY FS_Subset DEF TakenOutApart
  <2>3. /\ \A ea \in added(x) : IsNumbered(ea) /\ ea.id = x
        /\ \A ea, eb \in added(x) : ea.orderingID = eb.orderingID => ea = eb
        /\ \A ea \in added(x), eb \in ToSet(expectedAlerts[x]) : ea.orderingID # eb.orderingID
    BY DEF TakenOutApart
  <2> HIDE DEF added
  <2>4. Ascending(eas(x)) /\ ToSet(eas(x)) = ToSet(expectedAlerts[x]) \cup added(x)
    BY <2>1, <2>2, <2>3, AddedAscend
  <2> QED
    BY <2>1, <2>3, <2>4
<1> HIDE DEF eas
<1>3. Ids' = Ids
  BY <1>1 DEF Ids
<1>4. ASSUME NEW x \in Ids
      PROVE  Ascending(expectedAlerts'[x]) /\ \A ea \in ToSet(expectedAlerts'[x]) : ea.id = x
  <2>1. \/ expectedAlerts'[x] = eas(x)
        \/ expectedAlerts'[x] = AdjustResends(eas(x), handler[h].now)
    BY <1>1
  <2> QED
    BY <1>2, <2>1, AdjustedAscends
<1>5. ListsAscend'
  BY <1>3, <1>4 DEF ListsAscend
<1>6. \A g \in Handlers : handler'[g].addBack = {}
  <2>1. /\ DOMAIN handler = Handlers
        /\ \A g \in Handlers : g # h => handler[g].pc # "serving"
    BY <1>1 DEF ServerInv, TypeOK, ServersExclude
  <2>2. IdleHandler.addBack = {}
    BY DEF IdleHandler
  <2> QED
    BY <1>1, <2>1, <2>2 DEF TakenOutApart
<1>7. TakenOutApart'
  BY <1>6, FS_EmptySet DEF TakenOutApart
<1> QED
  BY <1>5, <1>7

(* A request that has taken out nothing yet, or is rejected.               *)
LEMMA NothingTakenOut ==
    ASSUME ServerInv, ListsAscend, TakenOutApart, NEW h \in Handlers, NEW r, r.addBack = {},
           handler' = [handler EXCEPT ![h] = r], UNCHANGED expectedAlerts
    PROVE  ListsAscend' /\ TakenOutApart'
<1>1. DOMAIN handler = Handlers
  BY DEF ServerInv, TypeOK
<1>2. \A g \in Handlers : handler'[g] = IF g = h THEN r ELSE handler[g]
  BY <1>1
<1>3. ListsAscend'
  BY DEF ListsAscend, Ids
<1>4. ASSUME NEW g \in Handlers
      PROVE /\ handler'[g].pc # "serving" => handler'[g].addBack = {}
            /\ IsFiniteSet(handler'[g].addBack)
            /\ \A ea \in handler'[g].addBack : IsNumbered(ea)
            /\ \A ea, eb \in handler'[g].addBack :
                  ea.id = eb.id /\ ea.orderingID = eb.orderingID => ea = eb
            /\ \A ea \in handler'[g].addBack, x \in Ids : \A eb \in ToSet(expectedAlerts[x]) :
                  ea.id = x => ea.orderingID # eb.orderingID
  <2>1. CASE g = h
    BY <1>2, <2>1, FS_EmptySet
  <2>2. CASE g # h
    BY <1>2, <2>2 DEF TakenOutApart
  <2> QED
    BY <2>1, <2>2
<1>5. TakenOutApart'
  BY <1>4 DEF TakenOutApart, Ids
<1> QED
  BY <1>3, <1>5

(* A request, from its arrival to its end.                                 *)
LEMMA RequestKeepsLists ==
    ASSUME ServerInv, ListsAscend, TakenOutApart, Arrive \/ \E h \in Handlers : HandlerStep(h)
    PROVE  ListsAscend' /\ TakenOutApart'
<1>1. ASSUME NEW h \in Handlers, NEW t, NEW alerts, NEW parsable, ReceiveRequest(h, t, alerts, parsable)
      PROVE  ListsAscend' /\ TakenOutApart'
  <2> DEFINE r == [IdleHandler EXCEPT !.pc = "received", !.now = t,
                                      !.alerts = alerts, !.parsable = parsable]
  <2>1. r.addBack = {}
    BY DEF IdleHandler
  <2>2. handler' = [handler EXCEPT ![h] = r] /\ UNCHANGED expectedAlerts
    BY <1>1 DEF ReceiveRequest
  <2> HIDE DEF r
  <2> QED
    BY <2>1, <2>2, NothingTakenOut
<1>2. ASSUME NEW h \in Handlers, Reject(h) PROVE ListsAscend' /\ TakenOutApart'
  <2>1. IdleHandler.addBack = {}
    BY DEF IdleHandler
  <2> QED
    BY <1>2, <2>1, NothingTakenOut DEF Reject
<1>3. ASSUME NEW h \in Handlers, Lock(h) PROVE ListsAscend' /\ TakenOutApart'
  <2> DEFINE r == [handler[h] EXCEPT !.pc = "serving"]
  <2>1. handler[h].pc = "received" /\ handler' = [handler EXCEPT ![h] = r] /\ UNCHANGED expectedAlerts
    BY <1>3 DEF Lock
  <2>2. r.addBack = handler[h].addBack /\ handler[h].addBack = {}
    BY <2>1 DEF TakenOutApart
  <2> HIDE DEF r
  <2> QED
    BY <2>1, <2>2, NothingTakenOut
<1>4. CASE Arrive
  BY <1>1, <1>4 DEF Arrive
<1>5. CASE \E h \in Handlers : HandlerStep(h)
  BY <1>2, <1>3, <1>5, ServeAlertKeepsLists, UnlockKeepsLists DEF HandlerStep
<1> QED
  BY <1>4, <1>5

(* The clean-up replaces a list by a part of it, unless a request overlaps *)
(* it.                                                                     *)
LEMMA CleanupKeepsLists ==
    ASSUME ServerInv, ~CleanupOverlaps, ListsAscend, TakenOutApart, CleanupStep
    PROVE  ListsAscend' /\ TakenOutApart'
<1>1. CASE (\E x \in Ids : CleanupReads(x)) \/ CleanupEnds
  <2>1. UNCHANGED <<expectedAlerts, handler>>
    BY <1>1 DEF CleanupReads, CleanupEnds
  <2> QED
    BY <2>1 DEF ListsAscend, TakenOutApart, Ids
<1>2. CASE CleanupWrites
  <2> DEFINE id == cleanup.id
  <2>1. /\ expectedAlerts' = [expectedAlerts EXCEPT ![id] = InTime(expectedAlerts[id], cleanup.now)]
        /\ UNCHANGED handler /\ HandlersIdle
    BY <1>2 DEF CleanupWrites, ServerInv, NoUpdateIsLost, CleanupIdle
  <2>2. ASSUME NEW x \in Ids
        PROVE  Ascending(expectedAlerts'[x]) /\ ToSet(expectedAlerts'[x]) \subseteq ToSet(expectedAlerts[x])
    <3>1. expectedAlerts'[x] = IF x = id THEN InTime(expectedAlerts[x], cleanup.now) ELSE expectedAlerts[x]
      BY <2>1 DEF Ids
    <3> QED
      BY <3>1, InTimeAscends DEF ListsAscend
  <2>3. Ids' = Ids
    BY <2>1 DEF Ids
  <2>4. ListsAscend'
    BY <2>2, <2>3 DEF ListsAscend
  <2>5. \A g \in Handlers : handler'[g].addBack = {}
    BY <2>1 DEF HandlersIdle, TakenOutApart
  <2>6. TakenOutApart'
    BY <2>5, FS_EmptySet DEF TakenOutApart
  <2> QED
    BY <2>4, <2>6
<1> QED
  BY <1>1, <1>2 DEF CleanupStep

(* Before the first request each label set has its alerts of the case.     *)
LEMMA ListsAtFirst == ASSUME Init PROVE ListsAscend /\ TakenOutApart
<1>1. \A x \in Ids : expectedAlerts[x] = ExpectedOf(case, x)
  BY DEF Init, SInit, Ids
<1>2. case \in Cases /\ Ascending(CaseAlerts[case])
  BY CaseAlertsAssumption DEF Init
<1>3. ASSUME NEW x
      PROVE  Ascending(ExpectedOf(case, x)) /\ \A ea \in ToSet(ExpectedOf(case, x)) : ea.id = x
  <2> DEFINE S == {ea \in ToSet(CaseAlerts[case]) : ea.id = x}
  <2>1. ExpectedOf(case, x) = Only(CaseAlerts[case], S) /\ \A ea \in S : ea.id = x
    BY DEF ExpectedOf
  <2> HIDE DEF S
  <2> QED
    BY <1>2, <2>1, OnlyAscends
<1>4. \A h \in Handlers : handler[h].addBack = {}
  BY DEF Init, SInit, IdleHandler
<1>5. ListsAscend
  BY <1>1, <1>3 DEF ListsAscend
<1> QED
  BY <1>4, <1>5, FS_EmptySet DEF TakenOutApart

(* No other step touches the lists or the locals of a request.             *)
LEMMA ListsKeep ==
    ASSUME ServerInv, ~CleanupOverlaps, ListsAscend, TakenOutApart, [Next]_vars
    PROVE  ListsAscend' /\ TakenOutApart'
<1>1. ASSUME UNCHANGED <<expectedAlerts, handler>> PROVE ListsAscend' /\ TakenOutApart'
  BY <1>1 DEF ListsAscend, TakenOutApart, Ids
<1>2. ASSUME NEW ev, NEW send, NEW posted, NEW parsable, Evaluate(ev, send, posted, parsable)
      PROVE  UNCHANGED <<expectedAlerts, handler>>
  BY <1>2 DEF Evaluate, serverVars
<1>3. CASE \/ EvaluateCompliantly \/ LoseAlert \/ SendEarly \/ FireEarly
           \/ SendWrongAnnotations \/ SendUnparsable \/ EvaluateInWrongOrder
  <2>1. UNCHANGED <<expectedAlerts, handler>>
    BY <1>2, <1>3 DEF EvaluateCompliantly, LoseAlert, SendEarly, FireEarly, SendWrongAnnotations,
                      SendUnparsable, EvaluateInWrongOrder
  <2> QED
    BY <1>1, <2>1
<1>4. CASE CleanupTick \/ Over \/ UNCHANGED vars
  <2>1. UNCHANGED <<expectedAlerts, handler>>
    BY <1>4 DEF CleanupTick, CleanupStarts, Over, vars, serverVars
  <2> QED
    BY <1>1, <2>1
<1>5. CASE Arrive \/ ServerSteps
  BY <1>5, RequestKeepsLists, CleanupKeepsLists DEF ServerSteps
<1> QED
  BY <1>3, <1>4, <1>5 DEF Next

(* Such lists are in the order of the case.                                *)
LEMMA ListsInOrderHolds == ASSUME ListsAscend PROVE ListsInOrder
<1>1. \A x \in Ids : Ascending(expectedAlerts[x])
  BY DEF ListsAscend
<1> QED
  BY <1>1 DEF Ascending, ListsInOrder

-----------------------------------------------------------------------------
(* Only who works has something to report. A request takes what it missed  *)
(* with it to its end, and the clean-up to its own.                        *)
LEMMA ReportsAtFirst == ASSUME Init PROVE ReportsAreHeld
<1>1. /\ \A h \in Handlers : handler[h] = IdleHandler
      /\ cleanup = IdleCleanup
  BY DEF Init, SInit
<1>2. IdleHandler.missed = {} /\ IdleCleanup.pc = "idle" /\ IdleCleanup.missed = {}
  BY DEF IdleHandler, IdleCleanup
<1> QED
  BY <1>1, <1>2 DEF ReportsAreHeld

(* The steps of the generator, and those that change nothing.              *)
LEMMA ServerIsLeftAlone ==
    ASSUME \/ EvaluateCompliantly \/ LoseAlert \/ SendEarly \/ FireEarly
           \/ SendWrongAnnotations \/ SendUnparsable \/ EvaluateInWrongOrder
           \/ Over \/ UNCHANGED vars
    PROVE  UNCHANGED serverVars
<1>1. ASSUME NEW ev, NEW send, NEW posted, NEW parsable, Evaluate(ev, send, posted, parsable)
      PROVE  UNCHANGED serverVars
  BY <1>1 DEF Evaluate
<1>2. CASE Over \/ UNCHANGED vars
  BY <1>2 DEF Over, vars
<1> QED
  BY <1>1, <1>2 DEF EvaluateCompliantly, LoseAlert, SendEarly, FireEarly, SendWrongAnnotations,
                    SendUnparsable, EvaluateInWrongOrder

(* What a step of a handler does to its locals: only Unlock lets go of     *)
(* what was missed, and who does not serve has missed nothing.             *)
LEMMA HandlerReports ==
    ASSUME ServerInv, ReportsAreHeld, NEW h \in Handlers, HandlerStep(h)
    PROVE  /\ UNCHANGED cleanup /\ handler[h].pc # "idle"
           /\ \E r : /\ handler' = [handler EXCEPT ![h] = r]
                     /\ r.pc # "serving" => r.missed = {}
                     /\ handler[h].missed \subseteq r.missed \cup missedAlerts'
           /\ missedAlerts \subseteq missedAlerts'
<1>1. TypeOK
  BY DEF ServerInv
<1>2. CASE Reject(h)
  <2>1. IdleHandler.missed = {} /\ IdleHandler.pc # "serving"
    BY DEF IdleHandler
  <2>2. handler[h].missed = {}
    BY <1>2 DEF Reject, ReportsAreHeld
  <2> QED
    BY <1>2, <2>1, <2>2 DEF Reject, errs
<1>3. CASE Lock(h)
  <2> DEFINE r == [handler[h] EXCEPT !.pc = "serving"]
  <2>1. DOMAIN handler[h] = DOMAIN IdleHandler
    BY <1>1 DEF TypeOK
  <2>2. r.pc = "serving" /\ r.missed = handler[h].missed
    BY <2>1 DEF IdleHandler
  <2>3. handler' = [handler EXCEPT ![h] = r] /\ handler[h].pc = "received" /\ UNCHANGED <<errs, cleanup>>
    BY <1>3 DEF Lock
  <2> HIDE DEF r
  <2> QED
    BY <2>2, <2>3 DEF errs
<1>4. ASSUME NEW al \in handler[h].alerts, ServeAlert(h, al)
      PROVE  /\ UNCHANGED cleanup /\ handler[h].pc # "idle"
             /\ \E r : /\ handler' = [handler EXCEPT ![h] = r]
                       /\ r.pc # "serving" => r.missed = {}
                       /\ handler[h].missed \subseteq r.missed \cup missedAlerts'
             /\ missedAlerts \subseteq missedAlerts'
  <2>1. PICK r : /\ handler' = [handler EXCEPT ![h] = r] /\ r.pc = "serving"
                 /\ handler[h].missed \subseteq r.missed
    BY <1>1, <1>4, ServeAlertLocals
  <2>2. UNCHANGED cleanup /\ handler[h].pc = "serving" /\ missedAlerts \subseteq missedAlerts'
    BY <1>4 DEF ServeAlert
  <2> QED
    BY <2>1, <2>2
<1>5. CASE Unlock(h)
  <2>1. IdleHandler.missed = {} /\ IdleHandler.pc # "serving"
    BY DEF IdleHandler
  <2> QED
    BY <1>5, <2>1 DEF Unlock
<1> QED
  BY <1>2, <1>3, <1>4, <1>5 DEF HandlerStep

(* What a step of the clean-up does to its own.                            *)
LEMMA CleanupReports ==
    ASSUME ServerInv, CleanupStep
    PROVE  /\ UNCHANGED handler
           /\ cleanup'.pc = "idle" => cleanup'.missed = {}
           /\ cleanup'.pc = "write" =>
                 MissedAmong(expectedAlerts'[cleanup'.id], cleanup'.now) \subseteq cleanup'.missed
           /\ cleanup.missed \subseteq cleanup'.missed \cup missedAlerts'
           /\ missedAlerts \subseteq missedAlerts'
<1>1. DOMAIN cleanup = DOMAIN IdleCleanup
  BY DEF ServerInv, TypeOK
<1>2. ASSUME NEW x \in Ids, CleanupReads(x)
      PROVE  /\ UNCHANGED <<handler, errs, expectedAlerts>>
             /\ cleanup'.pc = "write" /\ cleanup'.id = x /\ cleanup'.now = cleanup.now
             /\ cleanup'.missed = cleanup.missed \cup MissedAmong(expectedAlerts[x], cleanup.now)
  BY <1>1, <1>2 DEF CleanupReads, IdleCleanup
<1>3. CASE CleanupWrites
  <2>1. cleanup'.pc = "pick" /\ cleanup'.missed = cleanup.missed
    BY <1>1, <1>3 DEF CleanupWrites, IdleCleanup
  <2> QED
    BY <1>3, <2>1 DEF CleanupWrites, errs
<1>4. CASE CleanupEnds
  <2>1. IdleCleanup.pc = "idle" /\ IdleCleanup.missed = {}
    BY DEF IdleCleanup
  <2> QED
    BY <1>4, <2>1 DEF CleanupEnds
<1> QED
  BY <1>2, <1>3, <1>4 DEF CleanupStep, errs

(* Together: nothing is reported and then forgotten.                       *)
LEMMA ReportsKeep ==
    ASSUME ServerInv, ReportsAreHeld, [Next]_vars
    PROVE  ReportsAreHeld' /\ Reported \subseteq Reported'
<1>1. DOMAIN handler = Handlers /\ (~CleanupOverlaps => HandlersIdle \/ CleanupIdle)
  BY DEF ServerInv, TypeOK, NoUpdateIsLost
<1>2. CASE UNCHANGED serverVars
  BY <1>2 DEF ReportsAreHeld, Reported, serverVars, errs
<1>3. CASE Arrive
  <2>1. PICK h \in Handlers : ReceiveRequest(h, inFlight.at, inFlight.alerts, inFlight.parsable)
    BY <1>3 DEF Arrive
  <2> DEFINE r == [IdleHandler EXCEPT !.pc = "received", !.now = inFlight.at,
                                      !.alerts = inFlight.alerts, !.parsable = inFlight.parsable]
  <2>2. handler[h].pc = "idle" /\ handler' = [handler EXCEPT ![h] = r] /\ UNCHANGED <<expectedAlerts, errs, cleanup>>
    BY <2>1 DEF ReceiveRequest
  <2>3. r.missed = {} /\ handler[h].missed = {}
    BY <2>2 DEF IdleHandler, ReportsAreHeld
  <2> HIDE DEF r
  <2>4. \A g \in Handlers : handler'[g] = IF g = h THEN r ELSE handler[g]
    BY <1>1, <2>2
  <2>5. \A g \in Handlers : handler'[g].missed = handler[g].missed
    BY <2>3, <2>4
  <2>6. ReportsAreHeld'
    BY <2>2, <2>3, <2>4 DEF ReportsAreHeld
  <2> QED
    BY <2>2, <2>5, <2>6 DEF Reported, errs
<1>4. CASE CleanupTick
  <2>1. /\ cleanup.pc = "idle" /\ cleanup'.pc = "pick" /\ UNCHANGED <<expectedAlerts, errs, handler>>
    BY <1>4 DEF CleanupTick, CleanupStarts, IdleCleanup
  <2>2. cleanup.missed = {}
    BY <2>1 DEF ReportsAreHeld
  <2> QED
    BY <2>1, <2>2 DEF ReportsAreHeld, Reported, errs
<1>5. ASSUME NEW h \in Handlers, HandlerStep(h) PROVE ReportsAreHeld' /\ Reported \subseteq Reported'
  <2>1. UNCHANGED cleanup /\ handler[h].pc # "idle" /\ missedAlerts \subseteq missedAlerts'
    BY <1>5, HandlerReports
  <2>2. PICK r : /\ handler' = [handler EXCEPT ![h] = r]
                 /\ r.pc # "serving" => r.missed = {}
                 /\ handler[h].missed \subseteq r.missed \cup missedAlerts'
    BY <1>5, HandlerReports
  <2>3. \A g \in Handlers : handler'[g] = IF g = h THEN r ELSE handler[g]
    BY <1>1, <2>2
  <2>4. ~CleanupOverlaps => cleanup.pc = "idle"
    BY <1>1, <2>1 DEF HandlersIdle, CleanupIdle
  <2>5. ReportsAreHeld'
    BY <2>1, <2>2, <2>3, <2>4 DEF ReportsAreHeld
  <2>6. \A g \in Handlers : handler[g].missed \subseteq handler'[g].missed \cup missedAlerts'
    BY <2>2, <2>3
  <2> QED
    BY <2>1, <2>5, <2>6 DEF Reported
<1>6. CASE CleanupStep
  BY <1>6, CleanupReports DEF ReportsAreHeld, Reported
<1> QED
  BY <1>2, <1>3, <1>4, <1>5, <1>6, ServerIsLeftAlone DEF Next, ServerSteps

-----------------------------------------------------------------------------
(* What becomes of the possible alerts when one of them matches: the later *)
(* ones go back, and the earlier ones are missed, unless they need not     *)
(* have come or follow a resend that need not.                             *)
LEMMA MatchedOrMissed ==
    ASSUME NEW exp, Ascending(exp), NEW t, NEW al,
           NEW idx \in DOMAIN exp, Matches(exp[idx], t, al), NEW ea \in ToSet(exp)
    PROVE  \/ ea \in MayStillCome(exp, idx) \/ Matches(ea, t, al)
           \/ /\ \/ CanBeIgnored(ea) \/ ea \in MissedBefore(exp, idx)
                 \/ ea.resend /\ \E eb \in ToSet(exp) :
                       eb.orderingID < ea.orderingID /\ eb.resend /\ CanBeIgnored(eb)
              /\ \E eb \in ToSet(exp) : ea.orderingID < eb.orderingID /\ Matches(eb, t, al)
<1>1. /\ Len(exp) \in Nat /\ DOMAIN exp = 1..Len(exp)
      /\ \A i, j \in 1..Len(exp) : i < j => exp[i].orderingID < exp[j].orderingID
      /\ \A i \in 1..Len(exp) : exp[i] \in ToSet(exp)
  BY AscendingFacts DEF ToSet
<1>2. idx \in 1..Len(exp) /\ Matches(exp[idx], t, al)
  BY <1>1
<1>3. PICK i \in 1..Len(exp) : ea = exp[i]
  BY AscendingFacts
<1>4. CASE i > idx
  <2>1. i \in (idx + 1)..Len(exp)
    BY <1>1, <1>2, <1>4
  <2> QED
    BY <1>3, <2>1 DEF MayStillCome
<1>5. CASE i = idx
  BY <1>2, <1>3, <1>5
<1>6. CASE i < idx
  <2>1. exp[idx] \in ToSet(exp) /\ ea.orderingID < exp[idx].orderingID
    BY <1>1, <1>2, <1>3, <1>6
  <2>2. i \in 1..(idx - 1)
    BY <1>1, <1>2, <1>6
  <2>3. ASSUME IgnoredAfterResend(exp, i)
        PROVE  ea.resend /\ \E eb \in ToSet(exp) :
                  eb.orderingID < ea.orderingID /\ eb.resend /\ CanBeIgnored(eb)
    <3>1. PICK j \in 1..(i - 1) : CanBeIgnored(exp[j]) /\ exp[j].resend
      BY <2>3 DEF IgnoredAfterResend
    <3>2. j \in 1..Len(exp) /\ j < i
      BY <1>1
    <3> QED
      BY <1>1, <1>3, <2>3, <3>1, <3>2 DEF IgnoredAfterResend
  <2>4. CanBeIgnored(ea) \/ IgnoredAfterResend(exp, i) \/ ea \in MissedBefore(exp, idx)
    BY <1>3, <2>2 DEF MissedBefore
  <2> QED
    BY <1>2, <2>1, <2>3, <2>4
<1> QED
  BY <1>1, <1>2, <1>4, <1>5, <1>6

(* Why the server no longer waits for ea, an alert of the list of x.       *)
Reason(ea, x) ==
    \/ ShouldBeIgnored(ea) \/ Receives(ea)
    \/ /\ CanBeIgnored(ea) \/ ea \in Reported' \/ FollowsIgnoredResend(ea, x)
       /\ Late(ea, now) \/ \E eb \in ToSet(expectedAlerts[x]) :
                               ea.orderingID < eb.orderingID /\ Receives(eb)

StillAwaited(ea, x) == \E eb \in Awaited(x)' : eb.orderingID = ea.orderingID

(* An alert of a request: the possible alerts are matched, missed or put   *)
(* aside, and of the other lists what is late is dropped.                  *)
LEMMA ServeAlertAccounts ==
    ASSUME ServerInv, ListsAscend, TakenOutApart, NEW h \in Handlers, NEW al \in handler[h].alerts,
           ServeAlert(h, al), NEW x \in Ids, NEW ea \in Awaited(x)
    PROVE  StillAwaited(ea, x) \/ Reason(ea, x)
<1> DEFINE exp == possibleAlerts(handler[h].now, al.id)
           matching == {i \in DOMAIN exp : Matches(exp[i], handler[h].now, al)}
           idx == CHOOSE i \in matching : \A j \in matching : i <= j
<1>1. /\ DOMAIN handler = Handlers /\ DOMAIN handler[h] = DOMAIN IdleHandler
      /\ handler[h].pc = "serving" /\ handler[h].now = now
      /\ expectedAlerts' = afterGetPossibleAlert(now, al.id)
      /\ missedAlerts' = missedAlerts \cup UNION {MissedAmong(expectedAlerts[y], now) : y \in Ids}
  <2>1. handler[h].pc = "serving" /\ handler[h].now = now
    BY DEF ServerInv, ClockStands, ServeAlert
  <2>2. /\ expectedAlerts' = afterGetPossibleAlert(handler[h].now, al.id)
        /\ missedAlerts' = missedAlerts \cup UNION {MissedAmong(expectedAlerts[y], handler[h].now) : y \in Ids}
    BY DEF ServeAlert
  <2> QED
    BY <2>1, <2>2 DEF ServerInv, TypeOK
<1>2. /\ Ascending(exp)
      /\ ToSet(exp) # {} => al.id \in Ids /\ ToSet(exp) \subseteq ToSet(expectedAlerts[al.id])
      /\ DOMAIN expectedAlerts' = Ids
      /\ \A y \in Ids : \A eb \in ToSet(expectedAlerts[y]) :
            \/ ShouldBeIgnored(eb) \/ Late(eb, now)
            \/ eb \in ToSet(expectedAlerts'[y]) \/ (y = al.id /\ eb \in ToSet(exp))
  BY <1>1, PossibleTakenOut
<1>3. PICK r : /\ handler' = [handler EXCEPT ![h] = r]
               /\ r.alerts = handler[h].alerts \ {al} /\ handler[h].addBack \subseteq r.addBack
  BY <1>1, ServeAlertLocals DEF ServerInv
<1>4. \A g \in Handlers : handler'[g] = IF g = h THEN r ELSE handler[g]
  BY <1>1, <1>3
<1>5. \A g \in Handlers : handler[g].addBack \subseteq handler'[g].addBack
  BY <1>3, <1>4
<1>6. \A eb : Matches(eb, now, al) => Receives(eb)
  BY <1>1, <1>3, <1>4 DEF Receives
<1>7. CASE ea \notin ToSet(expectedAlerts[x])
  BY <1>5, <1>7 DEF Awaited, StillAwaited
<1>8. ASSUME ea \in ToSet(expectedAlerts[x]), Late(ea, now) PROVE Reason(ea, x)
  <2>1. ShouldBeIgnored(ea) \/ CanBeIgnored(ea) \/ ea \in MissedAmong(expectedAlerts[x], now)
    BY <1>8 DEF MissedAmong
  <2>2. ea \in MissedAmong(expectedAlerts[x], now) => ea \in Reported'
    BY <1>1 DEF Reported
  <2> QED
    BY <1>8, <2>1, <2>2 DEF Reason
<1>9. CASE ea \in ToSet(expectedAlerts'[x])
  BY <1>9 DEF Awaited, StillAwaited
<1>10. ASSUME x = al.id, ea \in ToSet(exp) PROVE StillAwaited(ea, x) \/ Reason(ea, x)
  <2>1. ea.id = x /\ ToSet(exp) \subseteq ToSet(expectedAlerts[x])
    BY <1>2, <1>10 DEF ListsAscend
  <2>2. ASSUME ea \in handler'[h].addBack PROVE StillAwaited(ea, x)
    BY <2>1, <2>2 DEF Awaited, StillAwaited
  <2>3. \/ exp = <<>>
        \/ /\ matching # {}
           /\ handler' = [handler EXCEPT ![h].alerts = @ \ {al},
                                         ![h].addBack = @ \cup MayStillCome(exp, idx),
                                         ![h].missed = @ \cup MissedBefore(exp, idx),
                                         ![h].success = @ \cup {al.id}]
        \/ handler' = [handler EXCEPT ![h].alerts = @ \ {al},
                                      ![h].addBack = @ \cup ToSet(exp),
                                      ![h].missed = @ \cup {},
                                      ![h].success = @ \cup {}]
    BY Zenon DEF ServeAlert
  <2>4. exp # <<>>
    BY <1>10, EmptyAscends
  <2> HIDE DEF exp, matching, idx
  <2>5. CASE handler' = [handler EXCEPT ![h].alerts = @ \ {al},
                                        ![h].addBack = @ \cup ToSet(exp),
                                        ![h].missed = @ \cup {},
                                        ![h].success = @ \cup {}]
    <3>1. handler'[h].addBack = handler[h].addBack \cup ToSet(exp)
      BY <1>1, <2>5 DEF IdleHandler
    <3> QED
      BY <1>10, <2>2, <3>1
  <2>6. CASE /\ matching # {}
             /\ handler' = [handler EXCEPT ![h].alerts = @ \ {al},
                                           ![h].addBack = @ \cup MayStillCome(exp, idx),
                                           ![h].missed = @ \cup MissedBefore(exp, idx),
                                           ![h].success = @ \cup {al.id}]
    <3>1. /\ handler'[h].addBack = handler[h].addBack \cup MayStillCome(exp, idx)
          /\ handler'[h].missed = handler[h].missed \cup MissedBefore(exp, idx)
      BY <1>1, <2>6 DEF IdleHandler
    <3>2. \/ ea \in MayStillCome(exp, idx) \/ Matches(ea, now, al)
          \/ /\ \/ CanBeIgnored(ea) \/ ea \in MissedBefore(exp, idx)
                \/ ea.resend /\ \E eb \in ToSet(exp) :
                      eb.orderingID < ea.orderingID /\ eb.resend /\ CanBeIgnored(eb)
             /\ \E eb \in ToSet(exp) : ea.orderingID < eb.orderingID /\ Matches(eb, now, al)
      <4>1. DOMAIN exp = 1..Len(exp) /\ matching = {i \in DOMAIN exp : Matches(exp[i], now, al)}
        BY <1>1, <1>2, AscendingFacts DEF matching
      <4>2. \E i \in matching : \A j \in matching : i <= j
        <5>1. matching \in SUBSET Nat
          BY <4>1
        <5> QED
          BY <2>6, <5>1, LeastExists
      <4>3. idx \in matching
        BY <4>2 DEF idx
      <4>4. idx \in DOMAIN exp /\ Matches(exp[idx], now, al)
        BY <4>1, <4>3
      <4> QED
        BY <1>2, <1>10, <4>4, MatchedOrMissed
    <3>3. ea \in MissedBefore(exp, idx) => ea \in Reported'
      BY <3>1 DEF Reported
    <3>4. (ea.resend /\ \E eb \in ToSet(exp) :
              eb.orderingID < ea.orderingID /\ eb.resend /\ CanBeIgnored(eb))
          => FollowsIgnoredResend(ea, x)
      BY <2>1 DEF FollowsIgnoredResend
    <3> QED
      BY <1>6, <2>1, <2>2, <3>1, <3>2, <3>3, <3>4 DEF Reason
  <2> QED
    BY <2>3, <2>4, <2>5, <2>6
<1> QED
  BY <1>2, <1>7, <1>8, <1>9, <1>10 DEF Reason

(* The end of a request: what it put aside is back in the lists, though    *)
(* its time may be another.                                                *)
LEMMA UnlockAccounts ==
    ASSUME ServerInv, ListsAscend, TakenOutApart, NEW h \in Handlers, Unlock(h),
           NEW x \in Ids, NEW ea \in Awaited(x)
    PROVE  StillAwaited(ea, x)
<1> DEFINE added == {eb \in handler[h].addBack : eb.id = x}
           eas == withAdded(expectedAlerts[x], added)
<1>1. /\ handler[h].pc = "serving"
      /\ expectedAlerts'[x] = IF x \in handler[h].success THEN AdjustResends(eas, handler[h].now) ELSE eas
  BY DEF Unlock
<1>2. Ascending(eas) /\ ToSet(eas) = ToSet(expectedAlerts[x]) \cup added
  <2>1. Ascending(expectedAlerts[x])
    BY DEF ListsAscend
  <2>2. IsFiniteSet(added)
    BY FS_Subset DEF TakenOutApart
  <2>3. /\ \A eb \in added : IsNumbered(eb)
        /\ \A eb, ec \in added : eb.orderingID = ec.orderingID => eb = ec
        /\ \A eb \in added, ec \in ToSet(expectedAlerts[x]) : eb.orderingID # ec.orderingID
    BY DEF TakenOutApart
  <2> HIDE DEF added
  <2> QED
    BY <2>1, <2>2, <2>3, AddedAscend
<1>3. ea \in ToSet(eas)
  <2>1. \A g \in Handlers : g # h => handler[g].addBack = {}
    BY <1>1 DEF ServerInv, ServersExclude, TakenOutApart
  <2> QED
    BY <1>2, <2>1 DEF Awaited
<1> HIDE DEF eas
<1>4. \E eb \in ToSet(expectedAlerts'[x]) : eb.orderingID = ea.orderingID
  BY <1>1, <1>2, <1>3, AdjustedAscends
<1> QED
  BY <1>4 DEF Awaited, StillAwaited

(* The clean-up drops what is late, of which it has noted what is missed.  *)
LEMMA CleanupAccounts ==
    ASSUME ServerInv, ReportsAreHeld, ListsAscend, ~CleanupOverlaps, CleanupStep,
           NEW x \in Ids, NEW ea \in Awaited(x)
    PROVE  StillAwaited(ea, x) \/ Reason(ea, x)
<1>1. CASE (\E y \in Ids : CleanupReads(y)) \/ CleanupEnds
  <2>1. UNCHANGED <<expectedAlerts, handler>>
    BY <1>1 DEF CleanupReads, CleanupEnds
  <2> QED
    BY <2>1 DEF Awaited, StillAwaited
<1>2. CASE CleanupWrites
  <2> DEFINE id == cleanup.id
  <2>1. /\ expectedAlerts' = [expectedAlerts EXCEPT ![id] = InTime(expectedAlerts[id], cleanup.now)]
        /\ UNCHANGED handler /\ cleanup.pc = "write"
        /\ MissedAmong(expectedAlerts[id], cleanup.now) \subseteq cleanup.missed
    BY <1>2 DEF CleanupWrites, ServerInv, NoUpdateIsLost, ReportsAreHeld
  <2>2. cleanup.now = now /\ cleanup'.missed = cleanup.missed
    BY <1>2, <2>1 DEF ServerInv, TypeOK, ClockStands, CleanupWrites, IdleCleanup
  <2>3. CASE ea \notin ToSet(expectedAlerts[x])
    BY <2>1, <2>3 DEF Awaited, StillAwaited
  <2>4. CASE ea \in ToSet(expectedAlerts[x]) /\ x # id
    BY <2>1, <2>4 DEF Awaited, StillAwaited, Ids
  <2>5. CASE ea \in ToSet(expectedAlerts[x]) /\ x = id
    <3>1. expectedAlerts'[x] = InTime(expectedAlerts[x], now)
      BY <2>1, <2>2, <2>5 DEF Ids
    <3>2. ShouldBeIgnored(ea) \/ Late(ea, now) \/ ea \in ToSet(expectedAlerts'[x])
      BY <2>5, <3>1, InTimeAscends DEF ListsAscend
    <3>3. Late(ea, now) => \/ ShouldBeIgnored(ea) \/ CanBeIgnored(ea)
                           \/ ea \in Reported'
      BY <2>1, <2>2, <2>5 DEF MissedAmong, Reported
    <3> QED
      BY <3>2, <3>3 DEF Awaited, StillAwaited, Reason
  <2> QED
    BY <2>3, <2>4, <2>5
<1> QED
  BY <1>1, <1>2 DEF CleanupStep

(* Together: each step accounts for the alerts that it takes away.         *)
LEMMA StepAccounts ==
    ASSUME ServerInv, ReportsAreHeld, ListsAscend, TakenOutApart, ~CleanupOverlaps, [Next]_vars,
           NEW x \in Ids, NEW ea \in Awaited(x)
    PROVE  StillAwaited(ea, x) \/ Reason(ea, x)
<1>1. ASSUME UNCHANGED expectedAlerts, \A h \in Handlers : handler[h].addBack \subseteq handler'[h].addBack
      PROVE  StillAwaited(ea, x)
  BY <1>1 DEF Awaited, StillAwaited
<1>2. ASSUME NEW h \in Handlers, NEW r, handler' = [handler EXCEPT ![h] = r],
             handler[h].pc # "serving", UNCHANGED expectedAlerts
      PROVE  StillAwaited(ea, x)
  <2>1. DOMAIN handler = Handlers /\ handler[h].addBack = {}
    BY <1>2 DEF ServerInv, TypeOK, TakenOutApart
  <2>2. \A g \in Handlers : handler[g].addBack \subseteq handler'[g].addBack
    BY <1>2, <2>1
  <2> QED
    BY <1>1, <1>2, <2>2
<1>3. CASE UNCHANGED serverVars \/ CleanupTick
  <2>1. UNCHANGED <<expectedAlerts, handler>>
    BY <1>3 DEF serverVars, CleanupTick, CleanupStarts
  <2> QED
    BY <1>1, <2>1
<1>4. CASE Arrive
  <2>1. PICK h \in Handlers : ReceiveRequest(h, inFlight.at, inFlight.alerts, inFlight.parsable)
    BY <1>4 DEF Arrive
  <2> QED
    BY <1>2, <2>1 DEF ReceiveRequest
<1>5. ASSUME NEW h \in Handlers, HandlerStep(h) PROVE StillAwaited(ea, x) \/ Reason(ea, x)
  <2>1. CASE Reject(h) \/ Lock(h)
    <3>1. /\ \E r : handler' = [handler EXCEPT ![h] = r]
          /\ handler[h].pc # "serving" /\ UNCHANGED expectedAlerts
      BY <2>1 DEF Reject, Lock
    <3> QED
      BY <1>2, <3>1
  <2> QED
    BY <1>5, <2>1, ServeAlertAccounts, UnlockAccounts DEF HandlerStep
<1>6. CASE CleanupStep
  BY <1>6, CleanupAccounts
<1> QED
  BY <1>3, <1>4, <1>5, <1>6, ServerIsLeftAlone DEF Next, ServerSteps

-----------------------------------------------------------------------------
(* The theorems                                                            *)

(* The invariant of the server, of the clock, and of the lists.            *)
THEOREM InductiveInvariant == Spec => []IInv
<1>1. Init => IInv
  BY ServerAtFirst, ListsAtFirst, ReportsAtFirst DEF IInv
<1>2. IInv /\ [Next]_vars => IInv'
  BY ServerKeeps, ListsKeep, ReportsKeep DEF IInv
<1> QED
  BY <1>1, <1>2, PTL DEF Spec

(* missedAlertCleanup, which takes no mutex, undoes no change of a list    *)
(* unless a request is served while it runs.                               *)
THEOREM OnlyOverlapsLoseUpdates == Spec => []NoUpdateIsLost
<1>1. IInv => NoUpdateIsLost
  BY DEF IInv, ServerInv
<1> QED
  BY <1>1, InductiveInvariant, PTL

(* Whatever is received, and whatever overlaps, an expected alert that may *)
(* be missing (CanBeIgnored) is never among the missed ones.               *)
THEOREM IgnorableIsNeverMissed == Spec => []IgnorableIsNotMissed
<1>1. IInv => IgnorableIsNotMissed
  BY DEF IInv, ServerInv
<1> QED
  BY <1>1, InductiveInvariant, PTL

(* A list of expected alerts is in the order of the case, with no alert    *)
(* twice, after any requests that took alerts out of it and put some of    *)
(* them back, as long as no clean-up overlaps a request.                   *)
THEOREM ListsStayInOrder == Spec => [](~CleanupOverlaps => ListsInOrder)
<1>1. IInv => (~CleanupOverlaps => ListsInOrder)
  BY ListsInOrderHolds DEF IInv
<1> QED
  BY <1>1, InductiveInvariant, PTL

(* No expected alert is lost between the lists, the requests that take     *)
(* alerts out of them, and the clean-up: the server stops waiting for one  *)
(* only for a reason, and reports it unless that reason excuses it. A      *)
(* reported alert stays reported.                                          *)
THEOREM AlertsAreAccountedFor == Spec => AlertsLeaveForAReason
<1> DEFINE Accounted ==
        /\ Reported \subseteq Reported'
        /\ ~CleanupOverlaps => \A x \in Ids : \A ea \in Awaited(x) :
              StillAwaited(ea, x) \/ Reason(ea, x)
<1>1. IInv /\ [Next]_vars => Accounted
  BY ReportsKeep, StepAccounts DEF IInv
<1>2. Accounted =>
        /\ Reported \subseteq Reported'
        /\ ~CleanupOverlaps =>
            \A x \in Ids : \A ea \in Awaited(x) \ Awaited(x)' :
                \/ \E eb \in Awaited(x)' : eb.orderingID = ea.orderingID
                \/ ShouldBeIgnored(ea) \/ Receives(ea)
                \/ /\ CanBeIgnored(ea) \/ ea \in Reported' \/ FollowsIgnoredResend(ea, x)
                   /\ Late(ea, now) \/ \E eb \in ToSet(expectedAlerts[x]) :
                                           ea.orderingID < eb.orderingID /\ Receives(eb)
  BY DEF StillAwaited, Reason
<1> HIDE DEF Accounted
<1> QED
  BY <1>1, <1>2, InductiveInvariant, PTL DEF Spec, AlertsLeaveForAReason
=============================================================================
