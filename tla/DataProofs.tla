------------------------------ MODULE DataProofs ------------------------------
(***************************************************************************)
(* Proofs about WorkflowDocs and Codecs, for documents, answers, files and  *)
(* data of any size: what reaches the executor can be executed, its ready   *)
(* steps start in a fair order, and every conversion preserves what its     *)
(* readers rely on.  Induction is by a least counterexample.                *)
(***************************************************************************)
EXTENDS WorkflowDocs, Codecs, FiniteSetTheorems, SequenceTheorems, WellFoundedInduction, TLAPS
-------------------------------------------------------------------------------
(* Least elements.                                                           *)

\* Every set of numbers has a least one.
LEMMA LeastNat ==
  ASSUME NEW T, T \subseteq Nat, T # {}
  PROVE  \E n \in T : \A m \in T : n <= m
<1>. DEFINE U == {1 .. n : n \in T}
            R == StrictSubsetOrdering(Nat)
<1>1. U \subseteq FiniteSubsetsOf(Nat)
  <2> SUFFICES ASSUME NEW n \in T PROVE 1 .. n \in FiniteSubsetsOf(Nat)
    OBVIOUS
  <2>1. n \in Int /\ 1 \in Int /\ 1 .. n \subseteq Nat
    OBVIOUS
  <2>2. IsFiniteSet(1 .. n)
    BY <2>1, FS_Interval
  <2> QED
    BY <2>1, <2>2 DEF FiniteSubsetsOf
<1>2. U # {}
  OBVIOUS
<1>3. IsWellFoundedOn(R, FiniteSubsetsOf(Nat))
  BY FS_StrictSubsetOrderingWellFounded
<1>4. PICK x \in U : \A y \in U : ~ (<<y, x>> \in R)
  <2> HIDE DEF U, R
  <2> QED
    BY <1>1, <1>2, <1>3, WFMin
<1>5. PICK n \in T : x = 1 .. n
  OBVIOUS
<1>6. ASSUME NEW m \in T, m < n PROVE FALSE
  <2>1. 1 .. m \subseteq 1 .. n /\ n \in 1 .. n /\ n \notin 1 .. m
    BY <1>6
  <2>2. 1 .. m \in SUBSET Nat /\ 1 .. n \in SUBSET Nat /\ 1 .. m # 1 .. n
    BY <2>1
  <2>3. <<1 .. m, 1 .. n>> \in R
    BY <2>1, <2>2 DEF StrictSubsetOrdering
  <2> QED
    BY <1>4, <1>5, <2>3
<1> QED
  BY <1>6

LEMMA CountTo ==
  ASSUME NEW n \in Nat
  PROVE  IsFiniteSet(1 .. n) /\ Cardinality(1 .. n) = n
BY FS_Interval

\* A strict order in which any two elements of S are related.
Orders(R, S) ==
  /\ \A x \in S : <<x, x>> \notin R
  /\ \A x, y, z \in S : <<x, y>> \in R /\ <<y, z>> \in R => <<x, z>> \in R
  /\ \A x, y \in S : x # y => <<x, y>> \in R \/ <<y, x>> \in R

\* A finite set has a first element.
LEMMA FirstOf ==
  ASSUME NEW S, IsFiniteSet(S), S # {}, NEW R, Orders(R, S)
  PROVE  \E m \in S : \A x \in S \ {m} : <<m, x>> \in R
<1>. DEFINE Pred(m) == {x \in S : <<x, m>> \in R}
            U == {Pred(m) : m \in S}
            O == StrictSubsetOrdering(S)
<1>1. U \subseteq FiniteSubsetsOf(S)
  <2> SUFFICES ASSUME NEW m \in S PROVE Pred(m) \in FiniteSubsetsOf(S)
    OBVIOUS
  <2>1. Pred(m) \in SUBSET S
    OBVIOUS
  <2> HIDE DEF Pred
  <2>2. IsFiniteSet(Pred(m))
    BY <2>1, FS_Subset
  <2> QED
    BY <2>1, <2>2 DEF FiniteSubsetsOf
<1>2. U # {}
  OBVIOUS
<1>3. PICK u \in U : \A v \in U : ~ (<<v, u>> \in O)
  <2>1. IsWellFoundedOn(O, FiniteSubsetsOf(S))
    BY FS_StrictSubsetOrderingWellFounded
  <2> HIDE DEF U, O
  <2> QED
    BY <1>1, <1>2, <2>1, WFMin
<1>4. PICK m \in S : u = Pred(m)
  OBVIOUS
<1>5. ASSUME NEW x \in S, <<x, m>> \in R PROVE FALSE
  <2>1. Pred(x) \subseteq Pred(m) /\ x \in Pred(m) /\ x \notin Pred(x)
    BY <1>5 DEF Orders
  <2>2. Pred(x) \in SUBSET S /\ Pred(m) \in SUBSET S /\ Pred(x) # Pred(m) /\ Pred(x) \in U
    BY <2>1
  <2>3. <<Pred(x), Pred(m)>> \in O
    <3> HIDE DEF Pred
    <3> QED
      BY <2>1, <2>2 DEF StrictSubsetOrdering
  <2> QED
    BY <1>3, <1>4, <2>2, <2>3
<1> QED
  BY <1>5 DEF Orders
-------------------------------------------------------------------------------
(* Sorting.                                                                   *)

Arrangement(s, S, R) ==
  /\ s \in [1 .. Cardinality(S) -> S]
  /\ \A i, j \in DOMAIN s : i < j => <<s[i], s[j]>> \in R

\* A finite set can be sorted: its first element, and then the others.
LEMMA CanArrange ==
  ASSUME NEW S, IsFiniteSet(S), NEW R, Orders(R, S)
  PROVE  \E s : Arrangement(s, S, R)
<1>. DEFINE Good(T) == \E s : Arrangement(s, T, R)
            Bad == {n \in Nat : \E T \in SUBSET S : Cardinality(T) = n /\ ~Good(T)}
<1>1. SUFFICES Bad = {}
  <2>1. Cardinality(S) \in Nat
    BY FS_CardinalityType
  <2> QED
    BY <1>1, <2>1
<1>2. SUFFICES ASSUME NEW n \in Bad, \A m \in Bad : n <= m
               PROVE  FALSE
  <2>1. Bad \subseteq Nat
    OBVIOUS
  <2> HIDE DEF Bad
  <2> QED
    BY <1>2, <2>1, LeastNat
<1>3. PICK T \in SUBSET S : Cardinality(T) = n /\ ~Good(T)
  OBVIOUS
<1>4. IsFiniteSet(T) /\ n \in Nat
  BY FS_Subset
<1>5. T # {}
  <2>1. ASSUME T = {} PROVE Good(T)
    <3>1. 1 .. Cardinality(T) = {}
      BY <2>1, FS_EmptySet
    <3>2. Arrangement([i \in {} |-> i], T, R)
      BY <3>1, <2>1 DEF Arrangement
    <3> QED
      BY <3>2
  <2> QED
    BY <1>3, <2>1
<1>6. PICK m \in T : \A x \in T \ {m} : <<m, x>> \in R
  <2>1. Orders(R, T)
    BY DEF Orders
  <2> QED
    BY <1>4, <1>5, <2>1, FirstOf
<1>7. Cardinality(T \ {m}) = n - 1 /\ n - 1 \in Nat /\ T \ {m} \in SUBSET S
  <2>1. IsFiniteSet(T \ {m}) /\ Cardinality(T \ {m}) = Cardinality(T) - 1
    BY <1>4, <1>6, FS_RemoveElement
  <2>2. Cardinality(T \ {m}) \in Nat
    BY <2>1, FS_CardinalityType
  <2> QED
    BY <1>3, <2>1, <2>2
<1>8. PICK s : Arrangement(s, T \ {m}, R)
  <2>1. n - 1 \notin Bad
    BY <1>2, <1>4
  <2> QED
    BY <1>7, <2>1
<1>. DEFINE t == [i \in 1 .. n |-> IF i = 1 THEN m ELSE s[i - 1]]
<1>9. Arrangement(t, T, R)
  <2>1. s \in [1 .. n - 1 -> T \ {m}] /\ \A i, j \in 1 .. n - 1 : i < j => <<s[i], s[j]>> \in R
    BY <1>7, <1>8 DEF Arrangement
  <2>2. \A i \in 1 .. n : i # 1 => i - 1 \in 1 .. n - 1
    BY <1>4
  <2>3. t \in [1 .. n -> T]
    BY <2>1, <2>2
  <2>4. ASSUME NEW i \in 1 .. n, NEW j \in 1 .. n, i < j PROVE <<t[i], t[j]>> \in R
    <3>1. j # 1 /\ j - 1 \in 1 .. n - 1 /\ t[j] = s[j - 1]
      BY <2>2, <2>4
    <3>2. CASE i = 1
      BY <1>6, <2>1, <3>1, <3>2
    <3>3. CASE i # 1
      <4>1. i - 1 \in 1 .. n - 1 /\ i - 1 < j - 1 /\ t[i] = s[i - 1]
        BY <2>2, <2>4, <3>3
      <4> QED
        BY <2>1, <3>1, <4>1
    <3> QED
      BY <3>2, <3>3
  <2> HIDE DEF t
  <2> QED
    BY <1>3, <2>3, <2>4 DEF Arrangement
<1> QED
  BY <1>3, <1>9

\* Each element is in the sorted sequence once.
LEMMA ArrangedIs ==
  ASSUME NEW S, IsFiniteSet(S), NEW R, Orders(R, S)
  PROVE  LET s == Arranged(S, R)
         IN  /\ s \in [1 .. Cardinality(S) -> S] /\ s \in Seq(S) /\ Len(s) = Cardinality(S)
             /\ \A i, j \in DOMAIN s : i < j => <<s[i], s[j]>> \in R
             /\ \A i, j \in DOMAIN s : s[i] = s[j] => i = j
             /\ Element(s) = S
<1>. DEFINE s == Arranged(S, R)
            C == Cardinality(S)
<1>1. C \in Nat
  BY FS_CardinalityType
<1>2. Arrangement(s, S, R)
  <2>1. PICK t : Arrangement(t, S, R)
    BY CanArrange
  <2> QED
    BY <2>1 DEF Arrangement, Arranged
<1> HIDE DEF s
<1>3. s \in [1 .. C -> S] /\ \A i, j \in 1 .. C : i < j => <<s[i], s[j]>> \in R
  BY <1>2 DEF Arrangement
<1>4. \A i, j \in 1 .. C : s[i] = s[j] => i = j
  <2> SUFFICES ASSUME NEW i \in 1 .. C, NEW j \in 1 .. C, i < j PROVE s[i] # s[j]
    BY <1>1
  <2>1. <<s[i], s[j]>> \in R /\ s[i] \in S
    BY <1>3
  <2> QED
    BY <2>1 DEF Orders
<1>5. s \in Injection(1 .. C, S)
  BY <1>3, <1>4 DEF Injection, IsInjective
<1>6. Cardinality(1 .. C) = C
  BY <1>1, FS_Interval
<1>7. s \in Surjection(1 .. C, S)
  BY <1>5, <1>6, FS_Injection
<1>8. Element(s) = S
  BY <1>3, <1>7 DEF Element, Surjection
<1>9. s \in Seq(S) /\ Len(s) = C
  BY <1>1, <1>3, IsASeq, LenProperties
<1> QED
  BY <1>3, <1>4, <1>8, <1>9 DEF s

\* Indices in ascending order.
LEMMA AscendingIs ==
  ASSUME NEW n \in Nat, NEW S, S \subseteq 1 .. n
  PROVE  LET s == Ascending(S)
         IN  /\ s \in Seq(S) /\ Element(s) = S /\ IsFiniteSet(S)
             /\ s \in [1 .. Cardinality(S) -> S] /\ Len(s) = Cardinality(S)
             /\ \A i, j \in DOMAIN s : s[i] = s[j] => i = j
<1>1. IsFiniteSet(S)
  <2>1. IsFiniteSet(1 .. n)
    BY FS_Interval
  <2> QED
    BY <2>1, FS_Subset
<1>2. Orders(Less(S), S)
  BY DEF Orders, Less
<1> QED
  BY <1>1, <1>2, ArrangedIs DEF Ascending
-------------------------------------------------------------------------------
(* Kahn's algorithm.                                                          *)

\* The rounds of the algorithm are a function of their number.
LEMMA KahnDefined ==
  ASSUME NEW steps, Len(steps) \in Nat
  PROVE  Kahn(steps) = [n \in 0 .. Len(steps) |->
                          IF n = 0 THEN KahnStart(steps) ELSE KahnRound(steps, Kahn(steps)[n - 1])]
<1>. DEFINE N == Len(steps)
            Start == KahnStart(steps)
            Round(q) == KahnRound(steps, q)
            Rounds(n, g) == g = [k \in 0 .. n |-> IF k = 0 THEN Start ELSE Round(g[k - 1])]
            Bad == {n \in Nat : ~ \E g : Rounds(n, g)}
<1>1. \E g : Rounds(N, g)
  <2> HIDE DEF Start, Round
  <2>1. SUFFICES Bad = {}
    OBVIOUS
  <2>2. SUFFICES ASSUME NEW n \in Bad, \A m \in Bad : n <= m PROVE FALSE
    <3>1. Bad \subseteq Nat
      OBVIOUS
    <3> HIDE DEF Bad
    <3> QED
      BY <2>2, <3>1, LeastNat
  <2>3. n # 0
    <3>1. Rounds(0, [k \in 0 .. 0 |-> Start])
      OBVIOUS
    <3> QED
      BY <3>1
  <2>4. n - 1 \in Nat /\ n - 1 \notin Bad
    BY <2>2, <2>3
  <2>5. PICK g : Rounds(n - 1, g)
    BY <2>4
  <2>. DEFINE h == [k \in 0 .. n |-> IF k = n THEN Round(g[n - 1]) ELSE g[k]]
  <2>6. ASSUME NEW k \in 0 .. n PROVE h[k] = IF k = 0 THEN Start ELSE Round(h[k - 1])
    <3>1. CASE k = n
      <4>1. n - 1 \in 0 .. n /\ n - 1 # n
        BY <2>4
      <4>2. h[n - 1] = g[n - 1] /\ h[n] = Round(g[n - 1])
        BY <4>1
      <4> QED
        BY <2>3, <3>1, <4>2
    <3>2. CASE k # n
      <4>1. k \in 0 .. n - 1
        BY <3>2
      <4>2. h[k] = g[k] /\ g[k] = IF k = 0 THEN Start ELSE Round(g[k - 1])
        BY <2>5, <3>2, <4>1
      <4>3. k # 0 => k - 1 \in 0 .. n /\ k - 1 # n
        BY <4>1
      <4>4. k # 0 => h[k - 1] = g[k - 1]
        BY <4>3
      <4> QED
        BY <4>2, <4>4
    <3> QED
      BY <3>1, <3>2
  <2>7. Rounds(n, h)
    <3>1. h = [k \in 0 .. n |-> h[k]]
      OBVIOUS
    <3> HIDE DEF h
    <3> QED
      BY <2>6, <3>1
  <2> HIDE DEF h
  <2> QED
    BY <2>7
<1> QED
  BY <1>1, Zenon DEF Kahn

NoRepeat(s) == \A i, j \in DOMAIN s : s[i] = s[j] => i = j

\* A sequence of distinct elements is continued by one, or loses its head and is continued by
\* others.
LEMMA Continued ==
  ASSUME NEW S, NEW s \in Seq(S), NEW x \in S, NoRepeat(s), x \notin Element(s)
  PROVE  /\ Append(s, x) \in Seq(S) /\ NoRepeat(Append(s, x))
         /\ Element(Append(s, x)) = Element(s) \cup {x}
<1>1. /\ Append(s, x) \in Seq(S) /\ Len(s) \in Nat /\ DOMAIN s = 1 .. Len(s)
      /\ DOMAIN Append(s, x) = 1 .. Len(s) + 1
      /\ \A i \in 1 .. Len(s) : Append(s, x)[i] = s[i]
      /\ Append(s, x)[Len(s) + 1] = x
  BY AppendProperties, LenProperties
<1>. DEFINE t == Append(s, x)
<1> HIDE DEF t
<1>2. \A i \in 1 .. Len(s) + 1 : i = Len(s) + 1 \/ i \in 1 .. Len(s)
  BY <1>1
<1>3. NoRepeat(t)
  BY <1>1, <1>2 DEF NoRepeat, Element, t
<1>4. Element(t) = Element(s) \cup {x}
  <2>1. 1 .. Len(s) \subseteq 1 .. Len(s) + 1 /\ Len(s) + 1 \in 1 .. Len(s) + 1
    BY <1>1
  <2> QED
    BY <1>1, <1>2, <2>1 DEF Element, t
<1> QED
  BY <1>1, <1>3, <1>4 DEF t

LEMMA HeadGone ==
  ASSUME NEW S, NEW s \in Seq(S), s # <<>>, NoRepeat(s)
  PROVE  /\ Head(s) \in S /\ Head(s) \in Element(s)
         /\ Tail(s) \in Seq(S) /\ NoRepeat(Tail(s)) /\ Element(Tail(s)) = Element(s) \ {Head(s)}
<1>1. /\ Head(s) = s[1] /\ Tail(s) \in Seq(S) /\ Len(s) \in Nat /\ Len(s) >= 1
      /\ Len(Tail(s)) = Len(s) - 1 /\ \A i \in 1 .. Len(s) - 1 : Tail(s)[i] = s[i + 1]
  BY HeadTailProperties, LenProperties, EmptySeq
<1>. DEFINE t == Tail(s)
<1> HIDE DEF t
<1>2. DOMAIN s = 1 .. Len(s) /\ DOMAIN t = 1 .. Len(s) - 1
  BY <1>1, LenProperties DEF t
<1>3. /\ 1 \in 1 .. Len(s)
      /\ \A i \in 1 .. Len(s) - 1 : i + 1 \in 1 .. Len(s) /\ i + 1 # 1
      /\ \A i \in 1 .. Len(s) : i = 1 \/ i - 1 \in 1 .. Len(s) - 1
      /\ \A i, j \in 1 .. Len(s) - 1 : i + 1 = j + 1 => i = j
  BY <1>1
<1>4. NoRepeat(t)
  BY <1>1, <1>2, <1>3 DEF NoRepeat, t
<1>5. Element(t) \subseteq Element(s) \ {Head(s)}
  BY <1>1, <1>2, <1>3 DEF Element, NoRepeat, t
<1>6. ASSUME NEW i \in 1 .. Len(s), s[i] # Head(s) PROVE s[i] \in Element(t)
  <2>1. i - 1 \in 1 .. Len(s) - 1 /\ (i - 1) + 1 = i
    BY <1>1, <1>3, <1>6
  <2>2. t[i - 1] = s[i]
    BY <1>1, <2>1 DEF t
  <2> QED
    BY <1>2, <2>1, <2>2 DEF Element
<1>7. Head(s) \in S /\ Head(s) \in Element(s)
  BY <1>1, <1>2, <1>3, ElementOfSeq DEF Element
<1>8. Element(t) = Element(s) \ {Head(s)}
  BY <1>2, <1>5, <1>6 DEF Element
<1> QED
  BY <1>1, <1>4, <1>7, <1>8 DEF t

LEMMA Joined ==
  ASSUME NEW S, NEW s \in Seq(S), NEW t \in Seq(S), NoRepeat(s), NoRepeat(t),
         Element(s) \cap Element(t) = {}
  PROVE  s \o t \in Seq(S) /\ NoRepeat(s \o t) /\ Element(s \o t) = Element(s) \cup Element(t)
<1>. DEFINE u == s \o t
            m == Len(s)
            n == Len(t)
<1>1. /\ u \in Seq(S) /\ m \in Nat /\ n \in Nat /\ Len(u) = m + n
      /\ \A i \in 1 .. m + n : u[i] = IF i <= m THEN s[i] ELSE t[i - m]
  BY ConcatProperties, LenProperties
<1>2. DOMAIN s = 1 .. m /\ DOMAIN t = 1 .. n /\ DOMAIN u = 1 .. m + n
  BY <1>1, LenProperties
<1> HIDE DEF u, m, n
<1>3. \A i \in 1 .. m + n : (i <= m => i \in 1 .. m) /\ (~(i <= m) => i - m \in 1 .. n)
  BY <1>1
<1>4. NoRepeat(u)
  <2> SUFFICES ASSUME NEW i \in 1 .. m + n, NEW j \in 1 .. m + n, u[i] = u[j] PROVE i = j
    BY <1>2 DEF NoRepeat
  <2>1. CASE i <= m /\ j <= m
    BY <1>1, <1>2, <1>3, <2>1 DEF NoRepeat
  <2>2. CASE ~(i <= m) /\ ~(j <= m)
    <3>1. i - m = j - m
      BY <1>1, <1>2, <1>3, <2>2 DEF NoRepeat
    <3> QED
      BY <1>1, <3>1
  <2>3. ASSUME NEW k \in 1 .. m + n, NEW l \in 1 .. m + n, k <= m, ~(l <= m)
        PROVE  u[k] # u[l]
    <3>1. u[k] = s[k] /\ u[l] = t[l - m] /\ k \in DOMAIN s /\ l - m \in DOMAIN t
      BY <1>1, <1>2, <1>3, <2>3
    <3> QED
      BY <3>1 DEF Element
  <2> QED
    BY <2>1, <2>2, <2>3
<1>5. Element(u) \subseteq Element(s) \cup Element(t)
  BY <1>1, <1>2, <1>3 DEF Element
<1>6. ASSUME NEW i \in 1 .. m PROVE s[i] \in Element(u)
  <2>1. i \in 1 .. m + n /\ i <= m
    BY <1>1
  <2> QED
    BY <1>1, <1>2, <2>1 DEF Element
<1>7. ASSUME NEW i \in 1 .. n PROVE t[i] \in Element(u)
  <2>1. i + m \in 1 .. m + n /\ ~(i + m <= m) /\ (i + m) - m = i
    BY <1>1
  <2>2. u[i + m] = t[i]
    BY <1>1, <2>1
  <2> QED
    BY <1>2, <2>1, <2>2 DEF Element
<1>8. Element(u) = Element(s) \cup Element(t)
  BY <1>2, <1>5, <1>6, <1>7 DEF Element
<1> QED
  BY <1>1, <1>4, <1>8 DEF u
-------------------------------------------------------------------------------
(* What is true after each round.                                            *)

\* The ids of the steps that a state of the algorithm has ordered.
DoneIds(steps, q) == {steps[i].id : i \in Element(q.order)}

\* No step is queued or ordered twice, or both.
KahnOnce(steps, q) ==
  /\ q.queue \in Seq(DOMAIN steps) /\ NoRepeat(q.queue)
  /\ q.order \in Seq(DOMAIN steps) /\ NoRepeat(q.order)
  /\ Element(q.queue) \cap Element(q.order) = {}

\* An in-degree counts the dependencies that are not ordered yet; a queued step has none.
KahnCounts(steps, q) ==
  /\ \A i \in DOMAIN steps : q.left[i] = Cardinality(steps[i].deps \ DoneIds(steps, q))
  /\ \A i \in Element(q.queue) : steps[i].deps \subseteq DoneIds(steps, q)

\* What a step depends on is ordered before it.
KahnOrders(steps, order) ==
  \A k \in DOMAIN order : \A d \in steps[order[k]].deps :
    \E j \in DOMAIN order : j < k /\ steps[order[j]].id = d

\* A step that waits for none is queued or ordered.
KahnWaits(steps, q) ==
  \A i \in DOMAIN steps :
    steps[i].deps \subseteq DoneIds(steps, q) => i \in Element(q.queue) \cup Element(q.order)

KahnInv(steps, q) ==
  KahnOnce(steps, q) /\ KahnCounts(steps, q) /\ KahnOrders(steps, q.order) /\ KahnWaits(steps, q)

LEMMA Indexed ==
  ASSUME NEW steps, StepsShape(steps)
  PROVE  /\ Len(steps) \in Nat /\ DOMAIN steps = 1 .. Len(steps)
         /\ \A i \in DOMAIN steps : IsFiniteSet(steps[i].deps)
BY LenProperties DEF StepsShape, StepShape, Element

LEMMA KahnInit ==
  ASSUME NEW steps, StepsShape(steps)
  PROVE  KahnInv(steps, KahnStart(steps))
<1>. DEFINE q == KahnStart(steps)
            S == {i \in DOMAIN steps : steps[i].deps = {}}
<1>1. /\ q.queue = Ascending(S) /\ q.order = <<>>
      /\ \A i \in DOMAIN steps : q.left[i] = Cardinality(steps[i].deps)
  BY DEF KahnStart
<1>2. /\ Ascending(S) \in Seq(S) /\ Element(Ascending(S)) = S /\ NoRepeat(Ascending(S))
  <2>1. S \subseteq 1 .. Len(steps) /\ Len(steps) \in Nat
    BY Indexed
  <2> HIDE DEF S
  <2> QED
    BY <2>1, AscendingIs DEF NoRepeat
<1>3. Ascending(S) \in Seq(DOMAIN steps)
  <2>1. S \subseteq DOMAIN steps
    OBVIOUS
  <2> HIDE DEF S
  <2> QED
    BY <1>2, <2>1, SeqMonotonic
<1>4. Element(<<>>) = {} /\ NoRepeat(<<>>) /\ <<>> \in Seq(DOMAIN steps)
  BY DEF Element, NoRepeat
<1>5. DoneIds(steps, q) = {}
  BY <1>1, <1>4 DEF DoneIds
<1>6. KahnOnce(steps, q)
  BY <1>1, <1>2, <1>3, <1>4 DEF KahnOnce
<1>7. KahnCounts(steps, q)
  <2>1. \A i \in S : steps[i].deps = {}
    OBVIOUS
  <2>2. \A i \in DOMAIN steps : steps[i].deps \ {} = steps[i].deps
    OBVIOUS
  <2> HIDE DEF S, q
  <2> QED
    BY <1>1, <1>2, <1>5, <2>1, <2>2 DEF KahnCounts
<1>8. KahnOrders(steps, q.order)
  <2> HIDE DEF q
  <2> QED
    BY <1>1 DEF KahnOrders
<1>9. KahnWaits(steps, q)
  <2> HIDE DEF q
  <2> QED
    BY <1>1, <1>2, <1>5 DEF KahnWaits
<1> QED
  BY <1>6, <1>7, <1>8, <1>9 DEF KahnInv

LEMMA KahnKeeps ==
  ASSUME NEW steps, StepsShape(steps), Distinct(steps), NEW q, KahnInv(steps, q), q.queue # <<>>
  PROVE  /\ KahnInv(steps, KahnRound(steps, q))
         /\ Len(KahnRound(steps, q).order) = Len(q.order) + 1
<1>. DEFINE p == KahnRound(steps, q)
            h == Head(q.queue)
            node == steps[h].id
            after == {i \in DOMAIN steps : node \in steps[i].deps}
            new == {i \in after : q.left[i] = 1}
            done == DoneIds(steps, q)
<1>1. /\ p.queue = Tail(q.queue) \o Ascending(new) /\ p.order = Append(q.order, h)
      /\ \A i \in DOMAIN steps : p.left[i] = q.left[i] - IF i \in after THEN 1 ELSE 0
  BY Zenon DEF KahnRound
<1>2. /\ h \in DOMAIN steps /\ h \in Element(q.queue) /\ h \notin Element(q.order)
      /\ Tail(q.queue) \in Seq(DOMAIN steps) /\ NoRepeat(Tail(q.queue))
      /\ Element(Tail(q.queue)) = Element(q.queue) \ {h}
  <2>1. KahnOnce(steps, q)
    BY DEF KahnInv
  <2> QED
    BY <2>1, HeadGone DEF KahnOnce
<1>3. node \notin done
  BY <1>2 DEF DoneIds, Distinct, KahnInv, KahnOnce, Element
<1>4. \A i \in Element(q.queue) \cup Element(q.order) : i \in DOMAIN steps /\ i \notin after
  <2>1. \A i \in Element(q.queue) \cup Element(q.order) :
          i \in DOMAIN steps /\ steps[i].deps \subseteq done
    <3>1. \A i \in Element(q.queue) \cup Element(q.order) : i \in DOMAIN steps
      BY DEF KahnInv, KahnOnce, Element
    <3>2. ASSUME NEW i \in Element(q.order), NEW d \in steps[i].deps PROVE d \in done
      BY <3>2 DEF KahnInv, KahnOrders, DoneIds, Element
    <3> HIDE DEF done
    <3> QED
      BY <3>1, <3>2 DEF KahnInv, KahnCounts, done
  <2> QED
    BY <1>3, <2>1
<1>5. /\ Ascending(new) \in Seq(DOMAIN steps) /\ NoRepeat(Ascending(new))
      /\ Element(Ascending(new)) = new
  <2>1. new \subseteq DOMAIN steps /\ DOMAIN steps = 1 .. Len(steps) /\ Len(steps) \in Nat
    BY Indexed
  <2> HIDE DEF new
  <2>2. Ascending(new) \in Seq(new) /\ Element(Ascending(new)) = new /\ NoRepeat(Ascending(new))
    BY <2>1, AscendingIs DEF NoRepeat
  <2> QED
    BY <2>1, <2>2, SeqMonotonic
<1>6. /\ p.order \in Seq(DOMAIN steps) /\ NoRepeat(p.order)
      /\ Element(p.order) = Element(q.order) \cup {h} /\ Len(p.order) = Len(q.order) + 1
      /\ \A i \in 1 .. Len(q.order) : p.order[i] = q.order[i]
      /\ p.order[Len(q.order) + 1] = h
  BY <1>1, <1>2, Continued, AppendProperties DEF KahnInv, KahnOnce
<1>7. /\ p.queue \in Seq(DOMAIN steps) /\ NoRepeat(p.queue)
      /\ Element(p.queue) = (Element(q.queue) \ {h}) \cup new
  <2>1. Element(Tail(q.queue)) \cap Element(Ascending(new)) = {}
    BY <1>2, <1>4, <1>5
  <2> HIDE DEF h, new, p
  <2> QED
    BY <1>1, <1>2, <1>5, <2>1, Joined
<1>8. DoneIds(steps, p) = done \cup {node}
  <2> HIDE DEF p
  <2> QED
    BY <1>6 DEF DoneIds
<1>9. KahnOnce(steps, p)
  <2>1. h \notin new /\ new \cap Element(q.order) = {}
    BY <1>2, <1>4
  <2> HIDE DEF p, new, h
  <2> QED
    BY <1>2, <1>6, <1>7, <2>1 DEF KahnOnce, KahnInv
<1>10. \A i \in DOMAIN steps : p.left[i] = Cardinality(steps[i].deps \ DoneIds(steps, p))
  <2> SUFFICES ASSUME NEW i \in DOMAIN steps
               PROVE  p.left[i] = Cardinality(steps[i].deps \ DoneIds(steps, p))
    OBVIOUS
  <2>. DEFINE A == steps[i].deps \ done
  <2>1. IsFiniteSet(steps[i].deps) /\ A \in SUBSET steps[i].deps
    BY Indexed
  <2>2. IsFiniteSet(A) /\ q.left[i] = Cardinality(A)
    <3>1. IsFiniteSet(A)
      BY <2>1, FS_Subset
    <3> QED
      BY <3>1 DEF KahnInv, KahnCounts
  <2>3. steps[i].deps \ DoneIds(steps, p) = A \ {node}
    BY <1>8
  <2>4. node \in A <=> i \in after
    BY <1>3
  <2>5. Cardinality(A \ {node}) = IF node \in A THEN Cardinality(A) - 1 ELSE Cardinality(A)
    BY <2>2, FS_RemoveElement
  <2>6. Cardinality(A) \in Nat
    BY <2>2, FS_CardinalityType
  <2>7. p.left[i] = q.left[i] - IF i \in after THEN 1 ELSE 0
    BY <1>1
  <2> HIDE DEF p, A, after, node
  <2>8. CASE node \in A
    <3>1. p.left[i] = q.left[i] - 1 /\ Cardinality(A \ {node}) = Cardinality(A) - 1
      BY <2>4, <2>5, <2>7, <2>8
    <3> QED
      BY <2>2, <2>3, <3>1
  <2>9. CASE node \notin A
    <3>1. p.left[i] = q.left[i] - 0 /\ Cardinality(A \ {node}) = Cardinality(A)
      BY <2>4, <2>5, <2>7, <2>9
    <3>2. p.left[i] = Cardinality(A)
      BY <2>2, <2>6, <3>1
    <3> QED
      BY <2>3, <3>1, <3>2
  <2> QED
    BY <2>8, <2>9
<1>11. ASSUME NEW i \in Element(p.queue) PROVE steps[i].deps \subseteq DoneIds(steps, p)
  <2>1. CASE i \in Element(q.queue)
    BY <1>8, <2>1 DEF KahnInv, KahnCounts
  <2>2. CASE i \in new
    <3>. DEFINE A == steps[i].deps \ done
    <3>1. IsFiniteSet(steps[i].deps) /\ A \in SUBSET steps[i].deps /\ i \in DOMAIN steps
      BY <2>2, Indexed
    <3>2. Cardinality(A) = 1 /\ IsFiniteSet(A)
      <4>1. IsFiniteSet(A)
        BY <3>1, FS_Subset
      <4>2. q.left[i] = 1
        BY <2>2
      <4> QED
        BY <3>1, <4>1, <4>2 DEF KahnInv, KahnCounts
    <3>3. PICK x : A = {x}
      <4> HIDE DEF A
      <4> QED
        BY <3>2, FS_Singleton
    <3>4. node \in A
      BY <1>3, <2>2
    <3> QED
      BY <1>8, <3>3, <3>4
  <2> QED
    BY <1>7, <1>11, <2>1, <2>2
<1>12. KahnOrders(steps, p.order)
  <2> SUFFICES ASSUME NEW k \in DOMAIN p.order, NEW d \in steps[p.order[k]].deps
               PROVE  \E j \in DOMAIN p.order : j < k /\ steps[p.order[j]].id = d
    BY DEF KahnOrders
  <2>1. /\ DOMAIN p.order = 1 .. Len(q.order) + 1 /\ Len(q.order) \in Nat
        /\ DOMAIN q.order = 1 .. Len(q.order)
    <3> HIDE DEF p
    <3> QED
      BY <1>6, LenProperties DEF KahnInv, KahnOnce
  <2>2. CASE k \in 1 .. Len(q.order)
    <3>1. PICK j \in DOMAIN q.order : j < k /\ steps[q.order[j]].id = d
      <4>1. p.order[k] = q.order[k]
        BY <1>6, <2>2
      <4> QED
        BY <2>1, <2>2, <4>1 DEF KahnInv, KahnOrders
    <3>2. j \in 1 .. Len(q.order) /\ j \in DOMAIN p.order
      BY <2>1, <3>1
    <3> QED
      BY <1>6, <3>1, <3>2
  <2>3. CASE k = Len(q.order) + 1
    <3>1. d \in done
      <4>1. p.order[k] = h
        BY <1>6, <2>3
      <4> QED
        BY <1>2, <4>1 DEF KahnInv, KahnCounts
    <3>2. PICK j \in 1 .. Len(q.order) : steps[q.order[j]].id = d
      BY <2>1, <3>1 DEF DoneIds, Element
    <3>3. j \in DOMAIN p.order /\ j < k /\ p.order[j] = q.order[j]
      <4>1. p.order[j] = q.order[j]
        BY <1>6
      <4> QED
        BY <2>1, <2>3, <4>1
    <3> QED
      BY <3>2, <3>3
  <2>4. k \in 1 .. Len(q.order) \/ k = Len(q.order) + 1
    BY <2>1
  <2> QED
    BY <2>2, <2>3, <2>4
<1>13. KahnCounts(steps, p)
  BY <1>10, <1>11 DEF KahnCounts
<1>14. ASSUME NEW i \in DOMAIN steps, steps[i].deps \subseteq DoneIds(steps, p)
       PROVE  i \in Element(p.queue) \cup Element(p.order)
  <2>1. CASE steps[i].deps \subseteq done
    BY <1>6, <1>7, <2>1 DEF KahnInv, KahnWaits
  <2>2. CASE ~(steps[i].deps \subseteq done)
    <3>1. steps[i].deps \ done = {node} /\ i \in after
      BY <1>8, <1>14, <2>2
    <3>2. q.left[i] = 1
      BY <3>1, FS_Singleton DEF KahnInv, KahnCounts
    <3> QED
      BY <1>7, <3>1, <3>2
  <2> QED
    BY <2>1, <2>2
<1>15. KahnWaits(steps, p)
  BY <1>14 DEF KahnWaits
<1> QED
  BY <1>6, <1>9, <1>12, <1>13, <1>15 DEF KahnInv

\* Each round orders one more step, until none is queued.
LEMMA KahnAlways ==
  ASSUME NEW steps, StepsShape(steps), Distinct(steps)
  PROVE  \A n \in 0 .. Len(steps) :
           /\ KahnInv(steps, Kahn(steps)[n])
           /\ Len(Kahn(steps)[n].order) = n \/ Kahn(steps)[n].queue = <<>>
<1>. DEFINE K == Kahn(steps)
            N == Len(steps)
            Holds(n) == KahnInv(steps, K[n]) /\ (Len(K[n].order) = n \/ K[n].queue = <<>>)
            Bad == {n \in 0 .. N : ~Holds(n)}
<1>1. N \in Nat
  BY Indexed
<1>2. \A n \in 0 .. N : K[n] = IF n = 0 THEN KahnStart(steps) ELSE KahnRound(steps, K[n - 1])
  <2> HIDE DEF K
  <2>1. K = [n \in 0 .. N |-> IF n = 0 THEN KahnStart(steps) ELSE KahnRound(steps, K[n - 1])]
    BY <1>1, KahnDefined DEF K
  <2> QED
    BY <2>1
<1>3. Holds(0)
  <2>1. 0 \in 0 .. N /\ K[0] = KahnStart(steps)
    BY <1>1, <1>2
  <2>2. Len(K[0].order) = 0
    <3> HIDE DEF K
    <3> QED
      BY <2>1 DEF KahnStart
  <2> QED
    BY <2>1, <2>2, KahnInit
<1>4. ASSUME NEW n \in 0 .. N, n # 0, Holds(n - 1) PROVE Holds(n)
  <2>1. K[n] = KahnRound(steps, K[n - 1])
    BY <1>2, <1>4
  <2> HIDE DEF K
  <2>2. CASE K[n - 1].queue = <<>>
    <3>1. K[n] = K[n - 1]
      BY <2>1, <2>2 DEF KahnRound
    <3> QED
      BY <1>4, <2>2, <3>1
  <2>3. CASE K[n - 1].queue # <<>>
    <3>1. Len(K[n - 1].order) = n - 1
      BY <1>4, <2>3
    <3>2. KahnInv(steps, K[n]) /\ Len(K[n].order) = Len(K[n - 1].order) + 1
      BY <1>4, <2>1, <2>3, KahnKeeps
    <3> QED
      BY <1>1, <3>1, <3>2
  <2> QED
    BY <2>2, <2>3
<1> HIDE DEF Holds
<1>5. SUFFICES ASSUME NEW n \in Bad, \A m \in Bad : n <= m PROVE FALSE
  <2>1. Bad \subseteq Nat
    BY <1>1
  <2>2. SUFFICES Bad = {}
    BY DEF Holds
  <2> HIDE DEF Bad
  <2> QED
    BY <1>5, <2>1, LeastNat
<1>6. n # 0 /\ n - 1 \in 0 .. N /\ n - 1 \notin Bad
  BY <1>1, <1>3, <1>5
<1> QED
  BY <1>4, <1>6

\* TopoSort rejects exactly the sets of steps in which some wait for each other.
THEOREM TopoSortCorrect ==
  ASSUME NEW steps, StepsShape(steps), Distinct(steps), Resolved(steps)
  PROVE  Sorted(steps) <=> Acyclic(steps)
<1>. DEFINE N == Len(steps)
            q == Kahn(steps)[N]
            order == TopoSort(steps)
<1>1. N \in Nat /\ DOMAIN steps = 1 .. N
  BY Indexed
<1>2. /\ KahnInv(steps, q) /\ q.order = order
      /\ Len(order) = N \/ q.queue = <<>>
  BY <1>1, KahnAlways DEF TopoSort
<1> HIDE DEF q, order
<1>3. /\ order \in Seq(1 .. N) /\ NoRepeat(order) /\ Len(order) \in Nat /\ DOMAIN order = 1 .. Len(order)
      /\ order \in [1 .. Len(order) -> 1 .. N]
  <2>1. order \in Seq(1 .. N) /\ NoRepeat(order)
    BY <1>1, <1>2 DEF KahnInv, KahnOnce
  <2> QED
    BY <2>1, LenProperties
<1>4. Cardinality(1 .. N) = N /\ IsFiniteSet(1 .. N)
  BY <1>1, CountTo
<1>5. Cardinality(1 .. Len(order)) = Len(order)
  BY <1>3, CountTo
<1>6. order \in Injection(1 .. Len(order), 1 .. N)
  BY <1>3 DEF Injection, IsInjective, NoRepeat
<1>7. ASSUME Sorted(steps) PROVE Acyclic(steps)
  <2>1. Len(order) = N
    BY <1>7 DEF Sorted, order
  <2>2. Element(order) = 1 .. N
    <3>1. order \in Surjection(1 .. Len(order), 1 .. N)
      BY <1>4, <1>5, <1>6, <2>1, FS_Injection
    <3> QED
      BY <1>3, <3>1 DEF Element, Surjection
  <2>3. SUFFICES ASSUME NEW S \in SUBSET Element(steps), S # {}
                 PROVE  \E s \in S : s.deps \cap {t.id : t \in S} = {}
    BY DEF Acyclic
  <2>. DEFINE T == {k \in DOMAIN order : steps[order[k]] \in S}
  <2>4. T # {} /\ T \subseteq Nat
    BY <1>1, <1>3, <2>2, <2>3 DEF Element
  <2>5. PICK k \in T : \A m \in T : k <= m
    <3> HIDE DEF T
    <3> QED
      BY <2>4, LeastNat
  <2>6. ASSUME NEW t \in S, t.id \in steps[order[k]].deps PROVE FALSE
    <3>1. PICK j \in DOMAIN order : j < k /\ steps[order[j]].id = t.id
      BY <1>2, <2>5, <2>6 DEF KahnInv, KahnOrders
    <3>2. PICK i \in DOMAIN steps : t = steps[i]
      BY <2>6 DEF Element
    <3>3. order[j] \in DOMAIN steps
      BY <1>1, <1>3
    <3>4. order[j] = i
      BY <3>1, <3>2, <3>3 DEF Distinct
    <3>5. j \in T
      BY <3>2, <3>4
    <3> QED
      BY <1>3, <2>5, <3>1, <3>5
  <2> QED
    BY <2>5, <2>6
<1>8. ASSUME Acyclic(steps) PROVE Sorted(steps)
  <2>1. SUFFICES ASSUME Len(order) # N PROVE FALSE
    BY DEF Sorted, order
  <2>2. Element(q.queue) = {}
    BY <1>2, <2>1 DEF Element
  <2>. DEFINE S == {steps[i] : i \in DOMAIN steps \ Element(order)}
  <2>3. S # {}
    <3>1. ASSUME DOMAIN steps \subseteq Element(order) PROVE FALSE
      <4>1. order \in Surjection(1 .. Len(order), 1 .. N)
        BY <1>1, <1>3, <3>1 DEF Surjection, Element
      <4> QED
        BY <1>4, <1>5, <1>6, <2>1, <4>1, FS_Injection
    <3> QED
      BY <3>1
  <2>4. PICK s \in S : s.deps \cap {t.id : t \in S} = {}
    <3>1. S \in SUBSET Element(steps)
      BY DEF Element
    <3> QED
      BY <1>8, <2>3, <3>1 DEF Acyclic
  <2>5. PICK i \in DOMAIN steps \ Element(order) : s = steps[i]
    OBVIOUS
  <2>6. steps[i].deps \subseteq DoneIds(steps, q)
    <3> SUFFICES ASSUME NEW d \in steps[i].deps PROVE d \in DoneIds(steps, q)
      OBVIOUS
    <3>1. PICK j \in DOMAIN steps : d = steps[j].id
      BY DEF Resolved, Element, Ids
    <3>2. j \in Element(order)
      BY <2>4, <2>5, <3>1
    <3> QED
      BY <1>2, <3>1, <3>2 DEF DoneIds
  <2> QED
    BY <1>2, <2>2, <2>5, <2>6 DEF KahnInv, KahnWaits
<1> QED
  BY <1>7, <1>8
-------------------------------------------------------------------------------
(* What a document keeps while it is cleaned, completed and stripped.        *)

\* Steps that wait for each other, and run, as others do.
Alike(steps, t) ==
  /\ DOMAIN t = DOMAIN steps
  /\ \A i \in DOMAIN steps : /\ t[i].id = steps[i].id /\ t[i].deps = steps[i].deps
                             /\ t[i].agent = steps[i].agent /\ t[i].include = steps[i].include

LEMMA AlikeExecutable ==
  ASSUME NEW d, NEW e, DOMAIN e.agents = DOMAIN d.agents,
         NEW steps, NEW t, Alike(steps, t), Executable(d, steps)
  PROVE  Executable(e, t)
<1>. DOMAIN t = DOMAIN steps
  BY DEF Alike
<1>0. Distinct(steps) /\ Resolved(steps)
  BY DEF Executable
<1>1. Distinct(t) /\ Resolved(t)
  <2>1. Distinct(t)
    BY <1>0 DEF Alike, Distinct
  <2>2. Ids(t) = Ids(steps)
    BY DEF Alike, Ids
  <2>3. ASSUME NEW s \in Element(t) PROVE s.deps \subseteq Ids(t)
    <3>1. PICK i \in DOMAIN steps : s = t[i]
      BY DEF Element
    <3>2. s.deps = steps[i].deps /\ steps[i] \in Element(steps)
      BY <3>1 DEF Alike, Element
    <3> QED
      BY <1>0, <2>2, <3>2 DEF Resolved
  <2> QED
    BY <2>1, <2>3 DEF Resolved
<1>2. ASSUME NEW s \in Element(t)
      PROVE  /\ s.agent = "" \/ s.agent \in DOMAIN e.agents
             /\ ~(s.include /\ s.agent # "")
  <2>1. PICK i \in DOMAIN steps : s = t[i]
    BY DEF Element
  <2>2. s.agent = steps[i].agent /\ s.include = steps[i].include /\ steps[i] \in Element(steps)
    BY <2>1 DEF Alike, Element
  <2>3. /\ steps[i].agent = "" \/ steps[i].agent \in DOMAIN d.agents
        /\ ~(steps[i].include /\ steps[i].agent # "")
    BY <2>2 DEF Executable
  <2> QED
    BY <2>2, <2>3
<1>3. Acyclic(t)
  <2> SUFFICES ASSUME NEW T \in SUBSET Element(t), T # {}
               PROVE  \E s \in T : s.deps \cap {x.id : x \in T} = {}
    BY DEF Acyclic
  <2>. DEFINE I == {i \in DOMAIN t : t[i] \in T}
              S == {steps[i] : i \in I}
  <2>1. S \in SUBSET Element(steps) /\ S # {}
    BY DEF Element, Alike
  <2>2. PICK s \in S : s.deps \cap {x.id : x \in S} = {}
    <3>1. Acyclic(steps)
      BY DEF Executable
    <3> HIDE DEF S
    <3> QED
      BY <2>1, <3>1 DEF Acyclic
  <2>3. PICK i \in I : s = steps[i]
    OBVIOUS
  <2>4. t[i] \in T /\ t[i].deps = s.deps
    BY <2>3 DEF Alike
  <2>5. ASSUME NEW x \in T PROVE x.id \notin s.deps
    <3>1. PICK j \in I : x = t[j]
      BY DEF Element
    <3>2. x.id = steps[j].id /\ steps[j] \in S
      BY <3>1 DEF Alike
    <3> QED
      BY <2>2, <3>2
  <2> QED
    BY <2>4, <2>5
<1> QED
  BY <1>1, <1>2, <1>3 DEF Executable

\* A loop of which each body can be executed, and which ends.
PassedLoop(d, l) ==
  /\ l.forEach = "absent" => l.maxIter # <<>> /\ l.maxIter[1] > 0
  /\ \A inner \in Element(l.steps) : inner # <<>> /\ Executable(d, inner)
Passed(d) ==
  /\ Executable(d, d.steps)
  /\ \A s \in Element(d.steps) : \A l \in Element(s.loop) : PassedLoop(d, l)

\* What passes ValidateWorkflow can be executed.
LEMMA ValidPasses ==
  ASSUME NEW d, DocShape(d), ValidateWorkflow(d)
  PROVE  Passed(d)
<1>1. Executable(d, d.steps)
  <2>1. StepsShape(d.steps) /\ Distinct(d.steps) /\ Resolved(d.steps) /\ Sorted(d.steps)
    BY DEF DocShape, ValidateWorkflow, IdsOK
  <2>2. Acyclic(d.steps)
    BY <2>1, TopoSortCorrect
  <2>3. \A s \in Element(d.steps) :
          /\ s.agent = "" \/ s.agent \in DOMAIN d.agents
          /\ ~(s.include /\ s.agent # "")
    BY DEF ValidateWorkflow, OptionsOK, IncludeOK
  <2> QED
    BY <2>1, <2>2, <2>3 DEF Executable
<1>2. ASSUME NEW s \in Element(d.steps), NEW l \in Element(s.loop) PROVE PassedLoop(d, l)
  <2>1. LoopOK(d, l) /\ LoopShape(l)
    BY DEF ValidateWorkflow, DocShape
  <2>2. ASSUME NEW inner \in Element(l.steps) PROVE inner # <<>> /\ Executable(d, inner)
    <3>1. InnerOK(d, inner) /\ inner # <<>> /\ StepsShape(inner)
      BY <2>1 DEF LoopOK, LoopShape
    <3>2. Distinct(inner) /\ Resolved(inner) /\ Sorted(inner)
      BY <3>1 DEF InnerOK
    <3>3. Acyclic(inner)
      BY <3>1, <3>2, TopoSortCorrect
    <3>4. \A x \in Element(inner) :
            /\ x.agent = "" \/ x.agent \in DOMAIN d.agents
            /\ ~(x.include /\ x.agent # "")
      BY <3>1 DEF InnerOK, InnerStepOK
    <3> QED
      BY <3>1, <3>2, <3>3, <3>4 DEF Executable
  <2>3. l.forEach = "absent" => l.maxIter # <<>> /\ l.maxIter[1] > 0
    BY <2>1 DEF LoopOK, RepeatOK
  <2> QED
    BY <2>2, <2>3 DEF PassedLoop
<1> QED
  BY <1>1, <1>2 DEF Passed

\* A list of steps changed one by one is a list of steps.
LEMMA StepsChanged ==
  ASSUME NEW steps, StepsShape(steps),
         NEW t, t = [i \in DOMAIN steps |-> t[i]], \A i \in DOMAIN steps : StepShape(t[i])
  PROVE  StepsShape(t)
<1>1. DOMAIN steps = 1 .. Len(steps) /\ Len(steps) \in Nat
  BY Indexed
<1>2. t \in Seq(Element(t))
  <2>1. DOMAIN t = DOMAIN steps
    OBVIOUS
  <2>2. \A i \in 1 .. Len(steps) : t[i] \in Element(t)
    BY <1>1, <2>1 DEF Element
  <2>3. t = [i \in 1 .. Len(steps) |-> t[i]]
    BY <1>1
  <2> QED
    BY <1>1, <2>2, <2>3, IsASeq
<1> QED
  BY <1>2 DEF StepsShape, Element

\* Clearing the timeout of each step changes nothing else that counts.
LEMMA StrippedKeeps ==
  ASSUME NEW steps, StepsShape(steps)
  PROVE  /\ StepsShape(Stripped(steps)) /\ Alike(steps, Stripped(steps))
         /\ \A s \in Element(Stripped(steps)) : s.timeout = 0
         /\ steps # <<>> => Stripped(steps) # <<>>
<1>. DEFINE t == Stripped(steps)
<1>1. t = [i \in DOMAIN steps |-> t[i]] /\ DOMAIN t = DOMAIN steps
  BY DEF Stripped
<1>2. ASSUME NEW i \in DOMAIN steps
      PROVE  /\ StepShape(t[i]) /\ t[i].timeout = 0
             /\ t[i].id = steps[i].id /\ t[i].deps = steps[i].deps
             /\ t[i].agent = steps[i].agent /\ t[i].include = steps[i].include
  <2>1. StepShape(steps[i])
    BY DEF StepsShape, Element
  <2>2. t[i] = [steps[i] EXCEPT !.timeout = 0]
    BY DEF Stripped
  <2> HIDE DEF t
  <2> QED
    BY <2>1, <2>2 DEF StepShape
<1>3. steps # <<>> => t # <<>>
  <2>1. ASSUME steps # <<>> PROVE 1 \in DOMAIN steps
    BY <2>1, Indexed
  <2>2. 1 \notin DOMAIN <<>>
    OBVIOUS
  <2> HIDE DEF t
  <2> QED
    BY <1>1, <2>1, <2>2
<1> HIDE DEF t
<1>4. StepsShape(t)
  BY <1>1, <1>2, StepsChanged
<1>5. Alike(steps, t) /\ \A s \in Element(t) : s.timeout = 0
  BY <1>1, <1>2 DEF Alike, Element
<1> QED
  BY <1>3, <1>4, <1>5 DEF t

\* What the plan's coordinator must not decide is taken out of it, but for the models of
\* steps inside loops.
LoopTakenOut(l) ==
  \A inner \in Element(l.steps) : \A t \in Element(inner) : t.timeout = 0
StepTakenOut(s) ==
  s.timeout = 0 /\ ~s.model /\ \A l \in Element(s.loop) : LoopTakenOut(l)
TakenOut(d) ==
  /\ d.timeout = 0 /\ \A s \in Element(d.steps) : StepTakenOut(s)
  /\ \A a \in DOMAIN d.agents : ~d.agents[a].model

LEMMA StripLoopKeeps ==
  ASSUME NEW d, NEW e, DOMAIN e.agents = DOMAIN d.agents, NEW l, LoopShape(l)
  PROVE  /\ LoopShape(StripLoop(l)) /\ LoopTakenOut(StripLoop(l))
         /\ PassedLoop(d, l) => PassedLoop(e, StripLoop(l))
<1>. DEFINE k == StripLoop(l)
<1>1. /\ DOMAIN k = DOMAIN l /\ k.forEach = l.forEach /\ k.maxIter = l.maxIter
      /\ k.steps = [j \in DOMAIN l.steps |-> Stripped(l.steps[j])]
  BY DEF StripLoop, LoopShape
<1>2. ASSUME NEW inner \in Element(k.steps)
      PROVE  \E steps \in Element(l.steps) : inner = Stripped(steps)
  BY <1>1 DEF Element
<1> HIDE DEF k
<1>3. ASSUME NEW inner \in Element(k.steps)
      PROVE  /\ StepsShape(inner) /\ \A t \in Element(inner) : t.timeout = 0
             /\ PassedLoop(d, l) => inner # <<>> /\ Executable(e, inner)
  <2>1. PICK steps \in Element(l.steps) : inner = Stripped(steps)
    BY <1>2
  <2>2. StepsShape(steps)
    BY DEF LoopShape
  <2>3. /\ StepsShape(inner) /\ Alike(steps, inner) /\ \A t \in Element(inner) : t.timeout = 0
        /\ steps # <<>> => inner # <<>>
    BY <2>1, <2>2, StrippedKeeps
  <2>4. ASSUME PassedLoop(d, l) PROVE inner # <<>> /\ Executable(e, inner)
    <3>1. steps # <<>> /\ Executable(d, steps)
      BY <2>4 DEF PassedLoop
    <3> QED
      BY <2>3, <3>1, AlikeExecutable
  <2> QED
    BY <2>3, <2>4
<1>4. LoopShape(k) /\ LoopTakenOut(k)
  BY <1>1, <1>3 DEF LoopShape, LoopTakenOut
<1>5. PassedLoop(d, l) => PassedLoop(e, k)
  BY <1>1, <1>3 DEF PassedLoop
<1> QED
  BY <1>4, <1>5 DEF k

LEMMA StripStepKeeps ==
  ASSUME NEW d, NEW e, DOMAIN e.agents = DOMAIN d.agents,
         NEW s, StepShape(s), \A l \in Element(s.loop) : LoopShape(l)
  PROVE  LET t == StripStep(s)
         IN  /\ StepShape(t) /\ StepTakenOut(t)
             /\ t.id = s.id /\ t.deps = s.deps /\ t.agent = s.agent /\ t.include = s.include
             /\ \A l \in Element(t.loop) : LoopShape(l)
             /\ (\A l \in Element(s.loop) : PassedLoop(d, l))
                => \A l \in Element(t.loop) : PassedLoop(e, l)
<1>. DEFINE t == StripStep(s)
<1>1. /\ DOMAIN t = DOMAIN s /\ t.timeout = 0 /\ t.model = FALSE
      /\ t.id = s.id /\ t.deps = s.deps /\ t.agent = s.agent /\ t.include = s.include
  BY DEF StripStep, StepShape
<1>2. t.loop = [i \in DOMAIN s.loop |-> StripLoop(s.loop[i])]
  BY DEF StripStep, StepShape
<1> HIDE DEF t
<1>3. ASSUME NEW l \in Element(t.loop)
      PROVE  \E k \in Element(s.loop) : l = StripLoop(k)
  BY <1>2 DEF Element
<1>4. ASSUME NEW l \in Element(t.loop)
      PROVE  /\ LoopShape(l) /\ LoopTakenOut(l)
             /\ (\A k \in Element(s.loop) : PassedLoop(d, k)) => PassedLoop(e, l)
  BY <1>3, StripLoopKeeps
<1>5. StepShape(t)
  BY <1>1 DEF StepShape
<1>6. StepTakenOut(t)
  BY <1>1, <1>4 DEF StepTakenOut
<1> QED
  BY <1>1, <1>4, <1>5, <1>6 DEF t

\* ApplyDefaults completes a document and keeps its steps.
LEMMA DefaultsKeep ==
  ASSUME NEW d, DocShape(d)
  PROVE  LET e == WithDefaults(d)
         IN  /\ DocShape(e) /\ e.ref = d.ref /\ DOMAIN e = DOMAIN d
             /\ e.steps = d.steps /\ e.agents = d.agents /\ (Passed(d) => Passed(e))
<1>. DEFINE e == WithDefaults(d)
<1>1. e.ref = d.ref /\ DOMAIN e = DOMAIN d /\ e.steps = d.steps /\ e.agents = d.agents
  BY DEF WithDefaults, DocShape
<1> HIDE DEF e
<1>2. DocShape(e)
  BY <1>1 DEF DocShape
<1>3. Passed(d) => Passed(e)
  BY <1>1 DEF Passed, PassedLoop, Executable
<1> QED
  BY <1>1, <1>2, <1>3 DEF e

\* What AcceptPlan makes of a plan.
Accepted(d) ==
  [WithDefaults(d) EXCEPT !.timeout = 0,
     !.agents = [a \in DOMAIN @ |-> [@[a] EXCEPT !.model = FALSE]],
     !.steps = [i \in DOMAIN @ |-> StripStep(@[i])]]

LEMMA AcceptedKeeps ==
  ASSUME NEW d, DocShape(d), Passed(d)
  PROVE  LET e == Accepted(d)
         IN  DocShape(e) /\ Passed(e) /\ TakenOut(e) /\ e.ref = d.ref
<1>. DEFINE c == WithDefaults(d)
            e == Accepted(d)
<1>1. DocShape(c) /\ c.ref = d.ref /\ c.steps = d.steps /\ c.agents = d.agents
  BY DefaultsKeep
<1>2. /\ DOMAIN e = DOMAIN c /\ e.ref = c.ref /\ e.timeout = 0
      /\ e.agents = [a \in DOMAIN c.agents |-> [c.agents[a] EXCEPT !.model = FALSE]]
      /\ e.steps = [i \in DOMAIN c.steps |-> StripStep(c.steps[i])]
  <2> HIDE DEF c
  <2>1. e = [c EXCEPT !.timeout = 0,
               !.agents = [a \in DOMAIN @ |-> [@[a] EXCEPT !.model = FALSE]],
               !.steps = [i \in DOMAIN @ |-> StripStep(@[i])]]
    BY DEF Accepted, c
  <2> HIDE DEF e
  <2> QED
    BY <1>1, <2>1 DEF DocShape
<1> HIDE DEF c, e
<1>3. DOMAIN e.agents = DOMAIN d.agents /\ DOMAIN e.steps = DOMAIN d.steps
  BY <1>1, <1>2
<1>4. ASSUME NEW i \in DOMAIN d.steps
      PROVE  LET s == d.steps[i]
                 t == e.steps[i]
             IN  /\ StepShape(t) /\ StepTakenOut(t)
                 /\ t.id = s.id /\ t.deps = s.deps /\ t.agent = s.agent /\ t.include = s.include
                 /\ \A l \in Element(t.loop) : LoopShape(l) /\ PassedLoop(e, l)
  <2>1. e.steps[i] = StripStep(d.steps[i]) /\ d.steps[i] \in Element(d.steps)
    BY <1>1, <1>2 DEF Element
  <2>2. StepShape(d.steps[i])
    BY <2>1 DEF DocShape, StepsShape
  <2>3. \A l \in Element(d.steps[i].loop) : LoopShape(l) /\ PassedLoop(d, l)
    BY <2>1 DEF DocShape, Passed
  <2> QED
    BY <1>3, <2>1, <2>2, <2>3, StripStepKeeps
<1>5. StepsShape(e.steps)
  <2>1. StepsShape(d.steps)
    BY DEF DocShape
  <2>2. e.steps = [i \in DOMAIN d.steps |-> e.steps[i]]
    BY <1>1, <1>2
  <2> QED
    BY <1>4, <2>1, <2>2, StepsChanged
<1>6. DocShape(e) /\ \A a \in DOMAIN e.agents : ~e.agents[a].model
  <2>1. ASSUME NEW a \in DOMAIN e.agents
        PROVE  "model" \in DOMAIN e.agents[a] /\ ~e.agents[a].model
    <3>1. a \in DOMAIN c.agents /\ e.agents[a] = [c.agents[a] EXCEPT !.model = FALSE]
      BY <1>2
    <3>2. "model" \in DOMAIN c.agents[a]
      BY <1>1, <3>1 DEF DocShape
    <3> QED
      BY <3>1, <3>2
  <2>2. StepsShape(e.steps) /\ \A s \in Element(e.steps) : \A l \in Element(s.loop) : LoopShape(l)
    BY <1>3, <1>4, <1>5 DEF Element
  <2> QED
    BY <1>1, <1>2, <2>1, <2>2 DEF DocShape
<1>7. Alike(d.steps, e.steps)
  BY <1>3, <1>4 DEF Alike
<1>8. Executable(e, e.steps)
  BY <1>3, <1>7, AlikeExecutable DEF Passed
<1>9. ASSUME NEW s \in Element(e.steps)
      PROVE  StepTakenOut(s) /\ \A l \in Element(s.loop) : PassedLoop(e, l)
  <2>1. PICK i \in DOMAIN d.steps : s = e.steps[i]
    BY <1>3 DEF Element
  <2> QED
    BY <1>4, <2>1
<1>10. Passed(e) /\ TakenOut(e)
  BY <1>2, <1>6, <1>8, <1>9 DEF Passed, TakenOut
<1> QED
  BY <1>1, <1>2, <1>6, <1>10 DEF e

\* Cleaning the ids leaves a document a document.
LEMMA SanitizedKeeps ==
  ASSUME NEW d, DocShape(d),
         NEW e, e = [d EXCEPT !.steps = [i \in DOMAIN d.steps |->
                                           [d.steps[i] EXCEPT !.id = Cleaned(@)]]]
  PROVE  DocShape(e) /\ e.ref = d.ref
<1>1. /\ DOMAIN e = DOMAIN d /\ e.ref = d.ref /\ e.agents = d.agents
      /\ e.steps = [i \in DOMAIN d.steps |-> [d.steps[i] EXCEPT !.id = Cleaned(@)]]
  BY DEF DocShape
<1>2. ASSUME NEW i \in DOMAIN d.steps
      PROVE  /\ StepShape(e.steps[i]) /\ \A l \in Element(e.steps[i].loop) : LoopShape(l)
  <2>1. e.steps[i] = [d.steps[i] EXCEPT !.id = Cleaned(@)] /\ d.steps[i] \in Element(d.steps)
    BY <1>1 DEF Element
  <2>2. StepShape(d.steps[i]) /\ \A l \in Element(d.steps[i].loop) : LoopShape(l)
    BY <2>1 DEF DocShape, StepsShape
  <2>3. /\ e.steps[i].loop = d.steps[i].loop /\ e.steps[i].deps = d.steps[i].deps
        /\ DOMAIN e.steps[i] = DOMAIN d.steps[i]
    BY <2>1, <2>2 DEF StepShape
  <2> QED
    BY <2>2, <2>3 DEF StepShape
<1>3. StepsShape(e.steps)
  <2>1. StepsShape(d.steps)
    BY DEF DocShape
  <2>2. e.steps = [i \in DOMAIN d.steps |-> e.steps[i]]
    BY <1>1
  <2> QED
    BY <1>2, <2>1, <2>2, StepsChanged
<1>4. DOMAIN e.steps = DOMAIN d.steps
  BY <1>1
<1> QED
  BY <1>1, <1>2, <1>3, <1>4 DEF DocShape, Element
-------------------------------------------------------------------------------
(* The life of a document.                                                   *)

Goals == {"ask", "garbled", "plan", "parsed", "approve"}
FilesOnly == {"limited", "resolve", "loaded"}
Checked == {"valid", "limited", "resolve", "loaded", "plan", "parsed", "approve", "run"}
Refs == {""} \cup DOMAIN Files

\* The document has its shape; from validation on it can be executed, and once a plan is
\* accepted nothing its coordinator must not decide is left in it.
DocInv ==
  /\ DocShape(doc)
  /\ phase \in Checked => Passed(doc)
  /\ origin = "goal" /\ phase \in {"parsed", "approve", "run"} => TakenOut(doc)

\* Only plans are asked for and approved, only files refer to others; every file a chain of
\* references reads is one there is.
PathInv ==
  /\ phase \in Goals => origin = "goal"
  /\ phase \in FilesOnly => origin = "file"
  /\ doc.ref \in Refs
  /\ origin = "file" /\ phase \in {"read", "clean", "valid", "limited"} => ref = doc.ref
  /\ phase = "resolve" => ref \in DOMAIN Files
  /\ asked \in [json : 0 .. JsonRetries, content : 0 .. ValRetries]

DocumentInv == DocumentTypeOK /\ DocInv /\ PathInv

LEMMA Limits == MaxNesting \in Nat /\ JsonRetries \in Nat /\ ValRetries \in Nat
BY DocsAssumption

LEMMA InitDocument == DocumentInit => DocumentInv
<1>1. ASSUME NEW from \in {"file", "goal"}, NEW d \in Docs \cup Answers, DocumentStart(from, d)
      PROVE  DocumentInv
  <2>1. DocShape(d) /\ d.ref \in Refs
    BY DocsAssumption DEF Refs
  <2>2. /\ origin = from /\ doc = d /\ ref = d.ref /\ trail = <<>>
        /\ phase = IF from = "file" THEN "read" ELSE "ask"
        /\ asked = [json |-> 0, content |-> 0]
    BY <1>1 DEF DocumentStart
  <2>3. DocumentTypeOK
    <3>1. trail \in Seq(DOMAIN Files) /\ Len(trail) = 0
      BY <2>2
    <3> QED
      BY <2>2, <3>1, Limits DEF DocumentTypeOK
  <2>4. DocInv
    BY <2>1, <2>2 DEF DocInv, Checked
  <2>5. PathInv
    BY <2>1, <2>2, Limits DEF PathInv, Goals, FilesOnly
  <2> QED
    BY <2>3, <2>4, <2>5 DEF DocumentInv
<1> QED
  BY <1>1 DEF DocumentInit

\* The steps that keep the document, or complete it.
LEMMA StepDocument == DocumentInv /\ [DocumentNext]_documentVars => DocumentInv'
<1> SUFFICES ASSUME DocumentInv, [DocumentNext]_documentVars PROVE DocumentInv'
  OBVIOUS
<1>1. DocumentTypeOK /\ DocInv /\ PathInv
  BY DEF DocumentInv
<1>2. CASE Sanitize
  <2>1. /\ phase = "read" /\ phase' \in {"clean", "rejected"}
        /\ doc' = [doc EXCEPT !.steps = [i \in DOMAIN doc.steps |->
                                          [doc.steps[i] EXCEPT !.id = Cleaned(@)]]]
        /\ UNCHANGED <<origin, ref, trail, asked>>
    BY <1>2 DEF Sanitize, Pass
  <2>2. DocShape(doc') /\ doc'.ref = doc.ref
    BY <1>1, <2>1, SanitizedKeeps DEF DocInv
  <2>3. DocumentTypeOK'
    BY <1>1, <2>1 DEF DocumentTypeOK
  <2>4. DocInv'
    BY <2>1, <2>2 DEF DocInv, Checked
  <2>5. PathInv'
    BY <1>1, <2>1, <2>2 DEF PathInv, Goals, FilesOnly, Refs
  <2> QED
    BY <2>3, <2>4, <2>5 DEF DocumentInv
<1>3. CASE Validate
  <2>1. /\ phase = "clean" /\ phase' \in {"valid", "rejected"}
        /\ phase' = "valid" => ValidateWorkflow(doc)
        /\ UNCHANGED <<origin, doc, ref, trail, asked>>
    BY <1>3 DEF Validate, Pass
  <2>2. phase' = "valid" => Passed(doc)
    BY <1>1, <2>1, ValidPasses DEF DocInv
  <2>3. DocumentTypeOK'
    BY <1>1, <2>1 DEF DocumentTypeOK
  <2>4. DocInv'
    BY <1>1, <2>1, <2>2 DEF DocInv, Checked
  <2>5. PathInv'
    BY <1>1, <2>1 DEF PathInv, Goals, FilesOnly, Refs
  <2> QED
    BY <2>3, <2>4, <2>5 DEF DocumentInv
<1>4. CASE EnforceLimits
  <2>1. /\ phase = "valid" /\ phase' \in {IF origin = "file" THEN "limited" ELSE "plan", "rejected"}
        /\ UNCHANGED <<origin, doc, ref, trail, asked>>
    BY <1>4 DEF EnforceLimits, Pass
  <2>2. DocumentTypeOK'
    BY <1>1, <2>1 DEF DocumentTypeOK
  <2>3. DocInv'
    BY <1>1, <2>1 DEF DocInv, Checked
  <2>4. PathInv'
    BY <1>1, <2>1 DEF PathInv, Goals, FilesOnly, Refs, DocumentTypeOK
  <2> QED
    BY <2>2, <2>3, <2>4 DEF DocumentInv
<1>5. CASE ApplyDefaults
  <2>1. /\ phase = "limited" /\ phase' = IF doc.ref = "" THEN "loaded" ELSE "resolve"
        /\ doc' = WithDefaults(doc)
        /\ UNCHANGED <<origin, ref, trail, asked>>
    BY <1>5 DEF ApplyDefaults, Pass
  <2>2. DocShape(doc') /\ doc'.ref = doc.ref /\ Passed(doc')
    BY <1>1, <2>1, DefaultsKeep DEF DocInv, Checked
  <2>3. DocumentTypeOK'
    BY <1>1, <2>1 DEF DocumentTypeOK
  <2>4. origin = "file"
    BY <1>1, <2>1 DEF PathInv, FilesOnly
  <2>5. DocInv'
    BY <2>1, <2>2, <2>4 DEF DocInv, Checked
  <2>6. PathInv'
    BY <1>1, <2>1, <2>2, <2>4 DEF PathInv, Goals, FilesOnly, Refs
  <2> QED
    BY <2>3, <2>5, <2>6 DEF DocumentInv
<1>6. CASE ResolveRef
  <2>1. phase = "resolve" /\ ref \in DOMAIN Files /\ origin = "file"
    BY <1>1, <1>6 DEF ResolveRef, PathInv, FilesOnly
  <2>2. UNCHANGED <<origin, doc, asked>>
    BY <1>6 DEF ResolveRef
  <2>3. CASE Len(trail) = MaxNesting \/ ref \in Element(trail) \/ Files[ref] = "missing"
    <3>1. phase' = "rejected" /\ UNCHANGED <<ref, trail>>
      BY <1>6, <2>3 DEF ResolveRef
    <3>2. DocumentTypeOK'
      BY <1>1, <2>2, <3>1 DEF DocumentTypeOK
    <3>3. DocInv'
      BY <1>1, <2>2, <3>1 DEF DocInv, Checked
    <3>4. PathInv'
      BY <1>1, <2>2, <3>1 DEF PathInv, Goals, FilesOnly, Refs
    <3> QED
      BY <3>2, <3>3, <3>4 DEF DocumentInv
  <2>4. CASE ~(Len(trail) = MaxNesting \/ ref \in Element(trail) \/ Files[ref] = "missing")
    <3>1. /\ trail' = Append(trail, ref) /\ ref' = Files[ref]
          /\ phase' = IF Files[ref] = "text" THEN "loaded" ELSE "resolve"
      BY <1>6, <2>4 DEF ResolveRef
    <3>2. Files[ref] # "text" => ref' \in DOMAIN Files
      BY <2>1, <2>4, <3>1, DocsAssumption
    <3>3. trail' \in Seq(DOMAIN Files) /\ Len(trail') <= MaxNesting
      <4>1. trail \in Seq(DOMAIN Files) /\ Len(trail) <= MaxNesting /\ Len(trail) # MaxNesting
        BY <1>1, <2>4 DEF DocumentTypeOK
      <4> QED
        BY <2>1, <3>1, <4>1, Limits
    <3>4. DocumentTypeOK'
      BY <1>1, <2>2, <3>1, <3>3 DEF DocumentTypeOK
    <3>5. DocInv'
      BY <1>1, <2>1, <2>2, <3>1 DEF DocInv, Checked
    <3>6. PathInv'
      BY <1>1, <2>1, <2>2, <3>1, <3>2 DEF PathInv, Goals, FilesOnly, Refs
    <3> QED
      BY <3>4, <3>5, <3>6 DEF DocumentInv
  <2> QED
    BY <2>3, <2>4
<1>7. CASE CoordinatorAnswers
  <2>1. /\ phase = "ask" /\ phase' \in {"read", "garbled", "failed"}
        /\ UNCHANGED <<origin, doc, ref, trail, asked>>
    BY <1>7 DEF CoordinatorAnswers
  <2>2. DocumentTypeOK'
    BY <1>1, <2>1 DEF DocumentTypeOK
  <2>3. DocInv'
    BY <1>1, <2>1 DEF DocInv, Checked
  <2>4. PathInv'
    BY <1>1, <2>1 DEF PathInv, Goals, FilesOnly, Refs
  <2> QED
    BY <2>2, <2>3, <2>4 DEF DocumentInv
<1>8. CASE RetryPlan
  <2>1. /\ origin = "goal" /\ phase' = "ask" /\ doc' \in Answers
        /\ UNCHANGED <<origin, ref, trail>>
    BY <1>8 DEF RetryPlan, Again
  <2>2. DocShape(doc') /\ doc'.ref \in Refs
    BY <2>1, DocsAssumption DEF Refs
  <2>3. asked' \in [json : 0 .. JsonRetries, content : 0 .. ValRetries]
    <3>1. asked \in [json : 0 .. JsonRetries, content : 0 .. ValRetries]
      BY <1>1 DEF PathInv
    <3>2. \/ asked.json < JsonRetries /\ asked' = [asked EXCEPT !.json = @ + 1]
          \/ asked.content < ValRetries /\ asked' = [asked EXCEPT !.content = @ + 1]
      BY <1>8 DEF RetryPlan, Again
    <3> QED
      BY <3>1, <3>2, Limits
  <2>4. DocumentTypeOK'
    BY <1>1, <2>1, <2>3 DEF DocumentTypeOK
  <2>5. DocInv'
    BY <2>1, <2>2 DEF DocInv, Checked
  <2>6. PathInv'
    BY <2>1, <2>2, <2>3 DEF PathInv, Goals, FilesOnly, Refs
  <2> QED
    BY <2>4, <2>5, <2>6 DEF DocumentInv
<1>9. CASE AcceptPlan
  <2>1. /\ phase = "plan" /\ phase' \in {"parsed", "rejected"} /\ doc' = Accepted(doc)
        /\ UNCHANGED <<origin, ref, trail, asked>>
    BY <1>9 DEF AcceptPlan, Pass, Accepted
  <2>2. DocShape(doc') /\ Passed(doc') /\ TakenOut(doc') /\ doc'.ref = doc.ref
    BY <1>1, <2>1, AcceptedKeeps DEF DocInv, Checked
  <2>3. origin = "goal"
    BY <1>1, <2>1 DEF PathInv, Goals
  <2>4. DocumentTypeOK'
    BY <1>1, <2>1 DEF DocumentTypeOK
  <2>5. DocInv'
    BY <2>1, <2>2 DEF DocInv
  <2>6. PathInv'
    BY <1>1, <2>1, <2>2, <2>3 DEF PathInv, Goals, FilesOnly, Refs
  <2> QED
    BY <2>4, <2>5, <2>6 DEF DocumentInv
<1>10. CASE ToolNames
  <2>1. /\ phase = IF origin = "goal" THEN "parsed" ELSE "loaded"
        /\ phase' \in {"failed", IF origin = "goal" THEN "approve" ELSE "run"}
        /\ UNCHANGED <<origin, doc, ref, trail, asked>>
    BY <1>10 DEF ToolNames
  <2>2. DocumentTypeOK'
    BY <1>1, <2>1 DEF DocumentTypeOK
  <2>3. DocInv'
    BY <1>1, <2>1 DEF DocInv, Checked
  <2>4. PathInv'
    BY <1>1, <2>1 DEF PathInv, Goals, FilesOnly, Refs
  <2> QED
    BY <2>2, <2>3, <2>4 DEF DocumentInv
<1>11. CASE ApproveGoal
  <2>1. /\ phase = "approve" /\ phase' \in {"run", "denied"}
        /\ UNCHANGED <<origin, doc, ref, trail, asked>>
    BY <1>11 DEF ApproveGoal
  <2>2. DocumentTypeOK'
    BY <1>1, <2>1 DEF DocumentTypeOK
  <2>3. DocInv'
    BY <1>1, <2>1 DEF DocInv, Checked
  <2>4. PathInv'
    BY <1>1, <2>1 DEF PathInv, Goals, FilesOnly, Refs
  <2> QED
    BY <2>2, <2>3, <2>4 DEF DocumentInv
<1>12. CASE UNCHANGED documentVars
  BY <1>1, <1>12 DEF documentVars, DocumentInv, DocumentTypeOK, DocInv, PathInv
<1> QED
  BY <1>2, <1>3, <1>4, <1>5, <1>6, <1>7, <1>8, <1>9, <1>10, <1>11, <1>12 DEF DocumentNext

\* Whatever a file contains and a coordinator answers, what reaches the executor can be
\* executed, in the body of a loop too, and a plan carries no timeout of its coordinator's
\* choice, and no model but those of steps inside loops (ValidateWorkflow,
\* ParseCoordinatorResponse).
LEMMA WorkflowsAreSound ==
  ASSUME DocumentInv
  PROVE  WorkflowsSound
<1> SUFFICES ASSUME phase = "run" PROVE WorkflowsSound
  BY DEF WorkflowsSound
<1>1. Passed(doc) /\ (origin = "goal" => TakenOut(doc))
  BY DEF DocumentInv, DocInv, Checked
<1> QED
  BY <1>1 DEF WorkflowsSound, Passed, PassedLoop, TakenOut, StepTakenOut, LoopTakenOut
-------------------------------------------------------------------------------
(* The order ready steps are started in.                                     *)

\* Each ready step once, the steps of one agent in their order.
Ordered(order, ready, n) ==
  /\ order \in [1 .. n -> 1 .. n] /\ Len(order) = n /\ Element(order) = 1 .. n
  /\ \A j, k \in 1 .. n : order[j] = order[k] => j = k
  /\ \A j, k \in 1 .. n : j < k /\ ready[order[j]].agent = ready[order[k]].agent
                          => order[j] < order[k]

\* A relation that orders the ready steps, and one agent's as they come, arranges them so.
LEMMA OrderedBy ==
  ASSUME NEW n \in Nat, NEW ready, NEW R, Orders(R, 1 .. n),
         \A i, j \in 1 .. n : ready[i].agent = ready[j].agent /\ <<i, j>> \in R => i < j
  PROVE  LET order == Arranged(1 .. n, R)
         IN  /\ Ordered(order, ready, n)
             /\ \A j, k \in 1 .. n : j < k => <<order[j], order[k]>> \in R
<1>. DEFINE order == Arranged(1 .. n, R)
<1>1. IsFiniteSet(1 .. n) /\ Cardinality(1 .. n) = n
  BY CountTo
<1>2. /\ order \in [1 .. n -> 1 .. n] /\ Len(order) = n /\ Element(order) = 1 .. n
      /\ \A j, k \in DOMAIN order : j < k => <<order[j], order[k]>> \in R
      /\ \A j, k \in DOMAIN order : order[j] = order[k] => j = k
  BY <1>1, ArrangedIs
<1> HIDE DEF order
<1>3. DOMAIN order = 1 .. n /\ \A j \in 1 .. n : order[j] \in 1 .. n
  BY <1>2
<1>4. \A j, k \in 1 .. n : j < k => <<order[j], order[k]>> \in R
  BY <1>2, <1>3
<1>5. \A j, k \in 1 .. n : j < k /\ ready[order[j]].agent = ready[order[k]].agent
                           => order[j] < order[k]
  BY <1>3, <1>4
<1>6. Ordered(order, ready, n)
  BY <1>2, <1>3, <1>5, Zenon DEF Ordered
<1> QED
  BY <1>4, <1>6 DEF order

\* scheduleLeastBusy starts the steps of the less busy agents first.
LEMMA LeastBusyIs ==
  ASSUME NEW n \in Nat, NEW ready, DOMAIN ready = 1 .. n,
         NEW steps, NEW running, IsFiniteSet(running)
  PROVE  LET order == scheduleLeastBusy(ready, steps, running)
             Busy(k) == LoadOf(steps, running, ready[order[k]].agent)
         IN  /\ Ordered(order, ready, n)
             /\ \A j, k \in 1 .. n : j < k => Busy(j) <= Busy(k)
<1>. DEFINE load == [i \in 1 .. n |-> LoadOf(steps, running, ready[i].agent)]
            R == {p \in (1 .. n) \X (1 .. n) :
                    load[p[1]] < load[p[2]] \/ (load[p[1]] = load[p[2]] /\ p[1] < p[2])}
<1>1. \A i \in 1 .. n : load[i] \in Nat
  <2> SUFFICES ASSUME NEW i \in 1 .. n PROVE LoadOf(steps, running, ready[i].agent) \in Nat
    OBVIOUS
  <2>1. IsFiniteSet({s \in running : steps[s].agent = ready[i].agent})
    BY FS_Subset
  <2> QED
    BY <2>1, FS_CardinalityType DEF LoadOf
<1>2. scheduleLeastBusy(ready, steps, running) = Arranged(1 .. n, R)
  <2>1. R = {p \in (1 .. n) \X (1 .. n) :
               LET a == LoadOf(steps, running, ready[p[1]].agent)
                   b == LoadOf(steps, running, ready[p[2]].agent)
               IN  a < b \/ (a = b /\ p[1] < p[2])}
    OBVIOUS
  <2> HIDE DEF R
  <2> QED
    BY <2>1, Zenon DEF scheduleLeastBusy
<1>3. \A i, j \in 1 .. n : ready[i].agent = ready[j].agent => load[i] = load[j]
  OBVIOUS
<1>4. \A i, j \in 1 .. n : <<i, j>> \in R <=> load[i] < load[j] \/ (load[i] = load[j] /\ i < j)
  OBVIOUS
<1> HIDE DEF R
<1>5. \A k \in 1 .. n : load[k] = LoadOf(steps, running, ready[k].agent)
  OBVIOUS
<1> HIDE DEF load
<1>6. Orders(R, 1 .. n)
  BY <1>1, <1>4 DEF Orders
<1>7. \A i, j \in 1 .. n : ready[i].agent = ready[j].agent /\ <<i, j>> \in R => i < j
  BY <1>1, <1>3, <1>4
<1>. DEFINE order == Arranged(1 .. n, R)
<1>8. /\ Ordered(order, ready, n)
      /\ \A j, k \in 1 .. n : j < k => <<order[j], order[k]>> \in R
  BY <1>6, <1>7, OrderedBy
<1> HIDE DEF order
<1>9. ASSUME NEW j \in 1 .. n, NEW k \in 1 .. n, j < k PROVE load[order[j]] <= load[order[k]]
  <2>1. order[j] \in 1 .. n /\ order[k] \in 1 .. n /\ <<order[j], order[k]>> \in R
    BY <1>8, <1>9 DEF Ordered
  <2> QED
    BY <1>1, <1>4, <2>1
<1>10. \A k \in 1 .. n : load[order[k]] = LoadOf(steps, running, ready[order[k]].agent)
  BY <1>5, <1>8 DEF Ordered
<1> QED
  BY <1>2, <1>8, <1>9, <1>10 DEF order

\* The steps of one agent among the first i, which Number counts.
Own(ready, i) == {j \in 1 .. i : ready[j].agent = ready[i].agent}

\* One agent's steps are numbered in their order, from 1; First is the one numbered 1.
LEMMA Numbered ==
  ASSUME NEW n \in Nat, NEW ready, DOMAIN ready = 1 .. n
  PROVE  /\ \A i \in 1 .. n : /\ IsFiniteSet(Own(ready, i)) /\ Number(ready, i) \in Nat
                              /\ Cardinality(Own(ready, i)) = Number(ready, i)
         /\ \A i, j \in 1 .. n : i < j /\ ready[i].agent = ready[j].agent
                                 => Number(ready, i) < Number(ready, j)
         /\ \A i \in 1 .. n : /\ First(ready, i) \in 1 .. n
                              /\ ready[First(ready, i)].agent = ready[i].agent
         /\ \A i, j \in 1 .. n : ready[i].agent = ready[j].agent
                                 => First(ready, i) = First(ready, j)
<1>1. ASSUME NEW i \in 1 .. n
      PROVE  /\ IsFiniteSet(Own(ready, i)) /\ Number(ready, i) \in Nat
             /\ Cardinality(Own(ready, i)) = Number(ready, i)
  <2>1. IsFiniteSet(1 .. i)
    BY CountTo
  <2>2. IsFiniteSet(Own(ready, i))
    BY <2>1, FS_Subset DEF Own
  <2> QED
    BY <2>2, FS_CardinalityType DEF Own, Number
<1>2. ASSUME NEW i \in 1 .. n, NEW j \in 1 .. n, i < j, ready[i].agent = ready[j].agent
      PROVE  Number(ready, i) < Number(ready, j)
  <2>1. Own(ready, i) \subseteq Own(ready, j) /\ j \in Own(ready, j) /\ j \notin Own(ready, i)
    BY <1>2 DEF Own
  <2>2. /\ Cardinality(Own(ready, i)) <= Cardinality(Own(ready, j))
        /\ Cardinality(Own(ready, i)) # Cardinality(Own(ready, j))
    BY <1>1, <2>1, FS_Subset
  <2> QED
    BY <1>1, <2>2
<1>3. ASSUME NEW i \in 1 .. n
      PROVE  \E j \in 1 .. n : ready[j].agent = ready[i].agent /\ Number(ready, j) = 1
  <2>. DEFINE T == {j \in 1 .. n : ready[j].agent = ready[i].agent}
  <2>1. PICK j \in T : \A m \in T : j <= m
    <3>1. T \subseteq Nat /\ i \in T
      OBVIOUS
    <3> HIDE DEF T
    <3> QED
      BY <3>1, LeastNat
  <2>2. Own(ready, j) = {j}
    BY <2>1 DEF Own
  <2>3. Number(ready, j) = 1
    BY <1>1, <2>1, <2>2, FS_Singleton
  <2> QED
    BY <2>1, <2>3
<1>4. \A i \in 1 .. n : /\ First(ready, i) \in 1 .. n
                        /\ ready[First(ready, i)].agent = ready[i].agent
  BY <1>3 DEF First
<1>5. ASSUME NEW i \in 1 .. n, NEW j \in 1 .. n, ready[i].agent = ready[j].agent
      PROVE  First(ready, i) = First(ready, j)
  BY <1>5, Zenon DEF First
<1> QED
  BY <1>1, <1>2, <1>4, <1>5

\* An agent is served at most once more than one that waits.
InTurns(order, ready, n) ==
  LET Served(k, a) == Cardinality({i \in 1 .. k : ready[order[i]].agent = a})
  IN  \A k \in 1 .. n : \A j \in k + 1 .. n :
        Served(k, ready[order[k]].agent) <= Served(k, ready[order[j]].agent) + 1

\* scheduleRoundRobin serves the agents in turns.
LEMMA RoundRobinIs ==
  ASSUME NEW n \in Nat, NEW ready, DOMAIN ready = 1 .. n,
         NEW order, order = scheduleRoundRobin(ready)
  PROVE  Ordered(order, ready, n) /\ InTurns(order, ready, n)
<1>. DEFINE number == [i \in 1 .. n |-> Number(ready, i)]
            first == [i \in 1 .. n |-> First(ready, i)]
            agent == [i \in 1 .. n |-> ready[i].agent]
            R == {p \in (1 .. n) \X (1 .. n) :
                    \/ number[p[1]] < number[p[2]]
                    \/ number[p[1]] = number[p[2]] /\ first[p[1]] < first[p[2]]}
            Placed(k, a) == {i \in 1 .. k : agent[order[i]] = a}
            Among(i) == {x \in 1 .. i : agent[x] = agent[i]}
<1>1. order = Arranged(1 .. n, R)
  <2>1. R = {p \in (1 .. n) \X (1 .. n) :
               LET m == Number(ready, p[1])
                   k == Number(ready, p[2])
               IN  m < k \/ (m = k /\ First(ready, p[1]) < First(ready, p[2]))}
    OBVIOUS
  <2> HIDE DEF R
  <2> QED
    BY <2>1, Zenon DEF scheduleRoundRobin
<1>2. \A i, j \in 1 .. n :
        <<i, j>> \in R
        <=> (number[i] < number[j] \/ (number[i] = number[j] /\ first[i] < first[j]))
  OBVIOUS
<1>3. \A i \in 1 .. n : agent[i] = ready[i].agent
  OBVIOUS
<1>4. /\ \A i \in 1 .. n : number[i] \in Nat /\ first[i] \in 1 .. n /\ agent[first[i]] = agent[i]
      /\ \A i, j \in 1 .. n : i < j /\ agent[i] = agent[j] => number[i] < number[j]
      /\ \A i, j \in 1 .. n : agent[i] = agent[j] => first[i] = first[j]
  <2>1. \A i \in 1 .. n : number[i] = Number(ready, i) /\ first[i] = First(ready, i)
    OBVIOUS
  <2>2. \A i \in 1 .. n : number[i] \in Nat /\ first[i] \in 1 .. n
    BY <2>1, Numbered
  <2> HIDE DEF number, first, agent
  <2>3. ASSUME NEW i \in 1 .. n PROVE agent[first[i]] = agent[i]
    <3>1. ready[First(ready, i)].agent = ready[i].agent
      BY Numbered
    <3> QED
      BY <1>3, <2>1, <2>2, <3>1
  <2>4. ASSUME NEW i \in 1 .. n, NEW j \in 1 .. n, i < j, agent[i] = agent[j]
        PROVE  number[i] < number[j]
    <3>1. ready[i].agent = ready[j].agent
      BY <1>3, <2>4
    <3>2. Number(ready, i) < Number(ready, j)
      BY <2>4, <3>1, Numbered
    <3> QED
      BY <2>1, <3>2
  <2>5. ASSUME NEW i \in 1 .. n, NEW j \in 1 .. n, agent[i] = agent[j] PROVE first[i] = first[j]
    <3>1. ready[i].agent = ready[j].agent
      BY <1>3, <2>5
    <3>2. First(ready, i) = First(ready, j)
      BY <3>1, Numbered
    <3> QED
      BY <2>1, <3>2
  <2> QED
    BY <2>2, <2>3, <2>4, <2>5
<1>5. \A i \in 1 .. n : IsFiniteSet(Among(i)) /\ Cardinality(Among(i)) = number[i]
  <2> SUFFICES ASSUME NEW i \in 1 .. n
               PROVE  IsFiniteSet(Among(i)) /\ Cardinality(Among(i)) = number[i]
    OBVIOUS
  <2>1. Among(i) = Own(ready, i)
    BY DEF Own
  <2> HIDE DEF Among
  <2> QED
    BY <2>1, Numbered
<1> HIDE DEF R, number, first, agent
<1>6. Orders(R, 1 .. n)
  <2>1. \A i \in 1 .. n : <<i, i>> \notin R
    BY <1>2, <1>4
  <2>2. ASSUME NEW i \in 1 .. n, NEW j \in 1 .. n, NEW k \in 1 .. n,
               <<i, j>> \in R, <<j, k>> \in R
        PROVE  <<i, k>> \in R
    <3>1. /\ number[i] \in Nat /\ number[j] \in Nat /\ number[k] \in Nat
          /\ first[i] \in Nat /\ first[j] \in Nat /\ first[k] \in Nat
      BY <1>4
    <3>2. /\ number[i] < number[j] \/ (number[i] = number[j] /\ first[i] < first[j])
          /\ number[j] < number[k] \/ (number[j] = number[k] /\ first[j] < first[k])
      BY <1>2, <2>2
    <3>3. number[i] < number[k] \/ (number[i] = number[k] /\ first[i] < first[k])
      BY <3>1, <3>2
    <3> QED
      BY <1>2, <3>3
  <2>3. ASSUME NEW i \in 1 .. n, NEW j \in 1 .. n, i # j
        PROVE  <<i, j>> \in R \/ <<j, i>> \in R
    <3>1. CASE number[i] # number[j]
      BY <1>2, <1>4, <3>1
    <3>2. CASE number[i] = number[j]
      <4>1. agent[i] # agent[j]
        BY <1>4, <2>3, <3>2
      <4>2. first[i] # first[j]
        BY <1>4, <4>1
      <4> QED
        BY <1>2, <1>4, <3>2, <4>2
    <3> QED
      BY <3>1, <3>2
  <2> QED
    BY <2>1, <2>2, <2>3 DEF Orders
<1>7. \A i, j \in 1 .. n : ready[i].agent = ready[j].agent /\ <<i, j>> \in R => i < j
  <2> SUFFICES ASSUME NEW i \in 1 .. n, NEW j \in 1 .. n, agent[i] = agent[j], <<i, j>> \in R
               PROVE  i < j
    BY <1>3
  <2>1. number[i] < number[j]
    BY <1>2, <1>4
  <2> QED
    BY <1>4, <2>1
<1>8. /\ Ordered(order, ready, n)
      /\ \A j, k \in 1 .. n : j < k => <<order[j], order[k]>> \in R
  BY <1>1, <1>6, <1>7, OrderedBy
<1>9. \A k \in 1 .. n : order[k] \in 1 .. n
  BY <1>8 DEF Ordered
<1>10. \A j, k \in 1 .. n : order[j] = order[k] => j = k
  BY <1>8 DEF Ordered
<1>11. \A x \in 1 .. n : \E i \in 1 .. n : order[i] = x
  BY <1>8 DEF Ordered, Element
<1>12. \A j, k \in 1 .. n : j < k /\ agent[order[j]] = agent[order[k]] => order[j] < order[k]
  <2> SUFFICES ASSUME NEW j \in 1 .. n, NEW k \in 1 .. n, j < k, agent[order[j]] = agent[order[k]]
               PROVE  order[j] < order[k]
    OBVIOUS
  <2>1. ready[order[j]].agent = ready[order[k]].agent
    BY <1>3, <1>9
  <2> QED
    BY <1>8, <2>1 DEF Ordered
<1>13. \A k \in 1 .. n : \A a : IsFiniteSet(Placed(k, a)) /\ Cardinality(Placed(k, a)) \in Nat
  <2> SUFFICES ASSUME NEW k \in 1 .. n, NEW a
               PROVE  IsFiniteSet(Placed(k, a)) /\ Cardinality(Placed(k, a)) \in Nat
    OBVIOUS
  <2>1. IsFiniteSet(1 .. k) /\ Placed(k, a) \in SUBSET (1 .. k)
    BY CountTo
  <2> HIDE DEF Placed
  <2> QED
    BY <2>1, FS_Subset, FS_CardinalityType
\* As many steps of its agent are placed before a step as its number says, at most.
<1>14. ASSUME NEW k \in 1 .. n
       PROVE  Cardinality(Placed(k, agent[order[k]])) <= number[order[k]]
  <2>. DEFINE P == Placed(k, agent[order[k]])
              f == [i \in P |-> order[i]]
  <2>1. ASSUME NEW i \in P PROVE f[i] \in Among(order[k])
    <3>1. i \in 1 .. n /\ i <= k /\ agent[order[i]] = agent[order[k]]
      OBVIOUS
    <3>2. order[i] <= order[k]
      <4>1. order[i] \in 1 .. n /\ order[k] \in 1 .. n
        BY <1>9, <3>1
      <4>2. i < k => order[i] < order[k]
        BY <1>12, <3>1
      <4> QED
        BY <3>1, <4>1, <4>2
    <3>3. order[i] \in 1 .. order[k]
      BY <1>9, <3>1, <3>2
    <3> QED
      BY <3>1, <3>3
  <2>2. ASSUME NEW i \in P, NEW j \in P, f[i] = f[j] PROVE i = j
    <3>1. i \in 1 .. n /\ j \in 1 .. n /\ order[i] = order[j]
      BY <2>2
    <3> QED
      BY <1>10, <3>1
  <2> HIDE DEF P, Among
  <2>3. f \in Injection(P, Among(order[k]))
    BY <2>1, <2>2 DEF Injection, IsInjective
  <2>4. Cardinality(P) <= Cardinality(Among(order[k]))
    BY <1>5, <1>9, <2>3, FS_Injection
  <2> QED
    BY <1>5, <1>9, <2>4 DEF P
\* Of an agent that waits, all steps with a smaller number are placed.
<1>15. ASSUME NEW k \in 1 .. n, NEW j \in k + 1 .. n
       PROVE  number[order[k]] <= Cardinality(Placed(k, agent[order[j]])) + 1
  <2>. DEFINE a == agent[order[j]]
              m == number[order[k]]
              U == {x \in 1 .. n : agent[x] = a /\ m <= number[x]}
              P == Placed(k, a)
  <2>1. j \in 1 .. n /\ k < j
    OBVIOUS
  <2>2. order[j] \in U
    <3>1. order[j] \in 1 .. n /\ order[k] \in 1 .. n /\ <<order[k], order[j]>> \in R
      BY <1>8, <1>9, <2>1
    <3>2. m \in Nat /\ number[order[j]] \in Nat
      BY <1>4, <3>1
    <3>3. m < number[order[j]] \/ m = number[order[j]]
      BY <1>2, <3>1
    <3>4. m <= number[order[j]]
      BY <3>2, <3>3
    <3> QED
      BY <3>1, <3>4
  <2>3. PICK u \in U : \A x \in U : u <= x
    <3>1. U \subseteq Nat
      OBVIOUS
    <3> HIDE DEF U
    <3> QED
      BY <2>2, <3>1, LeastNat
  <2>. DEFINE V == Among(u) \ {u}
              f == [x \in V |-> CHOOSE i \in 1 .. n : order[i] = x]
  <2>4. ASSUME NEW x \in V PROVE f[x] \in P /\ order[f[x]] = x
    <3>1. x \in 1 .. n /\ x < u /\ agent[x] = a
      OBVIOUS
    <3>2. number[x] < m
      <4>1. x \notin U
        BY <2>3, <3>1
      <4>2. number[x] \in Nat /\ m \in Nat
        BY <1>4, <1>9, <3>1
      <4> QED
        BY <3>1, <4>1, <4>2
    <3>3. f[x] \in 1 .. n /\ order[f[x]] = x
      BY <1>11, <3>1
    <3> HIDE DEF f
    <3>4. ~(k < f[x])
      <4>1. ASSUME k < f[x] PROVE FALSE
        <5>1. <<order[k], x>> \in R
          BY <1>8, <3>3, <4>1
        <5>2. m \in Nat /\ number[x] \in Nat
          BY <1>4, <1>9, <3>1
        <5>3. m < number[x] \/ m = number[x]
          <6>1. order[k] \in 1 .. n /\ x \in 1 .. n
            BY <1>9, <3>1
          <6> QED
            BY <1>2, <5>1, <6>1
        <5> QED
          BY <3>2, <5>2, <5>3
      <4> QED
        BY <4>1
    <3> QED
      BY <3>1, <3>3, <3>4
  <2>5. f \in Injection(V, P)
    <3>1. f = [x \in V |-> f[x]]
      OBVIOUS
    <3> HIDE DEF f, V, P
    <3> QED
      BY <2>4, <3>1 DEF Injection, IsInjective
  <2>6. u \in Among(u) /\ u \in 1 .. n /\ m <= number[u]
    OBVIOUS
  <2>7. Cardinality(V) = number[u] - 1
    <3> HIDE DEF Among
    <3> QED
      BY <1>5, <2>6, FS_RemoveElement
  <2>8. Cardinality(V) <= Cardinality(P)
    <3> HIDE DEF V, P, f
    <3>1. IsFiniteSet(P)
      BY <1>13 DEF P
    <3> QED
      BY <2>5, <3>1, FS_Injection
  <2>9. m \in Nat /\ number[u] \in Nat /\ Cardinality(P) \in Nat
    <3> HIDE DEF Placed
    <3> QED
      BY <1>4, <1>9, <1>13, <2>6
  <2> HIDE DEF V, P, m, U
  <2>10. m <= Cardinality(P) + 1
    BY <2>6, <2>7, <2>8, <2>9
  <2> QED
    BY <2>10 DEF P, m
<1>16. ASSUME NEW k \in 1 .. n, NEW j \in k + 1 .. n
       PROVE  Cardinality(Placed(k, agent[order[k]]))
                <= Cardinality(Placed(k, agent[order[j]])) + 1
  <2>1. /\ Cardinality(Placed(k, agent[order[k]])) \in Nat
        /\ Cardinality(Placed(k, agent[order[j]])) \in Nat
        /\ number[order[k]] \in Nat
    <3> HIDE DEF Placed
    <3> QED
      BY <1>4, <1>9, <1>13
  <2> HIDE DEF Placed
  <2> QED
    BY <1>14, <1>15, <2>1
<1>17. ASSUME NEW k \in 1 .. n, NEW a
       PROVE  Placed(k, a) = {i \in 1 .. k : ready[order[i]].agent = a}
  <2>1. ASSUME NEW i \in 1 .. k PROVE agent[order[i]] = ready[order[i]].agent
    <3>1. i \in 1 .. n
      OBVIOUS
    <3> QED
      BY <1>3, <1>9, <3>1
  <2> QED
    BY <2>1
<1>18. \A k \in 1 .. n : agent[order[k]] = ready[order[k]].agent
  BY <1>3, <1>9
<1>19. ASSUME NEW k \in 1 .. n, NEW j \in k + 1 .. n
       PROVE  Cardinality({i \in 1 .. k : ready[order[i]].agent = ready[order[k]].agent})
                <= Cardinality({i \in 1 .. k : ready[order[i]].agent = ready[order[j]].agent}) + 1
  <2>1. j \in 1 .. n
    OBVIOUS
  <2> HIDE DEF Placed
  <2>2. /\ Placed(k, agent[order[k]]) = {i \in 1 .. k : ready[order[i]].agent = ready[order[k]].agent}
        /\ Placed(k, agent[order[j]]) = {i \in 1 .. k : ready[order[i]].agent = ready[order[j]].agent}
    BY <1>17, <1>18, <2>1
  <2>3. Cardinality(Placed(k, agent[order[k]])) <= Cardinality(Placed(k, agent[order[j]])) + 1
    BY <1>16
  <2> QED
    BY <2>2, <2>3
<1> QED
  BY <1>8, <1>19 DEF InTurns

\* dependency-first keeps the order of the workflow.
LEMMA AsTheyCome ==
  ASSUME NEW n \in Nat, NEW ready, DOMAIN ready = 1 .. n
  PROVE  Ordered([i \in DOMAIN ready |-> i], ready, n)
<1>. DEFINE order == [i \in 1 .. n |-> i]
<1>1. order \in [1 .. n -> 1 .. n] /\ \A i \in 1 .. n : order[i] = i
  OBVIOUS
<1>2. order \in Seq(1 .. n) /\ Len(order) = n
  BY <1>1, IsASeq, LenProperties
<1> HIDE DEF order
<1>3. Element(order) = 1 .. n
  BY <1>1 DEF Element
<1>4. Ordered(order, ready, n)
  BY <1>1, <1>2, <1>3 DEF Ordered
<1> QED
  BY <1>4 DEF order

LEMMA ReadySteps ==
  ASSUME StepsShape(doc.steps)
  PROVE  Len(Ready) \in Nat /\ DOMAIN Ready = 1 .. Len(Ready)
<1>. DEFINE S == {i \in DOMAIN doc.steps : doc.steps[i].deps = {}}
            free == Ascending(S)
            n == Len(free)
<1>1. Len(doc.steps) \in Nat /\ DOMAIN doc.steps = 1 .. Len(doc.steps)
  BY Indexed
<1>2. S \subseteq 1 .. Len(doc.steps)
  BY <1>1
<1> HIDE DEF S
<1>3. free \in Seq(S)
  BY <1>1, <1>2, AscendingIs
<1> HIDE DEF free
<1>4. n \in Nat /\ DOMAIN free = 1 .. n
  BY <1>3, LenProperties
<1>5. Ready = [k \in 1 .. n |-> doc.steps[free[k]]]
  BY <1>4 DEF Ready, free, S
<1> HIDE DEF n
<1>6. Ready \in Seq(Element(Ready))
  <2>1. DOMAIN Ready = 1 .. n
    BY <1>5
  <2>2. \A k \in 1 .. n : Ready[k] \in Element(Ready)
    BY <2>1 DEF Element
  <2>3. Ready = [k \in 1 .. n |-> Ready[k]]
    BY <1>5
  <2> QED
    BY <1>4, <2>2, <2>3, IsASeq
<1> QED
  BY <1>6, LenProperties

\* Whichever strategy the workflow names, its ready steps are each started once, one agent's
\* in their order; round-robin and least-busy are fair (scheduleOrder).
LEMMA OrdersAreSound ==
  ASSUME DocumentInv
  PROVE  OrdersSound
<1> SUFFICES ASSUME phase = "run", NEW running \in SUBSET DOMAIN doc.steps
             PROVE  LET order == scheduleOrder(Ready, doc.steps, running)
                        Agent(k) == Ready[order[k]].agent
                        Served(k, a) == Cardinality({j \in 1 .. k : Agent(j) = a})
                        Busy(k) == LoadOf(doc.steps, running, Agent(k))
                    IN  /\ Element(order) = DOMAIN Ready /\ Len(order) = Len(Ready)
                        /\ \A j, k \in DOMAIN order :
                             j < k /\ Agent(j) = Agent(k) => order[j] < order[k]
                        /\ doc.scheduler = "round-robin" =>
                             \A k \in DOMAIN order : \A j \in k + 1 .. Len(order) :
                               Served(k, Agent(k)) <= Served(k, Agent(j)) + 1
                        /\ doc.scheduler = "least-busy" =>
                             \A j, k \in DOMAIN order : j < k => Busy(j) <= Busy(k)
  BY DEF OrdersSound
<1>. DEFINE ready == Ready
            n == Len(ready)
            order == scheduleOrder(ready, doc.steps, running)
            Agent(k) == ready[order[k]].agent
            Served(k, a) == Cardinality({j \in 1 .. k : Agent(j) = a})
            Busy(k) == LoadOf(doc.steps, running, Agent(k))
<1>1. StepsShape(doc.steps)
  BY DEF DocumentInv, DocInv, DocShape
<1>2. n \in Nat /\ DOMAIN ready = 1 .. n
  BY <1>1, ReadySteps
<1>3. IsFiniteSet(running)
  <2>1. IsFiniteSet(DOMAIN doc.steps)
    BY <1>1, Indexed, CountTo
  <2> QED
    BY <2>1, FS_Subset
<1> HIDE DEF ready, n
<1>4. doc.scheduler = "round-robin" =>
        /\ Ordered(order, ready, n)
        /\ \A k \in 1 .. n : \A j \in k + 1 .. n : Served(k, Agent(k)) <= Served(k, Agent(j)) + 1
  <2> SUFFICES ASSUME doc.scheduler = "round-robin"
               PROVE  /\ Ordered(order, ready, n)
                      /\ \A k \in 1 .. n : \A j \in k + 1 .. n :
                           Served(k, Agent(k)) <= Served(k, Agent(j)) + 1
    OBVIOUS
  <2>1. order = scheduleRoundRobin(ready)
    BY DEF scheduleOrder
  <2> HIDE DEF order
  <2>2. Ordered(order, ready, n) /\ InTurns(order, ready, n)
    BY <1>2, <2>1, RoundRobinIs
  <2> QED
    BY <2>2 DEF InTurns
<1>5. doc.scheduler = "least-busy" =>
        /\ Ordered(order, ready, n)
        /\ \A j, k \in 1 .. n : j < k => Busy(j) <= Busy(k)
  <2> SUFFICES ASSUME doc.scheduler = "least-busy"
               PROVE  /\ Ordered(order, ready, n)
                      /\ \A j, k \in 1 .. n : j < k => Busy(j) <= Busy(k)
    OBVIOUS
  <2>1. order = scheduleLeastBusy(ready, doc.steps, running)
    BY DEF scheduleOrder
  <2> HIDE DEF order
  <2>2. /\ Ordered(order, ready, n)
        /\ \A j, k \in 1 .. n :
             j < k => LoadOf(doc.steps, running, ready[order[j]].agent)
                        <= LoadOf(doc.steps, running, ready[order[k]].agent)
    BY <1>2, <1>3, <2>1, LeastBusyIs, Zenon
  <2> QED
    BY <2>2, Zenon
<1>6. Ordered(order, ready, n)
  <2>1. ASSUME doc.scheduler # "round-robin", doc.scheduler # "least-busy"
        PROVE  Ordered(order, ready, n)
    <3>1. order = [i \in DOMAIN ready |-> i]
      BY <2>1 DEF scheduleOrder
    <3> HIDE DEF order
    <3> QED
      BY <1>2, <3>1, AsTheyCome
  <2> HIDE DEF order
  <2> QED
    BY <1>4, <1>5, <2>1
<1> HIDE DEF order
<1>7. DOMAIN order = 1 .. n /\ Len(order) = n /\ Element(order) = 1 .. n
  BY <1>6 DEF Ordered
<1>8. \A j, k \in 1 .. n : j < k /\ Agent(j) = Agent(k) => order[j] < order[k]
  BY <1>6 DEF Ordered
<1>9. /\ Element(order) = DOMAIN ready /\ Len(order) = Len(ready)
      /\ \A j, k \in DOMAIN order : j < k /\ Agent(j) = Agent(k) => order[j] < order[k]
      /\ doc.scheduler = "round-robin" =>
           \A k \in DOMAIN order : \A j \in k + 1 .. Len(order) :
             Served(k, Agent(k)) <= Served(k, Agent(j)) + 1
      /\ doc.scheduler = "least-busy" =>
           \A j, k \in DOMAIN order : j < k => Busy(j) <= Busy(k)
  <2>1. Element(order) = DOMAIN ready /\ Len(order) = Len(ready)
    BY <1>2, <1>7 DEF n
  <2> HIDE DEF Served, Busy, Agent
  <2> QED
    BY <1>4, <1>5, <1>7, <1>8, <2>1
<1> QED
  BY <1>9 DEF ready, order

\* What reaches the executor can be executed, and its ready steps start in a fair order, for
\* every content of the files and every answer of the coordinator.
THEOREM DocumentsSoundCorrect == DocumentSpec => []DocumentsSound
<1>1. DocumentInv => DocumentsSound
  BY WorkflowsAreSound, OrdersAreSound DEF DocumentsSound
<1> QED
  BY <1>1, InitDocument, StepDocument, PTL DEF DocumentSpec

-------------------------------------------------------------------------------
(* Functions defined by recursion on a number.                                *)

\* The value at n is computed from the one before, by F[n].
Computed(g, N, Start, F) == \A k \in 0 .. N : g[k] = IF k = 0 THEN Start ELSE F[k][g[k - 1]]

\* A function that is computed from its value before exists.
LEMMA Iterated ==
  ASSUME NEW N \in Nat, NEW S, NEW Start \in S, NEW F \in [0 .. N -> [S -> S]]
  PROVE  \E g \in [0 .. N -> S] : Computed(g, N, Start, F)
<1>. USE DEF Computed
<1>. DEFINE Up(n) == \E g \in [0 .. n -> S] :
                       \A k \in 0 .. n : g[k] = IF k = 0 THEN Start ELSE F[k][g[k - 1]]
            Bad == {n \in 0 .. N : ~Up(n)}
<1>1. SUFFICES Bad = {}
  OBVIOUS
<1>2. SUFFICES ASSUME NEW n \in Bad, \A m \in Bad : n <= m PROVE FALSE
  <2>1. Bad \subseteq Nat
    OBVIOUS
  <2> HIDE DEF Bad
  <2> QED
    BY <1>2, <2>1, LeastNat
<1>3. n # 0
  <2>. DEFINE g == [k \in 0 .. 0 |-> Start]
  <2>1. /\ g \in [0 .. 0 -> S]
        /\ \A k \in 0 .. 0 : g[k] = IF k = 0 THEN Start ELSE F[k][g[k - 1]]
    OBVIOUS
  <2>2. Up(0)
    BY <2>1
  <2> QED
    BY <2>2
<1>4. n \in Nat /\ n - 1 \in 0 .. N /\ n \in 0 .. N
  BY <1>3
<1>5. Up(n - 1)
  <2> HIDE DEF Up
  <2> QED
    BY <1>2, <1>4
<1>6. PICK g \in [0 .. n - 1 -> S] :
        \A k \in 0 .. n - 1 : g[k] = IF k = 0 THEN Start ELSE F[k][g[k - 1]]
  BY <1>5
<1>7. g[n - 1] \in S /\ F[n][g[n - 1]] \in S
  BY <1>4, <1>6
<1>. DEFINE h == [k \in 0 .. n |-> IF k = n THEN F[n][g[n - 1]] ELSE g[k]]
<1>8. h \in [0 .. n -> S]
  BY <1>4, <1>6, <1>7
<1>9. ASSUME NEW k \in 0 .. n PROVE h[k] = IF k = 0 THEN Start ELSE F[k][h[k - 1]]
  <2>1. CASE k = n
    <3>1. h[n] = F[n][g[n - 1]] /\ h[n - 1] = g[n - 1]
      BY <1>3, <1>4
    <3> QED
      BY <1>3, <2>1, <3>1
  <2>2. CASE k # n
    <3>1. k \in 0 .. n - 1
      BY <1>4, <2>2
    <3>2. h[k] = g[k] /\ g[k] = IF k = 0 THEN Start ELSE F[k][g[k - 1]]
      BY <1>6, <2>2, <3>1
    <3>3. k # 0 => h[k - 1] = g[k - 1]
      BY <1>4, <3>1
    <3> QED
      BY <3>2, <3>3
  <2> QED
    BY <2>1, <2>2
<1> QED
  <2> HIDE DEF h
  <2>1. Up(n)
    BY <1>8, <1>9
  <2> QED
    BY <2>1

-------------------------------------------------------------------------------
(* The check of a result.                                                     *)

\* What the recursion looks at inside a place.
Visited(p) == Fields(p[1], p[2]) \cup Elements(p[1], p[2])

\* It is part of what is there, and all of it where items are read.
LEMMA VisitedInside ==
  ASSUME NEW p
  PROVE  /\ Visited(p) \subseteq Inside(p)
         /\ (p[2].items # <<>> => ItemsRead(p[2])) => Visited(p) = Inside(p)
<1>1. CASE ItemsRead(p[2])
  BY <1>1, Zenon DEF Visited, Inside, Elements
<1>2. CASE ~ItemsRead(p[2])
  <2>1. Elements(p[1], p[2]) = {}
    BY <1>2, Zenon DEF Elements
  <2>2. p[2].items = <<>> => Items(p[1], p[2]) = {}
    BY Zenon DEF Items
  <2> QED
    BY <1>2, <2>1, <2>2 DEF Visited, Inside
<1> QED
  BY <1>1, <1>2

\* A place has no error iff it does not contradict its schema and what is looked at inside
\* has none.
LEMMA ElementChecked ==
  ASSUME NEW p, NEW OK
  PROVE  ElementOK(p[1], p[2], OK) <=> ~Contradicts(p[1], p[2]) /\ Visited(p) \subseteq OK
<1>1. Fields(p[1], p[2]) # {} => p[1].kind = "object" /\ Nested(p[2])
  BY DEF Fields, Nested, hasObjectShape
<1>2. p[2].required # <<>> => Nested(p[2])
  BY DEF Nested, hasObjectShape
<1>3. ElementOK(p[1], p[2], OK) <=>
        /\ checkType(p[1], p[2].type)
        /\ Nested(p[2]) /\ p[1].kind = "object" =>
             ~Lacks(p[1], p[2]) /\ Fields(p[1], p[2]) \subseteq OK
        /\ Elements(p[1], p[2]) \subseteq OK
  BY Zenon DEF ElementOK, FieldsOK, Lacks
<1>4. Visited(p) \subseteq OK <=> Fields(p[1], p[2]) \subseteq OK /\ Elements(p[1], p[2]) \subseteq OK
  BY DEF Visited
<1>5. Lacks(p[1], p[2]) => Nested(p[2])
  BY <1>2, Zenon DEF Lacks
<1>6. (p[1].kind = "object" /\ Nested(p[2])) \/ Fields(p[1], p[2]) \subseteq OK
  <2>1. {} \subseteq OK
    OBVIOUS
  <2> QED
    BY <1>1, <2>1, Zenon
<1>7. Contradicts(p[1], p[2]) <=>
        ~checkType(p[1], p[2].type) \/ (p[1].kind = "object" /\ Lacks(p[1], p[2]))
  BY Zenon DEF Contradicts
<1>. DEFINE typed == checkType(p[1], p[2].type)
            object == p[1].kind = "object"
            nested == Nested(p[2])
            lacks == Lacks(p[1], p[2])
            fields == Fields(p[1], p[2]) \subseteq OK
            elements == Elements(p[1], p[2]) \subseteq OK
            inside == Visited(p) \subseteq OK
<1> QED
  <2>1. /\ ElementOK(p[1], p[2], OK) <=>
             typed /\ (nested /\ object => ~lacks /\ fields) /\ elements
        /\ inside <=> fields /\ elements
        /\ lacks => nested
        /\ (object /\ nested) \/ fields
        /\ Contradicts(p[1], p[2]) <=> ~typed \/ (object /\ lacks)
    BY <1>3, <1>4, <1>5, <1>6, <1>7, Zenon
  <2> HIDE DEF typed, object, nested, lacks, fields, elements, inside
  <2>2. ASSUME ElementOK(p[1], p[2], OK) PROVE ~Contradicts(p[1], p[2]) /\ inside
    BY <2>1, <2>2, Zenon
  <2>3. ASSUME ~Contradicts(p[1], p[2]), inside PROVE ElementOK(p[1], p[2], OK)
    <3>1. typed /\ ~(object /\ lacks) /\ fields /\ elements
      BY <2>1, <2>3, Zenon
    <3> QED
      BY <2>1, <3>1, Zenon
  <2> QED
    BY <2>2, <2>3, Zenon DEF inside

\* The levels are a function of their depth.
LEMMA LevelsDefined ==
  ASSUME NEW v, NEW s
  PROVE  \A d \in 0 .. SchemaDepth :
           Levels(v, s)[d] =
             IF d = 0 THEN Fields(v, s) ELSE UNION {Inside(p) : p \in Levels(v, s)[d - 1]}
<1>. DEFINE Start == Fields(v, s)
            Deeper(q) == UNION {Inside(p) : p \in q}
            Deepens(n, g) == g = [k \in 0 .. n |-> IF k = 0 THEN Start ELSE Deeper(g[k - 1])]
            Bad == {n \in Nat : ~ \E g : Deepens(n, g)}
<1>0. SchemaDepth \in Nat
  BY CodecsAssumption
<1>1. \E g : Deepens(SchemaDepth, g)
  <2> HIDE DEF Start, Deeper
  <2>1. SUFFICES Bad = {}
    BY <1>0
  <2>2. SUFFICES ASSUME NEW n \in Bad, \A m \in Bad : n <= m PROVE FALSE
    <3>1. Bad \subseteq Nat
      OBVIOUS
    <3> HIDE DEF Bad
    <3> QED
      BY <2>2, <3>1, LeastNat
  <2>3. n # 0
    <3>1. Deepens(0, [k \in 0 .. 0 |-> Start])
      OBVIOUS
    <3> QED
      BY <3>1
  <2>4. n - 1 \in Nat /\ n - 1 \notin Bad
    <3>1. n \in Nat
      OBVIOUS
    <3> HIDE DEF Bad
    <3> QED
      BY <2>2, <2>3, <3>1
  <2>5. PICK g : Deepens(n - 1, g)
    BY <2>4
  <2>. DEFINE h == [k \in 0 .. n |-> IF k = n THEN Deeper(g[n - 1]) ELSE g[k]]
  <2>6. ASSUME NEW k \in 0 .. n PROVE h[k] = IF k = 0 THEN Start ELSE Deeper(h[k - 1])
    <3>1. CASE k = n
      <4>1. n - 1 \in 0 .. n /\ n - 1 # n
        BY <2>4
      <4>2. h[n - 1] = g[n - 1] /\ h[n] = Deeper(g[n - 1])
        BY <4>1
      <4> QED
        BY <2>3, <3>1, <4>2
    <3>2. CASE k # n
      <4>1. k \in 0 .. n - 1
        BY <3>2
      <4>2. h[k] = g[k] /\ g[k] = IF k = 0 THEN Start ELSE Deeper(g[k - 1])
        BY <2>5, <3>2, <4>1
      <4>3. k # 0 => k - 1 \in 0 .. n /\ k - 1 # n
        BY <4>1
      <4>4. k # 0 => h[k - 1] = g[k - 1]
        BY <4>3
      <4> QED
        BY <4>2, <4>4
    <3> QED
      BY <3>1, <3>2
  <2>7. Deepens(n, h)
    <3>1. h = [k \in 0 .. n |-> h[k]]
      OBVIOUS
    <3> HIDE DEF h
    <3> QED
      BY <2>6, <3>1
  <2> HIDE DEF h
  <2> QED
    BY <2>7
<1>2. Deepens(SchemaDepth, Levels(v, s))
  BY <1>1, Zenon DEF Levels
<1>3. \A d \in 0 .. SchemaDepth :
        Levels(v, s)[d] = IF d = 0 THEN Start ELSE Deeper(Levels(v, s)[d - 1])
  <2> HIDE DEF Start, Deeper
  <2> QED
    BY <1>2
<1> QED
  BY <1>3, Zenon

\* The places without an error, by the depth the recursion looks to.
LEMMA ElementsDefined ==
  ASSUME NEW v, NEW s
  PROVE  /\ ElementsOK(v, s)[0] = {}
         /\ \A d \in 0 .. SchemaDepth : \A p :
              p \in ElementsOK(v, s)[d + 1] <=>
                p \in Within(v, s) /\ ElementOK(p[1], p[2], ElementsOK(v, s)[d])
<1>. DEFINE N == SchemaDepth + 1
            S == SUBSET Within(v, s)
            F == [n \in 0 .. N |-> [x \in S |-> {p \in Within(v, s) : ElementOK(p[1], p[2], x)}]]
<1>1. N \in Nat /\ {} \in S /\ F \in [0 .. N -> [S -> S]]
  BY CodecsAssumption
<1>2. PICK g \in [0 .. N -> S] : Computed(g, N, {}, F)
  <2> HIDE DEF N, S, F
  <2> QED
    BY <1>1, Iterated
<1>3. ASSUME NEW k \in 0 .. N
      PROVE  g[k] = IF k = 0 THEN {} ELSE {p \in Within(v, s) : ElementOK(p[1], p[2], g[k - 1])}
  <2>1. CASE k = 0
    <3> HIDE DEF N, S, F
    <3> QED
      BY <1>2, <2>1 DEF Computed
  <2>2. CASE k # 0
    <3>1. k - 1 \in 0 .. N
      BY <1>1, <2>2
    <3>2. g[k - 1] \in S
      <4> HIDE DEF N, S
      <4> QED
        BY <1>2, <3>1
    <3>3. F[k][g[k - 1]] = {p \in Within(v, s) : ElementOK(p[1], p[2], g[k - 1])}
      BY <3>2
    <3>4. g[k] = F[k][g[k - 1]]
      <4> HIDE DEF N, S, F
      <4> QED
        BY <1>2, <2>2 DEF Computed
    <3> QED
      BY <2>2, <3>3, <3>4, Zenon
  <2> QED
    BY <2>1, <2>2
<1>4. g = [k \in 0 .. N |->
             IF k = 0 THEN {} ELSE {p \in Within(v, s) : ElementOK(p[1], p[2], g[k - 1])}]
  <2>1. g = [k \in 0 .. N |-> g[k]]
    BY <1>2
  <2> QED
    BY <1>3, <2>1
<1>5. ElementsOK(v, s) = [k \in 0 .. N |->
        IF k = 0 THEN {} ELSE {p \in Within(v, s) : ElementOK(p[1], p[2], ElementsOK(v, s)[k - 1])}]
  BY <1>4, Zenon DEF ElementsOK
<1>. DEFINE Further(X) == {p \in Within(v, s) : ElementOK(p[1], p[2], X)}
<1>6. ElementsOK(v, s) = [k \in 0 .. N |-> IF k = 0 THEN {} ELSE Further(ElementsOK(v, s)[k - 1])]
  BY <1>5, Zenon
<1>7. \A d \in 0 .. N :
        ElementsOK(v, s)[d] = IF d = 0 THEN {} ELSE Further(ElementsOK(v, s)[d - 1])
  <2> HIDE DEF Further, N
  <2> QED
    BY <1>6
<1>8. /\ 0 \in 0 .. N
      /\ \A d \in 0 .. SchemaDepth : d + 1 \in 0 .. N /\ d + 1 # 0 /\ (d + 1) - 1 = d
  BY <1>1, CodecsAssumption
<1>9. /\ ElementsOK(v, s)[0] = {}
      /\ \A d \in 0 .. SchemaDepth : ElementsOK(v, s)[d + 1] = Further(ElementsOK(v, s)[d])
  <2> HIDE DEF Further, N
  <2> QED
    BY <1>7, <1>8
<1>10. ASSUME NEW X, NEW p
       PROVE  p \in Further(X) <=> p \in Within(v, s) /\ ElementOK(p[1], p[2], X)
  OBVIOUS
<1> HIDE DEF Further
<1> QED
  BY <1>9, <1>10

\* A result with no place that contradicts its schema is accepted, and one that is accepted
\* has none if all items are read.
LEMMA ResultsAre ==
  ASSUME NEW v, NEW s, Levels(v, s)[SchemaDepth] = {}
  PROVE  ResultsSound(v, s)
<1>. DEFINE D == SchemaDepth
            L(d) == Levels(v, s)[d]
            W == Within(v, s)
            ok(d) == ElementsOK(v, s)[d]
            Agrees(p) == ~Contradicts(p[1], p[2])
            Read == \A p \in W : p[2].items # <<>> => ItemsRead(p[2])
<1>1. D \in Nat
  BY CodecsAssumption
<1>2. /\ L(0) = Fields(v, s) /\ L(D) = {}
      /\ \A d \in 0 .. D - 1 : L(d + 1) = UNION {Inside(p) : p \in L(d)}
      /\ \A d \in 0 .. D : L(d) \subseteq W
  <2>1. \A d \in 0 .. D : L(d) = IF d = 0 THEN Fields(v, s) ELSE UNION {Inside(p) : p \in L(d - 1)}
    <3>1. \A d \in 0 .. SchemaDepth : Levels(v, s)[d] =
             IF d = 0 THEN Fields(v, s) ELSE UNION {Inside(p) : p \in Levels(v, s)[d - 1]}
      BY LevelsDefined, Zenon
    <3> QED
      BY <3>1, Zenon
  <2>2. \A d \in 0 .. D - 1 : d + 1 \in 0 .. D /\ d + 1 # 0 /\ (d + 1) - 1 = d
    BY <1>1
  <2>3. 0 \in 0 .. D
    BY <1>1
  <2> HIDE DEF L, D
  <2>4. \A d \in 0 .. D - 1 : L(d + 1) = UNION {Inside(p) : p \in L(d)}
    BY <2>1, <2>2
  <2>5. \A d \in 0 .. D : L(d) \subseteq W
    BY DEF Within, L, D
  <2> QED
    BY <2>1, <2>3, <2>4, <2>5 DEF L, D
<1>3. /\ ok(0) = {}
      /\ \A d \in 0 .. D : \A p : p \in ok(d + 1) <=> p \in W /\ Agrees(p) /\ Visited(p) \subseteq ok(d)
  <2>1. \A p : \A X : ElementOK(p[1], p[2], X) <=> Agrees(p) /\ Visited(p) \subseteq X
    BY ElementChecked
  <2>2. /\ ok(0) = {}
        /\ \A d \in 0 .. D : \A p : p \in ok(d + 1) <=> p \in W /\ ElementOK(p[1], p[2], ok(d))
    BY ElementsDefined, Zenon
  <2> HIDE DEF ok, D, W, Agrees
  <2> QED
    BY <2>1, <2>2
<1>4. validateResultSchema(v, s) <=> ~Lacks(v, s) /\ L(0) \subseteq ok(D + 1)
  BY <1>2 DEF validateResultSchema, FieldsOK, Lacks
<1>5. W = UNION {L(d) : d \in 0 .. D}
  BY DEF Within
<1>V. /\ \A p : Visited(p) \subseteq Inside(p)
      /\ Read => \A p \in W : Visited(p) = Inside(p)
  BY VisitedInside
<1> HIDE DEF L, ok, W, D, Agrees, Read
<1>6. ASSUME L(0) \subseteq ok(D + 1), Read PROVE \A p \in W : Agrees(p)
  <2>. DEFINE Bad == {d \in 0 .. D : ~(L(d) \subseteq ok(D + 1 - d))}
  <2>1. Bad = {}
    <3>1. SUFFICES ASSUME NEW d \in Bad, \A m \in Bad : d <= m PROVE FALSE
      <4>1. Bad \subseteq Nat
        BY <1>1
      <4> HIDE DEF Bad
      <4> QED
        BY <3>1, <4>1, LeastNat
    <3>2. D + 1 - 0 = D + 1
      BY <1>1
    <3>3. d # 0
      BY <1>6, <3>2
    <3>4. /\ d - 1 \in 0 .. D - 1 /\ d - 1 \in 0 .. D /\ (d - 1) + 1 = d /\ D + 1 - d \in 0 .. D
          /\ D + 1 - (d - 1) = (D + 1 - d) + 1 /\ ~(d <= d - 1)
      BY <1>1, <3>3
    <3>5. L(d - 1) \subseteq ok((D + 1 - d) + 1)
      BY <3>1, <3>4
    <3>6. \A p \in L(d - 1) : Inside(p) \subseteq ok(D + 1 - d)
      <4>1. \A p \in L(d - 1) : p \in W /\ Visited(p) \subseteq ok(D + 1 - d)
        BY <1>3, <3>4, <3>5
      <4> QED
        BY <1>6, <1>V, <4>1
    <3>7. L(d) = UNION {Inside(p) : p \in L(d - 1)}
      BY <1>2, <3>4
    <3> QED
      BY <3>6, <3>7
  <2>2. ASSUME NEW d \in 0 .. D, NEW p \in L(d) PROVE Agrees(p)
    <3>1. L(d) \subseteq ok(D + 1 - d)
      BY <2>1
    <3>2. D + 1 - d = (D - d) + 1 /\ D - d \in 0 .. D
      BY <1>1
    <3> QED
      BY <1>3, <3>1, <3>2
  <2> QED
    BY <1>5, <2>2
<1>7. ASSUME \A p \in W : Agrees(p) PROVE L(0) \subseteq ok(D + 1)
  <2>. DEFINE Bad == {e \in 0 .. D : ~(L(D - e) \subseteq ok(e + 1))}
  <2>1. SUFFICES Bad = {}
    <3>1. D \in 0 .. D /\ D - D = 0
      BY <1>1
    <3> QED
      BY <2>1, <3>1
  <2>2. SUFFICES ASSUME NEW e \in Bad, \A m \in Bad : e <= m PROVE FALSE
    <3>1. Bad \subseteq Nat
      BY <1>1
    <3> HIDE DEF Bad
    <3> QED
      BY <2>2, <3>1, LeastNat
  <2>3. D - 0 = D
    BY <1>1
  <2>4. e # 0
    BY <1>2, <2>3
  <2>5. /\ e - 1 \in 0 .. D /\ (e - 1) + 1 = e /\ ~(e <= e - 1) /\ D - e \in 0 .. D - 1
        /\ D - e \in 0 .. D /\ D - (e - 1) = (D - e) + 1 /\ e \in 0 .. D
    BY <1>1, <2>4
  <2>6. L((D - e) + 1) \subseteq ok(e)
    BY <2>2, <2>5
  <2>7. ASSUME NEW p \in L(D - e) PROVE p \in ok(e + 1)
    <3>1. Visited(p) \subseteq L((D - e) + 1)
      <4>1. Inside(p) \subseteq L((D - e) + 1)
        BY <1>2, <2>5
      <4> QED
        BY <1>V, <4>1
    <3>2. p \in W
      BY <1>2, <2>5
    <3> QED
      BY <1>3, <1>7, <2>5, <2>6, <3>1, <3>2
  <2> QED
    BY <2>5, <2>7
<1>8. /\ ~Lacks(v, s) /\ (\A p \in W : Agrees(p)) => validateResultSchema(v, s)
      /\ Read => (validateResultSchema(v, s) => ~Lacks(v, s) /\ \A p \in W : Agrees(p))
  BY <1>4, <1>6, <1>7
<1> QED
  BY <1>8, Zenon DEF ResultsSound, W, Agrees, Read

-------------------------------------------------------------------------------
(* Durations.                                                                 *)

Amount == Nat \X {3600, 60, 1}

\* The sums of a text's parts.
LEMMA AmountsAre ==
  ASSUME NEW parts \in Seq(Amount)
  PROVE  /\ Amounts(parts)[0] = 0
         /\ \A i \in 1 .. Len(parts) :
              /\ Amounts(parts)[i - 1] \in Int
              /\ Amounts(parts)[i] = Amounts(parts)[i - 1] + parts[i][1] * parts[i][2]
<1>. DEFINE N == Len(parts)
            F == [i \in 0 .. N |-> [x \in Int |->
                    IF i = 0 THEN 0 ELSE x + parts[i][1] * parts[i][2]]]
            sum == Amounts(parts)
<1>1. N \in Nat /\ \A i \in 1 .. N : parts[i][1] * parts[i][2] \in Int
  <2>1. N \in Nat
    BY LenProperties
  <2>2. ASSUME NEW i \in 1 .. N PROVE parts[i][1] * parts[i][2] \in Int
    <3>1. parts[i] \in Amount
      BY ElementOfSeq
    <3>2. parts[i][1] \in Nat /\ parts[i][2] \in Nat
      BY <3>1 DEF Amount
    <3> QED
      BY <3>2
  <2> QED
    BY <2>1, <2>2
<1>2. F \in [0 .. N -> [Int -> Int]]
  <2>1. ASSUME NEW i \in 0 .. N, NEW x \in Int
        PROVE  (IF i = 0 THEN 0 ELSE x + parts[i][1] * parts[i][2]) \in Int
    <3>1. CASE i # 0
      <4>1. parts[i][1] * parts[i][2] \in Int
        BY <1>1, <3>1
      <4> QED
        BY <4>1
    <3> QED
      BY <3>1
  <2> QED
    BY <2>1
<1>3. PICK g \in [0 .. N -> Int] : Computed(g, N, 0, F)
  <2>. DEFINE S == Int
  <2>1. 0 \in S /\ F \in [0 .. N -> [S -> S]]
    BY <1>2
  <2>2. \E g \in [0 .. N -> S] : Computed(g, N, 0, F)
    <3> HIDE DEF N, F, S
    <3> QED
      BY <1>1, <2>1, Iterated
  <2> QED
    BY <2>2
<1>4. ASSUME NEW i \in 0 .. N
      PROVE  g[i] = IF i = 0 THEN 0 ELSE g[i - 1] + parts[i][1] * parts[i][2]
  <2>1. g[i] = IF i = 0 THEN 0 ELSE F[i][g[i - 1]]
    <3> HIDE DEF N, F
    <3> QED
      BY <1>3 DEF Computed
  <2>2. i # 0 => i - 1 \in 0 .. N
    BY <1>1
  <2>3. i # 0 => g[i - 1] \in Int
    BY <1>3, <2>2
  <2> QED
    BY <2>1, <2>3
<1>5. g = [i \in 0 .. N |-> IF i = 0 THEN 0 ELSE g[i - 1] + parts[i][1] * parts[i][2]]
  <2>1. g = [i \in 0 .. N |-> g[i]]
    BY <1>3
  <2> QED
    BY <1>4, <2>1
<1>6. sum = [i \in 0 .. N |-> IF i = 0 THEN 0 ELSE sum[i - 1] + parts[i][1] * parts[i][2]]
  BY <1>5, Zenon DEF Amounts
<1>7. \A i \in 0 .. N : sum[i] = IF i = 0 THEN 0 ELSE sum[i - 1] + parts[i][1] * parts[i][2]
  <2> HIDE DEF sum, N
  <2> QED
    BY <1>6
<1>8. sum[0] = 0 /\ \A i \in 1 .. N : sum[i] = sum[i - 1] + parts[i][1] * parts[i][2]
  BY <1>1, <1>7
<1>. DEFINE Bad == {i \in 0 .. N : sum[i] \notin Int}
<1>9. Bad = {}
  <2>1. SUFFICES ASSUME NEW n \in Bad, \A m \in Bad : n <= m PROVE FALSE
    <3>1. Bad \subseteq Nat
      OBVIOUS
    <3> HIDE DEF Bad
    <3> QED
      BY <2>1, <3>1, LeastNat
  <2> HIDE DEF sum
  <2>2. n # 0 /\ n \in 1 .. N
    BY <1>8
  <2>3. n - 1 \in 0 .. N /\ ~(n <= n - 1)
    BY <1>1, <2>2
  <2>4. sum[n - 1] \in Int
    BY <2>1, <2>3
  <2> QED
    BY <1>1, <1>8, <2>2, <2>4
<1> QED
  <2> HIDE DEF sum
  <2>1. \A i \in 1 .. N : i - 1 \in 0 .. N
    BY <1>1
  <2>2. \A i \in 0 .. N : sum[i] \in Int
    BY <1>9
  <2>3. \A i \in 1 .. N : sum[i - 1] \in Int
    BY <2>1, <2>2
  <2> QED
    BY <1>8, <2>3 DEF sum

\* What division by sixty leaves.
LEMMA Sixty ==
  ASSUME NEW n \in Nat
  PROVE  n \div 60 \in Nat /\ n % 60 \in 0 .. 59 /\ n % 60 = n - 60 * (n \div 60)
OBVIOUS

\* Hours, minutes and seconds make up the whole.
LEMMA Divided ==
  ASSUME NEW sec \in Nat
  PROVE  LET h == sec \div 3600  m == (sec \div 60) % 60  s == sec % 60
         IN  h \in Nat /\ m \in Nat /\ s \in Nat /\ sec = h * 3600 + m * 60 + s
<1>. DEFINE q == sec \div 60
            h == q \div 60
            m == q % 60
            s == sec % 60
<1>1. q \in Nat /\ s \in 0 .. 59 /\ s = sec - 60 * q
  BY Sixty
<1>2. h \in Nat /\ m \in 0 .. 59 /\ m = q - 60 * h
  BY <1>1, Sixty
<1>3. sec \div 3600 = h /\ sec = h * 3600 + m * 60 + s
  <2>. DEFINE r == 60 * m + s
  <2> HIDE DEF q, h, m, s
  <2>1. sec = 3600 * h + r
    BY <1>1, <1>2
  <2>2. r \in 0 .. 3599
    BY <1>1, <1>2
  <2>4. sec \div 3600 = h
    <3> HIDE DEF r
    <3> QED
      BY <1>2, <2>1, <2>2
  <2>5. sec = h * 3600 + m * 60 + s
    BY <1>1, <1>2
  <2> QED
    BY <2>4, <2>5
<1> HIDE DEF h
<1> QED
  BY <1>1, <1>2, <1>3

\* What parts of descending units amount to, the last of a unit of at least u.
Written(q, u, total) ==
  /\ q \in Seq(Amount)
  /\ \A i \in DOMAIN q : q[i][2] >= u
  /\ \A i, j \in DOMAIN q : i < j => q[i][2] > q[j][2]
  /\ Amounts(q)[Len(q)] = total

\* The sums before the last part do not depend on it.
LEMMA AmountsBefore ==
  ASSUME NEW q \in Seq(Amount), NEW a \in Amount
  PROVE  \A i \in 0 .. Len(q) : Amounts(Append(q, a))[i] = Amounts(q)[i]
<1>. DEFINE r == Append(q, a)
            Bad == {i \in 0 .. Len(q) : Amounts(r)[i] # Amounts(q)[i]}
<1>1. /\ Len(q) \in Nat /\ r \in Seq(Amount) /\ Len(r) = Len(q) + 1
      /\ \A i \in 1 .. Len(q) : r[i] = q[i]
  BY AppendProperties, LenProperties
<1>2. SUFFICES ASSUME NEW n \in Bad, \A m \in Bad : n <= m PROVE FALSE
  <2>1. Bad \subseteq Nat
    OBVIOUS
  <2> HIDE DEF Bad
  <2>2. Bad = {}
    BY <1>2, <2>1, LeastNat
  <2> QED
    BY <2>2 DEF Bad
<1> HIDE DEF r
<1>3. Amounts(r)[0] = 0 /\ Amounts(q)[0] = 0
  BY <1>1, AmountsAre
<1>4. n \in 1 .. Len(q) /\ n \in 1 .. Len(r) /\ n - 1 \in 0 .. Len(q) /\ ~(n <= n - 1)
  BY <1>1, <1>3
<1>5. Amounts(r)[n - 1] = Amounts(q)[n - 1]
  BY <1>2, <1>4
<1>6. Amounts(r)[n] = Amounts(r)[n - 1] + r[n][1] * r[n][2]
  BY <1>1, <1>4, AmountsAre
<1>7. Amounts(q)[n] = Amounts(q)[n - 1] + q[n][1] * q[n][2]
  BY <1>4, AmountsAre
<1> QED
  BY <1>1, <1>4, <1>5, <1>6, <1>7

\* One more part of a smaller unit.
Writes(u, total, n, v, sum) ==
  /\ u \in Nat /\ total \in Nat /\ n \in Nat /\ v \in {3600, 60, 1}
  /\ v < u /\ sum = total + n * v
LEMMA TermWritten ==
  ASSUME NEW q, NEW u, NEW total, NEW n, NEW v, NEW sum,
         Written(q, u, total), Writes(u, total, n, v, sum)
  PROVE  Written(q \o Term(n, v), v, sum)
<1>0. /\ u \in Nat /\ total \in Nat /\ n \in Nat /\ v \in {3600, 60, 1} /\ v \in Nat
      /\ v < u /\ sum = total + n * v
  BY DEF Writes
<1>a. SUFFICES Written(q \o Term(n, v), v, total + n * v)
  BY <1>0
<1>. DEFINE a == <<n, v>>
<1>1. q \in Seq(Amount) /\ Len(q) \in Nat /\ DOMAIN q = 1 .. Len(q)
  BY <1>0, LenProperties DEF Written
<1>2. \A i \in DOMAIN q : q[i][2] \in Nat
  <2>1. \A i \in DOMAIN q : q[i] \in Amount
    BY <1>0, <1>1, ElementOfSeq
  <2> QED
    BY <1>0, <2>1 DEF Amount
<1>3. CASE n = 0
  <2>1. q \o Term(n, v) = q
    BY <1>0, <1>1, <1>3, ConcatEmptySeq DEF Term
  <2>2. \A i \in DOMAIN q : q[i][2] >= v
    BY <1>0, <1>2 DEF Written
  <2>3. total + n * v = total
    BY <1>0, <1>3
  <2> QED
    BY <1>0, <2>1, <2>2, <2>3 DEF Written
<1>4. CASE n > 0
  <2>1. a \in Amount
    BY <1>0 DEF Amount
  <2>. DEFINE r == Append(q, a)
  <2>2. q \o Term(n, v) = r
    BY <1>0, <1>1, <1>4, <2>1, AppendIsConcat DEF Term
  <2>3. /\ r \in Seq(Amount) /\ Len(r) = Len(q) + 1 /\ DOMAIN r = 1 .. Len(q) + 1
        /\ \A i \in 1 .. Len(q) : r[i] = q[i]
        /\ r[Len(q) + 1] = a
    BY <1>0, <1>1, <2>1, AppendProperties, LenProperties
  <2>4. Amounts(r)[Len(r)] = total + n * v
    <3>1. Len(q) + 1 \in 1 .. Len(r) /\ (Len(q) + 1) - 1 = Len(q) /\ Len(q) \in 0 .. Len(q)
      BY <1>0, <1>1, <2>3
    <3>2. Amounts(r)[Len(q)] = total
      BY <1>0, <1>1, <2>1, <3>1, AmountsBefore DEF Written
    <3>3. Amounts(r)[Len(q) + 1] = Amounts(r)[Len(q)] + r[Len(q) + 1][1] * r[Len(q) + 1][2]
      <4> HIDE DEF r
      <4> QED
        BY <2>3, <3>1, AmountsAre
    <3>4. r[Len(q) + 1][1] = n /\ r[Len(q) + 1][2] = v
      BY <1>0, <2>3
    <3> HIDE DEF r
    <3> QED
      BY <1>0, <2>3, <3>2, <3>3, <3>4
  <2> HIDE DEF r
  <2>5. \A i \in DOMAIN r : (i \in DOMAIN q /\ r[i] = q[i]) \/ (i = Len(q) + 1 /\ r[i] = a)
    BY <1>0, <1>1, <2>3
  <2>6. a[2] = v
    OBVIOUS
  <2>7. \A i \in DOMAIN r : r[i][2] >= v
    BY <1>0, <1>2, <2>5, <2>6 DEF Written
  <2>8. ASSUME NEW i \in DOMAIN r, NEW j \in DOMAIN r, i < j PROVE r[i][2] > r[j][2]
    <3>1. i \in DOMAIN q
      BY <1>0, <1>1, <2>3, <2>8
    <3>2. r[i] = q[i] /\ q[i][2] >= u
      BY <1>0, <1>1, <2>3, <3>1 DEF Written
    <3>3. CASE j \in DOMAIN q
      BY <1>0, <1>1, <2>3, <2>8, <3>1, <3>2, <3>3 DEF Written
    <3>4. CASE j = Len(q) + 1
      BY <1>0, <1>2, <2>3, <2>6, <3>1, <3>2, <3>4
    <3> QED
      BY <1>0, <2>5, <3>3, <3>4
  <2> QED
    BY <1>0, <2>2, <2>3, <2>4, <2>7, <2>8 DEF Written
<1> QED
  BY <1>0, <1>3, <1>4

\* A duration of no less than zero is written so that it can be read, cut to whole seconds.
LEMMA DurationsAre ==
  ASSUME NEW d \in Int
  PROVE  DurationsSound(d)
<1>. DEFINE sec == d \div 2
            h == sec \div 3600
            m == (sec \div 60) % 60
            s == sec % 60
            w == Term(h, 3600) \o Term(m, 60) \o Term(s, 1)
            t == FormatDuration(d)
<1>1. SUFFICES ASSUME d >= 0 PROVE Readable(t) /\ ParseDurationStrict(t) = d - (d % 2)
  BY DEF DurationsSound
<1>2. sec \in Nat /\ d - (d % 2) = 2 * sec
  BY <1>1
<1>3. h \in Nat /\ m \in Nat /\ s \in Nat /\ sec = h * 3600 + m * 60 + s
  <2> HIDE DEF sec
  <2> QED
    BY <1>2, Divided
<1>4. t = [negative |-> FALSE, parts |-> IF w = <<>> THEN << <<0, 1>> >> ELSE w]
  <2>. DEFINE secs == (IF d < 0 THEN -d ELSE d) \div 2
              written == Term(secs \div 3600, 3600) \o Term((secs \div 60) % 60, 60) \o Term(secs % 60, 1)
  <2>1. t = [negative |-> d < 0, parts |-> IF written = <<>> THEN << <<0, 1>> >> ELSE written]
    BY Zenon DEF FormatDuration
  <2>2. (d < 0) = FALSE /\ secs = sec
    BY <1>1
  <2>3. written = w
    <3> HIDE DEF secs, sec
    <3> QED
      BY <2>2 DEF written, w
  <2> HIDE DEF written, w
  <2> QED
    BY <2>1, <2>2, <2>3, Zenon
<1> HIDE DEF h, m, s, sec
<1>5. Written(w, 1, sec)
  <2>1. Written(<<>>, 3601, 0)
    <3>1. <<>> \in Seq(Amount) /\ Len(<<>>) = 0 /\ DOMAIN <<>> = {}
      OBVIOUS
    <3>2. Amounts(<<>>)[0] = 0
      BY <3>1, AmountsAre
    <3> QED
      BY <3>1, <3>2 DEF Written
  <2>. DEFINE H == h * 3600
              M == H + m * 60
  <2>2. /\ H \in Nat /\ H = 0 + h * 3600
        /\ M \in Nat /\ M = H + m * 60 /\ sec = M + s * 1
    BY <1>3
  <2>6. Writes(3601, 0, h, 3600, H) /\ Writes(3600, H, m, 60, M) /\ Writes(60, M, s, 1, sec)
    BY <1>3, <2>2 DEF Writes
  <2> HIDE DEF H, M
  <2>3. Written(<<>> \o Term(h, 3600), 3600, H)
    <3>. DEFINE none == <<>>
    <3>1. Written(none, 3601, 0) /\ Writes(3601, 0, h, 3600, H)
      BY <2>1, <2>6
    <3> HIDE DEF none
    <3>2. Written(none \o Term(h, 3600), 3600, H)
      BY <3>1, TermWritten
    <3> QED
      BY <3>2 DEF none
  <2>4. <<>> \o Term(h, 3600) = Term(h, 3600)
    BY <1>3 DEF Term
  <2>5. Written(Term(h, 3600) \o Term(m, 60), 60, M)
    BY <2>3, <2>4, <2>6, TermWritten
  <2> QED
    BY <2>5, <2>6, TermWritten DEF w
<1> HIDE DEF w, t
<1>6. CASE w # <<>>
  <2>1. t.negative = FALSE /\ t.parts = w
    BY <1>4, <1>6
  <2> QED
    BY <1>2, <1>5, <1>6, <2>1 DEF Written, Readable, ParseDurationStrict
<1>7. CASE w = <<>>
  <2>. DEFINE z == << <<0, 1>> >>
  <2>1. t.negative = FALSE /\ t.parts = z
    BY <1>4, <1>7
  <2>2. sec = 0
    <3>1. <<>> \in Seq(Amount) /\ Len(<<>>) = 0
      OBVIOUS
    <3>2. Amounts(<<>>)[0] = 0
      BY <3>1, AmountsAre
    <3> QED
      BY <1>5, <1>7, <3>2, <3>1 DEF Written
  <2>3. z \in Seq(Amount) /\ Len(z) = 1 /\ DOMAIN z = {1} /\ z # <<>> /\ z[1][1] = 0 /\ z[1][2] = 1
    BY DEF Amount
  <2> HIDE DEF z
  <2>4. Amounts(z)[1] = 0
    <3>1. 1 \in 1 .. Len(z) /\ 1 - 1 = 0
      BY <2>3
    <3>2. Amounts(z)[0] = 0
      BY <2>3, AmountsAre
    <3>3. Amounts(z)[1] = Amounts(z)[0] + z[1][1] * z[1][2]
      BY <2>3, <3>1, AmountsAre
    <3> QED
      BY <2>3, <3>2, <3>3
  <2> QED
    BY <1>2, <2>1, <2>2, <2>3, <2>4 DEF Readable, ParseDurationStrict
<1> QED
  BY <1>6, <1>7

-------------------------------------------------------------------------------
(* Stored errors and token counts.                                            *)

\* What is stored comes back whole.
LEMMA StoredAre ==
  ASSUME NEW e, NEW u \in [Counter -> Nat],
         e.around \in Text, e.messages \in Seq(Text), e.joined \in BOOLEAN,
         Len(e.messages) > 1 => e.joined
  PROVE  StoredSound(e, u)
<1>. DEFINE back == errorFromSchema(errorToSchema(e))
<1>1. Len(e.messages) \in Nat /\ DOMAIN e.messages = 1 .. Len(e.messages)
  BY LenProperties
<1>. DEFINE Whole(x) == [i \in DOMAIN x.messages |-> x.around \o x.messages[i]]
<1>2. /\ Len(back.messages) = Len(e.messages)
      /\ e.joined => back.messages = e.messages
      /\ ~e.joined => Whole(back) = Whole(e)
  <2>1. CASE e.messages = <<>>
    <3>1. back.around = <<>> /\ back.messages = <<>>
      BY <2>1 DEF errorToSchema, errorFromSchema
    <3>2. Whole(back) = Whole(e)
      <4>1. DOMAIN e.messages = {} /\ DOMAIN back.messages = {}
        BY <2>1, <3>1
      <4> QED
        BY <4>1
    <3> QED
      BY <2>1, <3>1, <3>2
  <2>2. CASE e.messages # <<>> /\ e.joined
    BY <2>2 DEF errorToSchema, errorFromSchema
  <2>3. CASE e.messages # <<>> /\ ~e.joined
    <3>0. Len(e.messages) = 1
      <4>1. ~(Len(e.messages) > 1)
        BY <2>3, Zenon
      <4>2. Len(e.messages) # 0
        BY <2>3, EmptySeq
      <4>3. \A n \in Nat : ~(n > 1) /\ n # 0 => n = 1
        OBVIOUS
      <4> QED
        BY <1>1, <4>1, <4>2, <4>3, Zenon
    <3>1. Len(e.messages) = 1 /\ DOMAIN e.messages = {1} /\ e.messages[1] \in Text
      BY <1>1, <3>0, ElementOfSeq
    <3>. DEFINE text == e.around \o e.messages[1]
    <3>2. text \in Text
      BY <3>1, ConcatProperties DEF Text
    <3>3. back.around = <<>> /\ back.messages = <<text>>
      BY <2>3 DEF errorToSchema, errorFromSchema
    <3>4. <<>> \o text = text
      BY <3>2, ConcatEmptySeq DEF Text
    <3> HIDE DEF back
    <3>5. Whole(back) = [i \in {1} |-> text]
      <4>0. \A x : DOMAIN <<x>> = {1} /\ <<x>>[1] = x
        OBVIOUS
      <4>1. DOMAIN back.messages = {1} /\ back.messages[1] = text
        BY <3>3, <4>0, Zenon
      <4> HIDE DEF text
      <4> QED
        BY <3>3, <3>4, <4>1
    <3>6. Whole(e) = [i \in {1} |-> text]
      BY <3>1
    <3>7. Len(back.messages) = 1
      BY <3>3
    <3> QED
      BY <2>3, <3>1, <3>5, <3>6, <3>7
  <2> QED
    BY <2>1, <2>2, <2>3
<1>3. tokensFromSchema(tokensToSchema(u)) = u
  <2>. DEFINE j == tokensToSchema(u)
  <2>1. ASSUME NEW k \in Counter PROVE Or(j.new, k) = u[k] /\ Or(j.legacy, k) = 0
    <3>1. j.new = [c \in {c \in Counter : u[c] # 0} |-> u[c]] /\ j.legacy = <<>>
      BY DEF tokensToSchema
    <3>2. DOMAIN j.legacy = {} /\ DOMAIN j.new = {c \in Counter : u[c] # 0}
      BY <3>1
    <3> HIDE DEF j
    <3>3. k \in DOMAIN j.new => j.new[k] = u[k]
      BY <3>1, <3>2
    <3>4. k \notin DOMAIN j.new => u[k] = 0
      BY <3>2
    <3> QED
      BY <3>2, <3>3, <3>4, Zenon DEF Or
  <2> HIDE DEF j
  <2>2. tokensFromSchema(j) = [k \in Counter |-> IF Or(j.new, k) # 0 THEN Or(j.new, k) ELSE Or(j.legacy, k)]
    BY Zenon DEF tokensFromSchema
  <2>3. \A k \in Counter : (IF Or(j.new, k) # 0 THEN Or(j.new, k) ELSE Or(j.legacy, k)) = u[k]
    BY <2>1
  <2>4. tokensFromSchema(j) = u
    BY <2>2, <2>3
  <2> QED
    BY <2>4 DEF j
<1>4. tokensFromSchema([new |-> <<>>, legacy |-> u]) = u
  <2>. DEFINE j == [new |-> <<>>, legacy |-> u]
  <2>1. j.new = <<>> /\ j.legacy = u /\ DOMAIN u = Counter /\ DOMAIN <<>> = {}
    OBVIOUS
  <2> HIDE DEF j
  <2>2. \A k \in Counter : Or(j.new, k) = 0 /\ Or(j.legacy, k) = u[k]
    BY <2>1, Zenon DEF Or
  <2>3. tokensFromSchema(j) = [k \in Counter |-> IF Or(j.new, k) # 0 THEN Or(j.new, k) ELSE Or(j.legacy, k)]
    BY Zenon DEF tokensFromSchema
  <2>4. tokensFromSchema(j) = u
    BY <2>2, <2>3
  <2> QED
    BY <2>4 DEF j
<1> QED
  BY <1>2, <1>3, <1>4, Zenon DEF StoredSound

-------------------------------------------------------------------------------
(* Keys of the shared memory.                                                 *)

\* What follows the first n elements of a sequence.
LEMMA AfterIs ==
  ASSUME NEW S, NEW t \in Seq(S), NEW n \in Nat, NEW k \in Seq(S),
         Len(t) = n + Len(k), \A i \in 1 .. Len(k) : t[n + i] = k[i]
  PROVE  After(t, n) = k
<1>. DEFINE u == SubSeq(t, n + 1, Len(t))
<1>1. /\ Len(k) \in Nat /\ Len(t) \in Nat
      /\ \A i \in n + 1 .. Len(t) : t[i] \in S
  BY LenProperties, ElementOfSeq
<1>2. n + 1 \in Int /\ Len(t) \in Int
  BY <1>1
<1>3. /\ u \in Seq(S)
      /\ Len(u) = IF n + 1 <= Len(t) THEN Len(t) - (n + 1) + 1 ELSE 0
      /\ \A i \in 1 .. Len(t) - (n + 1) + 1 : u[i] = t[n + 1 + i - 1]
  BY <1>1, <1>2, SubSeqProperties
<1>4. Len(u) = Len(k) /\ Len(t) - (n + 1) + 1 = Len(k)
  BY <1>1, <1>3
<1>5. ASSUME NEW i \in 1 .. Len(u) PROVE u[i] = k[i]
  <2>1. n + 1 + i - 1 = n + i
    BY <1>1, <1>4
  <2>2. u[i] = t[n + i]
    BY <1>3, <1>4, <2>1
  <2> QED
    BY <1>4, <2>2
<1>6. u = k
  <2> HIDE DEF u
  <2> QED
    BY <1>3, <1>4, <1>5, SeqEqual
<1> QED
  BY <1>6 DEF After

\* A prefix has the elements of the sequence.
LEMMA PrefixIs ==
  ASSUME NEW S, NEW s \in Seq(S), NEW t \in Seq(S)
  PROVE  IsPrefix(s, t) <=> Len(s) <= Len(t) /\ \A i \in 1 .. Len(s) : s[i] = t[i]
<1>1. /\ Len(s) \in Nat /\ Len(t) \in Nat
      /\ \A i \in 1 .. Len(s) : s[i] \in S
      /\ \A i \in 1 .. Len(t) : t[i] \in S
  BY LenProperties, ElementOfSeq
<1>2. SUFFICES ASSUME Len(s) <= Len(t)
               PROVE  SubSeq(s, 1, Len(s)) = SubSeq(t, 1, Len(s)) <=> \A i \in 1 .. Len(s) : s[i] = t[i]
  BY DEF IsPrefix
<1>. DEFINE u == SubSeq(t, 1, Len(s))
<1>3. /\ u \in Seq(S) /\ Len(u) = Len(s)
      /\ \A i \in 1 .. Len(s) : u[i] = t[i]
  <2>1. /\ u \in Seq(S)
        /\ Len(u) = IF 1 <= Len(s) THEN Len(s) - 1 + 1 ELSE 0
        /\ \A i \in 1 .. Len(s) - 1 + 1 : u[i] = t[1 + i - 1]
    BY <1>1, <1>2, SubSeqProperties
  <2>2. \A i \in 1 .. Len(s) : 1 + i - 1 = i /\ i \in 1 .. Len(s) - 1 + 1
    BY <1>1
  <2> HIDE DEF u
  <2> QED
    BY <1>1, <2>1, <2>2
<1>4. SubSeq(s, 1, Len(s)) = s
  BY SubSeqFull
<1> HIDE DEF u
<1>5. s = u <=> \A i \in 1 .. Len(s) : s[i] = u[i]
  BY <1>3, SeqEqual
<1> QED
  BY <1>3, <1>4, <1>5 DEF u

\* A name without a slash stands in the key as it is, and ends at the first slash.
LEMMA KeyWritten ==
  ASSUME NEW a \in Text, NEW k \in Text, ~Contains(a, "/")
  PROVE  /\ Write(a, k) = a \o <<"/">> \o k
         /\ Len(Write(a, k)) = Len(a) + 1 + Len(k)
         /\ \A i \in 1 .. Len(a) : Write(a, k)[i] = a[i] /\ a[i] # "/"
         /\ Write(a, k)[Len(a) + 1] = "/"
         /\ After(Write(a, k), Len(a) + 1) = k
<1>. DEFINE Mark == Char \cup {"/"}
            plain == [i \in DOMAIN a |-> IF a[i] = "/" THEN "_" ELSE a[i]]
            w == a \o <<"/">> \o k
<1>1. a \in Seq(Mark) /\ k \in Seq(Mark) /\ <<"/">> \in Seq(Mark) /\ Len(<<"/">>) = 1 /\ <<"/">>[1] = "/"
  BY SeqMonotonic DEF Text
<1>2. Len(a) \in Nat /\ Len(k) \in Nat /\ DOMAIN a = 1 .. Len(a) /\ a = [i \in DOMAIN a |-> a[i]]
  BY <1>1, LenProperties
<1>3. \A i \in 1 .. Len(a) : a[i] # "/"
  BY <1>2 DEF Contains
<1>4. plain = a
  BY <1>2, <1>3
<1>5. Write(a, k) = w
  BY <1>4, Zenon DEF Write
<1>6. /\ a \o <<"/">> \in Seq(Mark)
      /\ Len(a \o <<"/">>) = Len(a) + 1
      /\ \A i \in 1 .. Len(a) : (a \o <<"/">>)[i] = a[i]
      /\ (a \o <<"/">>)[Len(a) + 1] = "/"
  BY <1>1, <1>2, ConcatProperties
<1>. DEFINE b == a \o <<"/">>
<1> HIDE DEF b, Mark
<1>7. /\ b \o k \in Seq(Mark)
      /\ Len(b \o k) = Len(a) + 1 + Len(k)
      /\ \A i \in 1 .. Len(a) + 1 : (b \o k)[i] = b[i]
      /\ \A i \in 1 .. Len(k) : (b \o k)[Len(a) + 1 + i] = k[i]
  BY <1>1, <1>2, <1>6, ConcatProperties DEF b
<1>8. After(b \o k, Len(a) + 1) = k
  <2>1. Len(a) + 1 \in Nat /\ Len(b \o k) = (Len(a) + 1) + Len(k)
    BY <1>2, <1>7
  <2> QED
    BY <1>1, <1>7, <2>1, AfterIs
<1> QED
  BY <1>2, <1>3, <1>5, <1>6, <1>7, <1>8 DEF b

\* A key that starts with a name and a slash is a key of that name.
LEMMA KeyOfAgent ==
  ASSUME NEW a \in Text, NEW b \in Text, NEW k \in Text, ~Contains(a, "/"), ~Contains(b, "/")
  PROVE  IsPrefix(a \o <<"/">>, Write(b, k)) <=> a = b
<1>. DEFINE Mark == Char \cup {"/"}
            p == a \o <<"/">>
            w == Write(b, k)
<1>1. a \in Seq(Mark) /\ b \in Seq(Mark) /\ k \in Seq(Mark) /\ <<"/">> \in Seq(Mark)
      /\ Len(<<"/">>) = 1 /\ <<"/">>[1] = "/"
  BY SeqMonotonic DEF Text
<1>2. Len(a) \in Nat /\ Len(b) \in Nat /\ Len(k) \in Nat
  BY <1>1, LenProperties
<1>3. \A i \in 1 .. Len(a) : a[i] # "/"
  BY DEF Contains
<1>4. /\ p \in Seq(Mark)
      /\ Len(p) = Len(a) + 1
      /\ \A i \in 1 .. Len(a) : p[i] = a[i]
      /\ p[Len(a) + 1] = "/"
  BY <1>1, <1>2, ConcatProperties
<1>5. /\ Len(w) = Len(b) + 1 + Len(k)
      /\ \A i \in 1 .. Len(b) : w[i] = b[i] /\ b[i] # "/"
      /\ w[Len(b) + 1] = "/"
  BY KeyWritten
<1>6. w \in Seq(Mark)
  <2>1. w = b \o <<"/">> \o k
    BY KeyWritten
  <2>2. b \o <<"/">> \in Seq(Mark)
    BY <1>1, ConcatProperties
  <2> QED
    BY <1>1, <2>1, <2>2, ConcatProperties
<1> HIDE DEF p, w, Mark
<1>7. IsPrefix(p, w) <=> Len(p) <= Len(w) /\ \A i \in 1 .. Len(p) : p[i] = w[i]
  BY <1>4, <1>6, PrefixIs
<1>8. ASSUME IsPrefix(p, w) PROVE a = b
  <2>1. \A i \in 1 .. Len(a) + 1 : p[i] = w[i]
    BY <1>4, <1>7, <1>8
  <2>2. ~(Len(a) < Len(b))
    <3>1. ASSUME Len(a) < Len(b) PROVE FALSE
      <4>1. Len(a) + 1 \in 1 .. Len(b) /\ Len(a) + 1 \in 1 .. Len(a) + 1
        BY <1>2, <3>1
      <4> QED
        BY <1>4, <1>5, <2>1, <4>1
    <3> QED
      BY <3>1
  <2>3. ~(Len(b) < Len(a))
    <3>1. ASSUME Len(b) < Len(a) PROVE FALSE
      <4>1. Len(b) + 1 \in 1 .. Len(a) /\ Len(b) + 1 \in 1 .. Len(a) + 1
        BY <1>2, <3>1
      <4> QED
        BY <1>3, <1>4, <1>5, <2>1, <4>1
    <3> QED
      BY <3>1
  <2>4. Len(a) = Len(b)
    BY <1>2, <2>2, <2>3
  <2>5. \A i \in 1 .. Len(a) : a[i] = b[i]
    <3>1. \A i \in 1 .. Len(a) : i \in 1 .. Len(a) + 1
      BY <1>2
    <3> QED
      BY <1>4, <1>5, <2>1, <2>4, <3>1
  <2> QED
    BY <1>1, <2>4, <2>5, SeqEqual
<1>9. ASSUME a = b PROVE IsPrefix(p, w)
  <2>1. \A i \in 1 .. Len(a) + 1 : i \in 1 .. Len(a) \/ i = Len(a) + 1
    BY <1>2
  <2>2. \A i \in 1 .. Len(p) : p[i] = w[i]
    BY <1>4, <1>5, <1>9, <2>1
  <2>3. Len(p) <= Len(w)
    BY <1>2, <1>4, <1>5, <1>9
  <2> QED
    BY <1>7, <2>2, <2>3
<1> QED
  BY <1>8, <1>9 DEF p, w

\* Agents share no key, and each lists what it wrote.
LEMMA KeysAre ==
  ASSUME NEW agents \in SUBSET Text, NEW keys \in SUBSET Text,
         IsFiniteSet(agents), IsFiniteSet(keys)
  PROVE  KeysSound(agents, keys)
<1>. DEFINE written == {Write(a, k) : a \in agents, k \in keys}
            pairs == agents \X keys
            f == [p \in pairs |-> Write(p[1], p[2])]
<1>1. SUFFICES ASSUME \A a \in agents : ~Contains(a, "/")
               PROVE  /\ Cardinality(written) = Cardinality(agents) * Cardinality(keys)
                      /\ \A a \in agents : ListByAgent(written, a) = keys
  <2> HIDE DEF written
  <2>1. KeysSound(agents, keys) <=>
          ((\A a \in agents : ~Contains(a, "/")) =>
             /\ Cardinality(written) = Cardinality(agents) * Cardinality(keys)
             /\ \A a \in agents : ListByAgent(written, a) = keys)
    BY DEF KeysSound, written
  <2> QED
    BY <1>1, <2>1, Zenon
<1>2. ASSUME NEW a \in agents, NEW k \in keys, NEW b \in agents, NEW l \in keys,
             Write(a, k) = Write(b, l)
      PROVE  a = b /\ k = l
  <2>1. a \in Text /\ b \in Text /\ k \in Text /\ l \in Text /\ ~Contains(a, "/") /\ ~Contains(b, "/")
    BY <1>1
  <2>2. IsPrefix(a \o <<"/">>, Write(a, k))
    BY <2>1, KeyOfAgent
  <2>3. IsPrefix(a \o <<"/">>, Write(b, l))
    BY <1>2, <2>2
  <2>4. a = b
    BY <2>1, <2>3, KeyOfAgent
  <2>5. After(Write(a, k), Len(a) + 1) = k /\ After(Write(b, l), Len(b) + 1) = l
    BY <2>1, KeyWritten
  <2> QED
    BY <1>2, <2>4, <2>5
<1>3. Cardinality(written) = Cardinality(agents) * Cardinality(keys)
  <2>1. IsFiniteSet(pairs) /\ Cardinality(pairs) = Cardinality(agents) * Cardinality(keys)
    BY FS_Product
  <2>2. f \in [pairs -> written]
    <3>1. ASSUME NEW p \in pairs PROVE Write(p[1], p[2]) \in written
      OBVIOUS
    <3> HIDE DEF pairs, written
    <3> QED
      BY <3>1
  <2>3. ASSUME NEW p \in pairs, NEW q \in pairs, f[p] = f[q] PROVE p = q
    <3>1. Write(p[1], p[2]) = Write(q[1], q[2])
      BY <2>3
    <3>2. p[1] \in agents /\ p[2] \in keys /\ q[1] \in agents /\ q[2] \in keys
          /\ p = <<p[1], p[2]>> /\ q = <<q[1], q[2]>>
      OBVIOUS
    <3>3. p[1] = q[1] /\ p[2] = q[2]
      BY <1>2, <3>1, <3>2
    <3> QED
      BY <3>2, <3>3
  <2>4. ASSUME NEW w \in written PROVE \E p \in pairs : f[p] = w
    <3>1. PICK a \in agents, k \in keys : w = Write(a, k)
      OBVIOUS
    <3>2. <<a, k>> \in pairs /\ f[<<a, k>>] = w
      BY <3>1
    <3> QED
      BY <3>2
  <2> HIDE DEF pairs, written, f
  <2>5. ExistsBijection(pairs, written)
    BY <2>2, <2>3, <2>4 DEF ExistsBijection, Bijection, Injection, Surjection, IsInjective
  <2>6. Cardinality(written) = Cardinality(pairs)
    BY <2>1, <2>5, FS_Bijection
  <2> QED
    BY <2>1, <2>6
<1>4. ASSUME NEW a \in agents PROVE ListByAgent(written, a) = keys
  <2>0. a \in Text /\ ~Contains(a, "/")
    BY <1>1
  <2>. DEFINE mine == {w \in written : IsPrefix(a \o <<"/">>, w)}
              Bare(w) == After(w, Len(a) + 1)
  <2>1. ListByAgent(written, a) = {Bare(w) : w \in mine}
    BY DEF ListByAgent
  <2>2. ASSUME NEW k \in keys PROVE \E w \in mine : Bare(w) = k
    <3>1. Write(a, k) \in written
      OBVIOUS
    <3>2. k \in Text
      OBVIOUS
    <3>3. IsPrefix(a \o <<"/">>, Write(a, k)) /\ Bare(Write(a, k)) = k
      BY <2>0, <3>2, KeyOfAgent, KeyWritten
    <3> HIDE DEF written, Bare
    <3> QED
      BY <3>1, <3>3
  <2>3. ASSUME NEW w \in mine PROVE Bare(w) \in keys
    <3>1. PICK b \in agents, k \in keys : w = Write(b, k)
      OBVIOUS
    <3>2. b \in Text /\ ~Contains(b, "/") /\ k \in Text /\ IsPrefix(a \o <<"/">>, Write(b, k))
      BY <1>1, <3>1
    <3>3. a = b
      BY <2>0, <3>2, KeyOfAgent
    <3>4. Bare(w) = k
      BY <2>0, <3>1, <3>2, <3>3, KeyWritten
    <3> QED
      BY <3>4
  <2> HIDE DEF mine, Bare
  <2> QED
    BY <2>1, <2>2, <2>3
<1> QED
  BY <1>3, <1>4

-------------------------------------------------------------------------------
(* References to environment variables.                                       *)

\* The rounds of the loop are a function of their number.
LEMMA ExpansionDefined ==
  ASSUME NEW s, Len(s) \in Nat
  PROVE  \A r \in 0 .. Len(s) :
           Expansion(s)[r] =
             IF r = 0 THEN [i |-> 1, out |-> <<>>] ELSE Expanded(s, Expansion(s)[r - 1])
<1>. DEFINE Start == [i |-> 1, out |-> <<>>]
            Then(q) == Expanded(s, q)
            Runs(n, g) == g = [k \in 0 .. n |-> IF k = 0 THEN Start ELSE Then(g[k - 1])]
            Bad == {n \in Nat : ~ \E g : Runs(n, g)}
<1>1. \E g : Runs(Len(s), g)
  <2> HIDE DEF Start, Then
  <2>1. SUFFICES Bad = {}
    OBVIOUS
  <2>2. SUFFICES ASSUME NEW n \in Bad, \A m \in Bad : n <= m PROVE FALSE
    <3>1. Bad \subseteq Nat
      OBVIOUS
    <3> HIDE DEF Bad
    <3> QED
      BY <2>2, <3>1, LeastNat
  <2>3. n # 0
    <3>1. Runs(0, [k \in 0 .. 0 |-> Start])
      OBVIOUS
    <3> QED
      BY <3>1
  <2>4. n - 1 \in Nat /\ n - 1 \notin Bad
    <3>1. n \in Nat
      OBVIOUS
    <3> HIDE DEF Bad
    <3> QED
      BY <2>2, <2>3, <3>1
  <2>5. PICK g : Runs(n - 1, g)
    BY <2>4
  <2>. DEFINE h == [k \in 0 .. n |-> IF k = n THEN Then(g[n - 1]) ELSE g[k]]
  <2>6. ASSUME NEW k \in 0 .. n PROVE h[k] = IF k = 0 THEN Start ELSE Then(h[k - 1])
    <3>1. CASE k = n
      <4>1. n - 1 \in 0 .. n /\ n - 1 # n
        BY <2>4
      <4>2. h[n - 1] = g[n - 1] /\ h[n] = Then(g[n - 1])
        BY <4>1
      <4> QED
        BY <2>3, <3>1, <4>2
    <3>2. CASE k # n
      <4>1. k \in 0 .. n - 1
        BY <3>2
      <4>2. h[k] = g[k] /\ g[k] = IF k = 0 THEN Start ELSE Then(g[k - 1])
        BY <2>5, <3>2, <4>1
      <4>3. k # 0 => k - 1 \in 0 .. n /\ k - 1 # n
        BY <4>1
      <4>4. k # 0 => h[k - 1] = g[k - 1]
        BY <4>3
      <4> QED
        BY <4>2, <4>4
    <3> QED
      BY <3>1, <3>2
  <2>7. Runs(n, h)
    <3>1. h = [k \in 0 .. n |-> h[k]]
      OBVIOUS
    <3> HIDE DEF h
    <3> QED
      BY <2>6, <3>1
  <2> HIDE DEF h
  <2> QED
    BY <2>7
<1>2. Runs(Len(s), Expansion(s))
  BY <1>1, Zenon DEF Expansion
<1>3. \A r \in 0 .. Len(s) :
        Expansion(s)[r] = IF r = 0 THEN Start ELSE Then(Expansion(s)[r - 1])
  <2> HIDE DEF Start, Then
  <2> QED
    BY <1>2
<1> QED
  BY <1>3, Zenon

\* A dollar that starts no reference stays, a doubled one is one.
LEMMA LiteralDollar ==
  ASSUME NEW t, Len(t) \in Nat,
         Len(t) = 1 \/ (Len(t) > 1 /\ t[2] # "{" /\ t[2] # "$" /\ ~IsNameStart(t[2]))
  PROVE  Reference(t) = [length |-> 1, by |-> <<"$">>]
<1>1. CASE Len(t) = 1
  BY <1>1 DEF Reference
<1>2. CASE Len(t) > 1 /\ t[2] # "{" /\ t[2] # "$" /\ ~IsNameStart(t[2])
  BY <1>2 DEF Reference
<1> QED
  BY <1>1, <1>2

LEMMA EscapedDollar ==
  ASSUME NEW t, Len(t) \in Nat, Len(t) > 1, t[2] = "$"
  PROVE  Reference(t) = [length |-> 2, by |-> <<"$">>]
BY DEF Reference, IsNameStart

\* What follows the first n elements of a text starts with the next ones.
LEMMA AfterStarts ==
  ASSUME NEW S, NEW t \in Seq(S), NEW n \in 0 .. Len(t) - 1
  PROVE  /\ Len(After(t, n)) = Len(t) - n
         /\ n + 2 <= Len(t) => After(t, n)[2] = t[n + 2]
<1>1. Len(t) \in Nat /\ \A i \in n + 1 .. Len(t) : t[i] \in S
  BY LenProperties, ElementOfSeq
<1>2. n + 1 \in Int /\ Len(t) \in Int
  BY <1>1
<1>. DEFINE u == SubSeq(t, n + 1, Len(t))
<1>3. /\ Len(u) = IF n + 1 <= Len(t) THEN Len(t) - (n + 1) + 1 ELSE 0
      /\ \A i \in 1 .. Len(t) - (n + 1) + 1 : u[i] = t[n + 1 + i - 1]
  BY <1>1, <1>2, SubSeqProperties
<1> HIDE DEF u
<1>4. Len(u) = Len(t) - n
  BY <1>1, <1>3
<1>5. n + 2 <= Len(t) => u[2] = t[n + 2]
  <2>1. ASSUME n + 2 <= Len(t) PROVE 2 \in 1 .. Len(t) - (n + 1) + 1 /\ n + 1 + 2 - 1 = n + 2
    BY <1>1, <2>1
  <2> QED
    BY <1>3, <2>1
<1> QED
  BY <1>4, <1>5 DEF After, u

\* The first n elements are the first n - 1 and the last of them.
LEMMA OneMore ==
  ASSUME NEW S, NEW s \in Seq(S), NEW n \in 1 .. Len(s)
  PROVE  /\ Append(SubSeq(s, 1, n - 1), s[n]) = SubSeq(s, 1, n)
         /\ SubSeq(s, 1, n - 1) \o <<s[n]>> = SubSeq(s, 1, n)
<1>1. Len(s) \in Nat /\ \A i \in 1 .. n : s[i] \in S
  BY LenProperties, ElementOfSeq
<1>2. SubSeq(s, 1, n - 1) \o <<s[n]>> = SubSeq(s, 1, n)
  <2>1. 1 \in 1 .. Len(s) /\ n \in 1 .. Len(s)
    BY <1>1
  <2> QED
    BY <2>1, SubSeqRecursiveSecond
<1>3. SubSeq(s, 1, n - 1) \in Seq(S)
  <2>1. \A i \in 1 .. n - 1 : s[i] \in S
    BY <1>1
  <2>2. 1 \in Int /\ n - 1 \in Int
    OBVIOUS
  <2> QED
    BY <2>1, <2>2, SubSeqProperties
<1>4. s[n] \in S
  BY <1>1
<1> QED
  BY <1>2, <1>3, <1>4, AppendIsConcat

\* No dollar of a text starts a reference.
Plain(s) ==
  \A i \in 1 .. Len(s) - 1 :
    s[i] = "$" => s[i + 1] # "{" /\ s[i + 1] # "$" /\ ~IsNameStart(s[i + 1])

\* A text without a reference is not changed.
LEMMA WithoutReference ==
  ASSUME NEW s \in Text, Plain(s)
  PROVE  expandEnvVars(s) = s
<1>. DEFINE Done(n) == [i |-> n + 1, out |-> SubSeq(s, 1, n)]
            Bad == {n \in 0 .. Len(s) : Expansion(s)[n] # Done(n)}
<1>1. s \in Seq(Char) /\ Len(s) \in Nat
  BY LenProperties DEF Text
<1>2. \A r \in 0 .. Len(s) :
        Expansion(s)[r] = IF r = 0 THEN [i |-> 1, out |-> <<>>] ELSE Expanded(s, Expansion(s)[r - 1])
  BY <1>1, ExpansionDefined
<1>3. Expansion(s)[0] = Done(0)
  <2>1. SubSeq(s, 1, 0) = <<>>
    BY SubSeqEmpty
  <2>2. 0 \in 0 .. Len(s)
    BY <1>1
  <2> QED
    BY <1>2, <2>1, <2>2
<1>4. ASSUME NEW n \in 1 .. Len(s) PROVE Expanded(s, Done(n - 1)) = Done(n)
  <2>. DEFINE now == Done(n - 1)
  <2>1. now.i = n /\ now.out = SubSeq(s, 1, n - 1) /\ ~(n > Len(s))
    BY <1>1
  <2>2. Append(now.out, s[n]) = SubSeq(s, 1, n) /\ now.out \o <<s[n]>> = SubSeq(s, 1, n)
    BY <1>1, <2>1, OneMore
  <2> HIDE DEF now
  <2>3. ASSUME s[n] # "$" PROVE Expanded(s, now) = [i |-> n + 1, out |-> SubSeq(s, 1, n)]
    BY <2>1, <2>2, <2>3 DEF Expanded
  <2>4. ASSUME s[n] = "$" PROVE Expanded(s, now) = [i |-> n + 1, out |-> SubSeq(s, 1, n)]
    <3>. DEFINE rest == After(s, n - 1)
    <3>1. n - 1 \in 0 .. Len(s) - 1 /\ (n - 1) + 2 = n + 1
      BY <1>1
    <3>2. Len(rest) = Len(s) - (n - 1) /\ ((n - 1) + 2 <= Len(s) => rest[2] = s[(n - 1) + 2])
      BY <1>1, <3>1, AfterStarts
    <3> HIDE DEF rest
    <3>3. Len(rest) \in Nat
      BY <1>1, <3>1, <3>2
    <3>4. Len(rest) = 1 \/ (Len(rest) > 1 /\ rest[2] # "{" /\ rest[2] # "$" /\ ~IsNameStart(rest[2]))
      <4>1. CASE n = Len(s)
        BY <1>1, <3>2, <4>1
      <4>2. CASE n # Len(s)
        <5>1. n \in 1 .. Len(s) - 1 /\ Len(rest) > 1 /\ n + 1 <= Len(s)
          BY <1>1, <3>2, <4>2
        <5> QED
          BY <2>4, <3>1, <3>2, <5>1 DEF Plain
      <4> QED
        BY <4>1, <4>2
    <3>5. Reference(rest) = [length |-> 1, by |-> <<"$">>]
      BY <3>3, <3>4, LiteralDollar
    <3>6. Expanded(s, now) = [i |-> n + 1, out |-> now.out \o <<"$">>]
      <4>1. Expanded(s, now) = [i |-> now.i + Reference(After(s, now.i - 1)).length,
                                out |-> now.out \o Reference(After(s, now.i - 1)).by]
        BY <2>1, <2>4 DEF Expanded
      <4>2. After(s, now.i - 1) = rest
        BY <2>1, Zenon DEF rest
      <4>. DEFINE r == Reference(rest)
      <4>3. r.length = 1 /\ r.by = <<"$">>
        BY <3>5
      <4>4. Expanded(s, now) = [i |-> n + r.length, out |-> now.out \o r.by]
        BY <2>1, <4>1, <4>2, Zenon
      <4> HIDE DEF r
      <4> QED
        BY <4>3, <4>4, Zenon
    <3> QED
      BY <2>2, <2>4, <3>6
  <2> QED
    BY <2>3, <2>4 DEF now
<1> HIDE DEF Done
<1>5. Bad = {}
  <2>1. SUFFICES ASSUME NEW n \in Bad, \A m \in Bad : n <= m PROVE FALSE
    <3>1. Bad \subseteq Nat
      OBVIOUS
    <3> HIDE DEF Bad
    <3> QED
      BY <2>1, <3>1, LeastNat
  <2>2. n \in 1 .. Len(s) /\ n - 1 \in 0 .. Len(s) /\ ~(n <= n - 1) /\ n # 0 /\ n \in 0 .. Len(s)
    BY <1>1, <1>3
  <2>3. Expansion(s)[n - 1] = Done(n - 1)
    BY <2>1, <2>2
  <2>4. Expansion(s)[n] = Expanded(s, Expansion(s)[n - 1])
    BY <1>2, <2>2
  <2> QED
    BY <1>4, <2>2, <2>3, <2>4
<1>6. Len(s) \in 0 .. Len(s)
  BY <1>1
<1>7. Expansion(s)[Len(s)].out = SubSeq(s, 1, Len(s))
  <2>1. Expansion(s)[Len(s)] = Done(Len(s))
    BY <1>5, <1>6
  <2> QED
    BY <2>1 DEF Done
<1> QED
  BY <1>1, <1>7, SubSeqFull DEF expandEnvVars

\* What stands for a character with its dollar doubled.
Twice(c) == IF c = "$" THEN <<"$", "$">> ELSE <<c>>

\* The doubled text grows by the characters of the text.
LEMMA DoubledAre ==
  ASSUME NEW s \in Text
  PROVE  /\ \A n \in 0 .. Len(s) : Doubled(s)[n] \in Seq(Char)
         /\ Doubled(s)[0] = <<>>
         /\ \A n \in 1 .. Len(s) : Doubled(s)[n] = Doubled(s)[n - 1] \o Twice(s[n])
<1>. DEFINE N == Len(s)
            S == Seq(Char)
            F == [n \in 0 .. N |-> [x \in S |-> IF n = 0 THEN <<>> ELSE x \o Twice(s[n])]]
            to == Doubled(s)
<1>1. N \in Nat /\ \A n \in 1 .. N : Twice(s[n]) \in S
  <2>1. N \in Nat
    BY LenProperties DEF Text
  <2>2. ASSUME NEW n \in 1 .. N PROVE Twice(s[n]) \in S
    <3>1. s[n] \in Char
      BY ElementOfSeq DEF Text
    <3>2. CASE s[n] = "$"
      <4>1. "$" \in Char
        BY <3>1, <3>2
      <4> QED
        BY <3>2, <4>1 DEF Twice
    <3>3. CASE s[n] # "$"
      BY <3>1, <3>3 DEF Twice
    <3> QED
      BY <3>2, <3>3
  <2> QED
    BY <2>1, <2>2
<1>2. <<>> \in S /\ F \in [0 .. N -> [S -> S]]
  <2>1. ASSUME NEW n \in 0 .. N, NEW x \in S
        PROVE  (IF n = 0 THEN <<>> ELSE x \o Twice(s[n])) \in S
    <3>1. CASE n = 0
      BY <3>1
    <3>2. CASE n # 0
      <4>1. Twice(s[n]) \in S
        BY <1>1, <3>2
      <4> QED
        BY <3>2, <4>1, ConcatProperties
    <3> QED
      BY <3>1, <3>2
  <2> QED
    BY <2>1
<1>3. PICK g \in [0 .. N -> S] : Computed(g, N, <<>>, F)
  <2> HIDE DEF N, F, S
  <2> QED
    BY <1>1, <1>2, Iterated
<1>4. ASSUME NEW n \in 0 .. N
      PROVE  g[n] = IF n = 0 THEN <<>> ELSE g[n - 1] \o Twice(s[n])
  <2>1. g[n] = IF n = 0 THEN <<>> ELSE F[n][g[n - 1]]
    <3> HIDE DEF N, F
    <3> QED
      BY <1>3 DEF Computed
  <2>2. n # 0 => n - 1 \in 0 .. N
    BY <1>1
  <2>3. n # 0 => g[n - 1] \in S
    BY <1>3, <2>2
  <2> HIDE DEF S
  <2> QED
    BY <2>1, <2>3
<1>5. g = [n \in 0 .. N |-> IF n = 0 THEN <<>> ELSE g[n - 1] \o Twice(s[n])]
  <2>1. g = [n \in 0 .. N |-> g[n]]
    BY <1>3
  <2> QED
    BY <1>4, <2>1
<1>6. to = [n \in 0 .. N |-> IF n = 0 THEN <<>> ELSE to[n - 1] \o Twice(s[n])]
  BY <1>5, Zenon DEF Doubled, Twice
<1>7. \A n \in 0 .. N : to[n] = IF n = 0 THEN <<>> ELSE to[n - 1] \o Twice(s[n])
  <2> HIDE DEF to, N
  <2> QED
    BY <1>6
<1>8. to[0] = <<>> /\ \A n \in 1 .. N : to[n] = to[n - 1] \o Twice(s[n])
  <2> HIDE DEF to, N
  <2>1. 0 \in 0 .. N /\ \A n \in 1 .. N : n \in 0 .. N /\ n # 0
    BY <1>1
  <2>2. to[0] = <<>>
    BY <1>7, <2>1
  <2>3. ASSUME NEW n \in 1 .. N PROVE to[n] = to[n - 1] \o Twice(s[n])
    <3>1. n \in 0 .. N /\ n # 0
      BY <2>1
    <3>2. to[n] = IF n = 0 THEN <<>> ELSE to[n - 1] \o Twice(s[n])
      BY <1>7, <3>1
    <3> QED
      BY <3>1, <3>2, Zenon
  <2> QED
    BY <2>2, <2>3
<1>. DEFINE Bad == {n \in 0 .. N : to[n] \notin S}
<1> HIDE DEF to, N, S
<1>9. Bad = {}
  <2>1. SUFFICES ASSUME NEW n \in Bad, \A m \in Bad : n <= m PROVE FALSE
    <3>1. Bad \subseteq Nat
      BY <1>1
    <3> HIDE DEF Bad
    <3> QED
      BY <2>1, <3>1, LeastNat
  <2>2. n # 0 /\ n \in 1 .. N
    BY <1>1, <1>2, <1>8
  <2>3. n - 1 \in 0 .. N /\ ~(n <= n - 1)
    BY <1>1, <2>2
  <2>4. to[n - 1] \in S
    BY <2>1, <2>3
  <2>5. to[n - 1] \o Twice(s[n]) \in S
    BY <1>1, <2>2, <2>4, ConcatProperties DEF S
  <2> QED
    BY <1>8, <2>2, <2>5
<1>10. \A n \in 0 .. N : to[n] \in S
  BY <1>9
<1> QED
  BY <1>8, <1>10 DEF to, N, S

\* Each character stands at the end of what is doubled before it.
LEMMA DoubledSteps ==
  ASSUME NEW s \in Text, NEW n \in 1 .. Len(s)
  PROVE  LET D == Doubled(s)  p == Len(D[n - 1]) IN
         /\ p \in Nat /\ Len(D[n]) \in Nat
         /\ \A i \in 1 .. p : D[n][i] = D[n - 1][i]
         /\ s[n] # "$" => Len(D[n]) = p + 1 /\ D[n][p + 1] = s[n]
         /\ s[n] = "$" => Len(D[n]) = p + 2 /\ D[n][p + 1] = "$" /\ D[n][p + 2] = "$"
<1>. DEFINE a == Doubled(s)[n - 1]
            b == Doubled(s)[n]
            t == Twice(s[n])
<1>1. Len(s) \in Nat /\ s[n] \in Char
  BY LenProperties, ElementOfSeq DEF Text
<1>2. n - 1 \in 0 .. Len(s) /\ n \in 0 .. Len(s)
  BY <1>1
<1>3. a \in Seq(Char) /\ b \in Seq(Char) /\ b = a \o t
  BY <1>2, DoubledAre
<1>4. Len(a) \in Nat /\ Len(b) \in Nat
  BY <1>3, LenProperties
<1>5. \A c : Len(<<c>>) = 1 /\ <<c>>[1] = c
  OBVIOUS
<1>6. CASE s[n] = "$"
  <2>1. t = <<"$", "$">>
    BY <1>6, Zenon DEF Twice
  <2> HIDE DEF a, b, t
  <2>2. Len(t) = 2 /\ t[1] = "$" /\ t[2] = "$"
    BY <2>1
  <2>3. t \in Seq(Char)
    <3>1. "$" \in Char
      BY <1>1, <1>6
    <3> QED
      BY <2>1, <3>1
  <2>4. /\ Len(b) = Len(a) + 2
        /\ \A i \in 1 .. Len(a) + 2 : b[i] = IF i <= Len(a) THEN a[i] ELSE t[i - Len(a)]
    <3>1. /\ Len(b) = Len(a) + Len(t)
          /\ \A i \in 1 .. Len(a) + Len(t) : b[i] = IF i <= Len(a) THEN a[i] ELSE t[i - Len(a)]
      BY <1>3, <2>3, ConcatProperties
    <3> QED
      BY <2>2, <3>1
  <2>5. /\ \A i \in 1 .. Len(a) : b[i] = a[i]
        /\ b[Len(a) + 1] = t[1] /\ b[Len(a) + 2] = t[2]
    BY <1>4, <2>4
  <2> QED
    BY <1>4, <1>6, <2>2, <2>4, <2>5 DEF a, b
<1>7. CASE s[n] # "$"
  <2>1. t = <<s[n]>>
    BY <1>7, Zenon DEF Twice
  <2>2. Len(t) = 1 /\ t[1] = s[n]
    BY <1>5, <2>1, Zenon
  <2>3. t \in Seq(Char)
    BY <1>1, <2>1
  <2> HIDE DEF a, b, t
  <2>4. /\ Len(b) = Len(a) + 1
        /\ \A i \in 1 .. Len(a) + 1 : b[i] = IF i <= Len(a) THEN a[i] ELSE t[i - Len(a)]
    <3>1. /\ Len(b) = Len(a) + Len(t)
          /\ \A i \in 1 .. Len(a) + Len(t) : b[i] = IF i <= Len(a) THEN a[i] ELSE t[i - Len(a)]
      BY <1>3, <2>3, ConcatProperties
    <3> QED
      BY <2>2, <3>1
  <2>5. /\ \A i \in 1 .. Len(a) : b[i] = a[i]
        /\ b[Len(a) + 1] = t[1]
    BY <1>4, <2>4
  <2> QED
    BY <1>4, <1>7, <2>2, <2>4, <2>5 DEF a, b
<1> QED
  BY <1>6, <1>7

\* Doubling its dollars protects every text.
LEMMA EscapedIs ==
  ASSUME NEW s \in Text
  PROVE  expandEnvVars(Escaped(s)) = s
<1>. DEFINE N == Len(s)
            D == Doubled(s)
            t == Escaped(s)
            L == Len(t)
            Done(n) == [i |-> Len(D[n]) + 1, out |-> SubSeq(s, 1, n)]
<1>1. s \in Seq(Char) /\ N \in Nat
  BY LenProperties DEF Text
<1>2. /\ \A n \in 0 .. N : D[n] \in Seq(Char) /\ Len(D[n]) \in Nat
      /\ Len(D[0]) = 0
      /\ t = D[N]
  <2>1. \A n \in 0 .. N : D[n] \in Seq(Char)
    BY DoubledAre
  <2>2. \A n \in 0 .. N : Len(D[n]) \in Nat
    BY <2>1, LenProperties
  <2>3. D[0] = <<>>
    BY DoubledAre
  <2> QED
    BY <2>1, <2>2, <2>3 DEF Escaped
<1>3. ASSUME NEW n \in 1 .. N
      PROVE  /\ \A i \in 1 .. Len(D[n - 1]) : D[n][i] = D[n - 1][i]
             /\ s[n] # "$" => Len(D[n]) = Len(D[n - 1]) + 1 /\ D[n][Len(D[n - 1]) + 1] = s[n]
             /\ s[n] = "$" => /\ Len(D[n]) = Len(D[n - 1]) + 2
                              /\ D[n][Len(D[n - 1]) + 1] = "$"
                              /\ D[n][Len(D[n - 1]) + 2] = "$"
  BY DoubledSteps
<1> HIDE DEF D, N, t
<1>4. L \in Nat /\ t \in Seq(Char)
  BY <1>1, <1>2
\* Each of them is a prefix of the whole.
<1>5. \A n \in 0 .. N : Len(D[n]) <= L /\ \A i \in 1 .. Len(D[n]) : t[i] = D[n][i]
  <2>. DEFINE Starts(n) == Len(D[n]) <= L /\ \A i \in 1 .. Len(D[n]) : t[i] = D[n][i]
              Bad == {m \in 0 .. N : ~Starts(N - m)}
  <2>1. ASSUME Bad = {} PROVE \A n \in 0 .. N : Starts(n)
    <3>1. \A n \in 0 .. N : N - n \in 0 .. N /\ N - (N - n) = n
      BY <1>1
    <3> HIDE DEF Starts
    <3> QED
      BY <2>1, <3>1
  <2>2. ASSUME NEW m \in Bad, \A k \in Bad : m <= k PROVE FALSE
    <3>1. N - 0 = N /\ Starts(N)
      BY <1>1, <1>2, <1>4
    <3>2. m # 0
      BY <3>1
    <3>. DEFINE n == N - m
    <3>3. m - 1 \in 0 .. N /\ ~(m <= m - 1) /\ N - (m - 1) = n + 1 /\ n + 1 \in 1 .. N
          /\ n \in 0 .. N /\ n + 1 \in 0 .. N /\ (n + 1) - 1 = n
      BY <1>1, <3>2
    <3>4. Starts(n + 1)
      <4> HIDE DEF Starts, n
      <4> QED
        BY <2>2, <3>3
    <3>5. ~Starts(n)
      OBVIOUS
    <3> HIDE DEF n
    <3>6. Len(D[n]) \in Nat /\ Len(D[n + 1]) \in Nat
      BY <1>2, <3>3
    <3>7. Len(D[n]) <= Len(D[n + 1]) /\ \A i \in 1 .. Len(D[n]) : D[n + 1][i] = D[n][i]
      <4>1. Len(D[n + 1]) = Len(D[n]) + 1 \/ Len(D[n + 1]) = Len(D[n]) + 2
        BY <1>3, <3>3
      <4>2. \A i \in 1 .. Len(D[n]) : D[n + 1][i] = D[n][i]
        BY <1>3, <3>3
      <4> QED
        BY <3>6, <4>1, <4>2
    <3> QED
      BY <1>4, <3>4, <3>5, <3>6, <3>7
  <2>3. Bad = {}
    <3>1. Bad \subseteq Nat
      BY <1>1
    <3> HIDE DEF Bad
    <3> QED
      BY <2>2, <3>1, LeastNat
  <2> QED
    BY <2>1, <2>3
\* Each is at least as long as the part of the text it stands for.
<1>6. \A n \in 0 .. N : n <= Len(D[n])
  <2>. DEFINE Bad == {n \in 0 .. N : ~(n <= Len(D[n]))}
  <2>1. ASSUME NEW n \in Bad, \A m \in Bad : n <= m PROVE FALSE
    <3>1. n # 0 /\ n \in 1 .. N /\ n - 1 \in 0 .. N /\ n \in 0 .. N /\ ~(n <= n - 1)
      BY <1>1, <1>2
    <3>2. Len(D[n - 1]) \in Nat /\ n - 1 <= Len(D[n - 1])
      BY <1>2, <2>1, <3>1
    <3>3. Len(D[n]) = Len(D[n - 1]) + 1 \/ Len(D[n]) = Len(D[n - 1]) + 2
      BY <1>3, <3>1
    <3> QED
      BY <3>1, <3>2, <3>3
  <2>2. Bad = {}
    <3>1. Bad \subseteq Nat
      OBVIOUS
    <3> HIDE DEF Bad
    <3> QED
      BY <2>1, <3>1, LeastNat
  <2> QED
    BY <2>2
<1>7. \A r \in 0 .. L :
        Expansion(t)[r] = IF r = 0 THEN [i |-> 1, out |-> <<>>] ELSE Expanded(t, Expansion(t)[r - 1])
  BY <1>4, ExpansionDefined
<1>8. N <= L
  BY <1>1, <1>2, <1>6
\* A round undoes the doubling of one character.
<1>9. ASSUME NEW n \in 1 .. N PROVE Expanded(t, Done(n - 1)) = Done(n)
  <2>. DEFINE now == Done(n - 1)
              p == Len(D[n - 1])
  <2>1. now.i = p + 1 /\ now.out = SubSeq(s, 1, n - 1)
    OBVIOUS
  <2>2. Append(now.out, s[n]) = SubSeq(s, 1, n) /\ now.out \o <<s[n]>> = SubSeq(s, 1, n)
    BY <1>1, <2>1, OneMore DEF N
  <2>3. n - 1 \in 0 .. N /\ n \in 0 .. N /\ p \in Nat /\ Len(D[n]) \in Nat /\ Len(D[n]) <= L
    BY <1>1, <1>2, <1>5
  <2>4. \A i \in 1 .. Len(D[n]) : t[i] = D[n][i]
    BY <1>5, <2>3
  <2>5. /\ s[n] # "$" => Len(D[n]) = p + 1 /\ D[n][p + 1] = s[n]
        /\ s[n] = "$" => Len(D[n]) = p + 2 /\ D[n][p + 1] = "$" /\ D[n][p + 2] = "$"
    BY <1>3
  <2> HIDE DEF now, p
  <2>6. ~(now.i > L) /\ t[p + 1] = s[n]
    <3>1. p + 1 \in 1 .. Len(D[n]) /\ p + 1 <= L
      BY <1>4, <2>3, <2>5
    <3>2. D[n][p + 1] = s[n]
      BY <2>5
    <3> QED
      BY <1>4, <2>1, <2>3, <2>4, <3>1, <3>2
  <2>7. ASSUME s[n] # "$" PROVE Expanded(t, now) = [i |-> Len(D[n]) + 1, out |-> SubSeq(s, 1, n)]
    <3>1. Expanded(t, now) = [i |-> now.i + 1, out |-> Append(now.out, t[now.i])]
      BY <2>1, <2>6, <2>7, Zenon DEF Expanded
    <3> QED
      BY <2>1, <2>2, <2>5, <2>6, <2>7, <3>1, Zenon
  <2>8. ASSUME s[n] = "$" PROVE Expanded(t, now) = [i |-> Len(D[n]) + 1, out |-> SubSeq(s, 1, n)]
    <3>. DEFINE rest == After(t, p)
                r == Reference(rest)
    <3>1. p \in 0 .. L - 1 /\ p + 2 <= L /\ (p + 1) - 1 = p /\ p + 2 \in 1 .. Len(D[n])
      BY <1>4, <2>3, <2>5, <2>8
    <3>2. Len(rest) = L - p /\ rest[2] = t[p + 2]
      BY <1>4, <3>1, AfterStarts
    <3> HIDE DEF rest
    <3>3. Len(rest) \in Nat /\ Len(rest) > 1 /\ rest[2] = "$"
      BY <1>4, <2>3, <2>4, <2>5, <2>8, <3>1, <3>2
    <3>4. r.length = 2 /\ r.by = <<"$">>
      BY <3>3, EscapedDollar
    <3>5. Expanded(t, now) = [i |-> now.i + r.length, out |-> now.out \o r.by]
      <4>1. Expanded(t, now) = [i |-> now.i + Reference(After(t, now.i - 1)).length,
                                out |-> now.out \o Reference(After(t, now.i - 1)).by]
        BY <2>1, <2>6, <2>8 DEF Expanded
      <4>2. After(t, now.i - 1) = rest
        BY <2>1, <3>1, Zenon DEF rest
      <4> QED
        BY <4>1, <4>2, Zenon
    <3> HIDE DEF r
    <3>6. now.i + r.length = Len(D[n]) + 1
      BY <2>1, <2>3, <2>5, <2>8, <3>4
    <3> QED
      BY <2>2, <2>8, <3>4, <3>5, <3>6, Zenon
  <2> QED
    BY <2>7, <2>8, Zenon DEF now
<1>10. Expansion(t)[0] = Done(0)
  <2>1. SubSeq(s, 1, 0) = <<>>
    BY SubSeqEmpty
  <2>2. 0 \in 0 .. L /\ Len(D[0]) + 1 = 1
    BY <1>2, <1>4
  <2> QED
    BY <1>7, <2>1, <2>2
<1> HIDE DEF Done, L
<1>11. \A n \in 0 .. N : Expansion(t)[n] = Done(n)
  <2>. DEFINE Bad == {n \in 0 .. N : Expansion(t)[n] # Done(n)}
  <2>1. ASSUME NEW n \in Bad, \A m \in Bad : n <= m PROVE FALSE
    <3>1. n # 0 /\ n \in 0 .. N
      BY <1>10
    <3>2. n \in 1 .. N /\ n - 1 \in 0 .. N /\ ~(n <= n - 1) /\ n \in 0 .. L
      BY <1>1, <1>4, <1>8, <3>1
    <3>3. Expansion(t)[n - 1] = Done(n - 1)
      BY <2>1, <3>2
    <3>4. Expansion(t)[n] = Expanded(t, Expansion(t)[n - 1])
      BY <1>7, <3>1, <3>2
    <3>5. Expansion(t)[n] = Done(n)
      BY <1>9, <3>2, <3>3, <3>4
    <3> QED
      BY <3>5
  <2>2. Bad = {}
    <3>1. Bad \subseteq Nat
      BY <1>1
    <3> HIDE DEF Bad
    <3> QED
      BY <2>1, <3>1, LeastNat
  <2> QED
    BY <2>2
\* When all is read, a round changes nothing.
<1>12. \A n \in N .. L : Expansion(t)[n] = Done(N)
  <2>. DEFINE Bad == {n \in N .. L : Expansion(t)[n] # Done(N)}
  <2>1. ASSUME NEW n \in Bad, \A m \in Bad : n <= m PROVE FALSE
    <3>1. N \in 0 .. N
      BY <1>1
    <3>2. n # N /\ n \in N .. L
      BY <1>11, <3>1
    <3>3. n - 1 \in N .. L /\ ~(n <= n - 1) /\ n \in 0 .. L /\ n # 0
      BY <1>1, <1>4, <3>2
    <3>4. Expansion(t)[n - 1] = Done(N)
      BY <2>1, <3>3
    <3>5. Expansion(t)[n] = Expanded(t, Done(N))
      BY <1>7, <3>3, <3>4
    <3>6. Done(N).i > L
      BY <1>2, <1>4 DEF Done, L
    <3>7. Expanded(t, Done(N)) = Done(N)
      BY <3>6 DEF Expanded, L
    <3> QED
      BY <3>5, <3>7
  <2>2. Bad = {}
    <3>1. Bad \subseteq Nat
      BY <1>1, <1>4
    <3> HIDE DEF Bad
    <3> QED
      BY <2>1, <3>1, LeastNat
  <2> QED
    BY <2>2
<1>13. Expansion(t)[L].out = SubSeq(s, 1, N)
  <2>1. L \in N .. L
    BY <1>1, <1>4, <1>8
  <2>2. Expansion(t)[L] = Done(N)
    BY <1>12, <2>1
  <2>3. Done(N).out = SubSeq(s, 1, N)
    BY DEF Done
  <2> QED
    BY <2>2, <2>3
<1>14. SubSeq(s, 1, N) = s
  BY <1>1, SubSeqFull DEF N
<1> QED
  BY <1>13, <1>14, Zenon DEF expandEnvVars, L, t

-------------------------------------------------------------------------------
(* Every conversion of what the code can hold is sound.                       *)

LEMMA SampleSound ==
  ASSUME Sampled(sample)
  PROVE  CodecsSound
<1>1. CASE sample.kind = "result" /\ Levels(sample.value, sample.schema)[SchemaDepth] = {}
  <2>1. ResultsSound(sample.value, sample.schema)
    BY <1>1, ResultsAre
  <2> QED
    BY <1>1, <2>1, Zenon DEF CodecsSound
<1>2. CASE sample.kind = "duration" /\ sample.halves \in Int
  <2>1. DurationsSound(sample.halves)
    BY <1>2, DurationsAre
  <2> QED
    BY <1>2, <2>1 DEF CodecsSound
<1>3. CASE sample.kind = "text" /\ sample.text \in Text
  <2>1. ExpansionSound(sample.text)
    BY <1>3, EscapedIs, WithoutReference, Zenon DEF ExpansionSound, Plain
  <2> QED
    BY <1>3, <2>1 DEF CodecsSound
<1>4. CASE /\ sample.kind = "stored" /\ sample.error.around \in Text
           /\ sample.error.messages \in Seq(Text)
           /\ sample.error.joined \in BOOLEAN
           /\ Len(sample.error.messages) > 1 => sample.error.joined
           /\ sample.usage \in [Counter -> Nat]
  <2>1. StoredSound(sample.error, sample.usage)
    BY <1>4, StoredAre
  <2> QED
    BY <1>4, <2>1 DEF CodecsSound
<1>5. CASE /\ sample.kind = "keys" /\ sample.agents \subseteq Text /\ sample.keys \subseteq Text
           /\ IsFiniteSet(sample.agents) /\ IsFiniteSet(sample.keys)
  <2>1. KeysSound(sample.agents, sample.keys)
    BY <1>5, KeysAre
  <2> QED
    BY <1>5, <2>1 DEF CodecsSound
<1> QED
  BY <1>1, <1>2, <1>3, <1>4, <1>5 DEF Sampled

\* The data keeps its types.
THEOREM CodecTypeCorrect == CodecSpec => []CodecTypeOK
<1>1. CodecInit => CodecTypeOK
  BY CodecsAssumption DEF CodecInit, CodecTypeOK
<1>2. CodecTypeOK /\ [FALSE]_sample => CodecTypeOK'
  BY DEF CodecTypeOK, Sampled
<1> QED
  BY <1>1, <1>2, PTL DEF CodecSpec

\* Every conversion preserves what its readers rely on: a result that agrees with its schema is
\* accepted, one that is accepted agrees if the schema's items are all read, durations, errors
\* and token counts come back from what is stored, a text with its dollars doubled expands to
\* itself, and agents whose names have no slash share no key of the memory.
THEOREM CodecsSoundCorrect == CodecSpec => []CodecsSound
<1>1. CodecTypeOK => CodecsSound
  BY SampleSound DEF CodecTypeOK
<1> QED
  BY <1>1, CodecTypeCorrect, PTL
===============================================================================
