-------------------------- MODULE SelectionsProofs --------------------------
(***************************************************************************)
(* What Only keeps of a sequence and that FreshNumber is new: the lemmas   *)
(* the proofs of several components share.  Only is recursive, so what it  *)
(* keeps is proved by induction on the length of the sequence, which       *)
(* follows from the least element of a set of numbers.                     *)
(***************************************************************************)
EXTENDS Selections, Integers, SequencesExt, FiniteSetTheorems, TLAPS

\* Every nonempty set of numbers has a least element: the sets 0..n with n in the set
\* are finite, and one of them has no other below it.
LEMMA LeastOf ==
    ASSUME NEW T \in SUBSET Nat, T # {}
    PROVE  \E n \in T : \A m \in T : n <= m
<1> DEFINE Upto == {0..n : n \in T}
<1>1. Upto \subseteq FiniteSubsetsOf(Nat)
  <2>1. \A n \in T : 0..n \in SUBSET Nat /\ IsFiniteSet(0..n)
    BY FS_Interval
  <2> QED
    BY <2>1 DEF FiniteSubsetsOf
<1>2. Upto # {}
  OBVIOUS
<1>3. \E x \in Upto : \A y \in Upto : ~ (<<y, x>> \in StrictSubsetOrdering(Nat))
  <2> HIDE DEF Upto
  <2> QED
    BY <1>1, <1>2, FS_StrictSubsetOrderingWellFounded, WFMin
<1>4. PICK n \in T : \A m \in T : ~(<<0..m, 0..n>> \in StrictSubsetOrdering(Nat))
  BY <1>3
<1>5. ASSUME NEW m \in T, m < n PROVE FALSE
  <2>1. 0..m \in SUBSET Nat /\ 0..n \in SUBSET Nat /\ 0..m \subseteq 0..n
    BY <1>5
  <2>2. n \in 0..n /\ n \notin 0..m
    BY <1>5
  <2> QED
    BY <2>1, <2>2, <1>4 DEF StrictSubsetOrdering
<1> QED
  BY <1>5

\* Induction over the numbers, on the set of those for which a statement holds.
LEMMA Induction ==
    ASSUME NEW T \in SUBSET Nat, 0 \in T, \A n \in T : n + 1 \in T
    PROVE  T = Nat
<1> SUFFICES ASSUME Nat \ T # {} PROVE FALSE
  OBVIOUS
<1>1. PICK n \in Nat \ T : \A m \in Nat \ T : n <= m
  <2> DEFINE Rest == Nat \ T
  <2>1. Rest \in SUBSET Nat /\ Rest # {}
    OBVIOUS
  <2> HIDE DEF Rest
  <2>2. \E n \in Rest : \A m \in Rest : n <= m
    BY <2>1, LeastOf
  <2> QED
    BY <2>2 DEF Rest
<1>2. n # 0 /\ n - 1 \in Nat /\ n - 1 \in T
  BY <1>1
<1> QED
  BY <1>1, <1>2

\* One step of Only, and the function that takes its steps.
Step(q, S, i, before) == IF q[i] \in S THEN Append(before, q[i]) ELSE before
Filtering(q, S, g) == \A i \in 1..Len(q) : g[i] = Step(q, S, i, g[i - 1])

\* The recursive function exists: it is built one element at a time.
LEMMA FilterExists ==
    ASSUME NEW D, NEW q \in Seq(D), NEW S
    PROVE  \E g \in [0..Len(q) -> Seq(D)] : g[0] = <<>> /\ Filtering(q, S, g)
<1> DEFINE Upto(n) == \E g \in [0..n -> Seq(D)] :
                g[0] = <<>> /\ \A i \in 1..n : g[i] = Step(q, S, i, g[i - 1])
           T == {n \in Nat : n <= Len(q) => Upto(n)}
<1>1. Upto(0)
  <2> DEFINE e == [i \in 0..0 |-> <<>>]
  <2>1. e \in [0..0 -> Seq(D)]
    OBVIOUS
  <2>2. e[0] = <<>>
    OBVIOUS
  <2>3. 1..0 = {}
    OBVIOUS
  <2> HIDE DEF e
  <2> QED
    BY <2>1, <2>2, <2>3
<1>2. ASSUME NEW n \in Nat, n + 1 <= Len(q), Upto(n) PROVE Upto(n + 1)
  <2>1. PICK g \in [0..n -> Seq(D)] : g[0] = <<>> /\ \A i \in 1..n : g[i] = Step(q, S, i, g[i - 1])
    BY <1>2
  <2> DEFINE last == Step(q, S, n + 1, g[n])
             h == [i \in 0..n + 1 |-> IF i = n + 1 THEN last ELSE g[i]]
  <2>2. last \in Seq(D)
    <3>1. g[n] \in Seq(D) /\ n + 1 \in 1..Len(q) /\ q[n + 1] \in D
      BY <1>2
    <3> QED
      BY <3>1 DEF Step
  <2> HIDE DEF last
  <2>3. h \in [0..n + 1 -> Seq(D)]
    <3>1. \A i \in 0..n + 1 : i # n + 1 => i \in 0..n
      OBVIOUS
    <3> QED
      BY <2>2, <3>1
  <2>4. h[0] = <<>>
    BY <2>1
  <2>5. ASSUME NEW i \in 1..n + 1 PROVE h[i] = Step(q, S, i, h[i - 1])
    <3>1. CASE i = n + 1
      <4>1. h[i] = last /\ h[i - 1] = g[n]
        BY <3>1
      <4> QED
        BY <3>1, <4>1 DEF last
    <3>2. CASE i # n + 1
      <4>1. i \in 1..n /\ i - 1 \in 0..n /\ i \in 0..n
        BY <3>2
      <4>2. h[i] = g[i] /\ h[i - 1] = g[i - 1]
        BY <4>1
      <4> QED
        BY <4>1, <4>2, <2>1
    <3> QED
      BY <3>1, <3>2
  <2> HIDE DEF h
  <2> QED
    BY <2>3, <2>4, <2>5
<1>3. T = Nat
  <2> HIDE DEF Upto
  <2>1. 0 \in T
    BY <1>1
  <2>2. ASSUME NEW n \in T PROVE n + 1 \in T
    BY <1>2
  <2>3. T \in SUBSET Nat
    OBVIOUS
  <2> HIDE DEF T
  <2> QED
    BY <2>1, <2>2, <2>3, Induction
<1>4. Upto(Len(q))
  <2> HIDE DEF Upto
  <2>1. Len(q) \in T
    BY <1>3
  <2> QED
    BY <2>1
<1> QED
  BY <1>4 DEF Filtering

\* What the recursive definition of Only defines.
LEMMA OnlyUnfolds ==
    ASSUME NEW D, NEW q \in Seq(D), NEW S
    PROVE  \E g \in [0..Len(q) -> Seq(D)] :
                g[0] = <<>> /\ Filtering(q, S, g) /\ Only(q, S) = g[Len(q)]
<1> DEFINE Rec(g) == [i \in 0..Len(q) |-> IF i = 0 THEN <<>>
                ELSE IF q[i] \in S THEN Append(g[i - 1], q[i]) ELSE g[i - 1]]
           kept == CHOOSE g : g = Rec(g)
<1>1. PICK f \in [0..Len(q) -> Seq(D)] : f[0] = <<>> /\ Filtering(q, S, f)
  BY FilterExists
<1>2. f = Rec(f)
  <2>1. \A i \in 0..Len(q) : i # 0 => i \in 1..Len(q)
    OBVIOUS
  <2>2. \A i \in 0..Len(q) : f[i] = Rec(f)[i]
    BY <1>1, <2>1 DEF Filtering, Step
  <2>3. f = [i \in 0..Len(q) |-> f[i]]
    OBVIOUS
  <2> DEFINE r == Rec(f)
  <2>4. r = [i \in 0..Len(q) |-> r[i]]
    OBVIOUS
  <2> HIDE DEF r
  <2> QED
    BY <2>2, <2>3, <2>4 DEF r
<1>3. kept = Rec(kept)
  <2> HIDE DEF Rec
  <2> QED
    BY <1>2
<1>4. Only(q, S) = kept[Len(q)]
  BY DEF Only
<1> HIDE DEF kept
<1>5. kept[0] = <<>> /\ \A i \in 1..Len(q) : kept[i] = Step(q, S, i, kept[i - 1])
  <2>1. \A i \in 0..Len(q) : kept[i] = Rec(kept)[i]
    BY <1>3
  <2>2. 0 \in 0..Len(q) /\ \A i \in 1..Len(q) : i \in 0..Len(q) /\ i # 0
    OBVIOUS
  <2>3. kept[0] = <<>>
    BY <2>1, <2>2
  <2>4. \A i \in 1..Len(q) : kept[i] = Step(q, S, i, kept[i - 1])
    BY <2>1, <2>2 DEF Step
  <2> QED
    BY <2>3, <2>4
<1> DEFINE T == {n \in Nat : n <= Len(q) => kept[n] = f[n]}
<1>6. T = Nat
  <2>1. 0 \in T
    BY <1>1, <1>5
  <2>2. ASSUME NEW n \in T PROVE n + 1 \in T
    <3> SUFFICES ASSUME n + 1 <= Len(q) PROVE kept[n + 1] = f[n + 1]
      OBVIOUS
    <3>1. n + 1 \in 1..Len(q) /\ (n + 1) - 1 = n /\ kept[n] = f[n]
      OBVIOUS
    <3>2. kept[n + 1] = Step(q, S, n + 1, kept[n])
      BY <1>5, <3>1
    <3>3. f[n + 1] = Step(q, S, n + 1, f[n])
      BY <1>1, <3>1 DEF Filtering
    <3> QED
      BY <3>1, <3>2, <3>3
  <2>3. T \in SUBSET Nat
    OBVIOUS
  <2> HIDE DEF T
  <2> QED
    BY <2>1, <2>2, <2>3, Induction
<1>7. Len(q) \in T
  BY <1>6
<1> QED
  BY <1>1, <1>4, <1>7

-----------------------------------------------------------------------------
\* No element of N is twice in q.
Once(q, N) == \A i, j \in DOMAIN q : q[i] = q[j] /\ q[i] \in N => i = j

\* What a filter keeps of the first n elements: those of S, and none of them twice that
\* is not twice in q.
LEMMA KeptUpto ==
    ASSUME NEW D, NEW q \in Seq(D), NEW S, NEW N,
           NEW g \in [0..Len(q) -> Seq(D)], g[0] = <<>>, Filtering(q, S, g)
    PROVE  \A n \in 0..Len(q) :
              /\ ToSet(g[n]) = {q[i] : i \in {j \in 1..n : q[j] \in S}}
              /\ Once(q, N) => Once(g[n], N)
<1> DEFINE Part(n) == {q[i] : i \in {j \in 1..n : q[j] \in S}}
           Says(n) == ToSet(g[n]) = Part(n) /\ (Once(q, N) => Once(g[n], N))
           T == {n \in Nat : n <= Len(q) => Says(n)}
<1>1. Says(0)
  <2>1. Part(0) = {}
    OBVIOUS
  <2>2. ToSet(<<>>) = {} /\ Once(<<>>, N)
    BY DEF ToSet, Once
  <2> QED
    BY <2>1, <2>2
<1>2. ASSUME NEW n \in Nat, n + 1 <= Len(q), Says(n) PROVE Says(n + 1)
  <2> DEFINE d == q[n + 1]  p == g[n]  r == g[n + 1]
  <2>1. n \in 0..Len(q) /\ n + 1 \in 1..Len(q) /\ n + 1 \in DOMAIN q /\ d \in D
    BY <1>2
  <2>2. p \in Seq(D) /\ r = IF d \in S THEN Append(p, d) ELSE p
    BY <2>1 DEF Filtering, Step
  <2>3. Part(n + 1) = IF d \in S THEN Part(n) \cup {d} ELSE Part(n)
    <3>1. 1..n + 1 = 1..n \cup {n + 1}
      BY <1>2
    <3> QED
      BY <3>1
  <2>4. ToSet(p) = Part(n)
    BY <1>2
  <2>5. Once(q, N) => Once(p, N)
    BY <1>2
  <2>6. CASE d \notin S
    <3>1. r = p
      BY <2>6, <2>2
    <3> HIDE DEF Part, p, r
    <3> QED
      BY <2>3, <2>4, <2>5, <2>6, <3>1 DEF r
  <2>7. CASE d \in S
    <3>1. r = Append(p, d)
      BY <2>7, <2>2
    <3>2. /\ DOMAIN r = 1..Len(p) + 1 /\ DOMAIN p = 1..Len(p) /\ Len(p) \in Nat
          /\ r[Len(p) + 1] = d /\ \A i \in 1..Len(p) : r[i] = p[i]
      <4> HIDE DEF p, r, d
      <4> QED
        BY <2>1, <2>2, <3>1
    <3>3. ToSet(r) = ToSet(p) \cup {d}
      <4> HIDE DEF p, r, d
      <4> QED
        BY <3>2 DEF ToSet
    <3>4. Once(q, N) /\ d \in N => d \notin ToSet(p)
      <4> SUFFICES ASSUME Once(q, N), d \in N, d \in Part(n) PROVE FALSE
        BY <2>4
      <4>1. PICK i \in 1..n : q[i] = d
        OBVIOUS
      <4>2. i \in DOMAIN q /\ i # n + 1
        BY <2>1
      <4> QED
        BY <2>1, <4>1, <4>2 DEF Once
    <3>5. Once(q, N) => Once(r, N)
      <4> HIDE DEF p, r, d
      <4> SUFFICES ASSUME Once(q, N), NEW i \in DOMAIN r, NEW j \in DOMAIN r, r[i] = r[j], r[i] \in N, i # j
                   PROVE  FALSE
        BY DEF Once
      <4>1. CASE i \in 1..Len(p) /\ j \in 1..Len(p)
        BY <2>5, <3>2, <4>1 DEF Once
      <4>2. CASE i = Len(p) + 1
        <5>1. j \in 1..Len(p) /\ p[j] = d /\ d \in N
          BY <3>2, <4>2
        <5> QED
          BY <3>2, <3>4, <5>1 DEF ToSet
      <4>3. CASE j = Len(p) + 1
        <5>1. i \in 1..Len(p) /\ p[i] = d /\ d \in N
          BY <3>2, <4>3
        <5> QED
          BY <3>2, <3>4, <5>1 DEF ToSet
      <4> QED
        BY <3>2, <4>1, <4>2, <4>3
    <3> HIDE DEF Part, p, r, d
    <3> QED
      BY <2>3, <2>4, <2>7, <3>3, <3>5 DEF r
  <2> QED
    BY <2>6, <2>7
<1>3. T = Nat
  <2> HIDE DEF Says
  <2>1. 0 \in T
    BY <1>1
  <2>2. ASSUME NEW n \in T PROVE n + 1 \in T
    BY <1>2
  <2>3. T \in SUBSET Nat
    OBVIOUS
  <2> HIDE DEF T
  <2> QED
    BY <2>1, <2>2, <2>3, Induction
<1>4. \A n \in 0..Len(q) : Says(n)
  <2> HIDE DEF Says
  <2> SUFFICES ASSUME NEW n \in 0..Len(q) PROVE Says(n)
    OBVIOUS
  <2>1. n \in T /\ n <= Len(q)
    BY <1>3
  <2> QED
    BY <2>1
<1> QED
  BY <1>4

\* Only keeps of a sequence exactly the elements in S, and repeats none.
LEMMA OnlyKeeps ==
    ASSUME NEW D, NEW q \in Seq(D), NEW S
    PROVE  /\ Only(q, S) \in Seq(D)
           /\ ToSet(Only(q, S)) = ToSet(q) \cap S
           /\ \A N : Once(q, N) => Once(Only(q, S), N)
<1>1. PICK g \in [0..Len(q) -> Seq(D)] :
          g[0] = <<>> /\ Filtering(q, S, g) /\ Only(q, S) = g[Len(q)]
  BY OnlyUnfolds
<1>2. Len(q) \in 0..Len(q)
  OBVIOUS
<1>3. \A N : /\ ToSet(g[Len(q)]) = {q[i] : i \in {j \in 1..Len(q) : q[j] \in S}}
             /\ Once(q, N) => Once(g[Len(q)], N)
  BY <1>1, <1>2, KeptUpto
<1>4. {q[i] : i \in {j \in 1..Len(q) : q[j] \in S}} = ToSet(q) \cap S
  BY DEF ToSet
<1> QED
  BY <1>1, <1>2, <1>3, <1>4

\* Only keeps the order: two elements of what it keeps are two of the sequence, as far apart.
LEMMA OnlyInOrder ==
    ASSUME NEW D, NEW q \in Seq(D), NEW S
    PROVE  \A i, j \in 1..Len(Only(q, S)) : i < j =>
              \E a, b \in 1..Len(q) : a < b /\ Only(q, S)[i] = q[a] /\ Only(q, S)[j] = q[b]
<1>1. PICK g \in [0..Len(q) -> Seq(D)] :
          g[0] = <<>> /\ Filtering(q, S, g) /\ Only(q, S) = g[Len(q)]
  BY OnlyUnfolds
<1> DEFINE From(p, n) == \A i \in 1..Len(p) : \E a \in 1..n : p[i] = q[a]
           InOrder(p, n) == \A i, j \in 1..Len(p) : i < j => \E a, b \in 1..n : a < b /\ p[i] = q[a] /\ p[j] = q[b]
           T == {n \in Nat : n <= Len(q) => From(g[n], n) /\ InOrder(g[n], n)}
<1>2. 0 \in T
  BY <1>1
<1>3. ASSUME NEW n \in T PROVE n + 1 \in T
  <2> SUFFICES ASSUME n + 1 <= Len(q) PROVE From(g[n + 1], n + 1) /\ InOrder(g[n + 1], n + 1)
    <3> HIDE DEF From, InOrder
    <3> QED
      OBVIOUS
  <2> DEFINE d == q[n + 1]  p == g[n]  r == g[n + 1]
  <2>1. n \in 0..Len(q) /\ n + 1 \in 1..Len(q) /\ d \in D /\ From(p, n) /\ InOrder(p, n)
    OBVIOUS
  <2>2. p \in Seq(D) /\ r = IF d \in S THEN Append(p, d) ELSE p
    BY <1>1, <2>1 DEF Filtering, Step
  <2>3. \A a \in 1..n : a \in 1..n + 1 /\ a < n + 1
    OBVIOUS
  <2>4. CASE d \notin S
    <3>1. r = p
      BY <2>2, <2>4
    <3> HIDE DEF p, r, d
    <3>2. From(p, n + 1)
      BY <2>1, <2>3
    <3>3. InOrder(p, n + 1)
      BY <2>1, <2>3
    <3> HIDE DEF From, InOrder
    <3>4. QED
      BY <3>1, <3>2, <3>3 DEF r
  <2>5. CASE d \in S
    <3>1. r = Append(p, d)
      BY <2>2, <2>5
    <3> HIDE DEF p, r
    <3>2. /\ Len(p) \in Nat /\ Len(r) = Len(p) + 1 /\ r[Len(p) + 1] = d
          /\ \A i \in 1..Len(r) : i = Len(p) + 1 \/ (i \in 1..Len(p) /\ r[i] = p[i])
      BY <2>1, <2>2, <3>1
    <3>3. n + 1 \in 1..n + 1
      BY <2>1
    <3>4. From(r, n + 1)
      <4> SUFFICES ASSUME NEW i \in 1..Len(r) PROVE \E a \in 1..n + 1 : r[i] = q[a]
        OBVIOUS
      <4>1. CASE i = Len(p) + 1
        BY <3>2, <3>3, <4>1 DEF d
      <4>2. CASE i \in 1..Len(p) /\ r[i] = p[i]
        BY <2>1, <2>3, <4>2
      <4>3. QED
        BY <3>2, <4>1, <4>2
    <3>5. ASSUME NEW i \in 1..Len(r), NEW j \in 1..Len(r), i < j
          PROVE  \E a, b \in 1..n + 1 : a < b /\ r[i] = q[a] /\ r[j] = q[b]
      <4>1. i \in 1..Len(p) /\ r[i] = p[i]
        BY <3>2, <3>5
      <4>2. CASE j \in 1..Len(p) /\ r[j] = p[j]
        BY <2>1, <2>3, <3>5, <4>1, <4>2
      <4>3. CASE j = Len(p) + 1
        <5>1. PICK a \in 1..n : p[i] = q[a]
          BY <2>1, <4>1
        <5>2. r[j] = q[n + 1] /\ r[i] = q[a] /\ a < n + 1 /\ a \in 1..n + 1
          BY <2>3, <3>2, <4>1, <4>3, <5>1
        <5>3. QED
          BY <3>3, <5>2
      <4>4. QED
        BY <3>2, <4>2, <4>3
    <3>6. InOrder(r, n + 1)
      BY <3>5
    <3> HIDE DEF From, InOrder
    <3>7. QED
      BY <3>4, <3>6 DEF r
  <2>6. QED
    BY <2>4, <2>5
<1>4. T = Nat
  <2>1. T \in SUBSET Nat
    OBVIOUS
  <2> HIDE DEF T
  <2>2. QED
    BY <1>2, <1>3, <2>1, Induction
<1>5. Len(q) \in T
  <2> HIDE DEF T
  <2>1. QED
    BY <1>4
<1>6. InOrder(g[Len(q)], Len(q))
  BY <1>5
<1>7. QED
  BY <1>1, <1>6

\* One more element is kept at the end, or left out.
LEMMA OnlyAppended ==
    ASSUME NEW D, NEW q \in Seq(D), NEW d \in D, NEW S
    PROVE  Only(Append(q, d), S) = IF d \in S THEN Append(Only(q, S), d) ELSE Only(q, S)
<1> DEFINE r == Append(q, d)  n == Len(q)
<1>1. r \in Seq(D) /\ n \in Nat /\ Len(r) = n + 1 /\ r[n + 1] = d /\ \A i \in 1..n : r[i] = q[i]
  OBVIOUS
<1> HIDE DEF r
<1>2. PICK g \in [0..Len(q) -> Seq(D)] : g[0] = <<>> /\ Filtering(q, S, g) /\ Only(q, S) = g[Len(q)]
  BY OnlyUnfolds
<1>3. PICK h \in [0..Len(r) -> Seq(D)] : h[0] = <<>> /\ Filtering(r, S, h) /\ Only(r, S) = h[Len(r)]
  BY <1>1, OnlyUnfolds
<1> DEFINE T == {i \in Nat : i <= n => h[i] = g[i]}
<1>4. T = Nat
  <2>1. 0 \in T
    BY <1>2, <1>3
  <2>2. ASSUME NEW i \in T PROVE i + 1 \in T
    <3> SUFFICES ASSUME i + 1 <= n PROVE h[i + 1] = g[i + 1]
      OBVIOUS
    <3>1. i + 1 \in 1..Len(q) /\ i + 1 \in 1..Len(r) /\ (i + 1) - 1 = i /\ h[i] = g[i] /\ r[i + 1] = q[i + 1]
      BY <1>1
    <3>2. g[i + 1] = Step(q, S, i + 1, g[i]) /\ h[i + 1] = Step(r, S, i + 1, h[i])
      BY <1>2, <1>3, <3>1 DEF Filtering
    <3>3. QED
      BY <3>1, <3>2 DEF Step
  <2>3. T \in SUBSET Nat
    OBVIOUS
  <2> HIDE DEF T
  <2>4. QED
    BY <2>1, <2>2, <2>3, Induction
<1>5. h[n] = g[n]
  <2>1. n \in T
    BY <1>1, <1>4
  <2>2. QED
    BY <2>1
<1>6. n + 1 \in 1..Len(r) /\ (n + 1) - 1 = n
  BY <1>1
<1>7. h[n + 1] = Step(r, S, n + 1, h[n])
  BY <1>3, <1>6 DEF Filtering
<1>8. QED
  BY <1>1, <1>2, <1>3, <1>5, <1>7 DEF Step, r

-----------------------------------------------------------------------------
\* The elements of a sequence when one more is appended.
LEMMA AppendMembers ==
    ASSUME NEW D, NEW q \in Seq(D), NEW d \in D
    PROVE  /\ Append(q, d) \in Seq(D)
           /\ ToSet(Append(q, d)) = ToSet(q) \cup {d}
           /\ \A N : Once(q, N) /\ (d \in N => d \notin ToSet(q)) => Once(Append(q, d), N)
<1> DEFINE r == Append(q, d)
<1>1. /\ DOMAIN r = 1..Len(q) + 1 /\ DOMAIN q = 1..Len(q) /\ Len(q) \in Nat
      /\ r[Len(q) + 1] = d /\ \A i \in 1..Len(q) : r[i] = q[i]
      /\ r \in Seq(D)
  OBVIOUS
<1> HIDE DEF r
<1>2. ToSet(r) = ToSet(q) \cup {d}
  BY <1>1 DEF ToSet
<1>3. ASSUME NEW N, Once(q, N), d \in N => d \notin ToSet(q) PROVE Once(r, N)
  <2> SUFFICES ASSUME NEW i \in DOMAIN r, NEW j \in DOMAIN r, r[i] = r[j], r[i] \in N, i # j
               PROVE  FALSE
    BY DEF Once
  <2>1. CASE i \in 1..Len(q) /\ j \in 1..Len(q)
    BY <1>1, <1>3, <2>1 DEF Once
  <2>2. CASE i = Len(q) + 1
    <3>1. j \in 1..Len(q) /\ q[j] = d /\ d \in N
      BY <1>1, <2>2
    <3> QED
      BY <1>1, <1>3, <3>1 DEF ToSet
  <2>3. CASE j = Len(q) + 1
    <3>1. i \in 1..Len(q) /\ q[i] = d /\ d \in N
      BY <1>1, <2>3
    <3> QED
      BY <1>1, <1>3, <3>1 DEF ToSet
  <2> QED
    BY <1>1, <2>1, <2>2, <2>3
<1> QED
  BY <1>1, <1>2, <1>3 DEF r

\* The elements of a sequence, the first of them and the others.
LEMMA HeadMembers ==
    ASSUME NEW D, NEW q \in Seq(D), q # <<>>
    PROVE  /\ Head(q) \in D /\ Tail(q) \in Seq(D)
           /\ ToSet(q) = {Head(q)} \cup ToSet(Tail(q))
           /\ \A N : Once(q, N) => /\ Once(Tail(q), N)
                                   /\ Head(q) \in N => Head(q) \notin ToSet(Tail(q))
<1> DEFINE t == Tail(q)
<1>1. /\ DOMAIN q = 1..Len(q) /\ Len(q) \in Nat \ {0} /\ Len(t) = Len(q) - 1
      /\ DOMAIN t = 1..Len(q) - 1 /\ \A i \in 1..Len(q) - 1 : t[i] = q[i + 1]
      /\ Head(q) = q[1] /\ t \in Seq(D) /\ q[1] \in D
  OBVIOUS
<1> HIDE DEF t
<1>2. ToSet(q) = {q[1]} \cup ToSet(t)
  <2>1. ASSUME NEW i \in DOMAIN q PROVE q[i] = q[1] \/ q[i] \in ToSet(t)
    <3>1. CASE i = 1
      BY <3>1
    <3>2. CASE i # 1
      <4>1. i - 1 \in DOMAIN t /\ t[i - 1] = q[i]
        BY <1>1, <3>2
      <4> QED
        BY <4>1 DEF ToSet
    <3> QED
      BY <3>1, <3>2
  <2>2. ASSUME NEW i \in DOMAIN t PROVE t[i] \in ToSet(q)
    <3>1. i + 1 \in DOMAIN q /\ q[i + 1] = t[i]
      BY <1>1
    <3> QED
      BY <3>1 DEF ToSet
  <2>3. q[1] \in ToSet(q)
    BY <1>1 DEF ToSet
  <2> QED
    BY <2>1, <2>2, <2>3 DEF ToSet
<1>3. ASSUME NEW N, Once(q, N) PROVE Once(t, N)
  <2> SUFFICES ASSUME NEW i \in DOMAIN t, NEW j \in DOMAIN t, t[i] = t[j], t[i] \in N PROVE i = j
    BY DEF Once
  <2>1. i + 1 \in DOMAIN q /\ j + 1 \in DOMAIN q /\ q[i + 1] = t[i] /\ q[j + 1] = t[j]
    BY <1>1
  <2>2. i + 1 = j + 1
    BY <1>3, <2>1 DEF Once
  <2> QED
    BY <1>1, <2>2
<1>4. ASSUME NEW N, Once(q, N), q[1] \in N, q[1] \in ToSet(t) PROVE FALSE
  <2>1. PICK i \in DOMAIN t : t[i] = q[1]
    BY <1>4 DEF ToSet
  <2>2. i + 1 \in DOMAIN q /\ q[i + 1] = q[1] /\ 1 \in DOMAIN q /\ i + 1 # 1
    BY <1>1, <2>1
  <2> QED
    BY <1>4, <2>2 DEF Once
<1> QED
  BY <1>1, <1>2, <1>3, <1>4 DEF t

\* A sequence that has each of 1..n, and none twice, has n elements.
LEMMA OnceLength ==
    ASSUME NEW n \in Nat, NEW q \in Seq(1..n), ToSet(q) = 1..n, Once(q, 1..n)
    PROVE  Len(q) = n
<1>1. Len(q) \in Nat /\ DOMAIN q = 1..Len(q) /\ q \in [1..Len(q) -> 1..n]
  OBVIOUS
<1>2. q \in Injection(1..Len(q), 1..n)
  BY <1>1 DEF Injection, IsInjective, Once
<1>3. q \in Surjection(1..Len(q), 1..n)
  BY <1>1 DEF Surjection, ToSet
<1>4. ExistsBijection(1..Len(q), 1..n)
  BY <1>2, <1>3 DEF ExistsBijection, Bijection
<1>5. Cardinality(1..n) = Len(q)
  BY <1>1, <1>4, FS_CountingElements
<1>6. 1 \in Int /\ n \in Int
  OBVIOUS
<1>7. Cardinality(1..n) = IF 1 > n THEN 0 ELSE n - 1 + 1
  BY <1>6, FS_Interval
<1> DEFINE c == Cardinality(1..n)
<1>8. c = n
  BY <1>7
<1> HIDE DEF c
<1> QED
  BY <1>5, <1>8 DEF c

-----------------------------------------------------------------------------
\* Applying a function to the members of a finite set gives a finite set.
LEMMA ImageFinite ==
    ASSUME NEW S, IsFiniteSet(S), NEW f, DOMAIN f = S
    PROVE  /\ IsFiniteSet({f[x] : x \in S})
           /\ Cardinality({f[x] : x \in S}) <= Cardinality(S)
<1> DEFINE T == {f[x] : x \in S}
<1>1. [x \in S |-> f[x]] \in Surjection(S, T)
  BY DEF Surjection, Range
<1>2. QED
  BY <1>1, FS_Surjection

\* There is always a number no request under way has.
LEMMA FreshIsNew ==
    ASSUME NEW rs, IsFiniteSet(rs)
    PROVE  FreshNumber(rs) \in Nat /\ \A r \in rs : r.n # FreshNumber(rs)
<1> DEFINE Free == {n \in 0..Cardinality(rs) : \A r \in rs : r.n # n}
           number == [r \in rs |-> r.n]
           Used == {number[r] : r \in rs}
<1>1. Cardinality(rs) \in Nat
  BY FS_CardinalityType
<1>2. Free # {}
  <2> SUFFICES ASSUME Free = {} PROVE FALSE
    OBVIOUS
  <2>1. 0..Cardinality(rs) \subseteq Used
    OBVIOUS
  <2>2. IsFiniteSet(Used) /\ Cardinality(Used) <= Cardinality(rs)
    BY ImageFinite
  <2>3. Cardinality(0..Cardinality(rs)) = Cardinality(rs) + 1
    BY <1>1, FS_Interval
  <2>4. Cardinality(0..Cardinality(rs)) <= Cardinality(Used) /\ Cardinality(Used) \in Nat
    <3> HIDE DEF Used
    <3> QED
      BY <2>1, <2>2, FS_Subset, FS_CardinalityType
  <2>5. QED
    BY <1>1, <2>2, <2>3, <2>4
<1>3. QED
  BY <1>1, <1>2 DEF FreshNumber

=============================================================================
