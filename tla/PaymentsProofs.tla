--------------------------- MODULE PaymentsProofs ---------------------------
(***************************************************************************)
(* Proofs about Amounts, Iban and Payments, for any inputs and limits: the *)
(* currencies that are accepted, the amount they read, the fields that     *)
(* errors name, payloads that are always built, slips in account numbers   *)
(* that never go through, and amounts that, written anew, are read as      *)
(* themselves.                                                             *)
(*                                                                         *)
(* A fold, or a recursive function, is what it does step by step: it is    *)
(* the last value of a run over the initial segments of its argument       *)
(* (FoldRuns), and induction along them is the well-foundedness of the     *)
(* naturals.                                                               *)
(***************************************************************************)
EXTENDS Payments, FiniteSetTheorems, SequenceTheorems, TLAPS

-----------------------------------------------------------------------------
(* Induction, and the folds of the model step by step.                      *)

LEMMA LeastNatural ==
  ASSUME NEW T \in SUBSET Nat, T # {}
  PROVE  \E m \in T : \A k \in T : m <= k
<1> DEFINE upTo(n) == 0..n
           I == {upTo(n) : n \in T}
<1>1. IsWellFoundedOn(StrictSubsetOrdering(Nat), FiniteSubsetsOf(Nat))
  BY FS_StrictSubsetOrderingWellFounded
<1>2. I \subseteq FiniteSubsetsOf(Nat) /\ I # {}
  <2>1. ASSUME NEW n \in T PROVE upTo(n) \in FiniteSubsetsOf(Nat)
    <3>1. 0 \in Int /\ n \in Int
      OBVIOUS
    <3>2. IsFiniteSet(0..n)
      BY <3>1, FS_Interval, Zenon
    <3> QED BY <3>2 DEF FiniteSubsetsOf
  <2> QED BY <2>1
<1>3. PICK x \in I : \A y \in I : ~(<<y, x>> \in StrictSubsetOrdering(Nat))
  <2> HIDE DEF I
  <2> QED BY <1>1, <1>2, WFMin
<1>4. PICK m \in T : x = upTo(m)
  OBVIOUS
<1>5. ASSUME NEW k \in T, k < m PROVE FALSE
  <2>1. /\ upTo(k) \in I /\ upTo(k) \subseteq Nat /\ upTo(m) \subseteq Nat
        /\ upTo(k) \subseteq upTo(m) /\ upTo(k) # upTo(m)
    <3>1. m \in upTo(m) /\ m \notin upTo(k)
      BY <1>5
    <3> QED BY <1>5, <3>1
  <2>2. <<upTo(k), upTo(m)>> \in StrictSubsetOrdering(Nat)
    <3> HIDE DEF upTo
    <3> QED BY <2>1 DEF StrictSubsetOrdering
  <2> QED BY <2>1, <2>2, <1>3, <1>4
<1> QED BY <1>5

\* A property of the numbers up to n, given as the set of those that have it.
LEMMA Induction ==
  ASSUME NEW n \in Nat, NEW T, 0 \in T,
         \A k \in 1..n : k - 1 \in T => k \in T
  PROVE  0..n \subseteq T
<1> DEFINE bad == (0..n) \ T
<1>1. ASSUME bad # {} PROVE FALSE
  <2>1. bad \in SUBSET Nat
    OBVIOUS
  <2>2. PICK m \in bad : \A k \in bad : m <= k
    <3> HIDE DEF bad
    <3> QED BY <1>1, <2>1, LeastNatural
  <2>3. m \in 1..n /\ m - 1 \in 0..n
    BY <2>2
  <2>4. m - 1 \in T
    BY <2>2, <2>3
  <2> QED BY <2>2, <2>3, <2>4
<1> QED BY <1>1

LEMMA MaxIsIn ==
  ASSUME NEW n \in Nat, NEW s \in SUBSET (1..n), s # {}
  PROVE  Max(s) \in s /\ \A j \in s : Max(s) >= j
<1> DEFINE below(i) == n - i
           T == {below(i) : i \in s}
<1>1. T \in SUBSET Nat /\ T # {}
  <2>1. \A i \in s : n - i \in Nat
    OBVIOUS
  <2> QED BY <2>1
<1>2. PICK m \in T : \A k \in T : m <= k
  <2> HIDE DEF T
  <2> QED BY <1>1, LeastNatural
<1>3. PICK i \in s : m = below(i)
  OBVIOUS
<1>4. \A j \in s : i >= j
  <2> SUFFICES ASSUME NEW j \in s PROVE i >= j
    OBVIOUS
  <2>1. below(j) \in T
    OBVIOUS
  <2> HIDE DEF T
  <2> QED BY <1>2, <1>3, <2>1
<1> QED BY <1>4 DEF Max

LEMMA MaxOfInterval ==
  ASSUME NEW n \in Nat, NEW s \in SUBSET (1..n), n \in s
  PROVE  Max(s) = n
<1> DEFINE m == Max(s)
<1>1. \E x \in s : \A y \in s : x >= y
  <2>1. \A y \in s : n >= y
    OBVIOUS
  <2> QED BY <2>1
<1>2. m \in s /\ m >= n
  <2>1. m = CHOOSE x \in s : \A y \in s : x >= y
    BY DEF Max
  <2> HIDE DEF m
  <2> QED BY <1>1, <2>1
<1> HIDE DEF m
<1>3. m \in 1..n
  BY <1>2
<1> QED BY <1>2, <1>3 DEF m

\* What a fold over 1..n means: d takes the value so far and the next number.
IsFold(g, base, d, n) ==
  g = [s \in SUBSET (1..n) |-> IF s = {} THEN base ELSE d[<<g[s \ {Max(s)}], Max(s)>>]]

LEMMA FoldExists ==
  ASSUME NEW n \in Nat, NEW V, NEW base \in V, NEW d \in [V \X (1..n) -> V]
  PROVE  \E g \in [SUBSET (1..n) -> V] : IsFold(g, base, d, n)
<1> DEFINE Value(g, s) == IF s = {} THEN base ELSE d[<<g[s \ {Max(s)}], Max(s)>>]
           Folds(g, k) == g \in [SUBSET (1..k) -> V]
                          /\ \A s \in SUBSET (1..k) : g[s] = Value(g, s)
           T == {k \in 0..n : \E g : Folds(g, k)}
<1>1. 0 \in T
  <2>1. SUBSET (1..0) = {{}}
    OBVIOUS
  <2>2. Folds([s \in {{}} |-> base], 0)
    BY <2>1
  <2> HIDE DEF Folds
  <2> QED BY <2>2
<1>2. ASSUME NEW k \in 1..n, k - 1 \in T PROVE k \in T
  <2>1. PICK g : Folds(g, k - 1)
    BY <1>2
  <2> DEFINE h == [s \in SUBSET (1..k) |->
                     IF k \in s THEN d[<<g[s \ {k}], k>>] ELSE g[s]]
  <2>2. ASSUME NEW s \in SUBSET (1..k), k \notin s
        PROVE  s \in SUBSET (1..(k - 1)) /\ h[s] = g[s]
    BY <2>2
  <2>3. ASSUME NEW s \in SUBSET (1..k)
        PROVE  h[s] \in V /\ h[s] = Value(h, s)
    <3>1. CASE k \in s
      <4>1. Max(s) = k /\ k \notin s \ {k} /\ s \ {k} \in SUBSET (1..k)
        BY <3>1, MaxOfInterval
      <4>2. s \ {k} \in SUBSET (1..(k - 1)) /\ h[s \ {k}] = g[s \ {k}]
        BY <2>2, <4>1
      <4>3. g[s \ {k}] \in V
        BY <2>1, <4>2
      <4>4. h[s] = d[<<g[s \ {k}], k>>] /\ h[s] \in V
        BY <3>1, <4>3
      <4> QED BY <3>1, <4>1, <4>2, <4>4
    <3>2. CASE k \notin s
      <4>1. s \in SUBSET (1..(k - 1)) /\ h[s] = g[s]
        BY <2>2, <3>2
      <4>2. h[s \ {Max(s)}] = g[s \ {Max(s)}]
        BY <2>2, <3>2
      <4>3. g[s] \in V /\ g[s] = Value(g, s)
        BY <2>1, <4>1
      <4> HIDE DEF h
      <4> QED BY <4>1, <4>2, <4>3
    <3> QED BY <3>1, <3>2
  <2>4. h \in [SUBSET (1..k) -> V]
    BY <2>3
  <2>5. Folds(h, k)
    <3> HIDE DEF h, Value
    <3> QED BY <2>3, <2>4
  <2> HIDE DEF Folds
  <2> QED BY <2>5
<1>3. n \in T
  <2> HIDE DEF T
  <2> QED BY <1>1, <1>2, Induction
<1>4. PICK g : Folds(g, n)
  BY <1>3
<1>5. g = [s \in SUBSET (1..n) |-> Value(g, s)]
  <2> HIDE DEF Value
  <2> QED BY <1>4
<1> QED BY <1>4, <1>5 DEF IsFold

LEMMA Initial ==
  ASSUME NEW n \in Nat, NEW k \in 1..n
  PROVE  /\ 1..k \in SUBSET (1..n) /\ 1..k # {} /\ Max(1..k) = k
         /\ (1..k) \ {k} = 1..(k - 1)
<1>1. 1..k \in SUBSET (1..k) /\ k \in 1..k /\ k \in Nat
  OBVIOUS
<1>2. Max(1..k) = k
  BY <1>1, MaxOfInterval
<1> QED BY <1>2

-----------------------------------------------------------------------------
(* At.                                                                      *)

\* The symbols kept of the first k.
Keeps(run, t, K) ==
  /\ run[0] = <<>>
  /\ \A k \in 1..Len(t) : run[k] = IF k \in K THEN Append(run[k - 1], t[k]) ELSE run[k - 1]

LEMMA AtRuns ==
  ASSUME NEW S, NEW t \in Seq(S), NEW K
  PROVE  \E run \in [0..Len(t) -> Seq(S)] : Keeps(run, t, K) /\ At(t, K) = run[Len(t)]
<1> DEFINE n == Len(t)
           V == Seq(S)
           place == [i \in DOMAIN t |-> i]
           Value(g, s) == IF s = {} THEN <<>>
                          ELSE IF place[Max(s)] \in K THEN Append(g[s \ {Max(s)}], t[place[Max(s)]])
                               ELSE g[s \ {Max(s)}]
           d == [p \in V \X (1..n) |-> IF p[2] \in K THEN Append(p[1], t[p[2]]) ELSE p[1]]
           fold == CHOOSE g : g = [s \in SUBSET DOMAIN place |-> Value(g, s)]
<1>1. n \in Nat /\ DOMAIN t = 1..n /\ \A i \in 1..n : t[i] \in S
  BY LenProperties, ElementOfSeq
<1>2. At(t, K) = fold[DOMAIN place]
  BY DEF At, FoldLeftDomain, FoldLeft, MapThenFoldSet
<1>3. d \in [V \X (1..n) -> V]
  <2>1. ASSUME NEW p \in V \X (1..n) PROVE d[p] \in V
    <3>1. p[1] \in Seq(S) /\ t[p[2]] \in S
      BY <1>1
    <3>2. Append(p[1], t[p[2]]) \in Seq(S)
      BY <3>1, AppendProperties
    <3> QED BY <3>1, <3>2
  <2> QED BY <2>1
<1>4. DOMAIN place = 1..n /\ \A i \in 1..n : place[i] = i
  BY <1>1
<1>5. PICK h \in [SUBSET (1..n) -> V] : IsFold(h, <<>>, d, n)
  <2>1. <<>> \in V
    OBVIOUS
  <2> HIDE DEF d, V
  <2> QED BY <1>1, <1>3, <2>1, FoldExists
<1>6. h = [s \in SUBSET DOMAIN place |-> Value(h, s)]
  <2>1. ASSUME NEW s \in SUBSET (1..n) PROVE h[s] = Value(h, s)
    <3>1. CASE s = {}
      BY <1>5, <3>1 DEF IsFold
    <3>2. CASE s # {}
      <4>1. h[s] = d[<<h[s \ {Max(s)}], Max(s)>>]
        BY <1>5, <3>2 DEF IsFold
      <4>2. Max(s) \in s
        BY <1>1, <3>2, MaxIsIn
      <4>3. h[s \ {Max(s)}] \in V /\ Max(s) \in 1..n
        BY <1>5, <4>2
      <4>4. place[Max(s)] = Max(s)
        BY <1>4, <4>3
      <4> HIDE DEF place, V
      <4> QED BY <3>2, <4>1, <4>3, <4>4
    <3> QED BY <3>1, <3>2
  <2> HIDE DEF Value, place
  <2> QED BY <1>4, <1>5, <2>1
<1>7. fold = [s \in SUBSET (1..n) |-> Value(fold, s)]
  <2> HIDE DEF Value, place
  <2> QED BY <1>4, <1>6
<1> DEFINE run == [k \in 0..n |-> fold[1..k]]
<1> HIDE DEF fold
<1>8. run[0] = <<>>
  <2>1. 1..0 = {} /\ 0 \in 0..n
    BY <1>1
  <2> QED BY <1>7, <2>1
<1>9. ASSUME NEW k \in 1..n
      PROVE  run[k] = IF k \in K THEN Append(run[k - 1], t[k]) ELSE run[k - 1]
  <2>1. 1..k \in SUBSET (1..n) /\ 1..k # {} /\ Max(1..k) = k /\ (1..k) \ {k} = 1..(k - 1)
    BY <1>1, Initial
  <2>2. fold[1..k] = Value(fold, 1..k)
    <3> HIDE DEF Value
    <3> QED BY <1>7, <2>1
  <2>3. place[k] = k
    BY <1>4
  <2> HIDE DEF place
  <2>4. fold[1..k] = IF k \in K THEN Append(fold[1..(k - 1)], t[k]) ELSE fold[1..(k - 1)]
    BY <2>1, <2>2, <2>3
  <2>5. run[k] = fold[1..k] /\ run[k - 1] = fold[1..(k - 1)]
    BY <1>1
  <2> HIDE DEF run
  <2> QED BY <2>4, <2>5
<1>10. \A k \in 0..n : run[k] \in Seq(S)
  <2> DEFINE T == {k \in 0..n : run[k] \in Seq(S)}
  <2> HIDE DEF run, V
  <2>1. 0 \in T
    <3>1. run[0] \in Seq(S) /\ 0 \in 0..n
      BY <1>1, <1>8
    <3> QED BY <3>1
  <2>2. ASSUME NEW k \in 1..n, k - 1 \in T PROVE k \in T
    <3>1. run[k - 1] \in Seq(S) /\ t[k] \in S
      BY <1>1, <2>2
    <3>2. Append(run[k - 1], t[k]) \in Seq(S)
      BY <3>1, AppendProperties
    <3>3. run[k] \in {Append(run[k - 1], t[k]), run[k - 1]}
      BY <1>9
    <3>4. run[k] \in Seq(S)
      BY <3>1, <3>2, <3>3
    <3>5. k \in 0..n
      BY <1>1
    <3> QED BY <3>4, <3>5
  <2>3. 0..n \subseteq T
    <3> HIDE DEF T
    <3> QED BY <1>1, <2>1, <2>2, Induction
  <2> QED BY <2>3
<1>11. At(t, K) = run[n]
  BY <1>1, <1>2, <1>4
<1>12. run \in [0..n -> Seq(S)] /\ Keeps(run, t, K)
  <2>1. run \in [0..n -> Seq(S)]
    BY <1>10
  <2> HIDE DEF run
  <2> QED BY <1>8, <1>9, <2>1 DEF Keeps
<1> HIDE DEF run
<1> QED BY <1>11, <1>12

\* e gives the places of the symbols of s in t: those in K, in their order.
Places(e, s, t, K) ==
  /\ e \in [1..Len(s) -> K]
  /\ \A i, j \in 1..Len(s) : i < j => e[i] < e[j]
  /\ \A k \in K : \E i \in 1..Len(s) : e[i] = k
  /\ \A i \in 1..Len(s) : s[i] = t[e[i]]

LEMMA AtPlaces ==
  ASSUME NEW S, NEW t \in Seq(S), NEW K \in SUBSET DOMAIN t
  PROVE  At(t, K) \in Seq(S) /\ \E e : Places(e, At(t, K), t, K)
<1> DEFINE n == Len(t)
<1>1. n \in Nat /\ DOMAIN t = 1..n /\ \A i \in 1..n : t[i] \in S
  BY LenProperties, ElementOfSeq
<1>2. PICK run \in [0..n -> Seq(S)] : Keeps(run, t, K) /\ At(t, K) = run[n]
  BY AtRuns
<1> DEFINE upTo(k) == K \cap (1..k)
           T == {k \in 0..n : \E e : Places(e, run[k], t, upTo(k))}
<1>3. 0 \in T
  <2>1. upTo(0) = {} /\ run[0] = <<>> /\ 0 \in 0..n
    BY <1>1, <1>2 DEF Keeps
  <2>2. Places(<<>>, <<>>, t, {})
    BY DEF Places
  <2> QED BY <2>1, <2>2
<1>4. ASSUME NEW k \in 1..n, k - 1 \in T PROVE k \in T
  <2>1. PICK e : Places(e, run[k - 1], t, upTo(k - 1))
    BY <1>4
  <2> DEFINE r == run[k - 1]
             m == Len(r)
  <2>2. r \in Seq(S) /\ k \in 0..n /\ m \in Nat
    <3>1. k - 1 \in 0..n /\ k \in 0..n
      BY <1>1
    <3>2. r \in Seq(S)
      BY <1>2, <3>1
    <3> QED BY <3>1, <3>2, LenProperties
  <2>3. CASE k \notin K
    <3>1. upTo(k) = upTo(k - 1) /\ run[k] = run[k - 1]
      BY <1>2, <2>3 DEF Keeps
    <3> HIDE DEF upTo
    <3> QED BY <2>1, <2>2, <3>1
  <2>4. CASE k \in K
    <3> DEFINE f == [i \in 1..(m + 1) |-> IF i = m + 1 THEN k ELSE e[i]]
    <3>1. run[k] = Append(r, t[k]) /\ t[k] \in S
      BY <1>1, <1>2, <2>4 DEF Keeps
    <3>2. /\ Len(run[k]) = m + 1
          /\ \A i \in 1..(m + 1) : run[k][i] = IF i = m + 1 THEN t[k] ELSE r[i]
      <4>1. Len(Append(r, t[k])) = m + 1
        BY <2>2, <3>1, AppendProperties
      <4>2. \A i \in 1..(m + 1) : Append(r, t[k])[i] = IF i = m + 1 THEN t[k] ELSE r[i]
        <5> SUFFICES ASSUME NEW i \in 1..(m + 1)
                     PROVE  Append(r, t[k])[i] = IF i = m + 1 THEN t[k] ELSE r[i]
          OBVIOUS
        <5> HIDE DEF r, m
        <5>1. i = m + 1 \/ i \in 1..m
          BY <2>2
        <5> QED BY <2>2, <3>1, <5>1, AppendProperties DEF m
      <4> QED BY <3>1, <4>1, <4>2
    <3>3. /\ e \in [1..m -> upTo(k - 1)]
          /\ \A i, j \in 1..m : i < j => e[i] < e[j]
          /\ \A a \in upTo(k - 1) : \E i \in 1..m : e[i] = a
          /\ \A i \in 1..m : r[i] = t[e[i]]
      BY <2>1 DEF Places
    <3>4. upTo(k) = upTo(k - 1) \cup {k} /\ \A a \in upTo(k - 1) : a < k /\ a \in Int
      BY <2>4
    <3> HIDE DEF r, m, upTo
    <3>5. f \in [1..(m + 1) -> upTo(k)]
      BY <2>2, <3>3, <3>4
    <3>6. ASSUME NEW i \in 1..(m + 1), NEW j \in 1..(m + 1), i < j PROVE f[i] < f[j]
      <4>1. i \in 1..m /\ f[i] = e[i]
        BY <2>2, <3>6
      <4>2. CASE j = m + 1
        BY <3>3, <3>4, <4>1, <4>2
      <4>3. CASE j # m + 1
        <5>1. j \in 1..m /\ f[j] = e[j]
          BY <2>2, <4>3
        <5> HIDE DEF f
        <5> QED BY <3>3, <3>6, <4>1, <5>1
      <4> QED BY <4>2, <4>3
    <3>7. ASSUME NEW a \in upTo(k) PROVE \E i \in 1..(m + 1) : f[i] = a
      <4>1. CASE a = k
        <5>1. m + 1 \in 1..(m + 1) /\ f[m + 1] = a
          BY <2>2, <4>1
        <5> QED BY <5>1
      <4>2. CASE a \in upTo(k - 1)
        <5>1. PICK i \in 1..m : e[i] = a
          BY <3>3, <4>2
        <5>2. i \in 1..(m + 1) /\ f[i] = a
          BY <2>2, <5>1
        <5> QED BY <5>2
      <4> QED BY <3>4, <4>1, <4>2
    <3>8. ASSUME NEW i \in 1..(m + 1) PROVE run[k][i] = t[f[i]]
      <4>1. CASE i = m + 1
        BY <3>2, <4>1
      <4>2. CASE i # m + 1
        <5>1. i \in 1..m /\ f[i] = e[i]
          BY <2>2, <4>2
        <5> QED BY <3>2, <3>3, <4>2, <5>1
      <4> QED BY <4>1, <4>2
    <3> HIDE DEF f
    <3>9. Places(f, run[k], t, upTo(k))
      BY <3>2, <3>5, <3>6, <3>7, <3>8 DEF Places
    <3> QED BY <2>2, <3>9
  <2> QED BY <2>3, <2>4
<1>5. n \in T
  <2> HIDE DEF T, n
  <2>1. 0..n \subseteq T
    BY <1>1, <1>3, <1>4, Induction
  <2> QED BY <1>1, <2>1
<1>6. upTo(n) = K
  BY <1>1
<1> HIDE DEF upTo
<1>7. \E e : Places(e, run[n], t, K)
  BY <1>5, <1>6
<1>8. run[n] \in Seq(S)
  BY <1>1, <1>2
<1> QED BY <1>2, <1>7, <1>8

\* What is kept holds the symbols at the places kept, and nothing else.
LEMMA AtHolds ==
  ASSUME NEW S, NEW t \in Seq(S), NEW K \in SUBSET DOMAIN t
  PROVE  /\ At(t, K) \in Seq(S) /\ Len(At(t, K)) \in Nat
         /\ DOMAIN At(t, K) = 1..Len(At(t, K))
         /\ \A i \in DOMAIN At(t, K) : \E k \in K : At(t, K)[i] = t[k]
         /\ \A k \in K : \E i \in DOMAIN At(t, K) : At(t, K)[i] = t[k]
         /\ At(t, K) = <<>> <=> K = {}
<1> DEFINE s == At(t, K)
<1>1. s \in Seq(S)
  BY AtPlaces
<1>2. PICK e : Places(e, s, t, K)
  BY AtPlaces
<1>3. Len(s) \in Nat /\ DOMAIN s = 1..Len(s)
  BY <1>1, LenProperties
<1>4. s = <<>> <=> Len(s) = 0
  BY <1>1, EmptySeq
<1> HIDE DEF s
<1>5. \A i \in 1..Len(s) : e[i] \in K /\ s[i] = t[e[i]]
  BY <1>2 DEF Places
<1>6. \A k \in K : \E i \in 1..Len(s) : e[i] = k
  BY <1>2 DEF Places
<1>7. \A k \in K : \E i \in 1..Len(s) : s[i] = t[k]
  BY <1>5, <1>6
<1>8. Len(s) = 0 <=> K = {}
  <2>1. ASSUME Len(s) = 0 PROVE K = {}
    <3>1. 1..Len(s) = {}
      BY <2>1
    <3> QED BY <1>6, <3>1
  <2>2. ASSUME K = {} PROVE Len(s) = 0
    <3> DEFINE m == Len(s)
    <3>1. 1 \notin 1..m
      BY <1>5, <2>2
    <3>2. m \in Nat
      BY <1>3
    <3> HIDE DEF m
    <3>3. m = 0
      BY <3>1, <3>2
    <3> QED BY <3>3 DEF m
  <2> QED BY <2>1, <2>2
<1> QED BY <1>1, <1>3, <1>4, <1>5, <1>7, <1>8 DEF s

-----------------------------------------------------------------------------
(* What an amount is read as.                                               *)

Texts == Seq(Symbol)

LEMMA SymbolFacts ==
  /\ Figure \cup Letter \cup Separators \subseteq Symbol
  /\ {" ", LineBreak, "BCD", "001", "SCT", "EUR", "GDDS"} \subseteq Symbol
  /\ "0" \in Figure
<1>1. Figures[1] = "0" /\ 1 \in DOMAIN Figures
  BY DEF Figures
<1> QED BY <1>1, PaymentsAssumption DEF Figure, ToSet

LEMMA InputFacts ==
  ASSUME NEW i \in Input
  PROVE  IsInput(i) /\ i.amount \in Texts /\ \A f \in FreeTexts : i[f] \in Texts
<1>1. IsInput(i)
  BY PaymentsAssumption, Zenon
<1>2. "amount" \in FreeTexts \cup {"iban", "amount"}
  BY Zenon
<1> QED BY <1>1, <1>2, Zenon DEF IsInput, Texts

LEMMA TextFacts ==
  ASSUME NEW t \in Texts
  PROVE  /\ Len(t) \in Nat /\ DOMAIN t = 1..Len(t) /\ \A i \in 1..Len(t) : t[i] \in Symbol
         /\ \A x : Holds(t, x) <=> \E i \in DOMAIN t : t[i] = x
<1>1. Len(t) \in Nat /\ DOMAIN t = 1..Len(t) /\ \A i \in 1..Len(t) : t[i] \in Symbol
  BY LenProperties, ElementOfSeq DEF Texts
<1> QED BY <1>1 DEF Holds, Contains

LEMMA AtText ==
  ASSUME NEW t \in Texts, NEW K \in SUBSET DOMAIN t
  PROVE  At(t, K) \in Texts /\ \A x : Holds(At(t, K), x) <=> \E k \in K : t[k] = x
<1> DEFINE s == At(t, K)
<1>1. /\ s \in Texts
      /\ \A i \in DOMAIN s : \E k \in K : s[i] = t[k]
      /\ \A k \in K : \E i \in DOMAIN s : s[i] = t[k]
  <2>1. t \in Seq(Symbol)
    BY DEF Texts
  <2>2. /\ s \in Seq(Symbol)
        /\ \A i \in DOMAIN s : \E k \in K : s[i] = t[k]
        /\ \A k \in K : \E i \in DOMAIN s : s[i] = t[k]
    BY <2>1, AtHolds
  <2> HIDE DEF s
  <2> QED BY <2>2 DEF Texts
<1> HIDE DEF s
<1>2. \A x : Holds(s, x) <=> \E i \in DOMAIN s : s[i] = x
  BY <1>1, TextFacts
<1> QED BY <1>1, <1>2 DEF s

\* A symbol whose places are kept is held as before.
LEMMA AtKeeps ==
  ASSUME NEW t \in Texts, NEW K \in SUBSET DOMAIN t, NEW x,
         \A i \in DOMAIN t : t[i] = x => i \in K
  PROVE  Holds(At(t, K), x) <=> Holds(t, x)
<1>1. Holds(At(t, K), x) <=> \E k \in K : t[k] = x
  BY AtText
<1>2. Holds(t, x) <=> \E i \in DOMAIN t : t[i] = x
  BY TextFacts
<1> QED BY <1>1, <1>2

LEMMA TrimSpacesKeeps ==
  ASSUME NEW t \in Texts
  PROVE  /\ TrimSpaces(t) \in Texts
         /\ \A x : x # " " => (Holds(TrimSpaces(t), x) <=> Holds(t, x))
<1> DEFINE inked(i) == t[i] # " "
           K == {i \in DOMAIN t : \E j, k \in DOMAIN t : j <= i /\ i <= k /\ inked(j) /\ inked(k)}
<1>1. TrimSpaces(t) = At(t, K) /\ K \in SUBSET DOMAIN t
  BY DEF TrimSpaces
<1>2. ASSUME NEW x, x # " " PROVE \A i \in DOMAIN t : t[i] = x => inked(i)
  BY <1>2
<1> HIDE DEF inked
<1>3. \A i \in DOMAIN t : inked(i) => i \in K
  <2>1. \A i \in DOMAIN t : i <= i
    BY TextFacts
  <2> QED BY <2>1
<1> HIDE DEF K
<1>4. TrimSpaces(t) \in Texts
  BY <1>1, AtText
<1>5. ASSUME NEW x, x # " " PROVE Holds(TrimSpaces(t), x) <=> Holds(t, x)
  <2>1. \A i \in DOMAIN t : t[i] = x => i \in K
    BY <1>2, <1>3, <1>5, Zenon
  <2>2. Holds(At(t, K), x) <=> Holds(t, x)
    BY <1>1, <2>1, AtKeeps, Zenon
  <2> QED BY <1>1, <2>2, Zenon
<1> QED BY <1>4, <1>5, Zenon

LEMMA SqueezeKeeps ==
  ASSUME NEW t \in Texts
  PROVE  /\ Squeeze(t) \in Texts
         /\ \A x : x # " " => (Holds(Squeeze(t), x) <=> Holds(t, x))
<1> DEFINE K == {i \in DOMAIN t : \/ t[i] # " "
                                  \/ /\ i > 1 /\ t[i - 1] # " "
                                     /\ \E j \in i..Len(t) : t[j] # " "}
<1>1. \A i \in DOMAIN t : t[i] # " " => i \in K
  OBVIOUS
<1>2. K \in SUBSET DOMAIN t
  OBVIOUS
<1>3. Squeeze(t) = At(t, K)
  BY DEF Squeeze
<1> HIDE DEF K
<1>4. Squeeze(t) \in Texts
  BY <1>2, <1>3, AtText
<1>5. ASSUME NEW x, x # " " PROVE Holds(Squeeze(t), x) <=> Holds(t, x)
  BY <1>1, <1>2, <1>3, <1>5, AtKeeps
<1> QED BY <1>4, <1>5

LEMMA UnmarkedKeeps ==
  ASSUME NEW t \in Texts
  PROVE  Unmarked(t) \in Texts /\ (Holds(t, "GBP") => Holds(Unmarked(t), "GBP"))
<1> DEFINE K == {i \in DOMAIN t : ~IsMark(t, i)}
<1>1. \A i \in DOMAIN t : t[i] = "GBP" => i \in K
  BY DEF IsMark
<1>2. K \in SUBSET DOMAIN t /\ Unmarked(t) = Squeeze(At(t, K))
  BY DEF Unmarked
<1> HIDE DEF K
<1>3. At(t, K) \in Texts /\ (Holds(t, "GBP") => Holds(At(t, K), "GBP"))
  BY <1>1, <1>2, AtText, AtKeeps
<1> QED BY <1>2, <1>3, SqueezeKeeps

LEMMA MapOCRKeeps ==
  ASSUME NEW t \in Texts
  PROVE  /\ MapOCR(t) \in Texts
         /\ \A x \in {"EUR", "USD", "GBP"} : Holds(MapOCR(t), x) <=> Holds(t, x)
<1> DEFINE m == MapOCR(t)
<1>1. /\ DOMAIN m = DOMAIN t
      /\ \A i \in DOMAIN t : m[i] = IF t[i] = "O" /\ NumericNeighbor(t, i) THEN "0" ELSE t[i]
  BY DEF MapOCR
<1>2. m = [i \in 1..Len(t) |-> m[i]] /\ Len(t) \in Nat
  <2>1. m = [i \in DOMAIN t |-> m[i]]
    BY DEF MapOCR
  <2> HIDE DEF m
  <2> QED BY <2>1, TextFacts
<1> HIDE DEF m
<1>3. \A i \in 1..Len(t) : m[i] \in Symbol
  <2>1. \A i \in 1..Len(t) : t[i] \in Symbol /\ i \in DOMAIN t
    BY TextFacts
  <2>2. "0" \in Symbol
    BY SymbolFacts
  <2> QED BY <1>1, <2>1, <2>2
<1>4. m \in Texts
  BY <1>2, <1>3, SeqDef DEF Texts
<1>5. \A x \in {"EUR", "USD", "GBP"} : \A i \in DOMAIN t : m[i] = x <=> t[i] = x
  BY <1>1
<1> QED BY <1>1, <1>4, <1>5, TextFacts DEF m

\* Only figures and a separator are accepted.
LEMMA PlainHolds ==
  ASSUME NEW t \in Texts, NEW S, Plain(t, S), NEW i \in DOMAIN t
  PROVE  t[i] \in Figure \cup S
<1>1. PICK n \in 1..MaxWhole :
        /\ \A j \in DOMAIN t : j = n + 1 \/ t[j] \in Figure
        /\ n < Len(t) => t[n + 1] \in S /\ Len(t) - n \in {2, 3}
  BY DEF Plain
<1>2. CASE i = n + 1
  <2>1. n < Len(t)
    BY <1>2, TextFacts
  <2> QED BY <1>1, <1>2, <2>1
<1>3. CASE i # n + 1
  BY <1>1, <1>3
<1> QED BY <1>2, <1>3

LEMMA FigureIs == Figure = {"0", "1", "2", "3", "4", "5", "6", "7", "8", "9"}
<1>1. DOMAIN Figures = 1..10
  BY DEF Figures
<1>2. 1..10 = {1, 2, 3, 4, 5, 6, 7, 8, 9, 10}
  OBVIOUS
<1>3. \A x : x \in Figure <=> \E i \in {1, 2, 3, 4, 5, 6, 7, 8, 9, 10} : x = Figures[i]
  BY <1>1, <1>2 DEF Figure, ToSet
<1>4. /\ Figures[1] = "0" /\ Figures[2] = "1" /\ Figures[3] = "2" /\ Figures[4] = "3"
      /\ Figures[5] = "4" /\ Figures[6] = "5" /\ Figures[7] = "6" /\ Figures[8] = "7"
      /\ Figures[9] = "8" /\ Figures[10] = "9"
  BY DEF Figures
<1> QED BY <1>3, <1>4

LEMMA ErrorsAreTold ==
  ASSUME NEW e
  PROVE  /\ Refusal(e).error = e /\ Unread(e).error = e
         /\ "amount is required" # "" /\ "unsupported amount_format" # ""
         /\ "unsupported currency" # "" /\ "invalid amount" # ""
  BY Zenon DEF Refusal, Unread

\* A text is taken for an amount; what is read is accepted.
Taken(t, format, l) == ParseAmount(t, format, l).error = ""

Sound(read) == Accept(read).error = ""

Leniently(format, l) == format = "auto_eur_lenient" \/ (format = "auto" /\ l = TRUE)

LEMMA Accepted ==
  ASSUME NEW read, Sound(read)
  PROVE  /\ read.error = "" /\ read.currency \in {"", "EUR"} /\ Plain(read.text, Separators)
         /\ Accept(read).cents = Cents(read.text)
<1>1. read.error = ""
  BY ErrorsAreTold, Zenon DEF Accept, Sound
<1>2. read.currency \in {"", "EUR"}
  BY <1>1, ErrorsAreTold, Zenon DEF Accept, Sound
<1>3. Plain(read.text, Separators)
  BY <1>1, <1>2, ErrorsAreTold, Zenon DEF Accept, Sound
<1>4. Accept(read).cents = Cents(read.text)
  BY <1>1, <1>2, <1>3, Zenon DEF Accept, Sound
<1> QED BY <1>1, <1>2, <1>3, <1>4, Zenon

\* What is behind an amount that is accepted.
LEMMA Behind ==
  ASSUME NEW t, NEW format, NEW l \in BOOLEAN, Taken(t, format, l)
  PROVE  /\ TrimSpaces(t) # <<>> /\ format \in Formats
         /\ format = "auto_eur_lenient" => l = TRUE
         /\ Leniently(format, l) => /\ Sound(ReadLeniently(TrimSpaces(t)))
                                    /\ ParseAmount(t, format, l) = Accept(ReadLeniently(TrimSpaces(t)))
         /\ ~Leniently(format, l) =>
              /\ Sound(ReadStrictly(TrimSpaces(t), format))
              /\ ParseAmount(t, format, l) = Accept(ReadStrictly(TrimSpaces(t), format))
<1> DEFINE v == TrimSpaces(t)
<1>1. ParseTrimmed(v, format, l).error = "" /\ ParseAmount(t, format, l) = ParseTrimmed(v, format, l)
  BY Zenon DEF ParseAmount, Taken
<1> HIDE DEF v
<1>2. v # <<>>
  BY <1>1, ErrorsAreTold, Zenon DEF ParseTrimmed
<1>3. format \in Formats
  BY <1>1, <1>2, ErrorsAreTold, Zenon DEF ParseTrimmed
<1>4. ASSUME format = "auto_eur_lenient", l = FALSE PROVE FALSE
  BY <1>1, <1>2, <1>4, ErrorsAreTold, Zenon DEF ParseTrimmed
<1> DEFINE parsed == ParseTrimmed(v, format, l)
<1>5. Leniently(format, l) => parsed = Accept(ReadLeniently(v))
  <2>1. ASSUME format = "auto_eur_lenient" PROVE parsed = Accept(ReadLeniently(v))
    <3>1. l = TRUE
      <4> HIDE DEF parsed
      <4> QED BY <1>4, <2>1
    <3> QED BY <1>2, <1>3, <2>1, <3>1, Zenon DEF ParseTrimmed
  <2>2. ASSUME format = "auto", l = TRUE PROVE parsed = Accept(ReadLeniently(v))
    <3>1. format # "auto_eur_lenient"
      BY <2>2, Zenon
    <3> QED BY <1>2, <1>3, <2>2, <3>1, Zenon DEF ParseTrimmed
  <2> QED BY <2>1, <2>2, Zenon DEF Leniently
<1>6. ~Leniently(format, l) => parsed = Accept(ReadStrictly(v, format))
  <2>1. ASSUME format # "auto_eur_lenient", format # "auto" PROVE parsed = Accept(ReadStrictly(v, format))
    BY <1>2, <1>3, <2>1, Zenon DEF ParseTrimmed
  <2>2. ASSUME format # "auto_eur_lenient", l = FALSE PROVE parsed = Accept(ReadStrictly(v, format))
    BY <1>2, <1>3, <2>2, Zenon DEF ParseTrimmed
  <2>3. l = FALSE \/ l = TRUE
    BY Zenon
  <2> HIDE DEF parsed
  <2> QED BY <2>1, <2>2, <2>3 DEF Leniently
<1>7. parsed.error = "" /\ ParseAmount(t, format, l) = parsed
  BY <1>1
<1>8. format = "auto_eur_lenient" => l = TRUE
  BY <1>4
<1> HIDE DEF parsed
<1>9. /\ Leniently(format, l) => Sound(ReadLeniently(v))
      /\ ~Leniently(format, l) => Sound(ReadStrictly(v, format))
  BY <1>5, <1>6, <1>7, Zenon DEF Sound
<1>10. /\ Leniently(format, l) => ParseAmount(t, format, l) = Accept(ReadLeniently(v))
       /\ ~Leniently(format, l) => ParseAmount(t, format, l) = Accept(ReadStrictly(v, format))
  BY <1>5, <1>6, <1>7, Zenon
<1> QED BY <1>2, <1>3, <1>8, <1>9, <1>10 DEF v

LEMMA StrictlyEuro ==
  ASSUME NEW v \in Texts, NEW format, Sound(ReadStrictly(v, format))
  PROVE  ~Holds(v, "USD") /\ ~Holds(v, "GBP")
<1> DEFINE bare == Unmarked(v)
           K == DOMAIN bare \ Positions(bare, {GroupMark(format)})
           read == ReadStrictly(v, format)
<1>1. read.error = "" /\ read.currency \in {"", "EUR"} /\ Plain(read.text, Separators)
  BY Accepted, Zenon
<1>2. read = ReadUnmarked(bare, format, NamedCurrency(v))
  BY <1>1, ErrorsAreTold, Zenon DEF ReadStrictly
<1>3. read = Read(At(bare, K), NamedCurrency(v))
  BY <1>1, <1>2, ErrorsAreTold, Zenon DEF ReadUnmarked
<1>4. read.text = At(bare, K) /\ read.currency = NamedCurrency(v)
  <2> HIDE DEF read, bare, K
  <2> QED BY <1>3, Zenon DEF Read
<1>5. ~Holds(v, "USD")
  BY <1>1, <1>4, Zenon DEF NamedCurrency
<1>6. ASSUME Holds(v, "GBP") PROVE FALSE
  <2>1. bare \in Texts /\ Holds(bare, "GBP")
    BY <1>6, UnmarkedKeeps
  <2>2. "GBP" # GroupMark(format)
    <3>1. "GBP" # " " /\ "GBP" # "." /\ "GBP" # ""
      BY Zenon
    <3>2. GroupMark(format) \in {" ", ".", ""}
      BY Zenon DEF GroupMark
    <3> QED BY <3>1, <3>2, Zenon
  <2>3. K \in SUBSET DOMAIN bare /\ \A i \in DOMAIN bare : bare[i] = "GBP" => i \in K
    BY <2>2, Zenon DEF Positions
  <2> HIDE DEF bare, K
  <2>4. At(bare, K) \in Texts /\ Holds(At(bare, K), "GBP")
    BY <2>1, <2>3, AtText, AtKeeps
  <2>5. PICK i \in DOMAIN At(bare, K) : At(bare, K)[i] = "GBP"
    BY <2>4, TextFacts
  <2>6. "GBP" \in Figure \cup Separators
    <3>1. Plain(At(bare, K), Separators)
      BY <1>1, <1>4, Zenon
    <3> QED BY <2>4, <2>5, <3>1, PlainHolds
  <2> QED BY <2>6, FigureIs DEF Separators
<1> QED BY <1>5, <1>6

LEMMA LenientlyEuro ==
  ASSUME NEW v \in Texts, Sound(ReadLeniently(v))
  PROVE  ~Holds(v, "USD") /\ (Holds(v, "GBP") => Holds(v, "EUR"))
<1> DEFINE m == MapOCR(v)
           currency == DetectCurrency(m)
<1>1. ReadMapped(m, currency).currency \in {"", "EUR"}
  BY Accepted, Zenon DEF ReadLeniently
<1>2. currency \in {"", "EUR"}
  <2> HIDE DEF currency
  <2> QED BY <1>1, Zenon DEF ReadMapped, Read
<1>3. ~Holds(m, "USD") /\ (Holds(m, "GBP") => Holds(m, "EUR"))
  <2>1. "USD" # "" /\ "USD" # "EUR" /\ "GBP" # "" /\ "GBP" # "EUR"
    BY Zenon
  <2> HIDE DEF m
  <2> QED BY <1>2, <2>1, Zenon DEF DetectCurrency
<1> HIDE DEF m
<1> QED BY <1>3, MapOCRKeeps DEF m

LEMMA ForeignRefused ==
  ASSUME NEW t \in Texts, NEW format, NEW l \in BOOLEAN, Taken(t, format, l)
  PROVE  /\ ~Holds(t, "USD")
         /\ Holds(t, "GBP") => /\ Holds(t, "EUR")
                               /\ l = TRUE /\ format \in {"auto", "auto_eur_lenient"}
<1> DEFINE v == TrimSpaces(t)
<1>1. \A x \in {"EUR", "USD", "GBP"} : Holds(v, x) <=> Holds(t, x)
  <2>1. "EUR" # " " /\ "USD" # " " /\ "GBP" # " "
    BY Zenon
  <2> QED BY <2>1, TrimSpacesKeeps, Zenon
<1>2. v \in Texts
  BY TrimSpacesKeeps
<1>3. CASE Leniently(format, l)
  <2>1. Sound(ReadLeniently(v)) /\ (format = "auto_eur_lenient" => l = TRUE)
    BY <1>3, Behind
  <2> HIDE DEF v
  <2>2. ~Holds(v, "USD") /\ (Holds(v, "GBP") => Holds(v, "EUR"))
    BY <1>2, <2>1, LenientlyEuro
  <2> QED BY <1>1, <1>3, <2>1, <2>2 DEF Leniently
<1>4. CASE ~Leniently(format, l)
  <2>1. Sound(ReadStrictly(v, format))
    BY <1>4, Behind
  <2> HIDE DEF v
  <2> QED BY <1>1, <1>2, <2>1, StrictlyEuro
<1> QED BY <1>3, <1>4

-----------------------------------------------------------------------------
(* The steps of a request.                                                  *)

\* Where a request has come to, and what has been made of it until then.
PaymentsInv ==
  /\ in \in Input /\ lenient \in BOOLEAN
  /\ at \in {"received", "refused", "cleaned", "built"}
  /\ at = "refused" => error = Fault(in) /\ error # None
  /\ at \in {"cleaned", "built"} => Fault(in) = None /\ clean = Validated(in)
  /\ at = "built" => payload = Payload(clean)

LEMMA Invariance == Spec => []PaymentsInv
<1>1. Init => PaymentsInv
  BY DEF Init, PaymentsInv
<1>2. PaymentsInv /\ [Next]_vars => PaymentsInv'
  <2> SUFFICES ASSUME PaymentsInv, [Next]_vars PROVE PaymentsInv'
    OBVIOUS
  <2>1. CASE Refuse
    <3>1. Fault(in)' = Fault(in)
      BY <2>1 DEF Refuse, Fault, Checks, Amount
    <3> QED BY <2>1, <3>1 DEF PaymentsInv, Refuse
  <2>2. CASE Clean
    <3>1. Fault(in)' = Fault(in) /\ Validated(in)' = Validated(in)
      BY <2>2 DEF Clean, Fault, Checks, Amount, Validated
    <3> QED BY <2>2, <3>1 DEF PaymentsInv, Clean
  <2>3. CASE Build
    <3>1. Fault(in)' = Fault(in) /\ Validated(in)' = Validated(in) /\ Payload(clean)' = Payload(clean)
      BY <2>3 DEF Build, Fault, Checks, Amount, Validated
    <3> QED BY <2>3, <3>1 DEF PaymentsInv, Build
  <2>4. CASE UNCHANGED vars
    <3>1. Fault(in)' = Fault(in) /\ Validated(in)' = Validated(in) /\ Payload(clean)' = Payload(clean)
      BY <2>4 DEF vars, Fault, Checks, Amount, Validated
    <3> QED BY <2>4, <3>1 DEF PaymentsInv, vars
  <2> QED BY <2>1, <2>2, <2>3, <2>4 DEF Next
<1> QED BY <1>1, <1>2, PTL DEF Spec

-----------------------------------------------------------------------------
(* The checks of a request, and the error that is told.                     *)

LEMMA MinIsIn ==
  ASSUME NEW n \in Nat, NEW s \in SUBSET (1..n), s # {}
  PROVE  Min(s) \in s /\ \A k \in s : Min(s) <= k
<1>1. s \in SUBSET Nat
  OBVIOUS
<1>2. \E m \in s : \A k \in s : m <= k
  BY <1>1, LeastNatural
<1> QED BY <1>2 DEF Min

LEMMA AcceptErrors ==
  ASSUME NEW x, NEW format
  PROVE  LET all == {"", "invalid amount", "unsupported currency"}
         IN  Accept(ReadLeniently(x)).error \in all /\ Accept(ReadStrictly(x, format)).error \in all
<1> DEFINE Ok(read) == read.error \in {"", "invalid amount"}
<1>1. \A e : Unread(e).error = e /\ Refusal(e).error = e
  BY ErrorsAreTold, Zenon
<1>2. \A y, z : Read(y, z).error = ""
  BY Zenon DEF Read
<1>3. \A y, z : Ok(ReadUnmarked(y, format, z))
  BY <1>1, <1>2, Zenon DEF ReadUnmarked
<1>4. Ok(ReadStrictly(x, format))
  BY <1>1, <1>3, Zenon DEF ReadStrictly
<1>5. \A u, y, z : Ok(Assembled(u, y, z))
  BY <1>1, <1>2, Zenon DEF Assembled
<1>6. \A u, y, z : Ok(SplitAt(u, y, z))
  BY <1>5, Zenon DEF SplitAt
<1>7. \A y, z : Ok(NormalizeSeparators(y, z))
  BY <1>1, <1>6, Zenon DEF NormalizeSeparators
<1>8. \A y, z : Ok(ReadMapped(y, z))
  BY <1>2, <1>7, Zenon DEF ReadMapped
<1>9. Ok(ReadLeniently(x))
  BY <1>8, Zenon DEF ReadLeniently
<1>10. ASSUME NEW read, Ok(read)
       PROVE  Accept(read).error \in {"", "invalid amount", "unsupported currency"}
  BY <1>1, <1>10, Zenon DEF Accept
<1> HIDE DEF Ok
<1> QED BY <1>4, <1>9, <1>10, Zenon

LEMMA AmountErrors ==
  ASSUME NEW t, NEW format, NEW l, ParseAmount(t, format, l).error # ""
  PROVE  ParseAmount(t, format, l).error \in
           {"amount is required", "unsupported amount_format", "unsupported currency",
            "invalid amount"}
<1>1. \A e : Refusal(e).error = e
  BY ErrorsAreTold, Zenon
<1>2. \A x : ParseTrimmed(x, format, l).error \in
              {"", "amount is required", "unsupported amount_format", "unsupported currency",
               "invalid amount"}
  BY <1>1, AcceptErrors, Zenon DEF ParseTrimmed
<1> QED BY <1>2, Zenon DEF ParseAmount

Errors == {e[1] : e \in FieldOf}

LEMMA FieldsOfErrors ==
  /\ \A f : <<"unsupported currency", f>> \in FieldOf <=> f = "amount"
  /\ \A f : <<"unsupported amount_format", f>> \in FieldOf <=> f = "amount_format"
  /\ \A f : <<"unsupported scheme", f>> \in FieldOf <=> f = "scheme"
  /\ \A f : <<"name is required", f>> \in FieldOf <=> f = "name"
  /\ \A f : <<"iban is required", f>> \in FieldOf <=> f = "iban"
  /\ \A f : <<"invalid iban", f>> \in FieldOf <=> f = "iban"
  /\ \A f : <<"bic is required", f>> \in FieldOf <=> f = "bic"
  /\ \A f : <<"invalid bic", f>> \in FieldOf <=> f = "bic"
  /\ \A f : <<"amount is required", f>> \in FieldOf <=> f = "amount"
  /\ \A f : <<"invalid amount", f>> \in FieldOf <=> f = "amount"
  /\ \A f : <<"amount must be > 0", f>> \in FieldOf <=> f = "amount"
  /\ \A f : <<"amount too large", f>> \in FieldOf <=> f = "amount"
  /\ \A f : <<"mutually exclusive", f>> \in FieldOf <=> f = "remittance_reference"
  BY ZenonT(60) DEF FieldOf

LEMMA FieldsAre ==
  /\ DOMAIN Fields = 1..10
  /\ ToSet(Fields) = {"scheme", "name", "iban", "bic", "amount", "amount_format", "purpose",
                      "remittance_reference", "remittance_text", "information"}
<1>1. DOMAIN Fields = 1..10
  BY DEF Fields
<1>2. 1..10 = {1, 2, 3, 4, 5, 6, 7, 8, 9, 10}
  OBVIOUS
<1>3. \A x : x \in ToSet(Fields) <=> \E i \in {1, 2, 3, 4, 5, 6, 7, 8, 9, 10} : x = Fields[i]
  BY <1>1, <1>2 DEF ToSet
<1>4. /\ Fields[1] = "scheme" /\ Fields[2] = "name" /\ Fields[3] = "iban" /\ Fields[4] = "bic"
      /\ Fields[5] = "amount" /\ Fields[6] = "amount_format" /\ Fields[7] = "purpose"
      /\ Fields[8] = "remittance_reference" /\ Fields[9] = "remittance_text"
      /\ Fields[10] = "information"
  BY DEF Fields
<1> QED BY <1>1, <1>3, <1>4

LEMMA NamedField ==
  ASSUME NEW m, NEW f \in ToSet(Fields), \A g : <<m, g>> \in FieldOf <=> g = f
  PROVE  FieldFromValidationError([msg |-> m, of |-> ""]) = f
<1> DEFINE e == [msg |-> m, of |-> ""]
<1>1. e.msg = m /\ e.of = ""
  BY Zenon
<1> HIDE DEF e
<1>2. FieldFromWholeMessage(e) = f
  BY <1>1, Zenon DEF FieldFromWholeMessage
<1> QED BY <1>1, <1>2, Zenon DEF FieldFromValidationError, e

LEMMA ErrorsAreSomething ==
  ASSUME NEW m \in {"duplicate query parameter"} \cup Errors, NEW o \in {""} \cup ToSet(Fields)
  PROVE  [msg |-> m, of |-> o] # None
<1>1. [msg |-> m, of |-> o] \in
        [msg : {"duplicate query parameter"} \cup Errors, of : {""} \cup ToSet(Fields)]
  BY Zenon
<1> QED BY <1>1, NoneAssumption, Zenon DEF Errors

\* What is wrong with i, the request not being well before.
Wrong(i, e) ==
  \/ e = "unsupported scheme" /\ i.scheme \notin {"", "epc_sct"}
  \/ e = "name is required" /\ Trim(i.name) = <<>>
  \/ e = "iban is required" /\ i.iban = <<>>
  \/ e = "invalid iban" /\ ~ValidIBAN(i.iban)
  \/ e = "bic is required" /\ i.bic = ""
  \/ e = "invalid bic" /\ i.bic = "malformed"
  \/ e = Amount(i).error /\ e # ""
  \/ e = "amount must be > 0" /\ Amount(i).error = "" /\ Amount(i).cents <= 0
  \/ e = "amount too large" /\ Amount(i).error = "" /\ Amount(i).cents > MaxCents
  \/ /\ e = "mutually exclusive"
     /\ Text(i, "remittance_reference") # <<>> /\ Text(i, "remittance_text") # <<>>

Right(i) ==
  /\ i.scheme \in {"", "epc_sct"} /\ Trim(i.name) # <<>>
  /\ i.iban # <<>> /\ ValidIBAN(i.iban) /\ i.bic # ""
  /\ Amount(i).error = "" /\ ~(Amount(i).cents <= 0) /\ ~(Amount(i).cents > MaxCents)
  /\ ~(Text(i, "remittance_reference") # <<>> /\ Text(i, "remittance_text") # <<>>)

LEMMA ChecksAre ==
  ASSUME NEW i
  PROVE  /\ DOMAIN Checks(i) = 1..10
         /\ Checks(i)[1].fails <=> i.scheme \notin {"", "epc_sct"}
         /\ Checks(i)[2].fails <=> Trim(i.name) = <<>>
         /\ Checks(i)[3].fails <=> i.iban = <<>>
         /\ Checks(i)[4].fails <=> ~ValidIBAN(i.iban)
         /\ Checks(i)[5].fails <=> i.bic = ""
         /\ Checks(i)[6].fails <=> i.bic = "malformed"
         /\ Checks(i)[7].fails <=> Amount(i).error # ""
         /\ Checks(i)[8].fails <=> Amount(i).cents <= 0
         /\ Checks(i)[9].fails <=> Amount(i).cents > MaxCents
         /\ Checks(i)[10].fails <=> /\ Text(i, "remittance_reference") # <<>>
                                    /\ Text(i, "remittance_text") # <<>>
         /\ Checks(i)[1].error = "unsupported scheme" /\ Checks(i)[2].error = "name is required"
         /\ Checks(i)[3].error = "iban is required" /\ Checks(i)[4].error = "invalid iban"
         /\ Checks(i)[5].error = "bic is required" /\ Checks(i)[6].error = "invalid bic"
         /\ Checks(i)[7].error = Amount(i).error /\ Checks(i)[8].error = "amount must be > 0"
         /\ Checks(i)[9].error = "amount too large" /\ Checks(i)[10].error = "mutually exclusive"
<1> DEFINE a == Amount(i)
           r == Text(i, "remittance_reference")
           t == Text(i, "remittance_text")
           v == ValidIBAN(i.iban)
           n == Trim(i.name)
           c1 == [fails |-> i.scheme \notin {"", "epc_sct"}, error |-> "unsupported scheme"]
           c2 == [fails |-> n = <<>>,          error |-> "name is required"]
           c3 == [fails |-> i.iban = <<>>,     error |-> "iban is required"]
           c4 == [fails |-> ~v,                error |-> "invalid iban"]
           c5 == [fails |-> i.bic = "",        error |-> "bic is required"]
           c6 == [fails |-> i.bic = "malformed", error |-> "invalid bic"]
           c7 == [fails |-> a.error # "",      error |-> a.error]
           c8 == [fails |-> a.cents <= 0,      error |-> "amount must be > 0"]
           c9 == [fails |-> a.cents > MaxCents, error |-> "amount too large"]
           c10 == [fails |-> r # <<>> /\ t # <<>>, error |-> "mutually exclusive"]
           c == Checks(i)
<1>1. c = <<c1, c2, c3, c4, c5, c6, c7, c8, c9, c10>>
  <2> HIDE DEF a, r, t
  <2> QED BY Zenon DEF Checks, ChecksWith, a, r, t
<1> HIDE DEF a, r, t, v, n, c
<1>2. c1.fails <=> i.scheme \notin {"", "epc_sct"}
  BY Zenon
<1>3. (c2.fails <=> n = <<>>) /\ (c3.fails <=> i.iban = <<>>) /\ (c4.fails <=> ~v)
  BY Zenon
<1>4. (c5.fails <=> i.bic = "") /\ (c6.fails <=> i.bic = "malformed") /\ (c7.fails <=> a.error # "")
  BY Zenon
<1>5. (c8.fails <=> a.cents <= 0) /\ (c9.fails <=> a.cents > MaxCents) /\ (c10.fails <=> r # <<>> /\ t # <<>>)
  BY Zenon
<1>6. /\ c1.error = "unsupported scheme" /\ c2.error = "name is required"
      /\ c3.error = "iban is required" /\ c4.error = "invalid iban"
      /\ c5.error = "bic is required" /\ c6.error = "invalid bic"
      /\ c7.error = a.error /\ c8.error = "amount must be > 0"
      /\ c9.error = "amount too large" /\ c10.error = "mutually exclusive"
  BY Zenon
<1> HIDE DEF c1, c2, c3, c4, c5, c6, c7, c8, c9, c10
<1>7. /\ DOMAIN c = 1..10
      /\ c[1] = c1 /\ c[2] = c2 /\ c[3] = c3 /\ c[4] = c4 /\ c[5] = c5
      /\ c[6] = c6 /\ c[7] = c7 /\ c[8] = c8 /\ c[9] = c9 /\ c[10] = c10
  BY <1>1
<1>8. /\ c[1].fails = c1.fails /\ c[2].fails = c2.fails /\ c[3].fails = c3.fails
      /\ c[4].fails = c4.fails /\ c[5].fails = c5.fails /\ c[6].fails = c6.fails
      /\ c[7].fails = c7.fails /\ c[8].fails = c8.fails /\ c[9].fails = c9.fails
      /\ c[10].fails = c10.fails
  BY <1>7, Zenon
<1>a. /\ c[1].error = c1.error /\ c[2].error = c2.error /\ c[3].error = c3.error
      /\ c[4].error = c4.error /\ c[5].error = c5.error /\ c[6].error = c6.error
      /\ c[7].error = c7.error /\ c[8].error = c8.error /\ c[9].error = c9.error
      /\ c[10].error = c10.error
  BY <1>7, Zenon
<1>9. /\ c[1].fails <=> i.scheme \notin {"", "epc_sct"}
      /\ c[2].fails <=> n = <<>>
      /\ c[3].fails <=> i.iban = <<>>
      /\ c[4].fails <=> ~v
      /\ c[5].fails <=> i.bic = ""
      /\ c[6].fails <=> i.bic = "malformed"
      /\ c[7].fails <=> a.error # ""
      /\ c[8].fails <=> a.cents <= 0
      /\ c[9].fails <=> a.cents > MaxCents
      /\ c[10].fails <=> r # <<>> /\ t # <<>>
  <2>1. /\ c[1].fails <=> i.scheme \notin {"", "epc_sct"}
        /\ c[2].fails <=> n = <<>>
    BY <1>2, <1>3, <1>8, Zenon
  <2>2. /\ c[3].fails <=> i.iban = <<>>
        /\ c[4].fails <=> ~v
    BY <1>3, <1>8, Zenon
  <2>3. /\ c[5].fails <=> i.bic = ""
        /\ c[6].fails <=> i.bic = "malformed"
    BY <1>4, <1>8, Zenon
  <2>4. /\ c[7].fails <=> a.error # ""
        /\ c[8].fails <=> a.cents <= 0
    BY <1>4, <1>5, <1>8, Zenon
  <2>5. /\ c[9].fails <=> a.cents > MaxCents
        /\ c[10].fails <=> r # <<>> /\ t # <<>>
    BY <1>5, <1>8, Zenon
  <2> QED BY <2>1, <2>2, <2>3, <2>4, <2>5, Zenon
<1>10. /\ c[1].error = "unsupported scheme" /\ c[2].error = "name is required"
       /\ c[3].error = "iban is required" /\ c[4].error = "invalid iban"
       /\ c[5].error = "bic is required" /\ c[6].error = "invalid bic"
       /\ c[7].error = a.error /\ c[8].error = "amount must be > 0"
       /\ c[9].error = "amount too large" /\ c[10].error = "mutually exclusive"
  BY <1>6, <1>a, Zenon
<1> QED BY <1>7, <1>9, <1>10, Zenon DEF a, r, t, v, n, c

LEMMA DuplicateTold ==
  ASSUME NEW i, Duplicates(i) # {}
  PROVE  \E f \in ToSet(Fields) \cap i.twice :
           Fault(i) = [msg |-> "duplicate query parameter", of |-> f]
<1> DEFINE d == Duplicates(i)
<1>1. d \in SUBSET (1..10) /\ d # {} /\ \A n \in d : Fields[n] \in i.twice /\ Fields[n] \in ToSet(Fields)
  BY FieldsAre DEF Duplicates, ToSet
<1> HIDE DEF d
<1>2. Min(d) \in d
  <2>1. 10 \in Nat
    OBVIOUS
  <2> QED BY <1>1, <2>1, MinIsIn
<1>3. Fault(i) = [msg |-> "duplicate query parameter", of |-> Fields[Min(d)]]
  BY <1>1, Zenon DEF Fault, FirstOf, d
<1> QED BY <1>1, <1>2, <1>3, Zenon

LEMMA CheckTold ==
  ASSUME NEW i, Duplicates(i) = {}
  PROVE  \/ Fault(i) = None /\ Right(i)
         \/ \E e : Fault(i) = [msg |-> e, of |-> ""] /\ Wrong(i, e)
<1> DEFINE c == Checks(i)
           failing == {n \in DOMAIN c : c[n].fails}
<1>1. DOMAIN c = 1..10 /\ failing \in SUBSET (1..10)
  BY ChecksAre
<1>2. 1..10 = {1, 2, 3, 4, 5, 6, 7, 8, 9, 10}
  OBVIOUS
<1>3. Fault(i) = IF failing # {} THEN [msg |-> c[Min(failing)].error, of |-> ""] ELSE None
  BY Zenon DEF Fault, FirstOf
<1>4. CASE failing = {}
  <2>1. \A n \in {1, 2, 3, 4, 5, 6, 7, 8, 9, 10} : ~c[n].fails
    <3> HIDE DEF c
    <3> QED BY <1>1, <1>2, <1>4
  <2>2. /\ ~c[1].fails /\ ~c[2].fails /\ ~c[3].fails /\ ~c[4].fails /\ ~c[5].fails
        /\ ~c[6].fails /\ ~c[7].fails /\ ~c[8].fails /\ ~c[9].fails /\ ~c[10].fails
    BY <2>1, Zenon
  <2>3. Right(i)
    BY <2>2, ChecksAre, ZenonT(40) DEF Right
  <2> QED BY <1>3, <1>4, <2>3, Zenon
<1>5. CASE failing # {}
  <2> DEFINE m == Min(failing)
             e == c[m].error
  <2>1. m \in failing /\ \A k \in failing : m <= k
    <3>1. 10 \in Nat
      OBVIOUS
    <3> HIDE DEF failing
    <3> QED BY <1>1, <1>5, <3>1, MinIsIn
  <2> HIDE DEF m
  <2>2. m \in {1, 2, 3, 4, 5, 6, 7, 8, 9, 10} /\ c[m].fails
    <3> HIDE DEF c
    <3> QED BY <1>1, <1>2, <2>1
  <2>3. m \in {8, 9} => ~c[7].fails
    <3>1. ASSUME m \in {8, 9}, c[7].fails PROVE FALSE
      <4>1. 7 \in failing
        <5>1. 7 \in 1..10
          OBVIOUS
        <5> QED BY <1>1, <3>1, <5>1, Zenon
      <4>2. m <= 7
        BY <2>1, <4>1, Zenon
      <4> QED BY <3>1, <4>2
    <3> QED BY <3>1, Zenon
  <2>4. Wrong(i, e)
    <3>1. CASE m = 1
      BY <2>2, <3>1, ChecksAre, Zenon DEF Wrong
    <3>2. CASE m = 2
      BY <2>2, <3>2, ChecksAre, Zenon DEF Wrong
    <3>3. CASE m = 3
      BY <2>2, <3>3, ChecksAre, Zenon DEF Wrong
    <3>4. CASE m = 4
      BY <2>2, <3>4, ChecksAre, Zenon DEF Wrong
    <3>5. CASE m = 5
      BY <2>2, <3>5, ChecksAre, Zenon DEF Wrong
    <3>6. CASE m = 6
      BY <2>2, <3>6, ChecksAre, Zenon DEF Wrong
    <3>7. CASE m = 7
      <4>1. e = Amount(i).error /\ Amount(i).error # ""
        BY <2>2, <3>7, ChecksAre, Zenon
      <4> HIDE DEF e
      <4> QED BY <4>1, Zenon DEF Wrong
    <3>8. CASE m = 8
      BY <2>2, <2>3, <3>8, ChecksAre, Zenon DEF Wrong
    <3>9. CASE m = 9
      BY <2>2, <2>3, <3>9, ChecksAre, Zenon DEF Wrong
    <3>10. CASE m = 10
      BY <2>2, <3>10, ChecksAre, Zenon DEF Wrong
    <3> QED BY <2>2, <3>1, <3>2, <3>3, <3>4, <3>5, <3>6, <3>7, <3>8, <3>9, <3>10, Zenon
  <2>5. Fault(i) = [msg |-> e, of |-> ""]
    BY <1>3, <1>5, Zenon DEF m
  <2> QED BY <2>4, <2>5, Zenon
<1> QED BY <1>4, <1>5, Zenon

\* The field that is named for what is wrong.
LEMMA WrongField ==
  ASSUME NEW i, NEW e, Wrong(i, e)
  PROVE  /\ e \in Errors
         /\ \E f \in ToSet(Fields) :
              /\ FieldFromValidationError([msg |-> e, of |-> ""]) = f
              /\ f = "scheme" => i.scheme \notin {"", "epc_sct"}
              /\ f = "name" => Trim(i.name) = <<>>
              /\ f = "iban" => i.iban = <<>> \/ ~ValidIBAN(i.iban)
              /\ f = "bic" => i.bic = "" \/ i.bic = "malformed"
              /\ f = "amount_format" => Amount(i).error = "unsupported amount_format"
              /\ f = "amount" => \/ Amount(i).error \notin {"", "unsupported amount_format"}
                                 \/ /\ Amount(i).error = ""
                                    /\ Amount(i).cents <= 0 \/ Amount(i).cents > MaxCents
              /\ f = "remittance_reference" => Text(i, "remittance_reference") # <<>>
              /\ f \notin {"purpose", "remittance_text", "information"}
<1> DEFINE Told(m, f) == (\A g : <<m, g>> \in FieldOf <=> g = f)
<1>1. ASSUME NEW m, NEW f \in ToSet(Fields), Told(m, f)
      PROVE  m \in Errors /\ FieldFromValidationError([msg |-> m, of |-> ""]) = f
  <2>1. <<m, f>> \in FieldOf
    BY <1>1, Zenon
  <2>2. <<m, f>>[1] = m
    BY Zenon
  <2> QED BY <1>1, <2>1, <2>2, NamedField, Zenon DEF Errors
<1>2. /\ "scheme" \in ToSet(Fields) /\ "name" \in ToSet(Fields) /\ "iban" \in ToSet(Fields)
      /\ "bic" \in ToSet(Fields) /\ "amount" \in ToSet(Fields)
      /\ "amount_format" \in ToSet(Fields) /\ "remittance_reference" \in ToSet(Fields)
  BY FieldsAre
<1>3. CASE e = "unsupported scheme" /\ i.scheme \notin {"", "epc_sct"}
  <2>1. Told(e, "scheme")
    BY <1>3, FieldsOfErrors, Zenon
  <2> HIDE DEF Told
  <2> QED BY <1>1, <1>2, <1>3, <2>1, Zenon
<1>4. CASE e = "name is required" /\ Trim(i.name) = <<>>
  <2>1. Told(e, "name")
    BY <1>4, FieldsOfErrors, Zenon
  <2> HIDE DEF Told
  <2> QED BY <1>1, <1>2, <1>4, <2>1, Zenon
<1>5. CASE (e = "iban is required" /\ i.iban = <<>>) \/ (e = "invalid iban" /\ ~ValidIBAN(i.iban))
  <2>1. Told(e, "iban")
    BY <1>5, FieldsOfErrors, Zenon
  <2> HIDE DEF Told
  <2> QED BY <1>1, <1>2, <1>5, <2>1, Zenon
<1>6. CASE (e = "bic is required" /\ i.bic = "") \/ (e = "invalid bic" /\ i.bic = "malformed")
  <2>1. Told(e, "bic")
    BY <1>6, FieldsOfErrors, Zenon
  <2> HIDE DEF Told
  <2> QED BY <1>1, <1>2, <1>6, <2>1, Zenon
<1>7. CASE e = Amount(i).error /\ e # ""
  <2>1. e \in {"amount is required", "unsupported amount_format", "unsupported currency",
               "invalid amount"}
    BY <1>7, AmountErrors, Zenon DEF Amount
  <2>2. CASE e = "unsupported amount_format"
    <3>1. Told(e, "amount_format")
      BY <2>2, FieldsOfErrors, Zenon
    <3> HIDE DEF Told
    <3> QED BY <1>1, <1>2, <1>7, <2>2, <3>1, Zenon
  <2>3. CASE e # "unsupported amount_format"
    <3>1. Told(e, "amount")
      BY <2>1, <2>3, FieldsOfErrors, Zenon
    <3> HIDE DEF Told
    <3> QED BY <1>1, <1>2, <1>7, <2>3, <3>1, Zenon
  <2> QED BY <2>2, <2>3, Zenon
<1>8. CASE \/ e = "amount must be > 0" /\ Amount(i).error = "" /\ Amount(i).cents <= 0
           \/ e = "amount too large" /\ Amount(i).error = "" /\ Amount(i).cents > MaxCents
  <2>1. Told(e, "amount")
    BY <1>8, FieldsOfErrors, Zenon
  <2> HIDE DEF Told
  <2> QED BY <1>1, <1>2, <1>8, <2>1, Zenon
<1>9. CASE /\ e = "mutually exclusive"
           /\ Text(i, "remittance_reference") # <<>> /\ Text(i, "remittance_text") # <<>>
  <2>1. Told(e, "remittance_reference")
    BY <1>9, FieldsOfErrors, Zenon
  <2> HIDE DEF Told
  <2> QED BY <1>1, <1>2, <1>9, <2>1, Zenon
<1> QED BY <1>3, <1>4, <1>5, <1>6, <1>7, <1>8, <1>9, Zenon DEF Wrong

\* Nothing is wrong with a request that is not refused.
LEMMA NotRefused ==
  ASSUME NEW i, Fault(i) = None
  PROVE  Right(i)
<1>1. Duplicates(i) = {}
  BY DuplicateTold, ErrorsAreSomething, Zenon
<1>2. \A e : Wrong(i, e) => [msg |-> e, of |-> ""] # None
  BY WrongField, ErrorsAreSomething, Zenon
<1> QED BY <1>1, <1>2, CheckTold, Zenon

\* Whatever is written as an amount: one that names the dollar is never
\* accepted, in no format, and one that names the pound never but by the
\* lenient reading: see ForeignRefusedStrictly.
THEOREM ForeignNeverAcceptedStrictly == Spec => []ForeignRefusedStrictly
<1>1. PaymentsInv => ForeignRefusedStrictly
  <2> SUFFICES ASSUME PaymentsInv, at = "cleaned"
               PROVE  /\ ~Holds(in.amount, "USD")
                      /\ Holds(in.amount, "GBP") =>
                           lenient /\ in.amount_format \in {"auto", "auto_eur_lenient"}
    BY DEF ForeignRefusedStrictly, Lenient
  <2>1. Right(in)
    BY NotRefused DEF PaymentsInv
  <2>2. Taken(in.amount, in.amount_format, lenient)
    BY <2>1, Zenon DEF Right, Amount, Taken
  <2>3. in.amount \in Texts
    BY InputFacts DEF PaymentsInv
  <2>4. lenient \in BOOLEAN
    BY DEF PaymentsInv
  <2> QED BY <2>2, <2>3, <2>4, ForeignRefused
<1> QED BY <1>1, Invariance, PTL

-----------------------------------------------------------------------------
(* The field that is named.                                                 *)

LEMMA NamesAField ==
  ASSUME NEW i, Fault(i) # None
  PROVE  FieldFromValidationError(Fault(i)) \in ToSet(Fields)
<1>1. ASSUME NEW m, NEW f \in ToSet(Fields)
      PROVE  FieldFromValidationError([msg |-> m, of |-> f]) = f
  <2>1. f # ""
    <3>1. f \in {"scheme", "name", "iban", "bic", "amount", "amount_format", "purpose",
                 "remittance_reference", "remittance_text", "information"}
      BY FieldsAre
    <3> QED BY <3>1, Zenon
  <2> QED BY <2>1, Zenon DEF FieldFromValidationError
<1>2. CASE Duplicates(i) # {}
  BY <1>1, <1>2, DuplicateTold, ZenonT(40)
<1>3. CASE Duplicates(i) = {}
  <2>1. PICK e : Fault(i) = [msg |-> e, of |-> ""] /\ Wrong(i, e)
    BY <1>3, CheckTold, Zenon
  <2> QED BY <2>1, WrongField, Zenon
<1> QED BY <1>2, <1>3

\* Whatever the format, the amount of Good is not what is wrong.
LEMMA GoodAmount ==
  ASSUME NEW format, NEW l \in BOOLEAN
  PROVE  LET read == ParseAmount(Good.amount, format, l)
         IN  /\ read.error \in {"", "unsupported amount_format"}
             /\ read.error = "" => read.cents \in 1..MaxCents
<1> DEFINE read(f, m) == ParseAmount(Good.amount, f, m)
<1>1. \A f \in Formats, m \in BOOLEAN : /\ read(f, m).error \in {"", "unsupported amount_format"}
                                        /\ read(f, m).error = "" => read(f, m).cents \in 1..MaxCents
  BY GoodAssumption, Zenon
<1>2. CASE format \in Formats
  BY <1>1, <1>2, Zenon
<1>3. CASE format \notin Formats
  <2>1. TrimSpaces(Good.amount) # <<>>
    <3>1. ASSUME TrimSpaces(Good.amount) = <<>> PROVE FALSE
      <4>1. read("auto", FALSE).error = "amount is required"
        BY <3>1, ErrorsAreTold, Zenon DEF ParseAmount, ParseTrimmed
      <4>2. "auto" \in Formats /\ FALSE \in BOOLEAN
        BY Zenon DEF Formats
      <4>3. "amount is required" # "" /\ "amount is required" # "unsupported amount_format"
        BY Zenon
      <4> HIDE DEF read
      <4> QED BY <1>1, <4>1, <4>2, <4>3, Zenon
    <3> QED BY <3>1
  <2>2. read(format, l).error = "unsupported amount_format"
    BY <1>3, <2>1, ErrorsAreTold, Zenon DEF ParseAmount, ParseTrimmed
  <2>3. "unsupported amount_format" # ""
    BY Zenon
  <2> QED BY <2>2, <2>3, Zenon
<1> QED BY <1>2, <1>3

\* A field that is as Good has it, and given once, is not named.
LEMMA RightFieldNotNamed ==
  ASSUME NEW i, NEW f \in ToSet(Fields), f \notin i.twice, i[f] = Good[f],
         lenient \in BOOLEAN, Fault(i) # None, FieldFromValidationError(Fault(i)) = f
  PROVE  FALSE
<1>1. CASE Duplicates(i) # {}
  <2>1. PICK g \in ToSet(Fields) \cap i.twice :
          Fault(i) = [msg |-> "duplicate query parameter", of |-> g]
    BY <1>1, DuplicateTold, Zenon
  <2>2. g # ""
    <3>1. g \in {"scheme", "name", "iban", "bic", "amount", "amount_format", "purpose",
                 "remittance_reference", "remittance_text", "information"}
      BY FieldsAre
    <3> QED BY <3>1, Zenon
  <2>3. FieldFromValidationError(Fault(i)) = g
    <3> DEFINE e == [msg |-> "duplicate query parameter", of |-> g]
    <3>1. e.of = g
      BY Zenon
    <3>2. Fault(i) = e
      BY <2>1, Zenon
    <3> HIDE DEF e
    <3> QED BY <2>2, <3>1, <3>2, Zenon DEF FieldFromValidationError
  <2> QED BY <2>1, <2>3, Zenon
<1>2. CASE Duplicates(i) = {}
  <2>1. PICK e : Fault(i) = [msg |-> e, of |-> ""] /\ Wrong(i, e)
    BY <1>2, CheckTold, Zenon
  <2>2. /\ f = "scheme" => i.scheme \notin {"", "epc_sct"}
        /\ f = "name" => Trim(i.name) = <<>>
        /\ f = "iban" => i.iban = <<>> \/ ~ValidIBAN(i.iban)
        /\ f = "bic" => i.bic = "" \/ i.bic = "malformed"
        /\ f = "amount_format" => Amount(i).error = "unsupported amount_format"
        /\ f = "amount" => \/ Amount(i).error \notin {"", "unsupported amount_format"}
                           \/ /\ Amount(i).error = ""
                              /\ Amount(i).cents <= 0 \/ Amount(i).cents > MaxCents
        /\ f = "remittance_reference" => Text(i, "remittance_reference") # <<>>
        /\ f \notin {"purpose", "remittance_text", "information"}
    <3>1. FieldFromValidationError([msg |-> e, of |-> ""]) = f
      BY <2>1, Zenon
    <3> QED BY <2>1, <3>1, WrongField, ZenonT(40)
  <2>3. f # "scheme" /\ f # "name" /\ f # "iban" /\ f # "bic"
    BY <2>2, GoodAssumption, Zenon
  <2>4. f # "remittance_reference"
    BY <2>2, GoodAssumption, Zenon DEF Text
  <2>5. ASSUME f = "amount" PROVE FALSE
    <3> DEFINE read == ParseAmount(Good.amount, i.amount_format, lenient)
    <3>1. Amount(i) = read
      BY <2>5, Zenon DEF Amount
    <3>2. /\ read.error \in {"", "unsupported amount_format"}
          /\ read.error = "" => read.cents \in 1..MaxCents
      BY GoodAmount, Zenon
    <3>3. read.cents \in 1..MaxCents => ~(read.cents <= 0) /\ ~(read.cents > MaxCents)
      <4>1. MaxCents \in Nat
        BY PaymentsAssumption, Zenon
      <4> HIDE DEF read
      <4> QED BY <4>1
    <3> HIDE DEF read
    <3> QED BY <2>2, <2>5, <3>1, <3>2, <3>3, Zenon
  <2>6. ASSUME f = "amount_format" PROVE FALSE
    <3> DEFINE format == Good.amount_format
               v == TrimSpaces(i.amount)
    <3>1. Amount(i) = ParseTrimmed(v, format, lenient)
      BY <2>6, Zenon DEF Amount, ParseAmount
    <3>2. format \in Formats /\ format # "auto_eur_lenient"
      BY GoodAssumption, Zenon
    <3> HIDE DEF format, v
    <3>3. ParseTrimmed(v, format, lenient).error \in
            {"amount is required", "", "invalid amount", "unsupported currency"}
      BY <3>2, ErrorsAreTold, AcceptErrors, ZenonT(40) DEF ParseTrimmed
    <3>4. "unsupported amount_format" \notin
            {"amount is required", "", "invalid amount", "unsupported currency"}
      BY Zenon
    <3> QED BY <2>2, <2>6, <3>1, <3>3, <3>4, Zenon
  <2> QED BY <2>2, <2>3, <2>4, <2>5, <2>6, FieldsAre, Zenon
<1> QED BY <1>1, <1>2

\* Whatever is wrong with a request, the field that server.go names is one that
\* has to be put right: once it is, it is not named again.  See FieldAtFault.
THEOREM FieldNamedIsAtFault == Spec => []FieldAtFault
<1>1. PaymentsInv => FieldAtFault
  <2> SUFFICES ASSUME PaymentsInv, at = "refused"
               PROVE  \E f \in ToSet(Fields) :
                        /\ f = FieldFromValidationError(error)
                        /\ \A rest \in {Fault(Repaired(in, f))} \ {None} :
                             FieldFromValidationError(rest) # f
    BY DEF FieldAtFault
  <2> DEFINE f == FieldFromValidationError(error)
  <2>1. f \in ToSet(Fields)
    <3>1. error = Fault(in) /\ Fault(in) # None
      BY DEF PaymentsInv
    <3> QED BY <3>1, NamesAField, Zenon
  <2> HIDE DEF f
  <2> DEFINE j == Repaired(in, f)
  <2>2. j[f] = Good[f] /\ f \notin j.twice
    <3>1. f # "twice"
      BY <2>1, FieldsAre, Zenon
    <3>2. f \in DOMAIN in /\ "twice" \in DOMAIN in
      <4>1. in \in Input
        BY DEF PaymentsInv
      <4> QED BY <2>1, <4>1, InputFacts, Zenon DEF IsInput
    <3> QED BY <3>1, <3>2, Zenon DEF Repaired
  <2>3. lenient \in BOOLEAN
    BY DEF PaymentsInv
  <2> HIDE DEF j
  <2>4. Fault(j) # None => FieldFromValidationError(Fault(j)) # f
    BY <2>1, <2>2, <2>3, RightFieldNotNamed, Zenon
  <2> QED BY <2>1, <2>4, Zenon DEF f, j
<1> QED BY <1>1, Invariance, PTL

-----------------------------------------------------------------------------
(* The value of a number.                                                   *)

\* A fold over 1..n goes through the numbers in their order.
Unfolds(fold, base, d, n, V) ==
  /\ n \in Nat /\ base \in V /\ d \in [V \X (1..n) -> V]
  /\ fold[{}] = base
  /\ \A k \in 1..n : fold[1..(k - 1)] \in V => fold[1..k] = d[<<fold[1..(k - 1)], k>>]

Runs(run, base, d, n, V) ==
  /\ run \in [0..n -> V] /\ run[0] = base
  /\ \A k \in 1..n : run[k] = d[<<run[k - 1], k>>]

HasRun(fold, base, d, n, V) == \E run : Runs(run, base, d, n, V) /\ run[n] = fold[1..n]

LEMMA FoldRuns ==
  ASSUME NEW fold, NEW base, NEW d, NEW n, NEW V, Unfolds(fold, base, d, n, V)
  PROVE  HasRun(fold, base, d, n, V)
<1> n \in Nat /\ base \in V /\ d \in [V \X (1..n) -> V]
  BY DEF Unfolds
<1> DEFINE run == [k \in 0..n |-> fold[1..k]]
           T == {k \in 0..n : fold[1..k] \in V}
<1>1. 1..0 = {} /\ 0 \in 0..n /\ n \in 0..n
  OBVIOUS
<1>2. 0 \in T
  BY <1>1 DEF Unfolds
<1>3. ASSUME NEW k \in 1..n, k - 1 \in T PROVE k \in T
  <2>1. k \in 0..n /\ fold[1..k] = d[<<fold[1..(k - 1)], k>>] /\ fold[1..(k - 1)] \in V
    BY <1>3 DEF Unfolds
  <2>2. fold[1..k] \in V
    BY <2>1
  <2> QED BY <2>1, <2>2
<1>4. \A k \in 0..n : fold[1..k] \in V
  <2>1. 0..n \subseteq T
    <3> HIDE DEF T
    <3> QED BY <1>2, <1>3, Induction
  <2> QED BY <2>1
<1>5. run \in [0..n -> V]
  BY <1>4
<1>6. ASSUME NEW k \in 1..n PROVE run[k] = d[<<run[k - 1], k>>]
  <2>1. k \in 0..n /\ k - 1 \in 0..n
    OBVIOUS
  <2>2. run[k] = fold[1..k] /\ run[k - 1] = fold[1..(k - 1)]
    BY <2>1
  <2> HIDE DEF run
  <2> QED BY <1>4, <2>1, <2>2 DEF Unfolds
<1>7. run[0] = base /\ run[n] = fold[1..n]
  BY <1>1 DEF Unfolds
<1> HIDE DEF run
<1>8. Runs(run, base, d, n, V)
  BY <1>5, <1>6, <1>7 DEF Runs
<1> QED BY <1>7, <1>8 DEF HasRun

LEMMA LetterIs ==
  Letter = {"A", "B", "C", "D", "E", "F", "G", "H", "I", "J", "K", "L", "M",
            "N", "O", "P", "Q", "R", "S", "T", "U", "V", "W", "X", "Y", "Z"}
<1>1. DOMAIN Letters = 1..26
  BY DEF Letters
<1>2. 1..26 = {1, 2, 3, 4, 5, 6, 7, 8, 9, 10, 11, 12, 13, 14, 15, 16, 17, 18, 19, 20, 21, 22, 23,
               24, 25, 26}
  OBVIOUS
<1>3. \A x : x \in Letter <=>
        \E i \in {1, 2, 3, 4, 5, 6, 7, 8, 9, 10, 11, 12, 13, 14, 15, 16, 17, 18, 19, 20, 21, 22,
                  23, 24, 25, 26} : x = Letters[i]
  BY <1>1, <1>2 DEF Letter, ToSet
<1>4. /\ Letters[1] = "A" /\ Letters[2] = "B" /\ Letters[3] = "C" /\ Letters[4] = "D"
      /\ Letters[5] = "E" /\ Letters[6] = "F" /\ Letters[7] = "G" /\ Letters[8] = "H"
      /\ Letters[9] = "I" /\ Letters[10] = "J" /\ Letters[11] = "K" /\ Letters[12] = "L"
      /\ Letters[13] = "M" /\ Letters[14] = "N" /\ Letters[15] = "O" /\ Letters[16] = "P"
      /\ Letters[17] = "Q" /\ Letters[18] = "R" /\ Letters[19] = "S" /\ Letters[20] = "T"
      /\ Letters[21] = "U" /\ Letters[22] = "V" /\ Letters[23] = "W" /\ Letters[24] = "X"
      /\ Letters[25] = "Y" /\ Letters[26] = "Z"
  BY DEF Letters
<1> QED BY <1>3, <1>4

\* Two characters never count for the same.
LEMMA WorthFacts ==
  ASSUME NEW c \in Figure \cup Letter
  PROVE  Worth[c] \in 0..35 /\ Worth[c] \in Nat /\ (Figures \o Letters)[Worth[c] + 1] = c
<1> DEFINE all == Figures \o Letters
           i == CHOOSE i \in 1..36 : all[i] = c
<1>1. /\ Len(Figures) = 10 /\ Len(Letters) = 26
      /\ DOMAIN Figures = 1..10 /\ DOMAIN Letters = 1..26
  BY DEF Figures, Letters
<1>2. /\ \A k \in 1..10 : all[k] = Figures[k]
      /\ \A k \in 1..26 : all[k + 10] = Letters[k]
  <2>1. Figures \in Seq(Figure \cup Letter) /\ Letters \in Seq(Figure \cup Letter)
    <3>1. /\ \A k \in 1..10 : Figures[k] \in Figure \cup Letter
          /\ \A k \in 1..26 : Letters[k] \in Figure \cup Letter
      BY <1>1 DEF Figure, Letter, ToSet
    <3>2. Figures = [k \in 1..10 |-> Figures[k]] /\ Letters = [k \in 1..26 |-> Letters[k]]
      BY DEF Figures, Letters
    <3>3. Figures \in [1..10 -> Figure \cup Letter] /\ Letters \in [1..26 -> Figure \cup Letter]
      BY <3>1, <3>2
    <3>4. 10 \in Nat /\ 26 \in Nat
      OBVIOUS
    <3> QED BY <3>3, <3>4, SeqDef, ZenonT(40)
  <2>2. \A k \in 1 .. Len(Figures) + Len(Letters) :
          all[k] = IF k <= Len(Figures) THEN Figures[k] ELSE Letters[k - Len(Figures)]
    BY <2>1, ConcatProperties
  <2> HIDE DEF all
  <2>3. \A k \in 1..36 : all[k] = IF k <= 10 THEN Figures[k] ELSE Letters[k - 10]
    <3>1. Len(Figures) + Len(Letters) = 36
      BY <1>1
    <3> QED BY <1>1, <2>2, <3>1
  <2>4. ASSUME NEW k \in 1..26 PROVE all[k + 10] = Letters[k]
    <3>1. k + 10 \in 1..36 /\ ~(k + 10 <= 10) /\ (k + 10) - 10 = k
      OBVIOUS
    <3> QED BY <2>3, <3>1
  <2>5. ASSUME NEW k \in 1..10 PROVE all[k] = Figures[k]
    BY <2>3
  <2> QED BY <2>4, <2>5
<1> HIDE DEF all
<1>3. \E k \in 1..36 : all[k] = c
  <2>1. CASE c \in Figure
    <3>1. PICK k \in 1..10 : c = Figures[k]
      BY <1>1, <2>1 DEF Figure, ToSet
    <3>2. k \in 1..36
      OBVIOUS
    <3> QED BY <1>2, <3>1, <3>2
  <2>2. CASE c \in Letter
    <3>1. PICK k \in 1..26 : c = Letters[k]
      BY <1>1, <2>2 DEF Letter, ToSet
    <3>2. k + 10 \in 1..36
      OBVIOUS
    <3> QED BY <1>2, <3>1, <3>2
  <2> QED BY <2>1, <2>2
<1>4. i \in 1..36 /\ all[i] = c
  BY <1>3
<1>5. Worth[c] = i - 1
  BY DEF Worth, all
<1> HIDE DEF i
<1>6. (i - 1) \in 0..35 /\ i - 1 \in Nat /\ (i - 1) + 1 = i
  BY <1>4
<1> QED BY <1>4, <1>5, <1>6 DEF all

LEMMA NumberRuns ==
  ASSUME NEW t \in Seq(Figure)
  PROVE  \E run \in [0..Len(t) -> Nat] :
           /\ run[0] = 0 /\ run[Len(t)] = Number(t)
           /\ \A k \in 1..Len(t) : run[k] = 10 * run[k - 1] + Worth[t[k]]
<1> DEFINE n == Len(t)
           w == [k \in 1..n |-> Worth[t[k]]]
           Value(g, s) == IF s = {} THEN 0 ELSE 10 * g[s \ {Max(s)}] + Worth[t[Max(s)]]
           d == [p \in Nat \X (1..n) |-> 10 * p[1] + w[p[2]]]
           fold == CHOOSE g : g = [s \in SUBSET DOMAIN t |-> Value(g, s)]
<1>1. n \in Nat /\ DOMAIN t = 1..n /\ \A k \in 1..n : w[k] \in Nat
  <2>1. n \in Nat /\ DOMAIN t = 1..n /\ \A k \in 1..n : t[k] \in Figure
    BY LenProperties, ElementOfSeq
  <2>2. ASSUME NEW k \in 1..n PROVE Worth[t[k]] \in Nat
    <3>1. t[k] \in Figure \cup Letter
      BY <2>1
    <3> QED BY <3>1, WorthFacts
  <2>3. \A k \in 1..n : w[k] = Worth[t[k]]
    OBVIOUS
  <2> HIDE DEF w, n
  <2> QED BY <2>1, <2>2, <2>3
<1>2. Number(t) = fold[DOMAIN t]
  BY DEF Number, FoldLeft, MapThenFoldSet
<1> HIDE DEF n, w
<1>3. d \in [Nat \X (1..n) -> Nat]
  <2>1. ASSUME NEW p \in Nat \X (1..n) PROVE 10 * p[1] + w[p[2]] \in Nat
    BY <1>1
  <2> QED BY <2>1
<1>4. PICK h \in [SUBSET (1..n) -> Nat] : IsFold(h, 0, d, n)
  <2>1. 0 \in Nat
    OBVIOUS
  <2> HIDE DEF d
  <2> QED BY <1>1, <1>3, <2>1, FoldExists
<1>5. \A m \in Nat, k \in 1..n : d[<<m, k>>] = 10 * m + Worth[t[k]]
  BY DEF w
<1>6. h = [s \in SUBSET DOMAIN t |-> Value(h, s)]
  <2>1. ASSUME NEW s \in SUBSET (1..n) PROVE h[s] = Value(h, s)
    <3>1. CASE s = {}
      BY <1>4, <3>1 DEF IsFold
    <3>2. CASE s # {}
      <4>1. h[s] = d[<<h[s \ {Max(s)}], Max(s)>>]
        BY <1>4, <3>2 DEF IsFold
      <4>2. Max(s) \in s
        BY <1>1, <3>2, MaxIsIn
      <4>3. h[s \ {Max(s)}] \in Nat /\ Max(s) \in 1..n
        BY <1>4, <4>2
      <4> HIDE DEF d
      <4> QED BY <3>2, <4>1, <4>3, <1>5
    <3> QED BY <3>1, <3>2
  <2> HIDE DEF Value
  <2> QED BY <1>1, <1>4, <2>1
<1>7. fold = [s \in SUBSET (1..n) |-> Value(fold, s)]
  <2> HIDE DEF Value
  <2> QED BY <1>1, <1>6
<1> HIDE DEF fold, d
<1>8. fold[{}] = 0
  BY <1>7
<1>9. ASSUME NEW k \in 1..n, fold[1..(k - 1)] \in Nat
      PROVE  fold[1..k] = d[<<fold[1..(k - 1)], k>>]
  <2>1. 1..k \in SUBSET (1..n) /\ 1..k # {} /\ Max(1..k) = k /\ (1..k) \ {k} = 1..(k - 1)
    BY <1>1, Initial
  <2>2. fold[1..k] = Value(fold, 1..k)
    <3> HIDE DEF Value
    <3> QED BY <1>7, <2>1
  <2>3. fold[1..k] = 10 * fold[1..(k - 1)] + Worth[t[k]]
    BY <2>1, <2>2
  <2> HIDE DEF Value
  <2> QED BY <1>5, <1>9, <2>3
<1>10. PICK run : Runs(run, 0, d, n, Nat) /\ run[n] = fold[1..n]
  <2>1. Unfolds(fold, 0, d, n, Nat)
    <3> HIDE DEF Value
    <3> QED BY <1>1, <1>3, <1>8, <1>9 DEF Unfolds
  <2> HIDE DEF Value
  <2> QED BY <2>1, FoldRuns DEF HasRun
<1>11. ASSUME NEW k \in 1..n PROVE run[k] = 10 * run[k - 1] + Worth[t[k]]
  <2>1. k - 1 \in 0..n
    BY <1>1
  <2>2. run[k - 1] \in Nat /\ run[k] = d[<<run[k - 1], k>>]
    BY <1>10, <2>1 DEF Runs
  <2> QED BY <1>5, <2>2
<1>12. run[n] = Number(t)
  BY <1>1, <1>2, <1>10
<1>13. run \in [0..n -> Nat] /\ run[0] = 0
  BY <1>10 DEF Runs
<1> QED BY <1>11, <1>12, <1>13 DEF n

LEMMA NumberIsNat ==
  ASSUME NEW t \in Seq(Figure)
  PROVE  Number(t) \in Nat
<1>1. PICK run \in [0..Len(t) -> Nat] : run[Len(t)] = Number(t)
  BY NumberRuns
<1>2. Len(t) \in 0..Len(t)
  <2>1. Len(t) \in Nat
    BY LenProperties
  <2> QED BY <2>1
<1> QED BY <1>1, <1>2

LEMMA Narrowed ==
  ASSUME NEW S, NEW s \in Seq(S), NEW F, \A i \in 1..Len(s) : s[i] \in F
  PROVE  s \in Seq(F)
<1>1. Len(s) \in Nat /\ s \in [1..Len(s) -> S]
  BY LenProperties
<1>2. s \in [1..Len(s) -> F]
  BY <1>1
<1> QED BY <1>1, <1>2, SeqDef

LEMMA AtPrefix ==
  ASSUME NEW S, NEW t \in Seq(S), NEW n \in 0..Len(t)
  PROVE  /\ At(t, 1..n) \in Seq(S) /\ Len(At(t, 1..n)) = n
         /\ \A i \in 1..n : At(t, 1..n)[i] = t[i]
<1> DEFINE K == 1..n
           len == Len(t)
           m(k) == IF k <= n THEN k ELSE n
           Prefix(r, k) == Len(r) = m(k) /\ \A i \in 1..m(k) : r[i] = t[i]
<1>1. len \in Nat /\ \A i \in 1..len : t[i] \in S
  BY LenProperties, ElementOfSeq
<1>2. PICK run \in [0..len -> Seq(S)] : Keeps(run, t, K) /\ At(t, K) = run[len]
  <2> HIDE DEF K
  <2> QED BY AtRuns
<1> HIDE DEF K
<1> DEFINE T == {k \in 0..len : Prefix(run[k], k)}
<1>3. 0 \in T
  <2>1. run[0] = <<>> /\ 0 \in 0..len /\ m(0) = 0
    BY <1>1, <1>2 DEF Keeps
  <2> QED BY <2>1
<1>4. ASSUME NEW k \in 1..len, k - 1 \in T PROVE k \in T
  <2>1. run[k - 1] \in Seq(S) /\ Prefix(run[k - 1], k - 1) /\ t[k] \in S /\ k \in 0..len
    <3>1. k - 1 \in 0..len /\ k \in 0..len
      BY <1>1
    <3> QED BY <1>1, <1>2, <1>4, <3>1
  <2>2. CASE k <= n
    <3>1. run[k] = Append(run[k - 1], t[k])
      <4>1. k \in K
        BY <2>2 DEF K
      <4> QED BY <1>2, <4>1 DEF Keeps
    <3>2. m(k) = k /\ m(k - 1) = k - 1
      BY <2>2
    <3> HIDE DEF m
    <3>3. Len(run[k]) = k /\ \A i \in 1..(k - 1) : run[k][i] = run[k - 1][i]
      BY <2>1, <3>1, <3>2, AppendProperties
    <3>4. run[k][k] = t[k]
      BY <2>1, <3>1, <3>2, AppendProperties
    <3>5. \A i \in 1..k : run[k][i] = t[i]
      BY <2>1, <3>2, <3>3, <3>4
    <3> QED BY <2>1, <3>2, <3>3, <3>5
  <2>3. CASE ~(k <= n)
    <3>1. run[k] = run[k - 1]
      <4>1. k \notin K
        BY <2>3 DEF K
      <4> QED BY <1>2, <4>1 DEF Keeps
    <3>2. m(k) = n /\ m(k - 1) = n
      BY <2>3
    <3> HIDE DEF m
    <3> QED BY <2>1, <3>1, <3>2
  <2> QED BY <2>2, <2>3
<1>5. 0..len \subseteq T
  <2> HIDE DEF T, len
  <2> QED BY <1>1, <1>3, <1>4, Induction
<1>6. len \in 0..len /\ m(len) = n
  BY <1>1
<1>7. Prefix(run[len], len) /\ run[len] \in Seq(S)
  BY <1>2, <1>5, <1>6
<1> HIDE DEF m
<1> QED BY <1>2, <1>6, <1>7 DEF K

\* What is before the separator of an amount, and what is after it.
LEMMA PlainParts ==
  ASSUME NEW t \in Texts, Plain(t, Separators)
  PROVE  \E n \in 1..MaxWhole :
           /\ n <= Len(t)
           /\ Whole(t) \in Seq(Figure) /\ Len(Whole(t)) = n
           /\ \A i \in 1..n : Whole(t)[i] = t[i]
           /\ Frac(t) \in Seq(Figure) /\ Len(Frac(t)) \in 0..2
           /\ n < Len(t) => Len(Frac(t)) = Len(t) - n - 1
           /\ n = Len(t) => Len(Frac(t)) = 0
           /\ \A i \in 1..Len(Frac(t)) : Frac(t)[i] = t[n + 1 + i]
           /\ \A i \in DOMAIN t : i = n + 1 \/ t[i] \in Figure
           /\ n < Len(t) => t[n + 1] \in Separators /\ Len(t) - n \in {2, 3}
<1>1. PICK n \in 1..MaxWhole :
        /\ n <= Len(t)
        /\ \A j \in DOMAIN t : j = n + 1 \/ t[j] \in Figure
        /\ n < Len(t) => t[n + 1] \in Separators /\ Len(t) - n \in {2, 3}
  BY DEF Plain
<1> DEFINE len == Len(t)
           K == {i \in DOMAIN t : \A j \in 1..i : t[j] \in Figure}
<1>2. len \in Nat /\ DOMAIN t = 1..len /\ n \in 1..len
  <2>1. n \in Nat /\ n >= 1
    BY <1>1, MaxWholeAssumption
  <2> QED BY <1>1, <2>1, TextFacts
<1>3. \A s \in Separators : s \notin Figure
  BY FigureIs DEF Separators
<1>4. K = 1..n
  <2>1. ASSUME NEW i \in 1..n PROVE i \in K
    <3>1. i \in DOMAIN t /\ \A j \in 1..i : j \in DOMAIN t /\ j # n + 1
      BY <1>2
    <3> QED BY <1>1, <3>1
  <2>2. ASSUME NEW i \in K PROVE i \in 1..n
    <3>1. i \in 1..len /\ \A j \in 1..i : t[j] \in Figure
      BY <1>2
    <3>2. ASSUME i > n PROVE FALSE
      <4>1. n + 1 \in 1..i /\ n < len
        BY <1>2, <3>1, <3>2
      <4> QED BY <1>1, <1>3, <3>1, <4>1
    <3> QED BY <1>2, <3>1, <3>2
  <2> HIDE DEF K
  <2> QED BY <2>1, <2>2
<1>5. Whole(t) = At(t, 1..n)
  BY <1>4 DEF Whole
<1>6. Whole(t) \in Seq(Symbol) /\ Len(Whole(t)) = n /\ \A i \in 1..n : Whole(t)[i] = t[i]
  <2>1. t \in Seq(Symbol) /\ n \in 0..Len(t)
    BY <1>2 DEF Texts
  <2> QED BY <1>5, <2>1, AtPrefix
<1>7. \A i \in 1..n : t[i] \in Figure
  <2> SUFFICES ASSUME NEW i \in 1..n PROVE t[i] \in Figure
    OBVIOUS
  <2>1. i \in DOMAIN t /\ i # n + 1
    BY <1>2
  <2> QED BY <1>1, <2>1
<1>8. Whole(t) \in Seq(Figure)
  <2>1. \A i \in 1..Len(Whole(t)) : Whole(t)[i] \in Figure
    BY <1>6, <1>7
  <2> QED BY <1>6, <2>1, Narrowed
<1>9. Frac(t) = SubSeq(t, n + 2, len)
  BY <1>6 DEF Frac
<1>10. \A i \in (n + 2)..len : t[i] \in Figure
  <2> SUFFICES ASSUME NEW i \in (n + 2)..len PROVE t[i] \in Figure
    OBVIOUS
  <2>1. i \in DOMAIN t /\ i # n + 1
    BY <1>2
  <2> QED BY <1>1, <2>1
<1>11. n + 2 \in Int /\ len \in Int
  BY <1>2
<1> HIDE DEF len
<1>12. /\ Frac(t) \in Seq(Figure)
       /\ Len(Frac(t)) = IF n + 2 <= len THEN len - (n + 2) + 1 ELSE 0
       /\ \A i \in 1..(len - (n + 2) + 1) : Frac(t)[i] = t[(n + 2) + i - 1]
  BY <1>9, <1>10, <1>11, SubSeqProperties
<1>13. n < len => len - n \in {2, 3}
  BY <1>1 DEF len
<1>14. Len(Frac(t)) \in 0..2 /\ (n < len => Len(Frac(t)) = len - n - 1) /\ (n = len => Len(Frac(t)) = 0)
  BY <1>2, <1>12, <1>13
<1>15. ASSUME NEW i \in 1..Len(Frac(t)) PROVE Frac(t)[i] = t[n + 1 + i]
  <2>1. i \in 1..(len - (n + 2) + 1) /\ (n + 2) + i - 1 = n + 1 + i
    BY <1>2, <1>12, <1>14
  <2> QED BY <1>12, <2>1
<1> QED BY <1>1, <1>6, <1>8, <1>12, <1>14, <1>15 DEF len

LEMMA CentsIsNat ==
  ASSUME NEW t \in Texts, Plain(t, Separators)
  PROVE  Cents(t) \in Nat
<1>1. Whole(t) \in Seq(Figure) /\ Frac(t) \in Seq(Figure)
  BY PlainParts
<1>2. Number(Whole(t)) \in Nat /\ Number(Frac(t)) \in Nat
  BY <1>1, NumberIsNat
<1> QED BY <1>2 DEF Cents

LEMMA ReadTexts ==
  ASSUME NEW v \in Texts, NEW format
  PROVE  ReadStrictly(v, format).text \in Texts /\ ReadLeniently(v).text \in Texts
<1>1. \A e : Unread(e).text = <<>>
  BY Zenon DEF Unread
<1>2. \A x, y : Read(x, y).text = x
  BY Zenon DEF Read
<1>3. <<>> \in Texts
  BY EmptySeq DEF Texts
<1>4. ASSUME NEW bare \in Texts, NEW currency
      PROVE  ReadUnmarked(bare, format, currency).text \in Texts
  <2>1. At(bare, DOMAIN bare \ Positions(bare, {GroupMark(format)})) \in Texts
    BY AtText
  <2> QED BY <1>1, <1>2, <1>3, <2>1, Zenon DEF ReadUnmarked
<1>5. ReadStrictly(v, format).text \in Texts
  BY <1>1, <1>3, <1>4, UnmarkedKeeps, Zenon DEF ReadStrictly
<1>6. ASSUME NEW whole \in Texts, NEW frac \in Texts, NEW currency
      PROVE  Assembled(whole, frac, currency).text \in Texts
  <2> DEFINE before == IF whole = <<>> THEN <<"0">> ELSE whole
             after == IF frac = <<>> THEN <<>> ELSE <<".">> \o frac
  <2>1. <<"0">> \in Texts /\ <<".">> \in Texts
    <3>1. "0" \in Symbol /\ "." \in Symbol
      BY SymbolFacts, Zenon DEF Separators
    <3> QED BY <3>1 DEF Texts
  <2>2. before \in Texts /\ after \in Texts
    BY <1>3, <2>1, ConcatProperties DEF Texts
  <2>3. before \o after \in Texts
    <3> HIDE DEF before, after
    <3> QED BY <2>2, ConcatProperties DEF Texts
  <2> QED BY <1>1, <1>2, <1>3, <2>3, ZenonT(40) DEF Assembled
<1>7. ASSUME NEW x \in Texts, NEW d, NEW currency
      PROVE  SplitAt(x, d, currency).text \in Texts
  <2>1. /\ At(x, {i \in Positions(x, Figure) : d = 0 \/ i < d}) \in Texts
        /\ At(x, {i \in Positions(x, Figure) : d # 0 /\ i > d}) \in Texts
    BY AtText DEF Positions
  <2> QED BY <1>6, <2>1 DEF SplitAt
<1>8. ASSUME NEW x \in Texts, NEW currency
      PROVE  NormalizeSeparators(x, currency).text \in Texts
  BY <1>1, <1>3, <1>7, Zenon DEF NormalizeSeparators
<1>9. ASSUME NEW x \in Texts, NEW currency
      PROVE  ReadMapped(x, currency).text \in Texts
  <2>1. At(x, Positions(x, Figure \cup Separators)) \in Texts
    BY AtText DEF Positions
  <2> QED BY <1>2, <1>3, <1>8, <2>1, Zenon DEF ReadMapped
<1> QED BY <1>5, <1>9, MapOCRKeeps DEF ReadLeniently

\* An amount that is accepted is a number.
LEMMA AmountIsNat ==
  ASSUME NEW t \in Texts, NEW format, NEW l \in BOOLEAN, Taken(t, format, l)
  PROVE  ParseAmount(t, format, l).cents \in Nat
<1> DEFINE v == TrimSpaces(t)
<1>1. v \in Texts
  BY TrimSpacesKeeps
<1>2. ASSUME NEW read, read.text \in Texts, Sound(read)
      PROVE  Accept(read).cents \in Nat
  <2>1. Plain(read.text, Separators) /\ Accept(read).cents = Cents(read.text)
    BY <1>2, Accepted
  <2> QED BY <1>2, <2>1, CentsIsNat
<1>3. CASE Leniently(format, l)
  <2>1. Sound(ReadLeniently(v)) /\ ParseAmount(t, format, l) = Accept(ReadLeniently(v))
    BY <1>3, Behind
  <2>2. ReadLeniently(v).text \in Texts
    BY <1>1, ReadTexts
  <2> QED BY <1>2, <2>1, <2>2
<1>4. CASE ~Leniently(format, l)
  <2>1. /\ Sound(ReadStrictly(v, format))
        /\ ParseAmount(t, format, l) = Accept(ReadStrictly(v, format))
    BY <1>4, Behind
  <2>2. ReadStrictly(v, format).text \in Texts
    BY <1>1, ReadTexts
  <2> QED BY <1>2, <2>1, <2>2
<1> QED BY <1>3, <1>4

-----------------------------------------------------------------------------
(* The digits of a number, and the payload.                                 *)

LEMMA Tenth ==
  ASSUME NEW n \in Nat
  PROVE  /\ n \div 10 \in Nat /\ n % 10 \in 0..9 /\ n % 10 = n - 10 * (n \div 10)
         /\ n >= 10 => n \div 10 < n /\ n \div 10 > 0
<1>1. n % 10 = n - 10 * (n \div 10)
  OBVIOUS
<1>2. n \div 10 \in Nat
  OBVIOUS
<1>3. n % 10 \in 0..9
  OBVIOUS
<1>4. n >= 10 => n \div 10 < n
  OBVIOUS
<1>5. n >= 10 => n \div 10 > 0
  OBVIOUS
<1> QED BY <1>1, <1>2, <1>3, <1>4, <1>5

LEMMA FigureAt ==
  ASSUME NEW k \in 0..9
  PROVE  Figures[k + 1] \in Figure
<1>1. k + 1 \in DOMAIN Figures
  <2>1. DOMAIN Figures = 1..10
    BY DEF Figures
  <2> QED BY <2>1
<1> QED BY <1>1 DEF Figure, ToSet

LEMMA DigitsAre ==
  ASSUME NEW n \in Nat
  PROVE  /\ Digits[n] \in Seq(Figure)
         /\ Digits[n] = IF n < 10 THEN <<Figures[n + 1]>>
                        ELSE Append(Digits[n \div 10], Figures[(n % 10) + 1])
<1> DEFINE Def(g, k) == IF k < 10 THEN <<Figures[k + 1]>>
                        ELSE Append(g[k \div 10], Figures[(k % 10) + 1])
           V == Seq(Figure)
           Upto(g, m) == g \in [0..m -> V] /\ \A k \in 0..m : g[k] = Def(g, k)
<1>1. ASSUME NEW g, NEW k \in Nat, k >= 10 => g[k \div 10] \in V PROVE Def(g, k) \in V
  <2>1. CASE k < 10
    <3>1. Figures[k + 1] \in Figure
      BY <2>1, FigureAt
    <3> QED BY <2>1, <3>1
  <2>2. CASE ~(k < 10)
    <3>1. Figures[(k % 10) + 1] \in Figure
      BY Tenth, FigureAt
    <3>2. Append(g[k \div 10], Figures[(k % 10) + 1]) \in V
      BY <1>1, <2>2, <3>1, AppendProperties
    <3> QED BY <2>2, <3>2
  <2> QED BY <2>1, <2>2
<1>2. ASSUME NEW g, NEW h, NEW k \in Nat, k >= 10 => g[k \div 10] = h[k \div 10]
      PROVE  Def(g, k) = Def(h, k)
  BY <1>2
<1> HIDE DEF Def, V
<1>3. ASSUME NEW N \in Nat PROVE \E g : Upto(g, N)
  <2> DEFINE T == {m \in 0..N : \E g : Upto(g, m)}
  <2>1. 0 \in T
    <3> DEFINE g == [k \in 0..0 |-> Def(<<>>, k)]
    <3>1. \A k \in 0..0 : k \in Nat /\ ~(k >= 10)
      OBVIOUS
    <3>2. \A k \in 0..0 : Def(<<>>, k) \in V /\ Def(<<>>, k) = Def(g, k)
      <4> HIDE DEF g
      <4> QED BY <1>1, <1>2, <3>1
    <3>3. Upto(g, 0) /\ 0 \in 0..N
      BY <3>2
    <3> HIDE DEF g, Upto
    <3> QED BY <3>3
  <2>2. ASSUME NEW m \in 1..N, m - 1 \in T PROVE m \in T
    <3>1. PICK g : Upto(g, m - 1)
      BY <2>2
    <3> DEFINE h == [k \in 0..m |-> IF k < m THEN g[k] ELSE Def(g, k)]
    <3>2. m \in Nat /\ m \in 0..N
      OBVIOUS
    <3>3. ASSUME NEW k \in 0..m, k < m
          PROVE  k \in 0..(m - 1) /\ h[k] = g[k] /\ g[k] \in V /\ g[k] = Def(g, k)
      <4>1. k \in 0..(m - 1)
        BY <3>2, <3>3
      <4>2. g[k] \in V /\ g[k] = Def(g, k)
        BY <3>1, <4>1
      <4> QED BY <3>3, <4>1, <4>2
    <3>4. ASSUME NEW k \in 0..m, k >= 10
          PROVE  k \div 10 \in 0..(m - 1) /\ h[k \div 10] = g[k \div 10] /\ g[k \div 10] \in V
      <4>1. k \in Nat /\ k \div 10 \in 0..m /\ k \div 10 < m
        BY <3>2, <3>4, Tenth
      <4> HIDE DEF h
      <4> QED BY <3>3, <4>1
    <3>5. \A k \in 0..m : Def(h, k) = Def(g, k) /\ Def(g, k) \in V
      <4> SUFFICES ASSUME NEW k \in 0..m PROVE Def(h, k) = Def(g, k) /\ Def(g, k) \in V
        OBVIOUS
      <4>1. k \in Nat
        BY <3>2
      <4> HIDE DEF h
      <4> QED BY <1>1, <1>2, <3>4, <4>1
    <3>6. \A k \in 0..m : h[k] \in V /\ h[k] = Def(h, k)
      <4> SUFFICES ASSUME NEW k \in 0..m PROVE h[k] \in V /\ h[k] = Def(h, k)
        OBVIOUS
      <4>1. CASE k < m
        <5> HIDE DEF h
        <5> QED BY <3>3, <3>5, <4>1
      <4>2. CASE ~(k < m)
        <5>1. h[k] = Def(g, k)
          BY <4>2
        <5> HIDE DEF h
        <5> QED BY <3>5, <5>1
      <4> QED BY <4>1, <4>2
    <3>7. h \in [0..m -> V]
      BY <3>6
    <3>8. Upto(h, m)
      <4> HIDE DEF h
      <4> QED BY <3>6, <3>7
    <3> HIDE DEF h, Upto
    <3> QED BY <3>2, <3>8
  <2>3. 0..N \subseteq T
    <3> HIDE DEF T
    <3> QED BY <2>1, <2>2, Induction
  <2>4. N \in 0..N
    OBVIOUS
  <2> HIDE DEF Upto
  <2> QED BY <2>3, <2>4
<1>4. ASSUME NEW g, NEW h, NEW M \in Nat, NEW N \in Nat, Upto(g, M), Upto(h, N),
             NEW k \in (0..M) \cap (0..N)
      PROVE  g[k] = h[k]
  <2> DEFINE T == {j \in (0..M) \cap (0..N) : g[j] # h[j]}
  <2>1. ASSUME T # {} PROVE FALSE
    <3>1. T \in SUBSET Nat
      OBVIOUS
    <3>2. PICK m \in T : \A j \in T : m <= j
      <4> HIDE DEF T
      <4> QED BY <2>1, <3>1, LeastNatural
    <3>3. m \in Nat /\ m \in 0..M /\ m \in 0..N /\ g[m] # h[m]
      OBVIOUS
    <3>4. m >= 10 => g[m \div 10] = h[m \div 10]
      <4>1. ASSUME m >= 10 PROVE m \div 10 \in (0..M) \cap (0..N) /\ m \div 10 \notin T
        <5>1. m \div 10 \in Nat /\ m \div 10 < m
          BY <3>3, <4>1, Tenth
        <5>2. m \div 10 \in (0..M) \cap (0..N)
          BY <3>3, <5>1
        <5>3. m \div 10 \notin T
          <6> HIDE DEF T
          <6> QED BY <3>2, <3>3, <5>1
        <5> QED BY <5>2, <5>3
      <4> QED BY <4>1
    <3>5. g[m] = Def(g, m) /\ h[m] = Def(h, m)
      BY <1>4, <3>3
    <3>6. Def(g, m) = Def(h, m)
      <4> HIDE DEF T, Upto
      <4> QED BY <1>2, <3>3, <3>4
    <3> QED BY <3>3, <3>5, <3>6
  <2> QED BY <2>1
<1> DEFINE G(k) == CHOOSE g : Upto(g, k)
           f == [k \in Nat |-> G(k)[k]]
<1>5. \A k \in Nat : Upto(G(k), k)
  <2> HIDE DEF Upto
  <2> QED BY <1>3
<1> HIDE DEF G
<1>6. ASSUME NEW k \in Nat PROVE f[k] \in V /\ f[k] = Def(f, k)
  <2>1. G(k) \in [0..k -> V] /\ G(k)[k] = Def(G(k), k) /\ k \in 0..k
    BY <1>5
  <2>2. f[k] = Def(G(k), k) /\ f[k] \in V
    BY <2>1
  <2>3. k >= 10 => G(k)[k \div 10] = f[k \div 10]
    <3>1. ASSUME k >= 10 PROVE G(k)[k \div 10] = f[k \div 10]
      <4>1. k \div 10 \in Nat /\ k \div 10 \in (0..k) \cap (0..(k \div 10))
        BY <3>1, Tenth
      <4>2. Upto(G(k), k) /\ Upto(G(k \div 10), k \div 10)
        <5> HIDE DEF Upto
        <5> QED BY <1>5, <4>1
      <4>3. G(k)[k \div 10] = G(k \div 10)[k \div 10]
        <5> HIDE DEF Upto
        <5> QED BY <1>4, <4>1, <4>2
      <4> QED BY <4>1, <4>3
    <3> QED BY <3>1
  <2>4. Def(G(k), k) = Def(f, k)
    <3> HIDE DEF f, Upto
    <3> QED BY <1>2, <2>3
  <2> QED BY <2>2, <2>4
<1>7. f = [k \in Nat |-> Def(f, k)]
  <2>1. f = [k \in Nat |-> f[k]]
    OBVIOUS
  <2> HIDE DEF f
  <2> QED BY <1>6, <2>1
<1>8. Digits = [k \in Nat |-> Def(Digits, k)]
  <2>1. Digits = CHOOSE g : g = [k \in Nat |-> Def(g, k)]
    BY DEF Digits, Def
  <2> HIDE DEF f
  <2> QED BY <1>7, <2>1
<1>9. \A k \in Nat : Digits[k] = Def(Digits, k)
  BY <1>8
<1>10. Digits[n] \in V
  <2> DEFINE T == {m \in Nat : Digits[m] \notin V}
  <2>1. ASSUME T # {} PROVE FALSE
    <3>1. T \in SUBSET Nat
      OBVIOUS
    <3>2. PICK m \in T : \A j \in T : m <= j
      <4> HIDE DEF T
      <4> QED BY <2>1, <3>1, LeastNatural
    <3>3. m \in Nat /\ Digits[m] \notin V
      OBVIOUS
    <3>4. m >= 10 => Digits[m \div 10] \in V
      <4>1. ASSUME m >= 10 PROVE m \div 10 \in Nat /\ m \div 10 \notin T
        <5>1. m \div 10 \in Nat /\ m \div 10 < m
          BY <3>3, <4>1, Tenth
        <5> HIDE DEF T
        <5> QED BY <3>2, <3>3, <5>1
      <4> QED BY <4>1
    <3> HIDE DEF T
    <3> QED BY <1>1, <1>9, <3>3, <3>4
  <2> QED BY <2>1
<1> QED BY <1>9, <1>10 DEF Def, V

LEMMA JoinedIsText ==
  ASSUME NEW lines, lines[1] \in Texts, NEW t, t = SubSeq(lines, 2, Len(lines)), t \in Seq(Texts)
  PROVE  Joined(lines) \in Texts
<1> DEFINE n == Len(t)
           V == Texts
           Value(g, s) == IF s = {} THEN lines[1]
                          ELSE g[s \ {Max(s)}] \o <<LineBreak>> \o t[Max(s)]
           d == [p \in V \X (1..n) |-> p[1] \o <<LineBreak>> \o t[p[2]]]
           fold == CHOOSE g : g = [s \in SUBSET DOMAIN t |-> Value(g, s)]
<1>1. n \in Nat /\ DOMAIN t = 1..n /\ \A k \in 1..n : t[k] \in V
  BY LenProperties, ElementOfSeq
<1>2. Joined(lines) = fold[DOMAIN t]
  BY DEF Joined, FoldLeft, MapThenFoldSet
<1>3. \A s, l \in V : s \o <<LineBreak>> \o l \in V
  <2>1. <<LineBreak>> \in Seq(Symbol)
    <3>1. LineBreak \in Symbol
      BY SymbolFacts, Zenon
    <3> QED BY <3>1
  <2> QED BY <2>1, ConcatProperties DEF Texts
<1> HIDE DEF n, V
<1>4. d \in [V \X (1..n) -> V] /\ \A m \in V, k \in 1..n : d[<<m, k>>] = m \o <<LineBreak>> \o t[k]
  BY <1>1, <1>3
<1> lines[1] \in V
  BY DEF V
<1>5. PICK h \in [SUBSET (1..n) -> V] : IsFold(h, lines[1], d, n)
  <2> HIDE DEF d
  <2> QED BY <1>1, <1>4, FoldExists
<1> HIDE DEF d
<1>6. h = [s \in SUBSET DOMAIN t |-> Value(h, s)]
  <2>1. ASSUME NEW s \in SUBSET (1..n) PROVE h[s] = Value(h, s)
    <3>1. CASE s = {}
      BY <1>5, <3>1 DEF IsFold
    <3>2. CASE s # {}
      <4>1. h[s] = d[<<h[s \ {Max(s)}], Max(s)>>]
        BY <1>5, <3>2 DEF IsFold
      <4>2. Max(s) \in s
        BY <1>1, <3>2, MaxIsIn
      <4>3. h[s \ {Max(s)}] \in V /\ Max(s) \in 1..n
        BY <1>5, <4>2
      <4> QED BY <3>2, <4>1, <4>3, <1>4
    <3> QED BY <3>1, <3>2
  <2> HIDE DEF Value
  <2> QED BY <1>1, <1>5, <2>1
<1>7. fold = [s \in SUBSET (1..n) |-> Value(fold, s)]
  <2> HIDE DEF Value
  <2> QED BY <1>1, <1>6
<1> HIDE DEF fold
<1>8. fold[{}] = lines[1]
  BY <1>7
<1>9. ASSUME NEW k \in 1..n, fold[1..(k - 1)] \in V
      PROVE  fold[1..k] = d[<<fold[1..(k - 1)], k>>]
  <2>1. 1..k \in SUBSET (1..n) /\ 1..k # {} /\ Max(1..k) = k /\ (1..k) \ {k} = 1..(k - 1)
    BY <1>1, Initial
  <2>2. fold[1..k] = Value(fold, 1..k)
    <3> HIDE DEF Value
    <3> QED BY <1>7, <2>1
  <2>3. fold[1..k] = fold[1..(k - 1)] \o <<LineBreak>> \o t[k]
    BY <2>1, <2>2
  <2> HIDE DEF Value
  <2> QED BY <1>4, <1>9, <2>3
<1>10. PICK run : Runs(run, lines[1], d, n, V) /\ run[n] = fold[1..n]
  <2>1. Unfolds(fold, lines[1], d, n, V)
    <3> HIDE DEF Value
    <3> QED BY <1>1, <1>4, <1>8, <1>9 DEF Unfolds
  <2> HIDE DEF Value
  <2> QED BY <2>1, FoldRuns DEF HasRun
<1>11. run[n] \in V
  <2>1. n \in 0..n
    BY <1>1
  <2> QED BY <1>10, <2>1 DEF Runs
<1> QED BY <1>1, <1>2, <1>10, <1>11 DEF V

LEMMA TextsKept ==
  ASSUME NEW i \in Input, NEW f \in FreeTexts
  PROVE  Text(i, f) \in Texts /\ (Trim(i[f]) # <<>> => Text(i, f) # <<>>)
<1> DEFINE t == Trim(i[f])
           k == IF Len(t) < Limit[f] THEN Len(t) ELSE Limit[f]
<1>1. t \in Texts
  <2> DEFINE K == {n \in DOMAIN i[f] : \E a, b \in DOMAIN i[f] :
                     a <= n /\ n <= b /\ ~IsSpace(i[f][a]) /\ ~IsSpace(i[f][b])}
  <2>1. Trim(i[f]) = At(i[f], K) /\ K \in SUBSET DOMAIN i[f]
    BY DEF Trim
  <2>2. i[f] \in Texts
    BY InputFacts
  <2> HIDE DEF K
  <2> QED BY <2>1, <2>2, AtText
<1>2. Text(i, f) = SubSeq(t, 1, k)
  BY DEF Text, Truncated
<1> HIDE DEF t
<1>3. Limit[f] \in Nat /\ Limit[f] > 0
  <2>1. Limit \in [FreeTexts -> Nat \ {0}]
    BY PaymentsAssumption, Zenon
  <2> QED BY <2>1
<1>4. /\ Len(t) \in Nat /\ (t # <<>> => Len(t) > 0)
      /\ \A n \in 1..Len(t) : t[n] \in Symbol
  BY <1>1, TextFacts, EmptySeq DEF Texts
<1>5. k \in 0..Len(t) /\ (t # <<>> => k > 0)
  BY <1>3, <1>4
<1> HIDE DEF k
<1>6. \A n \in 1..k : t[n] \in Symbol
  BY <1>4, <1>5
<1>7. k \in Int
  BY <1>4, <1>5
<1>8. /\ SubSeq(t, 1, k) \in Seq(Symbol)
      /\ Len(SubSeq(t, 1, k)) = IF 1 <= k THEN k - 1 + 1 ELSE 0
  <2>1. 1 \in Int
    OBVIOUS
  <2> QED BY <1>6, <1>7, <2>1, SubSeqProperties
<1>9. t # <<>> => SubSeq(t, 1, k) # <<>>
  <2>1. ASSUME t # <<>> PROVE Len(SubSeq(t, 1, k)) # 0
    BY <1>5, <1>7, <1>8, <2>1
  <2>2. Len(<<>>) = 0
    OBVIOUS
  <2> QED BY <2>1, <2>2, Zenon
<1> QED BY <1>2, <1>8, <1>9 DEF Texts, t

LEMMA PrintedIsText ==
  ASSUME NEW cents \in Nat
  PROVE  <<"EUR">> \o Printed(cents, ".") \in Texts
<1>1. Figure \subseteq Symbol /\ "." \in Symbol /\ "EUR" \in Symbol
  BY SymbolFacts, Zenon DEF Separators
<1> DEFINE euros == Digits[cents \div 100]
           tens == Figures[((cents % 100) \div 10) + 1]
           ones == Figures[(cents % 10) + 1]
<1>2. euros \in Seq(Symbol)
  <2>1. cents \div 100 \in Nat
    OBVIOUS
  <2>2. euros \in Seq(Figure)
    BY <2>1, DigitsAre
  <2> QED BY <1>1, <2>2, SeqMonotonic
<1>3. tens \in Symbol /\ ones \in Symbol
  <2>1. (cents % 100) \div 10 \in 0..9 /\ cents % 10 \in 0..9
    OBVIOUS
  <2> QED BY <1>1, <2>1, FigureAt
<1>4. Printed(cents, ".") = euros \o <<".">> \o <<tens, ones>>
  BY DEF Printed
<1> HIDE DEF euros, tens, ones
<1>5. <<"EUR">> \in Seq(Symbol) /\ <<".">> \in Seq(Symbol) /\ <<tens, ones>> \in Seq(Symbol)
  BY <1>1, <1>3
<1>6. euros \o <<".">> \in Seq(Symbol)
  BY <1>2, <1>5, ConcatProperties
<1>7. euros \o <<".">> \o <<tens, ones>> \in Seq(Symbol)
  BY <1>5, <1>6, ConcatProperties
<1> QED BY <1>4, <1>5, <1>7, ConcatProperties DEF Texts

LEMMA PayloadIsText ==
  ASSUME NEW i \in Input, Right(i), lenient \in BOOLEAN
  PROVE  Payload(Validated(i)) \in Texts
<1> DEFINE c == Validated(i)
<1>1. /\ c.bic = i.bic /\ c.name = Text(i, "name") /\ c.iban = i.iban /\ c.cents = Amount(i).cents
      /\ c.purpose = Purpose(i) /\ c.reference = Text(i, "remittance_reference")
      /\ c.text = Text(i, "remittance_text") /\ c.information = Text(i, "information")
  BY Zenon DEF Validated
<1> HIDE DEF c
<1>2. /\ "name" \in FreeTexts /\ "purpose" \in FreeTexts /\ "information" \in FreeTexts
      /\ "remittance_reference" \in FreeTexts /\ "remittance_text" \in FreeTexts
  BY Zenon DEF FreeTexts
<1>3. /\ c.name \in Texts /\ c.purpose \in Texts /\ c.reference \in Texts /\ c.text \in Texts
      /\ c.information \in Texts /\ c.iban \in Texts /\ c.bic \in Symbol
  <2>1. \A f \in FreeTexts : Text(i, f) \in Texts
    BY TextsKept
  <2>2. Purpose(i) \in Texts
    <3>1. <<"GDDS">> \in Texts
      <4>1. "GDDS" \in Symbol
        BY SymbolFacts, Zenon
      <4> QED BY <4>1 DEF Texts
    <3> QED BY <1>2, <2>1, <3>1, Zenon DEF Purpose
  <2>3. i.iban \in Texts /\ i.bic \in Symbol
    BY InputFacts, Zenon DEF IsInput, Texts
  <2> QED BY <1>1, <1>2, <2>1, <2>2, <2>3, Zenon
<1>4. c.name # <<>>
  <2>1. Trim(i["name"]) # <<>>
    BY Zenon DEF Right
  <2> QED BY <1>1, <1>2, <2>1, TextsKept, Zenon
<1>5. c.cents \in Nat
  <2>1. Taken(i.amount, i.amount_format, lenient)
    BY Zenon DEF Right, Amount, Taken
  <2>2. i.amount \in Texts
    BY InputFacts
  <2>3. ParseAmount(i.amount, i.amount_format, lenient).cents \in Nat
    BY <2>1, <2>2, AmountIsNat
  <2> QED BY <1>1, <2>3, Zenon DEF Amount
<1>6. Payload(c) = Joined(Lines(c))
  BY <1>1, <1>4, Zenon DEF Right, Payload
<1> DEFINE p == <<"EUR">> \o Printed(c.cents, ".")
           lines == Lines(c)
<1>7. p \in Texts
  BY <1>5, PrintedIsText
<1>8. <<"BCD">> \in Texts /\ <<"001">> \in Texts /\ <<"1">> \in Texts /\ <<"SCT">> \in Texts
      /\ <<c.bic>> \in Texts
  <2>1. "BCD" \in Symbol /\ "001" \in Symbol /\ "SCT" \in Symbol
    BY SymbolFacts, Zenon
  <2>2. "1" \in Symbol
    BY SymbolFacts, FigureIs, Zenon
  <2> QED BY <1>3, <2>1, <2>2 DEF Texts
<1>9. lines = <<<<"BCD">>, <<"001">>, <<"1">>, <<"SCT">>, <<c.bic>>, c.name, c.iban,
                p, c.purpose, c.reference, c.text, c.information>>
  BY DEF Lines
<1> HIDE DEF lines, p
<1>10. Len(lines) = 12 /\ \A k \in 1..12 : lines[k] \in Texts
  BY <1>3, <1>7, <1>8, <1>9
<1> DEFINE t == SubSeq(lines, 2, Len(lines))
<1>11. t \in Seq(Texts)
  <2>1. t = SubSeq(lines, 2, 12) /\ \A k \in 2..12 : lines[k] \in Texts
    BY <1>10
  <2>2. 2 \in Int /\ 12 \in Int
    OBVIOUS
  <2> HIDE DEF t
  <2> QED BY <2>1, <2>2, SubSeqProperties
<1>12. Joined(lines) \in Texts
  <2>1. lines[1] \in Texts
    BY <1>10
  <2> QED BY <1>11, <2>1, JoinedIsText
<1> QED BY <1>6, <1>12 DEF c, lines

\* Whatever has been validated has a payload: the error payload_build_failed is
\* never answered.  See PayloadNeverFails.
THEOREM WhatIsCleanIsBuilt == Spec => []PayloadNeverFails
<1>1. PaymentsInv => PayloadNeverFails
  <2> SUFFICES ASSUME PaymentsInv, at = "built" PROVE payload # None
    BY DEF PayloadNeverFails
  <2>1. /\ in \in Input /\ lenient \in BOOLEAN /\ Fault(in) = None
        /\ payload = Payload(Validated(in))
    BY DEF PaymentsInv
  <2>2. Right(in)
    BY <2>1, NotRefused
  <2>3. payload \in Texts
    BY <2>1, <2>2, PayloadIsText
  <2>4. None \notin Texts
    BY PaymentsAssumption, Zenon DEF Texts
  <2> QED BY <2>3, <2>4
<1> QED BY <1>1, Invariance, PTL

-----------------------------------------------------------------------------
(* The checksum of an account number.                                       *)

Chars == Figure \cup Letter

\* What a character adds: a letter counts as two figures.
Times(c) == IF c \in Figure THEN 10 ELSE 100

LEMMA StepIs ==
  ASSUME NEW m \in 0..96, NEW c \in Chars
  PROVE  /\ Step(m, c) \in 0..96
         /\ \E z \in Int : Step(m, c) = Times(c) * m + Worth[c] - 97 * z
<1> DEFINE w == Worth[c]
<1>1. w \in 0..35
  BY WorthFacts DEF Chars
<1> HIDE DEF w
<1>2. \A x \in Nat : x % 97 \in 0..96 /\ x \div 97 \in Int /\ x % 97 = x - 97 * (x \div 97)
  OBVIOUS
<1>3. CASE c \in Figure
  <2> DEFINE x == m * 10 + w
  <2>1. x \in Nat /\ Step(m, c) = x % 97
    BY <1>1, <1>3 DEF Step, w
  <2>2. x = 10 * m + w
    BY <1>1
  <2> HIDE DEF x
  <2>3. x % 97 \in 0..96 /\ x \div 97 \in Int /\ x % 97 = x - 97 * (x \div 97)
    BY <1>2, <2>1
  <2> DEFINE k == x \div 97
             u == x % 97
  <2>4. k \in Int /\ u = x - 97 * k /\ u \in 0..96 /\ Step(m, c) = u
    BY <2>1, <2>3
  <2> HIDE DEF k, u
  <2>5. Step(m, c) \in 0..96 /\ Step(m, c) = 10 * m + w - 97 * k
    BY <1>1, <2>2, <2>4
  <2> QED BY <1>3, <2>4, <2>5 DEF Times, w
<1>4. CASE c \notin Figure
  <2> DEFINE tens == w \div 10
             ones == w % 10
             x == m * 10 + tens
             u == x % 97
             y == u * 10 + ones
  <2>1. tens \in Nat /\ ones \in Nat /\ ones = w - 10 * tens
    BY <1>1, Tenth
  <2>2. Step(m, c) = y % 97
    BY <1>4 DEF Step, w
  <2> HIDE DEF tens, ones
  <2>3. x \in Nat /\ x = 10 * m + tens
    BY <2>1
  <2> HIDE DEF x
  <2>4. u \in 0..96 /\ u = x - 97 * (x \div 97) /\ x \div 97 \in Int
    BY <1>2, <2>3
  <2> HIDE DEF u
  <2>5. y \in Nat /\ y = 10 * u + ones
    BY <2>1, <2>4
  <2> HIDE DEF y
  <2>6. Step(m, c) \in 0..96 /\ Step(m, c) = y - 97 * (y \div 97) /\ y \div 97 \in Int
    BY <1>2, <2>2, <2>5
  <2> DEFINE k1 == x \div 97
             k2 == y \div 97
  <2>7. k1 \in Int /\ k2 \in Int /\ u = x - 97 * k1 /\ Step(m, c) = y - 97 * k2
    BY <2>4, <2>6
  <2> HIDE DEF k1, k2
  <2>8. Step(m, c) = 100 * m + w - 97 * (10 * k1 + k2) /\ 10 * k1 + k2 \in Int
    BY <1>1, <2>1, <2>3, <2>5, <2>7
  <2> QED BY <1>4, <2>6, <2>8 DEF Times, w
<1> QED BY <1>3, <1>4

\* A multiple of 97 this close to zero is zero.
LEMMA NoMultiple ==
  ASSUME NEW x \in Int, NEW z \in Int, x = 97 * z, x < 97, x > -97
  PROVE  x = 0
  OBVIOUS

\* From different sums a character makes different sums.
LEMMA StepKeepsApart ==
  ASSUME NEW m \in 0..96, NEW l \in 0..96, NEW c \in Chars, Step(m, c) = Step(l, c)
  PROVE  m = l
<1>1. PICK y \in Int, z \in Int : /\ Step(m, c) = Times(c) * m + Worth[c] - 97 * y
                                  /\ Step(l, c) = Times(c) * l + Worth[c] - 97 * z
  BY StepIs
<1> DEFINE x == m - l
           w == Worth[c]
<1>2. w \in Int
  BY WorthFacts DEF Chars
<1> HIDE DEF w
<1>3. x \in Int /\ x < 97 /\ x > -97
  OBVIOUS
<1>4. CASE c \in Figure
  <2>1. 10 * m + w - 97 * y = 10 * l + w - 97 * z
    BY <1>1, <1>4 DEF Times, w
  <2>2. x = 97 * (68 * (y - z) - 7 * x)
    BY <1>2, <2>1
  <2>3. 68 * (y - z) - 7 * x \in Int
    OBVIOUS
  <2>4. x = 0
    <3> HIDE DEF x
    <3> QED BY <1>3, <2>2, <2>3, NoMultiple
  <2> QED BY <2>4
<1>5. CASE c \notin Figure
  <2>1. 100 * m + w - 97 * y = 100 * l + w - 97 * z
    BY <1>1, <1>5 DEF Times, w
  <2>2. x = 97 * (65 * (y - z) - 67 * x)
    BY <1>2, <2>1
  <2>3. 65 * (y - z) - 67 * x \in Int
    OBVIOUS
  <2>4. x = 0
    <3> HIDE DEF x
    <3> QED BY <1>3, <2>2, <2>3, NoMultiple
  <2> QED BY <2>4
<1> QED BY <1>4, <1>5

LEMMA WorthApart ==
  ASSUME NEW c \in Chars, NEW d \in Chars, c # d
  PROVE  Worth[c] - Worth[d] \in (-35)..35 /\ Worth[c] - Worth[d] # 0
<1>1. /\ Worth[c] \in 0..35 /\ (Figures \o Letters)[Worth[c] + 1] = c
      /\ Worth[d] \in 0..35 /\ (Figures \o Letters)[Worth[d] + 1] = d
  BY WorthFacts DEF Chars
<1>2. Worth[c] # Worth[d]
  BY <1>1
<1> DEFINE v == Worth[c]
           w == Worth[d]
<1>3. v \in 0..35 /\ w \in 0..35 /\ v # w
  BY <1>1, <1>2
<1> HIDE DEF v, w
<1>4. v - w \in (-35)..35 /\ v - w # 0
  BY <1>3
<1> QED BY <1>4 DEF v, w

\* Different characters of a kind make different sums.
LEMMA CharsApart ==
  ASSUME NEW m \in 0..96, NEW c \in Chars, NEW d \in Chars, c # d, Times(c) = Times(d)
  PROVE  Step(m, c) # Step(m, d)
<1>1. PICK y \in Int, z \in Int : /\ Step(m, c) = Times(c) * m + Worth[c] - 97 * y
                                  /\ Step(m, d) = Times(c) * m + Worth[d] - 97 * z
  <2>1. PICK y \in Int : Step(m, c) = Times(c) * m + Worth[c] - 97 * y
    BY StepIs
  <2>2. PICK z \in Int : Step(m, d) = Times(d) * m + Worth[d] - 97 * z
    BY StepIs
  <2>3. Times(d) * m + Worth[d] - 97 * z = Times(c) * m + Worth[d] - 97 * z
    OBVIOUS
  <2> QED BY <2>1, <2>2, <2>3, ZenonT(40)
<1> DEFINE x == Worth[c] - Worth[d]
           t == Times(c) * m
<1>2. Worth[c] \in Int /\ Worth[d] \in Int /\ x \in (-35)..35 /\ x # 0
  <2>1. Worth[c] \in Nat /\ Worth[d] \in Nat
    BY WorthFacts DEF Chars
  <2>2. x \in (-35)..35 /\ x # 0
    BY WorthApart
  <2> QED BY <2>1, <2>2
<1>3. t \in Int
  BY DEF Times
<1> HIDE DEF t
<1>4. ASSUME Step(m, c) = Step(m, d) PROVE FALSE
  <2>1. t + Worth[c] - 97 * y = t + Worth[d] - 97 * z
    BY <1>1, <1>4 DEF t
  <2>2. x = 97 * (y - z) /\ y - z \in Int
    BY <1>2, <1>3, <2>1
  <2> HIDE DEF x
  <2> QED BY <1>2, <2>2, NoMultiple
<1> QED BY <1>4

\* So do two figures in the other order.
LEMMA OrderMatters ==
  ASSUME NEW m \in 0..96, NEW c \in Figure, NEW d \in Figure, c # d
  PROVE  Step(Step(m, c), d) # Step(Step(m, d), c)
<1>1. c \in Chars /\ d \in Chars /\ Times(c) = 10 /\ Times(d) = 10
  BY DEF Chars, Times
<1> DEFINE f == Step(m, c)
           g == Step(m, d)
           v == Worth[c]
           w == Worth[d]
<1>2. f \in 0..96 /\ g \in 0..96
  BY <1>1, StepIs
<1>3. PICK a \in Int, b \in Int : f = 10 * m + v - 97 * a /\ g = 10 * m + w - 97 * b
  BY <1>1, StepIs
<1> HIDE DEF f, g
<1>4. PICK y \in Int, z \in Int : Step(f, d) = 10 * f + w - 97 * y /\ Step(g, c) = 10 * g + v - 97 * z
  BY <1>1, <1>2, StepIs, SMTT(30)
<1>5. v \in Int /\ w \in Int /\ v - w \in (-35)..35 /\ v - w # 0
  BY <1>1, WorthApart, WorthFacts DEF Chars
<1> HIDE DEF v, w
<1> DEFINE x == v - w
           n == 10 * a + y - 10 * b - z
<1>6. ASSUME Step(f, d) = Step(g, c) PROVE FALSE
  <2>1. 10 * (10 * m + v - 97 * a) + w - 97 * y = 10 * (10 * m + w - 97 * b) + v - 97 * z
    BY <1>3, <1>4, <1>6
  <2>2. 9 * x = 97 * n /\ n \in Int /\ x \in Int
    BY <1>5, <2>1
  <2>3. x < 97 /\ x > -97 /\ x # 0
    BY <1>5
  <2> HIDE DEF x, n
  <2>4. x = 97 * (54 * n - 5 * x) /\ 54 * n - 5 * x \in Int
    BY <2>2
  <2> QED BY <2>2, <2>3, <2>4, NoMultiple
<1> QED BY <1>6 DEF f, g

\* The sum over an account number, character by character.
LEMMA ChecksumRuns ==
  ASSUME NEW r \in Seq(Chars)
  PROVE  \E run \in [0..Len(r) -> 0..96] :
           /\ run[0] = 0 /\ run[Len(r)] = FoldLeft(Step, 0, r)
           /\ \A k \in 1..Len(r) : run[k] = Step(run[k - 1], r[k])
<1> DEFINE n == Len(r)
           Value(g, s) == IF s = {} THEN 0 ELSE Step(g[s \ {Max(s)}], r[Max(s)])
           d == [p \in (0..96) \X (1..n) |-> Step(p[1], r[p[2]])]
           fold == CHOOSE g : g = [s \in SUBSET DOMAIN r |-> Value(g, s)]
<1>1. n \in Nat /\ DOMAIN r = 1..n /\ \A k \in 1..n : r[k] \in Chars
  BY LenProperties, ElementOfSeq
<1>2. FoldLeft(Step, 0, r) = fold[DOMAIN r]
  BY DEF FoldLeft, MapThenFoldSet
<1> HIDE DEF n
<1>3. d \in [(0..96) \X (1..n) -> 0..96]
  <2>1. ASSUME NEW p \in (0..96) \X (1..n) PROVE Step(p[1], r[p[2]]) \in 0..96
    <3>1. p[1] \in 0..96 /\ r[p[2]] \in Chars
      BY <1>1
    <3> QED BY <3>1, StepIs
  <2> QED BY <2>1
<1>4. PICK h \in [SUBSET (1..n) -> 0..96] : IsFold(h, 0, d, n)
  <2>1. 0 \in 0..96
    OBVIOUS
  <2> HIDE DEF d
  <2> QED BY <1>1, <1>3, <2>1, FoldExists
<1>5. \A m \in 0..96, k \in 1..n : d[<<m, k>>] = Step(m, r[k])
  OBVIOUS
<1>6. h = [s \in SUBSET DOMAIN r |-> Value(h, s)]
  <2>1. ASSUME NEW s \in SUBSET (1..n) PROVE h[s] = Value(h, s)
    <3>1. CASE s = {}
      BY <1>4, <3>1 DEF IsFold
    <3>2. CASE s # {}
      <4>1. h[s] = d[<<h[s \ {Max(s)}], Max(s)>>]
        BY <1>4, <3>2 DEF IsFold
      <4>2. Max(s) \in s
        BY <1>1, <3>2, MaxIsIn
      <4>3. h[s \ {Max(s)}] \in 0..96 /\ Max(s) \in 1..n
        BY <1>4, <4>2
      <4> HIDE DEF d
      <4> QED BY <3>2, <4>1, <4>3, <1>5
    <3> QED BY <3>1, <3>2
  <2> HIDE DEF Value
  <2> QED BY <1>1, <1>4, <2>1
<1>7. fold = [s \in SUBSET (1..n) |-> Value(fold, s)]
  <2> HIDE DEF Value
  <2> QED BY <1>1, <1>6
<1> HIDE DEF fold, d
<1>8. fold[{}] = 0
  BY <1>7
<1>9. ASSUME NEW k \in 1..n, fold[1..(k - 1)] \in 0..96
      PROVE  fold[1..k] = d[<<fold[1..(k - 1)], k>>]
  <2>1. 1..k \in SUBSET (1..n) /\ 1..k # {} /\ Max(1..k) = k /\ (1..k) \ {k} = 1..(k - 1)
    BY <1>1, Initial
  <2>2. fold[1..k] = Value(fold, 1..k)
    <3> HIDE DEF Value
    <3> QED BY <1>7, <2>1
  <2>3. fold[1..k] = Step(fold[1..(k - 1)], r[k])
    BY <2>1, <2>2
  <2> HIDE DEF Value
  <2> QED BY <1>5, <1>9, <2>3
<1>10. PICK run : Runs(run, 0, d, n, 0..96) /\ run[n] = fold[1..n]
  <2>1. Unfolds(fold, 0, d, n, 0..96)
    <3> HIDE DEF Value
    <3>1. 0 \in 0..96 /\ 1..0 = {}
      OBVIOUS
    <3> DEFINE V == 0..96
    <3>2. /\ 0 \in V /\ d \in [V \X (1..n) -> V]
          /\ \A k \in 1..n : fold[1..(k - 1)] \in V => fold[1..k] = d[<<fold[1..(k - 1)], k>>]
      BY <1>3, <1>9, <3>1
    <3> HIDE DEF V
    <3>3. Unfolds(fold, 0, d, n, V)
      BY <1>1, <1>8, <3>1, <3>2 DEF Unfolds
    <3> QED BY <3>3 DEF V
  <2> HIDE DEF Value
  <2> QED BY <2>1, FoldRuns DEF HasRun
<1>11. ASSUME NEW k \in 1..n PROVE run[k] = Step(run[k - 1], r[k])
  <2>1. k - 1 \in 0..n
    BY <1>1
  <2>2. run[k - 1] \in 0..96 /\ run[k] = d[<<run[k - 1], k>>]
    BY <1>10, <2>1 DEF Runs
  <2> QED BY <1>5, <2>2
<1>12. run[n] = FoldLeft(Step, 0, r)
  BY <1>1, <1>2, <1>10
<1>13. run \in [0..n -> 0..96] /\ run[0] = 0
  BY <1>10 DEF Runs
<1> QED BY <1>11, <1>12, <1>13 DEF n

\* The four characters in front go to the end.
LEMMA RearrangedIs ==
  ASSUME NEW p \in Seq(Chars), Len(p) >= 5
  PROVE  /\ Rearranged(p) \in Seq(Chars) /\ Len(Rearranged(p)) = Len(p)
         /\ \A k \in 1..(Len(p) - 4) : Rearranged(p)[k] = p[k + 4]
         /\ \A k \in 1..4 : Rearranged(p)[Len(p) - 4 + k] = p[k]
<1> DEFINE n == Len(p)
           a == SubSeq(p, 5, n)
           b == SubSeq(p, 1, 4)
<1>1. n \in Nat /\ n >= 5 /\ p \in [1..n -> Chars]
  BY LenProperties
<1>2. /\ a \in Seq(Chars) /\ Len(a) = n - 4
      /\ \A k \in 1..(n - 4) : a[k] = p[k + 4]
  BY <1>1, SubSeqProperties
<1>3. /\ b \in Seq(Chars) /\ Len(b) = 4
      /\ \A k \in 1..4 : b[k] = p[k]
  BY <1>1, SubSeqProperties
<1>4. Rearranged(p) = a \o b
  BY DEF Rearranged
<1> HIDE DEF a, b, n
<1>5. /\ a \o b \in Seq(Chars) /\ Len(a \o b) = n
      /\ \A k \in 1..(n - 4) : (a \o b)[k] = a[k]
      /\ \A k \in 1..4 : (a \o b)[n - 4 + k] = b[k]
  <2> DEFINE ab == a \o b
  <2>1. /\ ab \in Seq(Chars) /\ Len(ab) = Len(a) + Len(b)
        /\ \A i \in 1..(Len(a) + Len(b)) : ab[i] = IF i <= Len(a) THEN a[i] ELSE b[i - Len(a)]
    BY <1>2, <1>3, ConcatProperties
  <2> HIDE DEF ab
  <2>2. ASSUME NEW k \in 1..(n - 4) PROVE ab[k] = a[k]
    <3>1. k \in 1..(Len(a) + Len(b)) /\ k <= Len(a)
      BY <1>1, <1>2, <1>3
    <3> QED BY <2>1, <3>1
  <2>3. ASSUME NEW k \in 1..4 PROVE ab[n - 4 + k] = b[k]
    <3> DEFINE i == n - 4 + k
    <3>1. i \in 1..(Len(a) + Len(b)) /\ ~(i <= Len(a)) /\ i - Len(a) = k
      BY <1>1, <1>2, <1>3
    <3> HIDE DEF i
    <3>2. ab[i] = b[i - Len(a)]
      BY <2>1, <3>1
    <3> QED BY <3>1, <3>2 DEF i
  <2>4. Len(ab) = n
    BY <1>1, <1>2, <1>3, <2>1
  <2> QED BY <2>1, <2>2, <2>3, <2>4 DEF ab
<1> QED BY <1>2, <1>3, <1>4, <1>5 DEF n

\* Which power of ten a number is, counted modulo 97.
Power == <<0, 86, 2, 76, 11, 88, 53, 66, 4, 1, 82, 78, 83, 43, 13, 56,
           19, 90, 27, 87, 55, 72, 79, 68, 22, 73, 6, 33, 47, 3, 26, 46,
           84, 9, 64, 80, 41, 17, 85, 77, 71, 45, 44, 62, 15, 69, 60, 58,
           10, 12, 21, 63, 14, 92, 93, 23, 29, 37, 65, 89, 32, 16, 57, 36,
           94, 74, 51, 95, 81, 54, 25, 70, 20, 31, 24, 7, 39, 75, 42, 67,
           8, 61, 91, 35, 30, 34, 49, 52, 18, 5, 40, 59, 28, 50, 38, 48>>

LEMMA TenTimes ==
  ASSUME NEW x \in 1..96, NEW y \in 1..96, NEW z \in Int, y = 10 * x - 97 * z
  PROVE  Power[x] \in Int /\ Power[y] \in {Power[x] + 1, Power[x] - 95}
  BY DEF Power

Apart == ((-96)..96) \ {0}

\* The power of ten by which two sums are apart.
Exponent(x) == Power[IF x > 0 THEN x ELSE x + 97]

LEMMA Tenfold ==
  ASSUME NEW x \in Apart, NEW y \in Apart, NEW z \in Int, y = 10 * x - 97 * z
  PROVE  Exponent(x) \in Int /\ Exponent(y) \in {Exponent(x) + 1, Exponent(x) - 95}
<1> DEFINE u == IF x > 0 THEN x ELSE x + 97
           v == IF y > 0 THEN y ELSE y + 97
<1>1. u \in 1..96 /\ v \in 1..96
  BY DEF Apart
<1>2. PICK w \in Int : v = 10 * u - 97 * w
  <2>1. CASE x > 0 /\ y > 0
    BY <2>1 DEF Apart
  <2>2. CASE x > 0 /\ ~(y > 0)
    <3>1. v = 10 * u - 97 * (z - 1) /\ z - 1 \in Int
      BY <2>2 DEF Apart
    <3> QED BY <3>1
  <2>3. CASE ~(x > 0) /\ y > 0
    <3>1. v = 10 * u - 97 * (z + 10) /\ z + 10 \in Int
      BY <2>3 DEF Apart
    <3> QED BY <3>1
  <2>4. CASE ~(x > 0) /\ ~(y > 0)
    <3>1. v = 10 * u - 97 * (z + 9) /\ z + 9 \in Int
      BY <2>4 DEF Apart
    <3> QED BY <3>1
  <2> QED BY <2>1, <2>2, <2>3, <2>4
<1>3. Exponent(x) = Power[u] /\ Exponent(y) = Power[v]
  BY DEF Exponent
<1> HIDE DEF u, v
<1>4. Power[u] \in Int /\ Power[v] \in {Power[u] + 1, Power[u] - 95}
  BY <1>1, <1>2, TenTimes, Zenon
<1> QED BY <1>3, <1>4

\* A character raises the power by one or two.
LEMMA StepRaises ==
  ASSUME NEW m \in 0..96, NEW l \in 0..96, m # l, NEW c \in Chars
  PROVE  \E e \in 1..2, z \in Int :
           Exponent(Step(m, c) - Step(l, c)) = Exponent(m - l) + e - 96 * z
<1> DEFINE x == m - l
           y == Step(m, c) - Step(l, c)
           w == Worth[c]
<1>1. PICK a \in Int, b \in Int : /\ Step(m, c) = Times(c) * m + w - 97 * a
                                  /\ Step(l, c) = Times(c) * l + w - 97 * b
  BY StepIs
<1>2. Step(m, c) \in 0..96 /\ Step(l, c) \in 0..96 /\ Step(m, c) # Step(l, c) /\ w \in Int
  <2>1. w \in Nat
    BY WorthFacts DEF Chars
  <2>2. Step(m, c) \in 0..96 /\ Step(l, c) \in 0..96
    BY StepIs
  <2>3. Step(m, c) # Step(l, c)
    BY StepKeepsApart, Zenon
  <2>4. w \in Int
    BY <2>1
  <2> QED BY <2>2, <2>3, <2>4
<1>3. x \in Apart /\ y \in Apart
  BY <1>2 DEF Apart
<1>4. CASE c \in Figure
  <2>1. y = 10 * x - 97 * (a - b) /\ a - b \in Int
    <3>1. Step(m, c) = 10 * m + w - 97 * a /\ Step(l, c) = 10 * l + w - 97 * b
      BY <1>1, <1>4 DEF Times
    <3> HIDE DEF w
    <3> QED BY <1>2, <3>1
  <2>2. Exponent(x) \in Int /\ Exponent(y) \in {Exponent(x) + 1, Exponent(x) - 95}
    <3> HIDE DEF x, y
    <3> QED BY <1>3, <2>1, Tenfold
  <2> HIDE DEF x, y
  <2>3. \/ Exponent(y) = Exponent(x) + 1 - 96 * 0
        \/ Exponent(y) = Exponent(x) + 1 - 96 * 1
    BY <2>2
  <2>4. 1 \in 1..2 /\ 0 \in Int /\ 1 \in Int
    OBVIOUS
  <2> QED BY <2>3, <2>4 DEF x, y
<1>5. CASE c \notin Figure
  <2> DEFINE q == (10 * x) \div 97
             u == 10 * x - 97 * q
  <2>1. q \in Int /\ u \in 0..96
    BY <1>3 DEF Apart
  <2> HIDE DEF q
  <2>2. u # 0
    <3>1. ASSUME u = 0 PROVE FALSE
      <4>1. 10 * x = 97 * q
        BY <2>1, <3>1
      <4>2. x = 97 * (68 * q - 7 * x) /\ 68 * q - 7 * x \in Int /\ x \in Int /\ x < 97 /\ x > -97 /\ x # 0
        BY <2>1, <4>1
      <4> HIDE DEF x
      <4> QED BY <4>2, NoMultiple
    <3> QED BY <3>1
  <2>3. u \in Apart
    <3> HIDE DEF u
    <3> QED BY <2>1, <2>2 DEF Apart
  <2>4. y = 100 * x - 97 * (a - b)
    <3>1. Step(m, c) = 100 * m + w - 97 * a /\ Step(l, c) = 100 * l + w - 97 * b
      BY <1>1, <1>5 DEF Times
    <3> HIDE DEF w
    <3> QED BY <1>2, <3>1
  <2>5. y = 10 * u - 97 * (a - b - 10 * q) /\ a - b - 10 * q \in Int
    <3> HIDE DEF y
    <3> QED BY <2>1, <2>4
  <2>6. Exponent(x) \in Int /\ Exponent(u) \in {Exponent(x) + 1, Exponent(x) - 95}
    <3>1. u = 10 * x - 97 * q
      OBVIOUS
    <3> HIDE DEF x, u
    <3> QED BY <1>3, <2>1, <2>3, <3>1, Tenfold
  <2>7. Exponent(u) \in Int /\ Exponent(y) \in {Exponent(u) + 1, Exponent(u) - 95}
    <3> HIDE DEF u, y
    <3> QED BY <1>3, <2>3, <2>5, Tenfold
  <2> HIDE DEF x, y, u
  <2>8. \/ Exponent(y) = Exponent(x) + 2 - 96 * 0
        \/ Exponent(y) = Exponent(x) + 2 - 96 * 1
        \/ Exponent(y) = Exponent(x) + 2 - 96 * 2
    BY <2>6, <2>7
  <2>9. 2 \in 1..2 /\ 0 \in Int /\ 1 \in Int /\ 2 \in Int
    OBVIOUS
  <2> QED BY <2>8, <2>9 DEF x, y
<1> QED BY <1>4, <1>5

\* The sums over two account numbers of n characters.
TwoSums(n, a, r, b, s) ==
  /\ n \in Nat /\ a[0] = 0 /\ b[0] = 0
  /\ \A k \in 0..n : a[k] \in 0..96 /\ b[k] \in 0..96
  /\ \A k \in 1..n : /\ r[k] \in Chars /\ s[k] \in Chars
                     /\ a[k] = Step(a[k - 1], r[k])
                     /\ b[k] = Step(b[k - 1], s[k])

LEMMA SumsExist ==
  ASSUME NEW r \in Seq(Chars), NEW s \in Seq(Chars), Len(r) = Len(s)
  PROVE  \E a, b : /\ TwoSums(Len(r), a, r, b, s)
                   /\ a[Len(r)] = FoldLeft(Step, 0, r) /\ b[Len(r)] = FoldLeft(Step, 0, s)
<1> DEFINE n == Len(r)
<1>1. /\ n \in Nat /\ Len(s) = n
      /\ \A k \in 1..n : r[k] \in Chars /\ s[k] \in Chars
  BY LenProperties, ElementOfSeq
<1>2. PICK a \in [0..n -> 0..96] :
        /\ a[0] = 0 /\ a[n] = FoldLeft(Step, 0, r)
        /\ \A k \in 1..n : a[k] = Step(a[k - 1], r[k])
  BY ChecksumRuns
<1>3. PICK b \in [0..n -> 0..96] :
        /\ b[0] = 0 /\ b[n] = FoldLeft(Step, 0, s)
        /\ \A k \in 1..n : b[k] = Step(b[k - 1], s[k])
  BY ChecksumRuns, <1>1, SMTT(30)
<1> HIDE DEF n
<1>4. TwoSums(n, a, r, b, s)
  BY <1>1, <1>2, <1>3 DEF TwoSums
<1> QED BY <1>2, <1>3, <1>4 DEF n

LEMMA SameSoFar ==
  ASSUME NEW n, NEW a, NEW r, NEW b, NEW s, TwoSums(n, a, r, b, s),
         NEW m \in 0..n, \A k \in 1..m : r[k] = s[k]
  PROVE  a[m] = b[m]
<1> DEFINE T == {k \in 0..n : k <= m => a[k] = b[k]}
<1>1. n \in Nat
  BY DEF TwoSums
<1>2. 0 \in T
  BY <1>1 DEF TwoSums
<1>3. ASSUME NEW k \in 1..n, k - 1 \in T PROVE k \in T
  <2>1. k \in 0..n /\ a[k] = Step(a[k - 1], r[k]) /\ b[k] = Step(b[k - 1], s[k])
    BY DEF TwoSums
  <2>2. CASE k <= m
    <3>1. k \in 1..m /\ k - 1 <= m
      BY <1>1, <2>2
    <3>2. a[k - 1] = b[k - 1] /\ r[k] = s[k]
      BY <1>3, <3>1
    <3> QED BY <2>1, <3>2
  <2> QED BY <2>1, <2>2
<1>4. 0..n \subseteq T
  <2> HIDE DEF T
  <2> QED BY <1>1, <1>2, <1>3, Induction
<1> QED BY <1>1, <1>4

LEMMA ApartToTheEnd ==
  ASSUME NEW n, NEW a, NEW r, NEW b, NEW s, TwoSums(n, a, r, b, s),
         NEW m \in 0..n, a[m] # b[m], \A k \in (m + 1)..n : r[k] = s[k]
  PROVE  a[n] # b[n]
<1> DEFINE T == {k \in 0..n : k >= m => a[k] # b[k]}
<1>1. n \in Nat
  BY DEF TwoSums
<1>2. 0 \in T
  BY <1>1
<1>3. ASSUME NEW k \in 1..n, k - 1 \in T PROVE k \in T
  <2>1. k \in 0..n /\ k - 1 \in 0..n
    BY <1>1
  <2>2. /\ a[k] = Step(a[k - 1], r[k]) /\ b[k] = Step(b[k - 1], s[k])
        /\ a[k - 1] \in 0..96 /\ b[k - 1] \in 0..96 /\ r[k] \in Chars
    BY <2>1 DEF TwoSums
  <2>3. CASE k > m
    <3>1. k \in (m + 1)..n /\ k - 1 >= m
      BY <1>1, <2>3
    <3>2. a[k - 1] # b[k - 1] /\ r[k] = s[k]
      BY <1>3, <3>1
    <3>3. a[k] # b[k]
      BY <2>2, <3>2, StepKeepsApart, ZenonT(40)
    <3> QED BY <2>1, <3>3
  <2>4. CASE k = m
    BY <2>1, <2>4
  <2>5. CASE k < m
    BY <2>1, <2>5
  <2> QED BY <1>1, <2>3, <2>4, <2>5
<1>4. 0..n \subseteq T
  <2> HIDE DEF T
  <2> QED BY <1>1, <1>2, <1>3, Induction
<1> QED BY <1>1, <1>4

\* One character that is another of its kind.
LEMMA ReplacedTold ==
  ASSUME NEW n, NEW a, NEW r, NEW b, NEW s, TwoSums(n, a, r, b, s),
         NEW j \in 1..n, r[j] # s[j], Times(r[j]) = Times(s[j]),
         \A k \in (1..n) \ {j} : r[k] = s[k]
  PROVE  a[n] # b[n]
<1>1. n \in Nat /\ j - 1 \in 0..n /\ j \in 0..n
  BY DEF TwoSums
<1>2. a[j - 1] = b[j - 1]
  <2>1. \A k \in 1..(j - 1) : r[k] = s[k]
    BY <1>1
  <2> QED BY <1>1, <2>1, SameSoFar
<1>3. /\ a[j - 1] \in 0..96 /\ r[j] \in Chars /\ s[j] \in Chars
      /\ a[j] = Step(a[j - 1], r[j]) /\ b[j] = Step(b[j - 1], s[j])
  BY <1>1 DEF TwoSums
<1>4. a[j] # b[j]
  BY <1>2, <1>3, CharsApart
<1>5. \A k \in (j + 1)..n : r[k] = s[k]
  BY <1>1
<1> QED BY <1>1, <1>4, <1>5, ApartToTheEnd

\* Two neighbouring figures in the other order.
LEMMA SwappedTold ==
  ASSUME NEW n, NEW a, NEW r, NEW b, NEW s, TwoSums(n, a, r, b, s),
         NEW j \in 1..(n - 1), r[j] \in Figure, r[j + 1] \in Figure, r[j] # r[j + 1],
         s[j] = r[j + 1], s[j + 1] = r[j],
         \A k \in (1..n) \ {j, j + 1} : r[k] = s[k]
  PROVE  a[n] # b[n]
<1>1. n \in Nat /\ j - 1 \in 0..n /\ j \in 1..n /\ j + 1 \in 1..n /\ j + 1 \in 0..n
  BY DEF TwoSums
<1>2. a[j - 1] = b[j - 1]
  <2>1. \A k \in 1..(j - 1) : r[k] = s[k]
    BY <1>1
  <2> QED BY <1>1, <2>1, SameSoFar
<1>3. /\ a[j - 1] \in 0..96
      /\ a[j] = Step(a[j - 1], r[j]) /\ b[j] = Step(b[j - 1], s[j])
  BY <1>1 DEF TwoSums
<1>4. a[j + 1] = Step(a[j], r[j + 1]) /\ b[j + 1] = Step(b[j], s[j + 1])
  <2> DEFINE i == j + 1
  <2>1. i \in 1..n /\ i - 1 = j
    BY <1>1
  <2> HIDE DEF i
  <2>2. a[i] = Step(a[i - 1], r[i]) /\ b[i] = Step(b[i - 1], s[i])
    BY <2>1 DEF TwoSums
  <2> QED BY <2>1, <2>2 DEF i
<1>5. a[j + 1] # b[j + 1]
  <2>1. Step(Step(a[j - 1], r[j]), r[j + 1]) # Step(Step(a[j - 1], r[j + 1]), r[j])
    BY <1>3, OrderMatters
  <2> QED BY <1>2, <1>3, <1>4, <2>1
<1>6. \A k \in (j + 2)..n : r[k] = s[k]
  BY <1>1
<1> DEFINE i == j + 1
<1>7. i \in 0..n /\ a[i] # b[i] /\ \A k \in (i + 1)..n : r[k] = s[k]
  BY <1>1, <1>5, <1>6
<1> HIDE DEF i
<1> QED BY <1>7, ApartToTheEnd

MountedUp(n, a, b) ==
  /\ a[n - 1] # b[n - 1]
  /\ \E e \in (n - 2)..(2 * (n - 2)), z \in Int :
       Exponent(a[n - 1] - b[n - 1]) = Exponent(a[1] - b[1]) + e - 96 * z

\* From the first character on, the powers of ten mount up.
LEMMA PowersMountUp ==
  ASSUME NEW n, NEW a, NEW r, NEW b, NEW s, TwoSums(n, a, r, b, s),
         n >= 2, a[1] # b[1], \A k \in 2..(n - 1) : r[k] = s[k]
  PROVE  MountedUp(n, a, b)
<1> DEFINE x(k) == Exponent(a[k] - b[k])
           Rises(k) == /\ a[k] # b[k]
                       /\ \E e \in (k - 1)..(2 * (k - 1)), z \in Int : x(k) = x(1) + e - 96 * z
           T == {k \in 0..n : 1 <= k /\ k <= n - 1 => Rises(k)}
<1>1. n \in Nat /\ 1 \in 0..n
  BY DEF TwoSums
<1>2. x(1) \in Int
  <2>1. a[1] \in 0..96 /\ b[1] \in 0..96
    BY <1>1 DEF TwoSums
  <2>2. a[1] - b[1] \in Apart
    BY <2>1, SMTT(30) DEF Apart
  <2> QED BY <2>2 DEF Exponent, Apart, Power
<1>3. 0 \in T
  BY <1>1
<1>4. ASSUME NEW k \in 1..n, k - 1 \in T PROVE k \in T
  <2>1. CASE k = 1
    <3> HIDE DEF x
    <3>1. x(1) = x(1) + 0 - 96 * 0 /\ 0 \in (1 - 1)..(2 * (1 - 1)) /\ 0 \in Int
      BY <1>2
    <3>2. Rises(1)
      BY <3>1
    <3> HIDE DEF Rises
    <3> QED BY <2>1, <3>2
  <2>2. CASE k >= 2 /\ k <= n - 1
    <3>1. Rises(k - 1) /\ k - 1 \in 0..n /\ k \in 0..n
      <4> HIDE DEF Rises
      <4> QED BY <1>1, <1>4, <2>2
    <3>2. /\ a[k] = Step(a[k - 1], r[k]) /\ b[k] = Step(b[k - 1], r[k])
          /\ a[k - 1] \in 0..96 /\ b[k - 1] \in 0..96 /\ r[k] \in Chars
      BY <1>1, <2>2, <3>1 DEF TwoSums
    <3>3. a[k] # b[k]
      BY <3>1, <3>2, StepKeepsApart, ZenonT(40)
    <3>4. PICK e \in 1..2, z \in Int : x(k) = x(k - 1) + e - 96 * z
      <4> DEFINE f == a[k - 1]
                 g == b[k - 1]
      <4>1. f \in 0..96 /\ g \in 0..96 /\ f # g /\ r[k] \in Chars
        BY <3>1, <3>2
      <4>2. a[k] = Step(f, r[k]) /\ b[k] = Step(g, r[k])
        BY <3>2
      <4> HIDE DEF f, g
      <4>3. PICK e \in 1..2, z \in Int :
              Exponent(Step(f, r[k]) - Step(g, r[k])) = Exponent(f - g) + e - 96 * z
        BY <4>1, StepRaises, ZenonT(60)
      <4> QED BY <4>2, <4>3 DEF f, g
    <3>5. PICK f \in (k - 1 - 1)..(2 * (k - 1 - 1)), y \in Int : x(k - 1) = x(1) + f - 96 * y
      BY <3>1
    <3> HIDE DEF x
    <3>6. /\ x(k) = x(1) + (e + f) - 96 * (y + z) /\ y + z \in Int
          /\ e + f \in (k - 1)..(2 * (k - 1))
      BY <1>2, <2>2, <3>4, <3>5
    <3>7. Rises(k)
      BY <3>3, <3>6
    <3> HIDE DEF Rises
    <3> QED BY <3>1, <3>7
  <2>3. CASE k > n - 1
    <3> HIDE DEF Rises
    <3> QED BY <1>1, <2>3
  <2> QED BY <1>1, <2>1, <2>2, <2>3
<1>5. 0..n \subseteq T
  <2> HIDE DEF T
  <2> QED BY <1>1, <1>3, <1>4, Induction
<1>6. Rises(n - 1)
  <2>1. n - 1 \in 0..n /\ 1 <= n - 1 /\ n - 1 <= n - 1
    BY <1>1
  <2> HIDE DEF Rises
  <2> QED BY <1>5, <2>1
<1>7. n - 1 - 1 = n - 2
  BY <1>1
<1> QED BY <1>6, <1>7 DEF MountedUp

\* The first and the last figure in the other's place: what the powers of ten
\* in between would have to add up to is no multiple of 96.
LEMMA EndsTold ==
  ASSUME NEW n, NEW a, NEW r, NEW b, NEW s, TwoSums(n, a, r, b, s),
         n \in 15..34, r[1] \in Figure, r[n] \in Figure, r[1] # r[n],
         s[1] = r[n], s[n] = r[1],
         \A k \in 2..(n - 1) : r[k] = s[k]
  PROVE  a[n] # b[n]
<1> DEFINE v == Worth[r[1]]
           w == Worth[r[n]]
           f == a[n - 1]
           g == b[n - 1]
<1>1. n \in Nat /\ 1 \in 1..n /\ n \in 1..n /\ 0 \in 0..n /\ n - 1 \in 0..n /\ n >= 2 /\ 1 - 1 = 0
  OBVIOUS
<1>2. r[1] \in Chars /\ r[n] \in Chars /\ Times(r[1]) = 10 /\ Times(r[n]) = 10
  BY DEF Chars, Times
<1>3. v \in 0..35 /\ w \in 0..35 /\ v - w \in (-35)..35 /\ v - w # 0
  <2>1. v \in 0..35 /\ w \in 0..35
    BY <1>2, WorthFacts DEF Chars
  <2>2. v - w \in (-35)..35 /\ v - w # 0
    BY <1>2, WorthApart
  <2> QED BY <2>1, <2>2
<1>4. a[1] = Step(0, r[1]) /\ b[1] = Step(0, r[n])
  BY <1>1 DEF TwoSums
<1>5. a[1] = v /\ b[1] = w
  <2>1. ASSUME NEW c \in Figure, Worth[c] \in 0..35 PROVE Step(0, c) = Worth[c]
    <3> DEFINE x == Worth[c]
    <3>1. Step(0, c) = (0 * 10 + x) % 97
      BY DEF Step
    <3> HIDE DEF x
    <3>2. x \in 0..35 /\ 0 * 10 + x = x /\ x % 97 = x
      BY <2>1 DEF x
    <3> QED BY <3>1, <3>2 DEF x
  <2> QED BY <1>3, <1>4, <2>1
<1>6. /\ f \in 0..96 /\ g \in 0..96
      /\ a[n] = Step(f, r[n]) /\ b[n] = Step(g, r[1])
  BY <1>1 DEF TwoSums
<1>7. f # g /\ \E e \in (n - 2)..(2 * (n - 2)), z \in Int :
                 Exponent(f - g) = Exponent(v - w) + e - 96 * z
  <2>1. a[1] # b[1]
    <3> HIDE DEF v, w
    <3> QED BY <1>3, <1>5
  <2>2. MountedUp(n, a, b)
    BY <1>1, <2>1, PowersMountUp
  <2> QED BY <1>5, <2>2 DEF MountedUp
<1> HIDE DEF f, g, v, w
<1>8. PICK e \in (n - 2)..(2 * (n - 2)), z \in Int :
        Exponent(f - g) = Exponent(v - w) + e - 96 * z
  BY <1>7
<1>9. ASSUME a[n] = b[n] PROVE FALSE
  <2>1. PICK i \in Int, j \in Int : /\ Step(f, r[n]) = 10 * f + w - 97 * i
                                    /\ Step(g, r[1]) = 10 * g + v - 97 * j
    BY <1>2, <1>6, StepIs, SMTT(30) DEF v, w
  <2> DEFINE x == f - g
             y == v - w
  <2>2. x \in Apart /\ y \in Apart
    BY <1>3, <1>6, <1>7 DEF Apart
  <2>3. 10 * f + w - 97 * i = 10 * g + v - 97 * j
    BY <1>6, <1>9, <2>1
  <2>4. y = 10 * x - 97 * (i - j) /\ i - j \in Int
    BY <1>3, <1>6, <2>3
  <2>5. Exponent(x) \in Int /\ Exponent(y) \in {Exponent(x) + 1, Exponent(x) - 95}
    <3> HIDE DEF x, y
    <3> QED BY <2>2, <2>4, Tenfold, ZenonT(40)
  <2>6. Exponent(x) = Exponent(y) + e - 96 * z
    BY <1>8
  <2> HIDE DEF x, y
  <2>7. Exponent(y) \in Int
    BY <2>5
  <2>8. e + 1 \in {96 * z, 96 * z + 96}
    BY <2>5, <2>6, <2>7
  <2>9. e + 1 \in 14..65
    OBVIOUS
  <2> QED BY <2>8, <2>9
<1> QED BY <1>9

IsReplaced(p, q, j) ==
  /\ p[j] # q[j] /\ Times(p[j]) = Times(q[j])
  /\ \A k \in (1..Len(p)) \ {j} : p[k] = q[k]

IsSwapped(p, q, j) ==
  /\ p[j] \in Figure /\ p[j + 1] \in Figure /\ p[j] # p[j + 1]
  /\ q[j] = p[j + 1] /\ q[j + 1] = p[j]
  /\ \A k \in (1..Len(p)) \ {j, j + 1} : p[k] = q[k]

\* A slip of the pen that the checksum would not tell is none.
LEMMA SlipTold ==
  ASSUME NEW p \in Seq(Chars), NEW q \in Seq(Chars), Len(p) \in 15..34, Len(q) = Len(p),
         FoldLeft(Step, 0, Rearranged(p)) = FoldLeft(Step, 0, Rearranged(q))
  PROVE  /\ \A j \in 1..Len(p) : ~IsReplaced(p, q, j)
         /\ \A j \in 1..(Len(p) - 1) : ~IsSwapped(p, q, j)
<1> DEFINE n == Len(p)
           r == Rearranged(p)
           s == Rearranged(q)
<1>1. n \in 15..34 /\ n >= 5 /\ Len(q) = n
  <2>1. n \in 15..34 /\ Len(q) = n
    OBVIOUS
  <2> HIDE DEF n
  <2> QED BY <2>1
<1>2. /\ r \in Seq(Chars) /\ Len(r) = n
      /\ \A k \in 1..(n - 4) : r[k] = p[k + 4]
      /\ \A k \in 1..4 : r[n - 4 + k] = p[k]
  BY <1>1, RearrangedIs
<1>3. /\ s \in Seq(Chars) /\ Len(s) = n
      /\ \A k \in 1..(n - 4) : s[k] = q[k + 4]
      /\ \A k \in 1..4 : s[n - 4 + k] = q[k]
  BY <1>1, RearrangedIs
<1> HIDE DEF r, s
<1>4. PICK a, b : TwoSums(n, a, r, b, s) /\ a[n] = b[n]
  <2>1. Len(r) = Len(s)
    BY <1>2, <1>3
  <2>2. PICK a, b : /\ TwoSums(Len(r), a, r, b, s)
                    /\ a[Len(r)] = FoldLeft(Step, 0, r) /\ b[Len(r)] = FoldLeft(Step, 0, s)
    BY <1>2, <1>3, <2>1, SumsExist
  <2>3. FoldLeft(Step, 0, r) = FoldLeft(Step, 0, s)
    BY DEF r, s
  <2> QED BY <1>2, <2>2, <2>3
<1>5. n \in 15..34
  BY <1>1
<1> HIDE DEF n
\* Where the characters of the two numbers are.
<1> DEFINE Place(k) == IF k <= 4 THEN n - 4 + k ELSE k - 4
<1>6. ASSUME NEW k \in 1..n
      PROVE  Place(k) \in 1..n /\ r[Place(k)] = p[k] /\ s[Place(k)] = q[k]
  <2>1. CASE k <= 4
    <3>1. k \in 1..4 /\ Place(k) = n - 4 + k /\ n - 4 + k \in 1..n
      BY <1>5, <2>1
    <3> HIDE DEF Place
    <3> QED BY <1>2, <1>3, <3>1
  <2>2. CASE ~(k <= 4)
    <3> DEFINE i == k - 4
    <3>1. i \in 1..(n - 4) /\ Place(k) = i /\ i \in 1..n /\ i + 4 = k
      BY <1>5, <2>2
    <3> HIDE DEF Place, i
    <3>2. r[i] = p[i + 4] /\ s[i] = q[i + 4]
      BY <1>2, <1>3, <3>1
    <3> QED BY <3>1, <3>2
  <2> QED BY <2>1, <2>2
<1>7. ASSUME NEW l \in 1..n
      PROVE  \E k \in 1..n : l = Place(k)
  <2>1. CASE l <= n - 4
    <3>1. l + 4 \in 1..n /\ l = Place(l + 4)
      BY <1>5, <2>1
    <3> QED BY <3>1
  <2>2. CASE ~(l <= n - 4)
    <3>1. l - n + 4 \in 1..n /\ l = Place(l - n + 4)
      BY <1>5, <2>2
    <3> QED BY <3>1
  <2> QED BY <2>1, <2>2
<1>8. ASSUME NEW j \in 1..n, p[j] # q[j], Times(p[j]) = Times(q[j]),
             \A k \in (1..n) \ {j} : p[k] = q[k]
      PROVE  FALSE
  <2> DEFINE i == Place(j)
  <2>1. i \in 1..n /\ r[i] = p[j] /\ s[i] = q[j]
    BY <1>6
  <2>2. ASSUME NEW l \in (1..n) \ {i} PROVE r[l] = s[l]
    <3>1. PICK k \in 1..n : l = Place(k)
      BY <1>7
    <3>2. k # j
      BY <3>1
    <3> HIDE DEF Place
    <3> QED BY <1>6, <1>8, <3>1, <3>2
  <2> HIDE DEF i, Place
  <2>3. r[i] # s[i] /\ Times(r[i]) = Times(s[i])
    BY <1>8, <2>1
  <2>4. a[n] # b[n]
    BY <1>4, <2>1, <2>2, <2>3, ReplacedTold
  <2> QED BY <1>4, <2>4
<1>9. ASSUME NEW j \in 1..(n - 1), p[j] \in Figure, p[j + 1] \in Figure, p[j] # p[j + 1],
             q[j] = p[j + 1], q[j + 1] = p[j],
             \A k \in (1..n) \ {j, j + 1} : p[k] = q[k]
      PROVE  FALSE
  <2> DEFINE i == Place(j)
             h == Place(j + 1)
  <2>1. /\ i \in 1..n /\ r[i] = p[j] /\ s[i] = q[j]
        /\ h \in 1..n /\ r[h] = p[j + 1] /\ s[h] = q[j + 1]
    <3>1. j \in 1..n /\ j + 1 \in 1..n
      BY <1>5
    <3> HIDE DEF Place
    <3> QED BY <1>6, <3>1
  <2>2. ASSUME NEW l \in (1..n) \ {i, h} PROVE r[l] = s[l]
    <3>1. PICK k \in 1..n : l = Place(k)
      BY <1>7
    <3> HIDE DEF Place
    <3>2. k # j /\ k # j + 1
      BY <2>2, <3>1
    <3> QED BY <1>6, <1>9, <3>1, <3>2
  <2>3. CASE j # 4
    <3>1. h = i + 1 /\ i \in 1..(n - 1)
      BY <1>5, <2>3
    <3> HIDE DEF i, h, Place
    <3>2. /\ r[i] \in Figure /\ r[i + 1] \in Figure /\ r[i] # r[i + 1]
          /\ s[i] = r[i + 1] /\ s[i + 1] = r[i]
      BY <1>9, <2>1, <3>1
    <3>3. \A l \in (1..n) \ {i, i + 1} : r[l] = s[l]
      BY <2>2, <3>1
    <3>4. a[n] # b[n]
      BY <1>4, <3>1, <3>2, <3>3, SwappedTold
    <3> QED BY <1>4, <3>4
  <2>4. CASE j = 4
    <3>1. h = 1 /\ i = n
      BY <1>5, <2>4
    <3> HIDE DEF i, h, Place
    <3>2. /\ r[1] \in Figure /\ r[n] \in Figure /\ r[1] # r[n]
          /\ s[1] = r[n] /\ s[n] = r[1]
      BY <1>9, <2>1, <3>1
    <3>3. \A l \in 2..(n - 1) : r[l] = s[l]
      BY <1>5, <2>2, <3>1
    <3>4. a[n] # b[n]
      BY <1>4, <1>5, <3>2, <3>3, EndsTold
    <3> QED BY <1>4, <3>4
  <2> QED BY <2>3, <2>4
<1> QED BY <1>8, <1>9 DEF n, IsReplaced, IsSwapped

\* A slip of the pen spoils the checksum.
LEMMA SlipInvalid ==
  ASSUME NEW p \in Seq(Symbol), ValidIBAN(p), NEW q \in Slips(p)
  PROVE  ~ValidIBAN(q)
<1> DEFINE n == Len(p)
<1>1. /\ n \in 15..34 /\ n \in Nat /\ DOMAIN p = 1..n
      /\ \A i \in 1..n : p[i] \in Chars
      /\ FoldLeft(Step, 0, Rearranged(p)) = 1
  <2>1. n \in Nat /\ DOMAIN p = 1..n
    BY LenProperties
  <2> QED BY <2>1 DEF ValidIBAN, Chars
<1>2. p \in Seq(Chars) /\ p \in [1..n -> Chars]
  <2>1. p \in Seq(Chars)
    BY <1>1, Narrowed
  <2> QED BY <2>1, LenProperties
<1>3. ASSUME ValidIBAN(q), NEW f, q = f, f \in [1..n -> Chars]
      PROVE  /\ q \in Seq(Chars) /\ Len(q) = n
             /\ FoldLeft(Step, 0, Rearranged(p)) = FoldLeft(Step, 0, Rearranged(q))
  <2>1. q \in Seq(Chars)
    BY <1>1, <1>3, SeqDef
  <2>2. Len(q) = n
    BY <1>1, <1>3, <2>1, LenProperties
  <2> QED BY <1>1, <1>3, <2>1, <2>2 DEF ValidIBAN
<1> HIDE DEF n
<1>4. CASE q \in Replaced(p)
  <2>1. PICK i \in 1..n : \E c \in SameKind(p[i]) : q = [p EXCEPT ![i] = c]
    BY <1>1, <1>4 DEF Replaced
  <2>2. PICK c \in SameKind(p[i]) : q = [p EXCEPT ![i] = c]
    BY <2>1
  <2>3. c \in Chars /\ c # p[i] /\ Times(p[i]) = Times(c)
    <3>1. p[i] \in Chars
      BY <1>1
    <3>2. \A x \in Figure : x \notin Letter
      BY FigureIs, LetterIs
    <3> QED BY <3>1, <3>2 DEF SameKind, Chars, Times
  <2>4. q \in [1..n -> Chars] /\ q[i] = c /\ \A k \in (1..n) \ {i} : q[k] = p[k]
    BY <1>2, <2>2, <2>3
  <2>5. ASSUME ValidIBAN(q) PROVE FALSE
    <3>1. /\ q \in Seq(Chars) /\ Len(q) = n
          /\ FoldLeft(Step, 0, Rearranged(p)) = FoldLeft(Step, 0, Rearranged(q))
      BY <1>3, <2>4, <2>5
    <3>2. IsReplaced(p, q, i) /\ i \in 1..Len(p)
      BY <2>3, <2>4 DEF IsReplaced, n
    <3>3. Len(p) \in 15..34 /\ Len(q) = Len(p)
      BY <1>1, <3>1 DEF n
    <3> QED BY <1>2, <3>1, <3>2, <3>3, SlipTold
  <2> QED BY <2>5
<1>5. CASE q \in Swapped(p)
  <2>1. PICK j \in 1..(n - 1) :
          /\ p[j] \in Figure /\ p[j + 1] \in Figure /\ p[j] # p[j + 1]
          /\ q = [p EXCEPT ![j] = p[j + 1], ![j + 1] = p[j]]
    BY <1>5 DEF Swapped, n
  <2>2. j \in 1..n /\ j + 1 \in 1..n /\ j # j + 1
    BY <1>1
  <2>3. /\ q \in [1..n -> Chars] /\ q[j] = p[j + 1] /\ q[j + 1] = p[j]
        /\ \A k \in (1..n) \ {j, j + 1} : q[k] = p[k]
    <3> DEFINE i == j + 1
    <3>1. j \in 1..n /\ i \in 1..n /\ j # i /\ q = [p EXCEPT ![j] = p[i], ![i] = p[j]]
      BY <2>1, <2>2
    <3> HIDE DEF i
    <3>2. /\ q \in [1..n -> Chars] /\ q[j] = p[i] /\ q[i] = p[j]
          /\ \A k \in (1..n) \ {j, i} : q[k] = p[k]
      BY <1>2, <3>1
    <3> QED BY <3>2 DEF i
  <2>4. ASSUME ValidIBAN(q) PROVE FALSE
    <3>1. /\ q \in Seq(Chars) /\ Len(q) = n
          /\ FoldLeft(Step, 0, Rearranged(p)) = FoldLeft(Step, 0, Rearranged(q))
      BY <1>3, <2>3, <2>4
    <3>2. IsSwapped(p, q, j) /\ j \in 1..(Len(p) - 1)
      BY <2>1, <2>3 DEF IsSwapped, n
    <3>3. Len(p) \in 15..34 /\ Len(q) = Len(p)
      BY <1>1, <3>1 DEF n
    <3> QED BY <1>2, <3>1, <3>2, <3>3, SlipTold
  <2> QED BY <2>4
<1> QED BY <1>4, <1>5 DEF Slips

\* A slip in the account number never goes through: a character that is
\* another of its kind, or two neighbouring figures in the wrong order, spoils
\* the checksum of iban.go, whatever the account number.
THEOREM NoSlipGoesThrough == Spec => []NoMistypedPayee
<1>1. PaymentsInv => NoMistypedPayee
  <2> SUFFICES ASSUME PaymentsInv, at = "cleaned", in.iban \in Mistyped PROVE FALSE
    BY DEF NoMistypedPayee
  <2>1. in \in Input /\ lenient \in BOOLEAN /\ Fault(in) = None
    BY DEF PaymentsInv
  <2>2. ValidIBAN(in.iban)
    BY <2>1, NotRefused DEF Right
  <2>3. PICK p \in Payee : in.iban \in Slips(p)
    BY DEF Mistyped
  <2>4. p \in Seq(Symbol) /\ ValidIBAN(p)
    BY PaymentsAssumption
  <2> QED BY <2>2, <2>3, <2>4, SlipInvalid
<1> QED BY <1>1, Invariance, PTL

-----------------------------------------------------------------------------
(* What a text amounts to, however it is read.                              *)

\* The figures as one number, how many of them follow the last separator (-1 if
\* there is none), and whether a figure (1) or a separator (2) comes first.
States == Nat \X (Nat \cup {-1}) \X {0, 1, 2}

ScanStep(p, c) ==
  IF c \in Figure
  THEN <<10 * p[1] + Worth[c], IF p[2] = -1 THEN -1 ELSE p[2] + 1, IF p[3] = 0 THEN 1 ELSE p[3]>>
  ELSE IF c \in Separators THEN <<p[1], 0, IF p[3] = 0 THEN 2 ELSE p[3]>>
  ELSE p

Scans(run, t) ==
  /\ run \in [0..Len(t) -> States] /\ run[0] = <<0, -1, 0>>
  /\ \A k \in 1..Len(t) : run[k] = ScanStep(run[k - 1], t[k])

Scan(t) == (CHOOSE run : Scans(run, t))[Len(t)]

\* In cents.
Value(p) == IF p[2] = 1 THEN 10 * p[1] ELSE IF p[2] = 2 THEN p[1] ELSE 100 * p[1]

LEMMA ScanStepIs ==
  ASSUME NEW p \in States, NEW c
  PROVE  /\ ScanStep(p, c) \in States
         /\ c \in Figure => /\ ScanStep(p, c)[1] = 10 * p[1] + Worth[c]
                            /\ ScanStep(p, c)[2] = IF p[2] = -1 THEN -1 ELSE p[2] + 1
                            /\ ScanStep(p, c)[3] = IF p[3] = 0 THEN 1 ELSE p[3]
         /\ c \in Separators => /\ ScanStep(p, c)[1] = p[1] /\ ScanStep(p, c)[2] = 0
                                /\ ScanStep(p, c)[3] = IF p[3] = 0 THEN 2 ELSE p[3]
         /\ c \notin Figure \cup Separators => ScanStep(p, c) = p
<1>1. c \in Figure => c \notin Separators
  BY FigureIs DEF Separators
<1>2. c \in Figure => Worth[c] \in Nat
  BY WorthFacts
<1>3. p[1] \in Nat /\ p[2] \in Nat \cup {-1} /\ p[3] \in {0, 1, 2}
  BY DEF States
<1>4. CASE c \in Figure
  BY <1>1, <1>2, <1>3, <1>4 DEF ScanStep, States
<1>5. CASE c \in Separators
  BY <1>1, <1>3, <1>5 DEF ScanStep, States
<1>6. CASE c \notin Figure \cup Separators
  BY <1>6 DEF ScanStep
<1> QED BY <1>4, <1>5, <1>6

LEMMA FigureStep ==
  ASSUME NEW p \in States, NEW c \in Figure, NEW q, q = ScanStep(p, c)
  PROVE  /\ q[1] = 10 * p[1] + Worth[c]
         /\ p[2] = -1 => q[2] = -1
         /\ p[2] # -1 => q[2] = p[2] + 1
         /\ q[3] = IF p[3] = 0 THEN 1 ELSE p[3]
BY ScanStepIs

LEMMA SeparatorStep ==
  ASSUME NEW p \in States, NEW c \in Separators, NEW q, q = ScanStep(p, c)
  PROVE  q[1] = p[1] /\ q[2] = 0 /\ q[3] = IF p[3] = 0 THEN 2 ELSE p[3]
BY ScanStepIs

\* The number and the figures after the separator go on without regard to the lead.
LEMMA StepsAlike ==
  ASSUME NEW p \in States, NEW q \in States, p[1] = q[1], p[2] = q[2], NEW c
  PROVE  ScanStep(p, c)[1] = ScanStep(q, c)[1] /\ ScanStep(p, c)[2] = ScanStep(q, c)[2]
BY ScanStepIs

LEMMA ScanExists ==
  ASSUME NEW t \in Texts
  PROVE  \E run : Scans(run, t)
<1> DEFINE n == Len(t)
           Upto(run, m) == /\ run \in [0..m -> States] /\ run[0] = <<0, -1, 0>>
                           /\ \A k \in 1..m : run[k] = ScanStep(run[k - 1], t[k])
           T == {m \in 0..n : \E run : Upto(run, m)}
<1>1. n \in Nat
  BY TextFacts
<1>2. 0 \in T
  <2>1. <<0, -1, 0>> \in States
    BY DEF States
  <2>2. Upto([k \in 0..0 |-> <<0, -1, 0>>], 0)
    BY <2>1
  <2> HIDE DEF Upto
  <2> QED BY <1>1, <2>2
<1>3. ASSUME NEW m \in 1..n, m - 1 \in T PROVE m \in T
  <2>1. PICK run : Upto(run, m - 1)
    BY <1>3
  <2> DEFINE new == [k \in 0..m |-> IF k = m THEN ScanStep(run[m - 1], t[m]) ELSE run[k]]
  <2>2. m - 1 \in 0..(m - 1) /\ m \in 0..n /\ 0 \in 0..(m - 1)
    BY <1>1
  <2>3. ScanStep(run[m - 1], t[m]) \in States
    BY <2>1, <2>2, ScanStepIs
  <2>4. \A k \in 0..(m - 1) : k \in 0..m /\ k # m /\ new[k] = run[k]
    BY <2>2
  <2>5. \A k \in 0..m : k = m \/ k \in 0..(m - 1)
    BY <2>2
  <2>6. new \in [0..m -> States]
    BY <2>1, <2>3, <2>5
  <2>7. ASSUME NEW k \in 1..m PROVE new[k] = ScanStep(new[k - 1], t[k])
    <3>1. k - 1 \in 0..(m - 1) /\ k \in 0..m
      BY <2>2
    <3>2. CASE k = m
      BY <2>4, <3>1, <3>2
    <3>3. CASE k # m
      <4>1. k \in 1..(m - 1) /\ k \in 0..(m - 1)
        BY <2>2, <3>3
      <4>2. run[k] = ScanStep(run[k - 1], t[k])
        BY <2>1, <4>1
      <4> HIDE DEF new
      <4> QED BY <2>4, <3>1, <4>1, <4>2
    <3> QED BY <3>2, <3>3
  <2>8. new[0] = <<0, -1, 0>>
    <3> HIDE DEF new
    <3> QED BY <2>1, <2>2, <2>4
  <2> HIDE DEF new
  <2>9. Upto(new, m)
    BY <2>6, <2>7, <2>8
  <2> HIDE DEF Upto
  <2> QED BY <2>2, <2>9
<1>4. n \in T
  <2> HIDE DEF T
  <2>1. 0..n \subseteq T
    BY <1>1, <1>2, <1>3, Induction
  <2> QED BY <1>1, <2>1
<1> QED BY <1>4 DEF Scans

\* There is one way to go through a text.
LEMMA ScanIs ==
  ASSUME NEW t \in Texts, NEW run, Scans(run, t)
  PROVE  Scan(t) = run[Len(t)]
<1> DEFINE n == Len(t)
           r == CHOOSE r : Scans(r, t)
           T == {k \in 0..n : r[k] = run[k]}
<1>1. n \in Nat
  BY TextFacts
<1>2. Scans(r, t)
  BY ScanExists
<1> HIDE DEF r
<1>3. 0 \in T
  <2>1. r[0] = <<0, -1, 0>> /\ run[0] = <<0, -1, 0>>
    BY <1>2 DEF Scans
  <2>2. 0 \in 0..n
    BY <1>1
  <2> QED BY <2>1, <2>2
<1>4. ASSUME NEW k \in 1..n, k - 1 \in T PROVE k \in T
  <2>1. k \in 0..n
    BY <1>1
  <2>2. r[k] = ScanStep(r[k - 1], t[k]) /\ run[k] = ScanStep(run[k - 1], t[k])
    BY <1>2 DEF Scans
  <2> QED BY <1>4, <2>1, <2>2
<1>5. n \in T
  <2> HIDE DEF T
  <2>1. 0..n \subseteq T
    BY <1>1, <1>3, <1>4, Induction
  <2> QED BY <1>1, <2>1
<1> QED BY <1>5 DEF Scan, r

LEMMA ScanRuns ==
  ASSUME NEW t \in Texts
  PROVE  \E run : Scans(run, t) /\ Scan(t) = run[Len(t)] /\ Scan(t) \in States
<1>1. PICK run : Scans(run, t)
  BY ScanExists
<1>2. Len(t) \in 0..Len(t)
  BY TextFacts
<1>3. run[Len(t)] \in States
  BY <1>1, <1>2 DEF Scans
<1> QED BY <1>1, <1>3, ScanIs

LEMMA ScanAppend ==
  /\ Scan(<<>>) = <<0, -1, 0>>
  /\ \A t \in Texts, c \in Symbol :
       Append(t, c) \in Texts /\ Scan(Append(t, c)) = ScanStep(Scan(t), c)
<1>1. Scan(<<>>) = <<0, -1, 0>>
  <2>1. <<>> \in Texts /\ Len(<<>>) = 0
    BY EmptySeq DEF Texts
  <2>2. PICK run : Scans(run, <<>>) /\ Scan(<<>>) = run[Len(<<>>)]
    BY <2>1, ScanRuns
  <2> QED BY <2>1, <2>2 DEF Scans
<1>2. ASSUME NEW t \in Texts, NEW c \in Symbol
      PROVE  Append(t, c) \in Texts /\ Scan(Append(t, c)) = ScanStep(Scan(t), c)
  <2> DEFINE u == Append(t, c)
             n == Len(t)
  <2>1. /\ u \in Texts /\ Len(u) = n + 1 /\ u[n + 1] = c /\ n \in Nat
        /\ \A k \in 1..n : u[k] = t[k]
    BY AppendProperties, LenProperties DEF Texts
  <2>2. PICK r : Scans(r, u) /\ Scan(u) = r[n + 1]
    BY <2>1, ScanRuns
  <2> HIDE DEF u
  <2> DEFINE s == [k \in 0..n |-> r[k]]
  <2>3. Scans(s, t)
    <3>1. \A k \in 0..n : s[k] = r[k] /\ k \in 0..(n + 1)
      BY <2>1
    <3>2. s \in [0..n -> States]
      BY <2>1, <2>2, <3>1 DEF Scans
    <3>3. s[0] = <<0, -1, 0>>
      <4>1. 0 \in 0..n
        BY <2>1
      <4> QED BY <2>2, <4>1 DEF Scans
    <3>4. ASSUME NEW k \in 1..n PROVE s[k] = ScanStep(s[k - 1], t[k])
      <4>1. k \in 1..(n + 1) /\ k \in 0..n /\ k - 1 \in 0..n
        BY <2>1
      <4>2. r[k] = ScanStep(r[k - 1], u[k])
        BY <2>1, <2>2, <4>1 DEF Scans
      <4> HIDE DEF s
      <4> QED BY <2>1, <3>1, <4>1, <4>2
    <3> HIDE DEF s
    <3> QED BY <3>2, <3>3, <3>4 DEF Scans
  <2>4. Scan(t) = s[n]
    BY <2>3, ScanIs
  <2>5. s[n] = r[n]
    BY <2>1
  <2>6. r[n + 1] = ScanStep(r[n], c)
    <3>1. n + 1 \in 1..(n + 1) /\ (n + 1) - 1 = n
      BY <2>1
    <3> HIDE DEF n
    <3> QED BY <2>1, <2>2, <3>1 DEF Scans
  <2>7. Scan(u) = ScanStep(Scan(t), c)
    BY <2>2, <2>4, <2>5, <2>6
  <2> QED BY <2>1, <2>7 DEF u
<1> QED BY <1>1, <1>2

\* Only figures and separators count.
LEMMA ScanAt ==
  ASSUME NEW t \in Texts, NEW K \in SUBSET DOMAIN t,
         \A i \in DOMAIN t : t[i] \in Figure \cup Separators => i \in K
  PROVE  Scan(At(t, K)) = Scan(t)
<1> DEFINE n == Len(t)
<1>1. n \in Nat /\ DOMAIN t = 1..n /\ \A i \in 1..n : t[i] \in Symbol
  BY TextFacts
<1>2. PICK kept \in [0..n -> Texts] : Keeps(kept, t, K) /\ At(t, K) = kept[n]
  <2>1. t \in Seq(Symbol)
    BY DEF Texts
  <2> QED BY <2>1, AtRuns DEF Texts
<1>3. PICK r : Scans(r, t) /\ Scan(t) = r[n]
  BY ScanRuns
<1> DEFINE T == {k \in 0..n : Scan(kept[k]) = r[k]}
<1>4. 0 \in T
  BY <1>1, <1>2, <1>3, ScanAppend DEF Keeps, Scans
<1>5. ASSUME NEW k \in 1..n, k - 1 \in T PROVE k \in T
  <2>1. k \in 0..n /\ k - 1 \in 0..n /\ Scan(kept[k - 1]) = r[k - 1] /\ t[k] \in Symbol
    BY <1>1, <1>5
  <2>2. r[k] = ScanStep(r[k - 1], t[k]) /\ r[k - 1] \in States
    BY <1>3, <2>1 DEF Scans
  <2>3. CASE k \in K
    <3>1. kept[k] = Append(kept[k - 1], t[k]) /\ kept[k - 1] \in Texts
      BY <1>2, <2>1, <2>3 DEF Keeps
    <3>2. Scan(kept[k]) = r[k]
      BY <2>1, <2>2, <3>1, ScanAppend
    <3> QED BY <2>1, <3>2
  <2>4. CASE k \notin K
    <3>1. kept[k] = kept[k - 1]
      BY <1>2, <2>4 DEF Keeps
    <3>2. t[k] \notin Figure \cup Separators
      BY <1>1, <2>4
    <3>3. Scan(kept[k]) = r[k]
      BY <2>1, <2>2, <3>1, <3>2, ScanStepIs
    <3> QED BY <2>1, <3>3
  <2> QED BY <2>3, <2>4
<1>6. n \in T
  <2> HIDE DEF T
  <2>1. 0..n \subseteq T
    BY <1>1, <1>4, <1>5, Induction
  <2> QED BY <1>1, <2>1
<1> QED BY <1>2, <1>3, <1>6

\* What is accepted amounts to what was found by going through it.
LEMMA PlainScan ==
  ASSUME NEW t \in Texts, Plain(t, Separators)
  PROVE  Cents(t) = Value(Scan(t)) /\ Scan(t)[3] = 1
<1> DEFINE len == Len(t)
<1>1. PICK n \in 1..MaxWhole :
        /\ n <= len
        /\ Whole(t) \in Seq(Figure) /\ Len(Whole(t)) = n
        /\ \A i \in 1..n : Whole(t)[i] = t[i]
        /\ Frac(t) \in Seq(Figure)
        /\ n < len => Len(Frac(t)) = len - n - 1
        /\ n = len => Len(Frac(t)) = 0
        /\ \A i \in 1..Len(Frac(t)) : Frac(t)[i] = t[n + 1 + i]
        /\ \A i \in DOMAIN t : i = n + 1 \/ t[i] \in Figure
        /\ n < len => t[n + 1] \in Separators /\ len - n \in {2, 3}
  BY PlainParts
<1>2. len \in Nat /\ DOMAIN t = 1..len /\ n \in 1..len
  <2>1. n \in Nat /\ n >= 1
    BY <1>1, MaxWholeAssumption
  <2> QED BY <1>1, <2>1, TextFacts
<1>4. PICK r : Scans(r, t) /\ Scan(t) = r[len]
  BY ScanRuns
<1>5. PICK w \in [0..n -> Nat] :
        /\ w[0] = 0 /\ w[n] = Number(Whole(t))
        /\ \A k \in 1..n : w[k] = 10 * w[k - 1] + Worth[t[k]]
  <2>1. PICK w \in [0..n -> Nat] :
          /\ w[0] = 0 /\ w[n] = Number(Whole(t))
          /\ \A k \in 1..n : w[k] = 10 * w[k - 1] + Worth[Whole(t)[k]]
    <3>1. Whole(t) \in Seq(Figure) /\ Len(Whole(t)) = n
      BY <1>1
    <3> QED BY <3>1, NumberRuns
  <2>2. \A k \in 1..n : Whole(t)[k] = t[k]
    BY <1>1
  <2> QED BY <2>1, <2>2
<1> DEFINE T == {k \in 0..n : /\ r[k][1] = w[k] /\ r[k][2] = -1
                              /\ r[k][3] = IF k = 0 THEN 0 ELSE 1}
<1> HIDE DEF len
<1>6. 0 \in T
  <2>1. r[0] = <<0, -1, 0>> /\ 0 \in 0..n
    BY <1>2, <1>4 DEF Scans
  <2> QED BY <1>5, <2>1
<1>7. ASSUME NEW k \in 1..n, k - 1 \in T PROVE k \in T
  <2>1. k \in 0..n /\ k \in 1..len /\ k - 1 \in 0..len /\ t[k] \in Figure
    <3>1. k \in 0..n /\ k \in 1..len /\ k - 1 \in 0..len /\ k # n + 1
      BY <1>2
    <3> QED BY <1>1, <1>2, <3>1
  <2>2. r[k] = ScanStep(r[k - 1], t[k]) /\ r[k - 1] \in States
    BY <1>4, <2>1 DEF Scans, len
  <2>3. /\ r[k][1] = 10 * r[k - 1][1] + Worth[t[k]]
        /\ r[k][2] = IF r[k - 1][2] = -1 THEN -1 ELSE r[k - 1][2] + 1
        /\ r[k][3] = IF r[k - 1][3] = 0 THEN 1 ELSE r[k - 1][3]
    BY <2>1, <2>2, ScanStepIs, SMTT(30)
  <2>4. /\ r[k - 1][1] = w[k - 1] /\ r[k - 1][2] = -1 /\ r[k - 1][3] \in {0, 1}
    BY <1>7
  <2>5. r[k][1] = w[k]
    BY <1>5, <2>3, <2>4
  <2>6. r[k][2] = -1 /\ r[k][3] = 1 /\ k # 0
    BY <1>2, <2>3, <2>4
  <2> QED BY <2>1, <2>5, <2>6
<1>8. r[n][1] = Number(Whole(t)) /\ r[n][2] = -1 /\ r[n][3] = 1 /\ Number(Whole(t)) \in Nat
  <2> HIDE DEF T
  <2>1. 0..n \subseteq T
    <3>1. n \in Nat
      BY <1>2
    <3> QED BY <1>6, <1>7, <3>1, Induction
  <2>2. n \in T
    BY <1>2, <2>1
  <2>3. n # 0 /\ n \in 0..n
    BY <1>2
  <2> QED BY <1>5, <2>2, <2>3 DEF T
<1> HIDE DEF T
<1>9. CASE n = len
  <2>1. Number(Frac(t)) = 0
    <3>1. PICK z \in [0..Len(Frac(t)) -> Nat] : z[0] = 0 /\ z[Len(Frac(t))] = Number(Frac(t))
      BY <1>1, NumberRuns
    <3> QED BY <1>1, <1>9, <3>1
  <2>2. Cents(t) = 100 * Number(Whole(t))
    BY <1>1, <1>8, <1>9, <2>1 DEF Cents
  <2> QED BY <1>4, <1>8, <1>9, <2>2 DEF Value
<1>10. CASE n < len
  <2> DEFINE f == Frac(t)
             W == Number(Whole(t))
  <2>1. len \in {n + 2, n + 3} /\ t[n + 1] \in Separators /\ Len(f) = len - n - 1
    BY <1>1, <1>2, <1>10
  <2>2. PICK z \in [0..Len(f) -> Nat] :
          /\ z[0] = 0 /\ z[Len(f)] = Number(f)
          /\ \A k \in 1..Len(f) : z[k] = 10 * z[k - 1] + Worth[f[k]]
    BY <1>1, NumberRuns
  <2>3. r[n] \in States /\ r[n + 1] = ScanStep(r[n], t[n + 1])
    <3>1. n \in 0..len /\ n + 1 \in 1..len /\ (n + 1) - 1 = n
      BY <1>2, <1>10
    <3> QED BY <1>4, <3>1 DEF Scans, len
  <2>4. r[n + 1][1] = W /\ r[n + 1][2] = 0 /\ r[n + 1][3] = 1
    <3>1. r[n][1] = W /\ r[n][3] = 1
      BY <1>8
    <3> HIDE DEF f, W
    <3>2. /\ r[n + 1][1] = r[n][1] /\ r[n + 1][2] = 0
          /\ r[n + 1][3] = IF r[n][3] = 0 THEN 2 ELSE r[n][3]
      BY <2>1, <2>3, SeparatorStep
    <3> QED BY <3>1, <3>2
  <2>5. /\ f[1] = t[n + 2] /\ t[n + 2] \in Figure /\ z[1] = Worth[f[1]] /\ 1 \in 1..Len(f)
        /\ Worth[f[1]] \in Nat
    <3>1. 1 \in 1..Len(f) /\ n + 1 + 1 = n + 2 /\ n + 2 \in 1..len /\ n + 2 # n + 1
      BY <1>2, <2>1
    <3>2. f[1] = t[n + 2] /\ t[n + 2] \in Figure
      BY <1>1, <1>2, <3>1
    <3>3. Worth[f[1]] \in Nat
      BY <3>2, WorthFacts
    <3>4. z[1] = 10 * z[1 - 1] + Worth[f[1]]
      BY <2>2, <3>1
    <3> HIDE DEF f
    <3> QED BY <2>2, <3>1, <3>2, <3>3, <3>4
  <2>6. r[n + 1] \in States /\ r[n + 2] = ScanStep(r[n + 1], t[n + 2])
    <3>1. n + 1 \in 0..len /\ n + 2 \in 1..len /\ (n + 2) - 1 = n + 1
      BY <1>2, <2>1
    <3> QED BY <1>4, <3>1 DEF Scans, len
  <2>7. r[n + 2][1] = 10 * W + z[1] /\ r[n + 2][2] = 1 /\ r[n + 2][3] = 1
    <3> HIDE DEF f, W
    <3>1. /\ r[n + 2][1] = 10 * r[n + 1][1] + Worth[t[n + 2]]
          /\ r[n + 2][2] = r[n + 1][2] + 1 /\ r[n + 2][3] = 1
      <4>1. r[n + 1][2] # -1 /\ r[n + 1][3] = 1
        BY <2>4
      <4>2. /\ r[n + 2][1] = 10 * r[n + 1][1] + Worth[t[n + 2]]
            /\ r[n + 1][2] # -1 => r[n + 2][2] = r[n + 1][2] + 1
            /\ r[n + 2][3] = IF r[n + 1][3] = 0 THEN 1 ELSE r[n + 1][3]
        BY <2>5, <2>6, FigureStep, SMTT(30)
      <4> QED BY <4>1, <4>2
    <3>2. Worth[t[n + 2]] = z[1]
      BY <2>5
    <3>3. r[n + 1][2] + 1 = 1
      BY <2>4
    <3> QED BY <2>4, <3>1, <3>2, <3>3
  <2>8. CASE len = n + 2
    <3>1. Len(f) = 1 /\ Number(f) = z[1]
      BY <1>2, <2>1, <2>2, <2>8
    <3>2. Cents(t) = 100 * W + z[1] * 10
      BY <3>1 DEF Cents
    <3>3. z[1] \in Nat
      BY <2>5
    <3> HIDE DEF f, W
    <3>4. 100 * W + z[1] * 10 = 10 * (10 * W + z[1])
      BY <1>8, <3>3 DEF W
    <3> QED BY <1>4, <2>7, <2>8, <3>2, <3>4 DEF Value
  <2>9. CASE len = n + 3
    <3>1. Len(f) = 2 /\ Number(f) = z[2] /\ 2 \in 1..Len(f)
      BY <1>2, <2>1, <2>2, <2>9
    <3>2. f[2] = t[n + 3] /\ t[n + 3] \in Figure
      <4>1. n + 1 + 2 = n + 3 /\ n + 3 \in 1..len /\ n + 3 # n + 1
        BY <1>2, <2>9
      <4> QED BY <1>1, <1>2, <3>1, <4>1
    <3>3. Worth[f[2]] \in Nat
      BY <3>2, WorthFacts
    <3>4. z[2] = 10 * z[2 - 1] + Worth[f[2]]
      BY <2>2, <3>1
    <3>5. r[n + 2] \in States /\ r[n + 3] = ScanStep(r[n + 2], t[n + 3])
      <4>1. n + 2 \in 0..len /\ n + 3 \in 1..len /\ (n + 3) - 1 = n + 2
        BY <1>2, <2>9
      <4> QED BY <1>4, <4>1 DEF Scans, len
    <3> HIDE DEF f, W
    <3>6. /\ r[n + 3][1] = 10 * (10 * W + z[1]) + Worth[f[2]]
          /\ r[n + 3][2] = 2 /\ r[n + 3][3] = 1
      BY <2>7, <3>2, <3>5, ScanStepIs
    <3>7. Cents(t) = 100 * W + Number(f) * 1
      BY <3>1 DEF Cents, f, W
    <3>8. Number(f) = 10 * z[1] + Worth[f[2]] /\ z[1] \in Nat /\ W \in Nat
      BY <1>8, <2>5, <3>1, <3>4 DEF W
    <3>9. 100 * W + Number(f) * 1 = 10 * (10 * W + z[1]) + Worth[f[2]]
      <4> DEFINE b == z[1]
                 c == Worth[f[2]]
      <4> HIDE DEF W, f
      <4>1. W \in Nat /\ b \in Nat /\ c \in Nat
        BY <3>3, <3>8
      <4>2. Number(f) = 10 * b + c
        BY <3>8
      <4> HIDE DEF b, c
      <4>3. 100 * W + (10 * b + c) * 1 = 10 * (10 * W + b) + c
        BY <4>1
      <4>4. 100 * W + Number(f) * 1 = 10 * (10 * W + b) + c
        BY <4>2, <4>3, Zenon
      <4> QED BY <4>4 DEF b, c
    <3> QED BY <1>4, <2>9, <3>6, <3>7, <3>9 DEF Value
  <2> QED BY <2>1, <2>8, <2>9
<1> QED BY <1>2, <1>9, <1>10

\* What comes first is found once.
LEMMA LeadStays ==
  ASSUME NEW t \in Texts, NEW r, Scans(r, t), NEW k \in 0..Len(t), r[k][3] # 0
  PROVE  r[Len(t)][3] = r[k][3]
<1> DEFINE n == Len(t)
           T == {j \in 0..n : j >= k => r[j][3] = r[k][3]}
<1>1. n \in Nat
  BY TextFacts
<1> HIDE DEF n
<1>2. 0 \in T
  BY <1>1 DEF n
<1>3. ASSUME NEW j \in 1..n, j - 1 \in T PROVE j \in T
  <2>1. j \in 0..n /\ j - 1 \in 0..n
    BY <1>1
  <2>2. r[j] = ScanStep(r[j - 1], t[j]) /\ r[j - 1] \in States
    BY <2>1 DEF Scans, n
  <2>3. CASE j <= k
    BY <2>1, <2>3 DEF n
  <2>4. CASE j > k
    <3>1. r[j - 1][3] = r[k][3]
      <4>1. j - 1 >= k
        BY <1>1, <2>4 DEF n
      <4> QED BY <1>3, <4>1
    <3>2. r[j][3] = r[j - 1][3]
      <4>1. CASE t[j] \in Figure
        BY <2>2, <3>1, <4>1, FigureStep
      <4>2. CASE t[j] \in Separators
        BY <2>2, <3>1, <4>2, SeparatorStep
      <4>3. CASE t[j] \notin Figure \cup Separators
        BY <2>2, <4>3, ScanStepIs
      <4> QED BY <4>1, <4>2, <4>3
    <3> QED BY <2>1, <3>1, <3>2
  <2> QED BY <1>1, <2>3, <2>4 DEF n
<1>4. n \in T
  <2> HIDE DEF T
  <2>1. 0..n \subseteq T
    BY <1>1, <1>2, <1>3, Induction
  <2> QED BY <1>1, <2>1
<1>5. n >= k
  BY <1>1 DEF n
<1> QED BY <1>4, <1>5 DEF n

\* Until it is found there is nothing.
LEMMA LeadTells ==
  ASSUME NEW t \in Texts, NEW r, Scans(r, t), NEW k \in 0..Len(t)
  PROVE  /\ r[k][3] = 0 => r[k][1] = 0 /\ r[k][2] = -1
         /\ r[k][3] = 1 => \E i \in 1..k : t[i] \in Figure
<1> DEFINE n == Len(t)
           T == {j \in 0..n : /\ r[j][3] = 0 => r[j][1] = 0 /\ r[j][2] = -1
                              /\ r[j][3] = 1 => \E i \in 1..j : t[i] \in Figure}
<1>1. n \in Nat
  BY TextFacts
<1> HIDE DEF n
<1>2. 0 \in T
  <2>1. r[0] = <<0, -1, 0>> /\ 0 \in 0..n
    BY <1>1 DEF Scans
  <2> QED BY <2>1
<1>3. ASSUME NEW j \in 1..n, j - 1 \in T PROVE j \in T
  <2>1. j \in 0..n /\ j - 1 \in 0..n /\ j \in 1..j
    BY <1>1
  <2>2. r[j] = ScanStep(r[j - 1], t[j]) /\ r[j - 1] \in States
    BY <2>1 DEF Scans, n
  <2>3. CASE t[j] \in Figure
    <3>1. r[j][3] # 0
      BY <2>2, <2>3, FigureStep
    <3> QED BY <2>1, <2>3, <3>1
  <2>4. CASE t[j] \in Separators
    <3>1. r[j][3] # 0 /\ (r[j][3] = 1 => r[j - 1][3] = 1)
      BY <2>2, <2>4, SeparatorStep
    <3>2. \A i \in 1..(j - 1) : i \in 1..j
      BY <1>1
    <3> QED BY <1>3, <2>1, <3>1, <3>2
  <2>5. CASE t[j] \notin Figure \cup Separators
    <3>1. r[j] = r[j - 1]
      BY <2>2, <2>5, ScanStepIs
    <3>2. \A i \in 1..(j - 1) : i \in 1..j
      BY <1>1
    <3> QED BY <1>3, <2>1, <3>1, <3>2
  <2> QED BY <2>3, <2>4, <2>5
<1>4. k \in T
  <2> HIDE DEF T
  <2>1. 0..n \subseteq T
    BY <1>1, <1>2, <1>3, Induction
  <2> QED BY <2>1 DEF n
<1> QED BY <1>4

LEMMA MapOCRIs ==
  ASSUME NEW t \in Texts
  PROVE  /\ MapOCR(t) \in Texts /\ Len(MapOCR(t)) = Len(t)
         /\ \A i \in 1..Len(t) :
              MapOCR(t)[i] = IF t[i] = "O" /\ NumericNeighbor(t, i) THEN "0" ELSE t[i]
<1> DEFINE m == MapOCR(t)
<1>1. /\ DOMAIN m = DOMAIN t
      /\ \A i \in DOMAIN t : m[i] = IF t[i] = "O" /\ NumericNeighbor(t, i) THEN "0" ELSE t[i]
  BY DEF MapOCR
<1>2. m \in Texts
  BY MapOCRKeeps
<1> HIDE DEF m
<1>3. \A a, b \in Nat : 1..a = 1..b => a = b
  <2> SUFFICES ASSUME NEW a \in Nat, NEW b \in Nat, 1..a = 1..b PROVE a = b
    OBVIOUS
  <2>1. a \in 1..b \/ a = 0
    OBVIOUS
  <2>2. b \in 1..a \/ b = 0
    OBVIOUS
  <2>3. a <= b /\ b <= a
    BY <2>1, <2>2
  <2> QED BY <2>3
<1>4. DOMAIN m = 1..Len(m) /\ DOMAIN t = 1..Len(t) /\ Len(m) \in Nat /\ Len(t) \in Nat
  BY <1>2, TextFacts
<1> QED BY <1>1, <1>2, <1>3, <1>4 DEF m

LEMMA ZeroIsWorthNothing == "0" \in Figure /\ Worth["0"] = 0
<1>1. "0" \in Figure
  BY SymbolFacts
<1>2. Worth["0"] \in 0..35 /\ (Figures \o Letters)[Worth["0"] + 1] = "0"
  BY <1>1, WorthFacts
<1> DEFINE w == Worth["0"]
<1> HIDE DEF w
<1>3. ASSUME w \in 0..35, (Figures \o Letters)[w + 1] = "0" PROVE w = 0
  BY <1>3 DEF Figures, Letters
<1> QED BY <1>1, <1>2, <1>3 DEF w

\* The zeros made of an O change nothing where they lead.
LEMMA MapScan ==
  ASSUME NEW v \in Texts, ~EuroWithin(v), Scan(v)[3] = 1
  PROVE  Scan(MapOCR(v))[1] = Scan(v)[1] /\ Scan(MapOCR(v))[2] = Scan(v)[2]
<1> DEFINE n == Len(v)
           m == MapOCR(v)
<1>1. n \in Nat /\ DOMAIN v = 1..n
  BY TextFacts
<1>2. /\ m \in Texts /\ Len(m) = n
      /\ \A i \in 1..n : m[i] = IF v[i] = "O" /\ NumericNeighbor(v, i) THEN "0" ELSE v[i]
  BY MapOCRIs
<1>3. PICK r : Scans(r, v) /\ Scan(v) = r[n]
  BY ScanRuns
<1> HIDE DEF m
<1>4. PICK s : Scans(s, m) /\ Scan(m) = s[n]
  BY <1>2, ScanRuns
<1> HIDE DEF n
<1> DEFINE T == {k \in 0..n : s[k][1] = r[k][1] /\ s[k][2] = r[k][2]}
<1>5. 0 \in T
  <2>1. r[0] = <<0, -1, 0>> /\ s[0] = <<0, -1, 0>> /\ 0 \in 0..n
    BY <1>1, <1>3, <1>4 DEF Scans
  <2> QED BY <2>1
<1>6. ASSUME NEW k \in 1..n, k - 1 \in T PROVE k \in T
  <2>1. k \in 0..n /\ k - 1 \in 0..n
    BY <1>1
  <2>2. /\ r[k] = ScanStep(r[k - 1], v[k]) /\ r[k - 1] \in States
        /\ s[k] = ScanStep(s[k - 1], m[k]) /\ s[k - 1] \in States
    BY <1>2, <1>3, <1>4, <2>1 DEF Scans, n
  <2>3. s[k - 1][1] = r[k - 1][1] /\ s[k - 1][2] = r[k - 1][2]
    BY <1>6
  <2>4. CASE v[k] = "O" /\ NumericNeighbor(v, k)
    <3>1. m[k] = "0"
      BY <1>2, <2>4
    <3>2. r[k - 1][3] = 0
      <4>1. ASSUME r[k - 1][3] = 1 PROVE FALSE
        <5>1. PICK i \in 1..(k - 1) : v[i] \in Figure
          BY <1>3, <2>1, <4>1, LeadTells DEF n
        <5>2. i \in DOMAIN v /\ k \in DOMAIN v /\ i < k
          BY <1>1
        <5> QED BY <2>4, <5>1, <5>2 DEF EuroWithin
      <4>2. ASSUME r[k - 1][3] # 0 PROVE r[k - 1][3] = 1
        BY <1>3, <2>1, <4>2, LeadStays DEF n
      <4> QED BY <4>1, <4>2
    <3>3. r[k - 1][1] = 0 /\ r[k - 1][2] = -1
      BY <1>3, <2>1, <3>2, LeadTells DEF n
    <3>4. r[k] = r[k - 1]
      <4>1. "O" \notin Figure \cup Separators
        BY FigureIs DEF Separators
      <4> QED BY <2>2, <2>4, <4>1, ScanStepIs
    <3>5. s[k][1] = 0 /\ s[k][2] = -1
      <4>1. s[k][1] = 10 * s[k - 1][1] + Worth["0"] /\ (s[k - 1][2] = -1 => s[k][2] = -1)
        BY <2>2, <3>1, ZeroIsWorthNothing, FigureStep
      <4> QED BY <2>3, <3>3, <4>1, ZeroIsWorthNothing
    <3> QED BY <2>1, <3>3, <3>4, <3>5
  <2>5. CASE ~(v[k] = "O" /\ NumericNeighbor(v, k))
    <3>1. m[k] = v[k]
      BY <1>2, <2>5
    <3>2. s[k][1] = r[k][1] /\ s[k][2] = r[k][2]
      BY <2>2, <2>3, <3>1, StepsAlike
    <3> QED BY <2>1, <3>2
  <2> QED BY <2>4, <2>5
<1>7. n \in T
  <2> HIDE DEF T
  <2>1. 0..n \subseteq T
    BY <1>1, <1>5, <1>6, Induction
  <2> QED BY <1>1, <2>1
<1> QED BY <1>3, <1>4, <1>7 DEF m

Near == Figure \cup Separators \cup {" "}

LEMMA NeighborIs ==
  ASSUME NEW t, NEW i
  PROVE  NumericNeighbor(t, i) <=> \E j \in {i - 1, i + 1} \cap DOMAIN t : t[j] \in Near
BY Zenon DEF NumericNeighbor, Near

\* A part of a text that is all in one piece has neighbours as the text has.
LEMMA PieceHasEuro ==
  ASSUME NEW t \in Texts, NEW K \in SUBSET DOMAIN t, EuroWithin(At(t, K)),
         \A i, j \in K : \A x \in DOMAIN t : i <= x /\ x <= j => x \in K
  PROVE  EuroWithin(t)
<1> DEFINE s == At(t, K)
           n == Len(s)
<1>1. s \in Texts /\ \E e : Places(e, s, t, K)
  <2>1. t \in Seq(Symbol)
    BY DEF Texts
  <2> QED BY <2>1, AtPlaces DEF Texts
<1> HIDE DEF s
<1>2. PICK e : Places(e, s, t, K)
  BY <1>1
<1>3. n \in Nat /\ DOMAIN s = 1..n /\ DOMAIN t = 1..Len(t) /\ Len(t) \in Nat
  BY <1>1, TextFacts
<1> HIDE DEF n
<1>4. /\ \A i \in 1..n : e[i] \in K /\ e[i] \in Int /\ s[i] = t[e[i]]
      /\ \A i, j \in 1..n : i < j => e[i] < e[j]
      /\ \A k \in K : \E i \in 1..n : e[i] = k
  <2>1. \A k \in K : k \in Int
    BY <1>3
  <2>2. /\ \A i \in 1..n : e[i] \in K /\ s[i] = t[e[i]]
        /\ \A i, j \in 1..n : i < j => e[i] < e[j]
        /\ \A k \in K : \E i \in 1..n : e[i] = k
    BY <1>2 DEF Places, n
  <2> QED BY <2>1, <2>2
<1>5. ASSUME NEW i \in 1..n, i + 1 \in 1..n PROVE e[i + 1] = e[i] + 1
  <2>1. e[i] < e[i + 1] /\ e[i] \in K /\ e[i + 1] \in K /\ e[i] \in Int /\ e[i + 1] \in Int
    BY <1>4, <1>5
  <2>2. e[i] + 1 \in DOMAIN t
    BY <1>3, <2>1
  <2>3. e[i] + 1 \in K
    <3>1. e[i] <= e[i] + 1 /\ e[i] + 1 <= e[i + 1]
      BY <2>1
    <3> QED BY <2>1, <2>2, <3>1
  <2>4. PICK j \in 1..n : e[j] = e[i] + 1
    BY <1>4, <2>3
  <2>5. ASSUME j < i + 1 PROVE FALSE
    <3>1. j = i \/ j < i
      BY <2>5
    <3>2. CASE j < i
      <4>1. e[j] < e[i]
        BY <1>4, <3>2
      <4> QED BY <2>1, <2>4, <4>1
    <3>3. CASE j = i
      BY <2>1, <2>4, <3>3
    <3> QED BY <3>1, <3>2, <3>3
  <2>6. ASSUME i + 1 < j PROVE FALSE
    <3>1. e[i + 1] < e[j]
      BY <1>4, <1>5, <2>6
    <3> QED BY <2>1, <2>4, <3>1
  <2>7. j = i + 1
    BY <2>5, <2>6
  <2> QED BY <2>4, <2>7
<1>6. PICK i \in 1..n, j \in 1..n : i < j /\ s[i] \in Figure /\ s[j] = "O" /\ NumericNeighbor(s, j)
  BY <1>3 DEF EuroWithin, s
<1>7. PICK x \in {j - 1, j + 1} \cap (1..n) : s[x] \in Near
  <2>1. \E x \in {j - 1, j + 1} \cap DOMAIN s : s[x] \in Near
    BY <1>6, NeighborIs
  <2> QED BY <1>3, <2>1
<1>8. e[x] \in {e[j] - 1, e[j] + 1}
  <2>1. CASE x = j + 1
    <3>1. e[j + 1] = e[j] + 1
      BY <1>5, <1>7, <2>1
    <3> QED BY <2>1, <3>1
  <2>2. CASE x = j - 1
    <3>1. x \in 1..n /\ x + 1 = j
      BY <1>7, <2>2
    <3>2. e[j] = e[x] + 1
      BY <1>5, <3>1
    <3>3. e[x] \in Int
      BY <1>4, <3>1
    <3> QED BY <3>2, <3>3
  <2> QED BY <1>7, <2>1, <2>2
<1>9. t[e[x]] \in Near /\ e[x] \in DOMAIN t
  BY <1>4, <1>7
<1>10. NumericNeighbor(t, e[j])
  BY <1>8, <1>9, NeighborIs
<1>11. e[i] < e[j] /\ t[e[i]] \in Figure /\ t[e[j]] = "O" /\ e[i] \in DOMAIN t /\ e[j] \in DOMAIN t
  BY <1>4, <1>6
<1> QED BY <1>10, <1>11 DEF EuroWithin

LEMMA TrimKeepsEuro ==
  ASSUME NEW t \in Texts, EuroWithin(TrimSpaces(t))
  PROVE  EuroWithin(t)
<1> DEFINE inked(i) == t[i] # " "
           K == {i \in DOMAIN t : \E j, k \in DOMAIN t : j <= i /\ i <= k /\ inked(j) /\ inked(k)}
<1>1. TrimSpaces(t) = At(t, K) /\ K \in SUBSET DOMAIN t
  BY DEF TrimSpaces
<1> HIDE DEF inked
<1>2. ASSUME NEW i \in K, NEW j \in K, NEW x \in DOMAIN t, i <= x, x <= j PROVE x \in K
  <2>1. PICK a \in DOMAIN t : a <= i /\ inked(a)
    OBVIOUS
  <2>2. PICK b \in DOMAIN t : j <= b /\ inked(b)
    OBVIOUS
  <2>3. a <= x /\ x <= b
    <3>1. \A y \in DOMAIN t : y \in Int
      BY TextFacts
    <3> QED BY <1>2, <2>1, <2>2, <3>1
  <2> QED BY <2>1, <2>2, <2>3
<1> HIDE DEF K
<1>3. \A i, j \in K : \A x \in DOMAIN t : i <= x /\ x <= j => x \in K
  BY <1>2
<1> QED BY <1>1, <1>3, PieceHasEuro

\* Where the marks of a grouped text are, without the reckoning of groups.
InGroups(t, n, first) ==
  /\ first <= n
  /\ \A i \in 1..n : t[i] \in Figure \/ (t[i] = "." /\ i > first)
  /\ n < Len(t) => t[n + 1] = "," /\ Len(t) - n \in {2, 3}
  /\ \A i \in (n + 2)..Len(t) : t[i] \in Figure
  /\ n # first => /\ n - 3 > first /\ t[n - 3] = "."
                  /\ t[n - 2] \in Figure /\ t[n - 1] \in Figure /\ t[n] \in Figure

LEMMA GroupsAre ==
  ASSUME NEW t \in Texts, Grouped(t, ".")
  PROVE  \E n \in 1..Len(t), first \in 1..3 : InGroups(t, n, first)
<1> DEFINE len == Len(t)
           Group(n, first) == first <= n /\ (n - first) % 4 = 0
           Mark(i, first) == i > first /\ (i - first) % 4 = 1
<1>1. PICK n \in 1..len, first \in 1..3 :
        /\ Group(n, first)
        /\ \A i \in 1..n : IF Mark(i, first) THEN t[i] = "." ELSE t[i] \in Figure
        /\ n < len => t[n + 1] = "," /\ len - n \in {2, 3}
        /\ \A i \in (n + 2)..len : t[i] \in Figure
  BY DEF Grouped
<1>2. n \in Nat /\ n >= 1
  <2> HIDE DEF Group, Mark
  <2>1. \A m \in 1..len : m \in Nat /\ m >= 1
    BY TextFacts
  <2> HIDE DEF len
  <2> QED BY <2>1
<1>3. first <= n /\ \A i \in 1..n : Mark(i, first) => i > first
  BY <1>1
<1>4. ASSUME n # first
      PROVE  /\ n - 3 > first /\ Mark(n - 3, first)
             /\ ~Mark(n - 2, first) /\ ~Mark(n - 1, first) /\ ~Mark(n, first)
  <2> DEFINE d == n - first
  <2>1. d \in Nat /\ d # 0
    <3>1. first <= n /\ first \in Nat
      BY <1>3
    <3> HIDE DEF Group, Mark
    <3> QED BY <1>2, <1>4, <3>1
  <2>2. d % 4 = 0
    BY <1>1
  <2>3. n - 3 - first = d - 3 /\ n - 2 - first = d - 2 /\ n - 1 - first = d - 1 /\ n - first = d
    <3> HIDE DEF Group, Mark
    <3> QED BY <1>2
  <2> HIDE DEF d
  <2>4. d >= 4
    BY <2>1, <2>2
  <2>5. (d - 3) % 4 = 1
    BY <2>1, <2>2, <2>4
  <2>6. (d - 2) % 4 = 2
    BY <2>1, <2>2, <2>4
  <2>7. (d - 1) % 4 = 3
    BY <2>1, <2>2, <2>4
  <2>8. n - 3 > first
    <3> HIDE DEF Group, Mark
    <3> QED BY <1>2, <2>3, <2>4 DEF d
  <2> QED BY <2>2, <2>3, <2>5, <2>6, <2>7, <2>8
<1> HIDE DEF Group, Mark, len
<1>5. ASSUME n # first
      PROVE  /\ n - 3 > first /\ t[n - 3] = "."
             /\ t[n - 2] \in Figure /\ t[n - 1] \in Figure /\ t[n] \in Figure
  <2>1. n - 3 \in 1..n /\ n - 2 \in 1..n /\ n - 1 \in 1..n /\ n \in 1..n
    <3>1. first \in Nat /\ first >= 1 /\ n - 3 > first
      BY <1>4, <1>5
    <3> QED BY <1>2, <3>1
  <2> QED BY <1>1, <1>4, <1>5, <2>1
<1>6. InGroups(t, n, first)
  BY <1>1, <1>3, <1>5 DEF InGroups, len
<1> QED BY <1>6 DEF len

\* The strict reading of a text that is accepted.
LEMMA GroupedDots ==
  ASSUME NEW t \in Texts, Grouped(t, "."), NEW s, s = At(t, DOMAIN t \ Positions(t, {"."}))
  PROVE  Value(Scan(s)) = Value(Scan(t)) /\ Scan(t)[3] = 1
<1> DEFINE len == Len(t)
           K == DOMAIN t \ Positions(t, {"."})
<1>1. PICK n \in 1..len, first \in 1..3 : InGroups(t, n, first)
  BY GroupsAre
<1>2. len \in Nat /\ DOMAIN t = 1..len /\ \A i \in 1..len : t[i] \in Symbol
  BY TextFacts
<1>b. /\ n \in Nat /\ n >= 1 /\ n <= len /\ first \in Nat /\ first >= 1
  <2>1. \A m \in 1..len : m \in Nat /\ m >= 1 /\ m <= len
    BY <1>2
  <2>2. \A m \in 1..3 : m \in Nat /\ m >= 1
    OBVIOUS
  <2> HIDE DEF len
  <2> QED BY <2>1, <2>2
<1>a. /\ first <= n
      /\ \A i \in 1..n : t[i] \in Figure \/ (t[i] = "." /\ i > first)
      /\ n < len => t[n + 1] = ","
      /\ \A i \in (n + 2)..len : t[i] \in Figure
      /\ n # first => /\ n - 3 > first /\ t[n - 3] = "."
                      /\ t[n - 2] \in Figure /\ t[n - 1] \in Figure /\ t[n] \in Figure
  BY <1>1 DEF InGroups
<1> HIDE DEF len
<1>3. /\ "." \in Separators /\ "," \in Separators /\ "." # ","
      /\ \A c \in Figure : c # "." /\ c # ","
  BY FigureIs DEF Separators
<1>4. PICK kept \in [0..len -> Texts] : Keeps(kept, t, K) /\ s = kept[len]
  <2>1. t \in Seq(Symbol)
    BY DEF Texts
  <2> HIDE DEF K
  <2> QED BY <2>1, AtRuns DEF Texts, len, K
<1>5. \A k \in 1..len : k \in K <=> t[k] # "."
  BY <1>2 DEF Positions
<1> HIDE DEF K
<1>6. PICK r : Scans(r, t) /\ Scan(t) = r[len]
  BY ScanRuns DEF len
<1> DEFINE q == [k \in 0..len |-> Scan(kept[k])]
<1>7. \A k \in 0..len : q[k] \in States /\ q[k] = Scan(kept[k])
  BY <1>4, ScanRuns
<1>8. q[0] = <<0, -1, 0>> /\ r[0] = <<0, -1, 0>> /\ 0 \in 0..len
  <2>1. 0 \in 0..len
    BY <1>2
  <2> QED BY <1>4, <1>6, <2>1, ScanAppend DEF Keeps, Scans
<1>9. ASSUME NEW k \in 1..len
      PROVE  /\ k \in 0..len /\ k - 1 \in 0..len /\ r[k - 1] \in States /\ q[k - 1] \in States
             /\ r[k] = ScanStep(r[k - 1], t[k])
             /\ t[k] = "." => q[k] = q[k - 1]
             /\ t[k] # "." => q[k] = ScanStep(q[k - 1], t[k])
  <2>1. k \in 0..len /\ k - 1 \in 0..len /\ kept[k - 1] \in Texts /\ t[k] \in Symbol
    <3>1. k \in 0..len /\ k - 1 \in 0..len
      BY <1>2
    <3> QED BY <1>2, <1>4, <3>1
  <2>2. r[k - 1] \in States /\ r[k] = ScanStep(r[k - 1], t[k])
    BY <1>6, <2>1 DEF Scans, len
  <2>3. t[k] = "." => kept[k] = kept[k - 1]
    BY <1>4, <1>5 DEF Keeps, len
  <2>4. t[k] # "." => kept[k] = Append(kept[k - 1], t[k])
    BY <1>4, <1>5 DEF Keeps, len
  <2>5. t[k] # "." => Scan(kept[k]) = ScanStep(Scan(kept[k - 1]), t[k])
    BY <2>1, <2>4, ScanAppend
  <2>6. q[k] = Scan(kept[k]) /\ q[k - 1] = Scan(kept[k - 1]) /\ q[k - 1] \in States
    BY <1>7, <2>1
  <2> HIDE DEF q
  <2> QED BY <2>1, <2>2, <2>3, <2>5, <2>6
<1> HIDE DEF q
<1> DEFINE T == {k \in 0..len :
                   /\ q[k][1] = r[k][1]
                   /\ k <= n => q[k][2] = -1
                   /\ k <= first => r[k][2] = -1
                   /\ k >= 1 => r[k][3] = 1
                   /\ k > n => q[k][2] = r[k][2]}
<1>10. 0 \in T
  <2>1. ~(0 >= 1) /\ ~(0 > n)
    BY <1>b
  <2> QED BY <1>8, <2>1
<1>11. ASSUME NEW k \in 1..len, k - 1 \in T PROVE k \in T
  <2>1. /\ q[k - 1][1] = r[k - 1][1]
        /\ k - 1 <= n => q[k - 1][2] = -1
        /\ k - 1 <= first => r[k - 1][2] = -1
        /\ k - 1 >= 1 => r[k - 1][3] = 1
        /\ k - 1 > n => q[k - 1][2] = r[k - 1][2]
    BY <1>11
  <2>2. CASE t[k] \in Figure
    <3>1. t[k] # "."
      BY <1>3, <2>2
    <3>2. q[k] = ScanStep(q[k - 1], t[k]) /\ r[k] = ScanStep(r[k - 1], t[k])
      BY <1>9, <3>1
    <3>3. /\ r[k][1] = 10 * r[k - 1][1] + Worth[t[k]]
          /\ r[k - 1][2] = -1 => r[k][2] = -1
          /\ r[k][3] = IF r[k - 1][3] = 0 THEN 1 ELSE r[k - 1][3]
      BY <1>9, <2>2, <3>2, FigureStep
    <3>4. q[k][1] = 10 * q[k - 1][1] + Worth[t[k]] /\ (q[k - 1][2] = -1 => q[k][2] = -1)
      BY <1>9, <2>2, <3>2, FigureStep
    <3>5. q[k - 1][2] = r[k - 1][2] => q[k][2] = r[k][2]
      <4>1. r[k - 1] \in States /\ q[k - 1] \in States /\ q[k - 1][1] = r[k - 1][1]
        BY <1>9, <2>1
      <4> QED BY <3>2, <4>1, StepsAlike
    <3>6. k >= 1 => r[k][3] = 1
      <4>1. CASE k = 1
        BY <1>8, <3>3, <4>1
      <4>2. CASE k # 1
        <5>1. k - 1 >= 1
          BY <1>2, <4>2
        <5> QED BY <2>1, <3>3, <5>1
      <4> QED BY <4>1, <4>2
    <3>7. k > n => q[k][2] = r[k][2]
      <4>1. k # n + 1
        <5>1. ASSUME k = n + 1 PROVE FALSE
          <6>1. n < len
            BY <1>2, <5>1
          <6> QED BY <1>a, <1>3, <2>2, <5>1, <6>1
        <5> QED BY <5>1
      <4>2. k > n => k - 1 > n
        BY <1>2, <4>1
      <4> QED BY <2>1, <3>5, <4>2
    <3>8. (k <= n => k - 1 <= n) /\ (k <= first => k - 1 <= first) /\ k \in 0..len
      BY <1>2
    <3> QED BY <2>1, <3>3, <3>4, <3>6, <3>7, <3>8
  <2>3. CASE t[k] = "." /\ k <= n
    <3>1. k > first /\ k > 1
      <4>1. k \in 1..n /\ t[k] \notin Figure
        <5>1. k \in Nat /\ k >= 1
          BY <1>2
        <5>2. k \in 1..n
          BY <1>b, <2>3, <5>1
        <5>3. t[k] \notin Figure
          BY <1>3, <2>3
        <5> QED BY <5>2, <5>3
      <4>2. k > first /\ first \in Nat /\ first >= 1
        BY <1>a, <1>b, <2>3, <4>1
      <4> QED BY <1>2, <4>2
    <3>2. q[k] = q[k - 1] /\ r[k] = ScanStep(r[k - 1], t[k])
      BY <1>9, <2>3
    <3>3. r[k][1] = r[k - 1][1] /\ r[k][3] = IF r[k - 1][3] = 0 THEN 2 ELSE r[k - 1][3]
      <4>1. t[k] \in Separators /\ r[k - 1] \in States
        BY <1>3, <1>9, <2>3
      <4> QED BY <3>2, <4>1, SeparatorStep
    <3>4. k - 1 <= n /\ k - 1 >= 1 /\ ~(k <= first) /\ ~(k > n) /\ k \in 0..len
      BY <1>2, <2>3, <3>1
    <3> QED BY <2>1, <3>2, <3>3, <3>4
  <2>4. CASE k = n + 1
    <3>1. t[k] = ","
      <4>1. n < len
        BY <1>2, <2>4
      <4> QED BY <1>a, <2>4, <4>1
    <3>2. q[k] = ScanStep(q[k - 1], t[k]) /\ r[k] = ScanStep(r[k - 1], t[k])
      BY <1>3, <1>9, <3>1
    <3>a. t[k] \in Separators /\ r[k - 1] \in States /\ q[k - 1] \in States
      BY <1>3, <1>9, <3>1
    <3>3. /\ r[k][1] = r[k - 1][1] /\ r[k][2] = 0
          /\ r[k][3] = IF r[k - 1][3] = 0 THEN 2 ELSE r[k - 1][3]
      BY <3>a, <3>2, SeparatorStep
    <3>4. q[k][1] = q[k - 1][1] /\ q[k][2] = 0
      BY <3>a, <3>2, SeparatorStep
    <3>5. k - 1 >= 1 /\ ~(k <= first) /\ ~(k <= n) /\ k \in 0..len
      <4>1. n >= 1 /\ first <= n /\ n \in Nat /\ first \in Nat
        BY <1>a, <1>b
      <4> QED BY <1>2, <2>4, <4>1
    <3> QED BY <2>1, <3>3, <3>4, <3>5
  <2>5. t[k] \in Figure \/ (t[k] = "." /\ k <= n) \/ k = n + 1
    <3>1. CASE k <= n
      <4>1. k \in 1..n
        BY <1>2, <3>1
      <4> QED BY <1>a, <3>1, <4>1
    <3>2. CASE k > n + 1
      <4>1. k \in (n + 2)..len
        BY <1>2, <3>2
      <4> QED BY <1>a, <4>1
    <3> QED BY <1>2, <3>1, <3>2
  <2> QED BY <2>2, <2>3, <2>4, <2>5
<1>12. len \in T
  <2> HIDE DEF T
  <2>1. 0..len \subseteq T
    BY <1>2, <1>10, <1>11, Induction
  <2> QED BY <1>2, <2>1
<1>13. Scan(s) = q[len] /\ len >= 1 /\ q[len][1] = r[len][1] /\ r[len][3] = 1
  <2>1. len >= 1 /\ len \in 0..len
    BY <1>2, <1>b
  <2>2. q[len][1] = r[len][1] /\ r[len][3] = 1
    BY <1>12, <2>1
  <2> QED BY <1>4, <1>7, <2>1, <2>2
<1>14. CASE len > n
  BY <1>6, <1>12, <1>13, <1>14 DEF Value
<1>15. CASE len = n
  <2>1. q[len][2] = -1
    BY <1>12, <1>15
  <2>2. r[len][2] \in {-1, 3}
    <3>1. CASE n = first
      <4>1. len <= first
        BY <1>15, <3>1
      <4> QED BY <1>12, <4>1
    <3>2. CASE n # first
      <4>4. t[n - 3] = "." /\ n - 3 > first
        BY <1>a, <3>2
      <4>5. t[n - 2] \in Figure /\ t[n - 1] \in Figure /\ t[n] \in Figure
        BY <1>a, <3>2
      <4>3. n - 3 >= 1
        BY <1>b, <4>4
      <4>6. /\ n - 3 \in 1..len /\ n - 2 \in 1..len /\ n - 1 \in 1..len /\ n \in 1..len
            /\ (n - 2) - 1 = n - 3 /\ (n - 1) - 1 = n - 2
        BY <1>15, <1>b, <4>3
      <4>7. r[n - 3][2] = 0
        <5>1. t[n - 3] \in Separators
          BY <1>3, <4>4
        <5> QED BY <1>9, <4>6, <5>1, SeparatorStep
      <4>8. r[n - 2][2] = 1
        BY <1>9, <4>5, <4>6, <4>7, FigureStep, SMTT(30)
      <4>9. r[n - 1][2] = 2
        BY <1>9, <4>5, <4>6, <4>8, FigureStep
      <4>10. r[n][2] = 3
        BY <1>9, <4>5, <4>6, <4>9, FigureStep, SMTT(30)
      <4> QED BY <1>15, <4>10
    <3> QED BY <3>1, <3>2
  <2> QED BY <1>6, <1>13, <2>1, <2>2 DEF Value
<1>16. len > n \/ len = n
  BY <1>2, <1>b
<1> QED BY <1>6, <1>13, <1>14, <1>15, <1>16

\* What counts is none of what the strict reading leaves out.
LEMMA CountsAre ==
  ASSUME NEW c \in Figure \cup Separators
  PROVE  c # " " /\ c # "" /\ c # "EUR" /\ c # "USD" /\ c # "O"
<1>1. c \in {"0", "1", "2", "3", "4", "5", "6", "7", "8", "9", ".", ","}
  BY FigureIs, Zenon DEF Separators
<1> QED BY <1>1, Zenon

LEMMA UnmarkedScan ==
  ASSUME NEW v \in Texts
  PROVE  Unmarked(v) \in Texts /\ Scan(Unmarked(v)) = Scan(v)
<1> DEFINE K == {i \in DOMAIN v : ~IsMark(v, i)}
           bare == At(v, K)
           L == {i \in DOMAIN bare : \/ bare[i] # " "
                                     \/ /\ i > 1 /\ bare[i - 1] # " "
                                        /\ \E j \in i..Len(bare) : bare[j] # " "}
<1>1. Unmarked(v) = At(bare, L)
  BY Zenon DEF Unmarked, Squeeze
<1>2. K \in SUBSET DOMAIN v /\ \A i \in DOMAIN v : v[i] \in Figure \cup Separators => i \in K
  <2>1. ASSUME NEW i \in DOMAIN v, v[i] \in Figure \cup Separators PROVE ~IsMark(v, i)
    <3>1. v[i] # "EUR" /\ v[i] # "USD" /\ v[i] # "O"
      BY <2>1, CountsAre, Zenon
    <3> QED BY <3>1 DEF IsMark
  <2> QED BY <2>1
<1>3. L \in SUBSET DOMAIN bare /\ \A i \in DOMAIN bare : bare[i] \in Figure \cup Separators => i \in L
  BY CountsAre, Zenon
<1> HIDE DEF K
<1>4. bare \in Texts /\ Scan(bare) = Scan(v)
  BY <1>2, AtText, ScanAt
<1> HIDE DEF bare, L
<1>5. At(bare, L) \in Texts /\ Scan(At(bare, L)) = Scan(bare)
  BY <1>3, <1>4, AtText, ScanAt
<1> QED BY <1>1, <1>4, <1>5

LEMMA StrictScan ==
  ASSUME NEW v \in Texts, NEW format, Sound(ReadStrictly(v, format))
  PROVE  /\ Accept(ReadStrictly(v, format)).cents = Value(Scan(v))
         /\ Scan(v)[3] = 1
<1> DEFINE bare == Unmarked(v)
           K == DOMAIN bare \ Positions(bare, {GroupMark(format)})
           read == ReadStrictly(v, format)
           text == At(bare, K)
<1>1. /\ read.error = "" /\ Plain(read.text, Separators)
      /\ Accept(read).cents = Cents(read.text)
  BY Accepted, Zenon
<1>2. read = ReadUnmarked(bare, format, NamedCurrency(v))
  BY <1>1, ErrorsAreTold, Zenon DEF ReadStrictly
<1>3. read = Read(text, NamedCurrency(v)) /\ Fits(bare, format)
  BY <1>1, <1>2, ErrorsAreTold, Zenon DEF ReadUnmarked
<1>4. read.text = text
  <2> HIDE DEF read, text
  <2> QED BY <1>3, Zenon DEF Read
<1> HIDE DEF read
<1>5. Plain(text, Separators) /\ Accept(read).cents = Cents(text)
  BY <1>1, <1>4
<1>6. bare \in Texts /\ Scan(bare) = Scan(v)
  BY UnmarkedScan
<1> HIDE DEF bare
<1>7. text \in Texts /\ K \in SUBSET DOMAIN bare
  BY <1>6, AtText
<1>8. Cents(text) = Value(Scan(text)) /\ Scan(text)[3] = 1
  <2> HIDE DEF text
  <2> QED BY <1>5, <1>7, PlainScan
<1>9. ASSUME \A i \in DOMAIN bare : bare[i] \in Figure \cup Separators => i \in K
      PROVE  Scan(text) = Scan(bare)
  <2> HIDE DEF K
  <2> QED BY <1>6, <1>7, <1>9, ScanAt
<1>10. CASE format # "eur_grouped_dot_comma"
  <2>1. GroupMark(format) \in {" ", ""}
    BY <1>10, Zenon DEF GroupMark
  <2>2. \A c \in Figure \cup Separators : c # GroupMark(format)
    BY <2>1, CountsAre, Zenon
  <2>3. \A i \in DOMAIN bare : bare[i] \in Figure \cup Separators => i \in K
    BY <2>2, Zenon DEF Positions
  <2> QED BY <1>5, <1>6, <1>8, <1>9, <2>3 DEF read
<1>11. CASE format = "eur_grouped_dot_comma"
  <2>1. GroupMark(format) = "."
    BY <1>11, Zenon DEF GroupMark
  <2>2. CASE Holds(bare, ".")
    <3>1. Grouped(bare, ".")
      BY <1>3, <1>11, <2>2, Zenon DEF Fits
    <3>2. text = At(bare, DOMAIN bare \ Positions(bare, {"."}))
      BY <2>1
    <3>3. Value(Scan(text)) = Value(Scan(bare)) /\ Scan(bare)[3] = 1
      <4> HIDE DEF text
      <4> QED BY <1>6, <3>1, <3>2, GroupedDots
    <3> QED BY <1>5, <1>6, <1>8, <3>3 DEF read
  <2>3. CASE ~Holds(bare, ".")
    <3>1. \A i \in DOMAIN bare : bare[i] # "."
      BY <1>6, <2>3, TextFacts
    <3>2. \A i \in DOMAIN bare : i \in K
      BY <2>1, <3>1 DEF Positions
    <3> QED BY <1>5, <1>6, <1>8, <1>9, <3>2 DEF read
  <2> QED BY <2>2, <2>3
<1> QED BY <1>10, <1>11

\* What is kept of a text, and what that amounts to, symbol by symbol.
KeptScan(kept, t, K) ==
  /\ kept \in [0..Len(t) -> Texts] /\ kept[0] = <<>> /\ kept[Len(t)] = At(t, K)
  /\ \A k \in 1..Len(t) :
       /\ k \in K => /\ kept[k] = Append(kept[k - 1], t[k])
                     /\ Scan(kept[k]) = ScanStep(Scan(kept[k - 1]), t[k])
       /\ k \notin K => kept[k] = kept[k - 1]

LEMMA KeptScans ==
  ASSUME NEW t \in Texts, NEW K
  PROVE  \E kept : KeptScan(kept, t, K)
<1> DEFINE n == Len(t)
<1>1. n \in Nat /\ \A i \in 1..n : t[i] \in Symbol
  BY TextFacts
<1>2. PICK kept \in [0..n -> Texts] : Keeps(kept, t, K) /\ At(t, K) = kept[n]
  <2>1. t \in Seq(Symbol)
    BY DEF Texts
  <2> QED BY <2>1, AtRuns DEF Texts
<1> HIDE DEF n
<1>3. ASSUME NEW k \in 1..n, k \in K
      PROVE  /\ kept[k] = Append(kept[k - 1], t[k])
             /\ Scan(kept[k]) = ScanStep(Scan(kept[k - 1]), t[k])
  <2>1. kept[k] = Append(kept[k - 1], t[k])
    BY <1>2, <1>3 DEF Keeps, n
  <2>2. k - 1 \in 0..n
    BY <1>1
  <2>3. kept[k - 1] \in Texts /\ t[k] \in Symbol
    BY <1>1, <1>2, <2>2
  <2> QED BY <2>1, <2>3, ScanAppend
<1>4. \A k \in 1..n : k \notin K => kept[k] = kept[k - 1]
  BY <1>2 DEF Keeps, n
<1>5. kept[0] = <<>>
  BY <1>2 DEF Keeps
<1>6. KeptScan(kept, t, K)
  BY <1>2, <1>3, <1>4, <1>5 DEF KeptScan, n
<1> QED BY <1>6

\* What follows the last separator.
LEMMA TailIs ==
  ASSUME NEW x \in Texts, \A i \in 1..Len(x) : x[i] \in Figure \cup Separators,
         NEW r, Scans(r, x), NEW top \in 0..Len(x),
         top # 0 => x[top] \in Separators,
         \A i \in 1..Len(x) : x[i] \in Separators => i <= top
  PROVE  r[Len(x)][2] = IF top = 0 THEN -1 ELSE Len(x) - top
<1> DEFINE n == Len(x)
           T == {k \in 0..n : k >= top => r[k][2] = IF top = 0 THEN -1 ELSE k - top}
<1>1. n \in Nat
  BY TextFacts
<1> HIDE DEF n
<1>2. top \in Nat /\ top <= n
  BY <1>1 DEF n
<1>3. 0 \in T
  <2>1. r[0] = <<0, -1, 0>> /\ 0 \in 0..n
    BY <1>1 DEF Scans
  <2>2. 0 >= top => top = 0
    BY <1>2
  <2> QED BY <2>1, <2>2
<1>4. ASSUME NEW k \in 1..n, k - 1 \in T PROVE k \in T
  <2>1. k \in 0..n /\ k - 1 \in 0..n /\ k \in Nat /\ k # 0
    BY <1>1
  <2>2. r[k] = ScanStep(r[k - 1], x[k]) /\ r[k - 1] \in States
    BY <2>1 DEF Scans, n
  <2>3. CASE k < top
    BY <1>2, <2>1, <2>3
  <2>4. CASE k = top
    <3>1. x[k] \in Separators
      BY <2>1, <2>4
    <3>2. r[k][2] = 0
      BY <2>2, <3>1, SeparatorStep
    <3> QED BY <2>1, <2>4, <3>2
  <2>5. CASE k > top
    <3>1. x[k] \in Figure
      <4>1. x[k] \in Figure \cup Separators
        BY DEF n
      <4>2. ~(k <= top)
        BY <1>2, <2>1, <2>5
      <4> QED BY <4>1, <4>2 DEF n
    <3>2. r[k - 1][2] = IF top = 0 THEN -1 ELSE k - 1 - top
      <4>1. k - 1 >= top
        BY <1>2, <2>1, <2>5
      <4> QED BY <1>4, <4>1
    <3>3. /\ r[k - 1][2] = -1 => r[k][2] = -1
          /\ r[k - 1][2] # -1 => r[k][2] = r[k - 1][2] + 1
      BY <2>2, <3>1, FigureStep
    <3>4. r[k][2] = IF top = 0 THEN -1 ELSE k - top
      <4>1. k - 1 - top # -1 /\ (k - 1 - top) + 1 = k - top
        BY <1>2, <2>1, <2>5
      <4> QED BY <3>2, <3>3, <4>1
    <3> QED BY <2>1, <3>4
  <2> QED BY <1>2, <2>1, <2>3, <2>4, <2>5
<1>5. n \in T
  <2> HIDE DEF T
  <2>1. 0..n \subseteq T
    BY <1>1, <1>3, <1>4, Induction
  <2> QED BY <1>1, <2>1
<1> QED BY <1>2, <1>5 DEF n

\* The figures before the separator, all of them if it is at 0.
LEMMA WholeScan ==
  ASSUME NEW x \in Texts, \A i \in 1..Len(x) : x[i] \in Figure \cup Separators,
         NEW r, Scans(r, x), NEW mark \in 0..Len(x), mark # 0 => x[mark] \in Separators,
         NEW w, w = At(x, {i \in Positions(x, Figure) : mark = 0 \/ i < mark})
  PROVE  Scan(w)[1] = r[IF mark = 0 THEN Len(x) ELSE mark][1] /\ Scan(w)[2] = -1
<1> DEFINE n == Len(x)
           K == {i \in Positions(x, Figure) : mark = 0 \/ i < mark}
           upTo(k) == IF mark = 0 \/ k <= mark THEN k ELSE mark
<1>1. n \in Nat /\ DOMAIN x = 1..n
  BY TextFacts
<1>2. \A k \in 1..n : k \in K <=> x[k] \in Figure /\ (mark = 0 \/ k < mark)
  BY <1>1 DEF Positions
<1> HIDE DEF K
<1>3. PICK kept : KeptScan(kept, x, K)
  BY KeptScans
<1>4. w = kept[n]
  BY <1>3 DEF KeptScan, K
<1> HIDE DEF n
<1>5. mark \in Nat /\ mark <= n
  BY <1>1 DEF n
<1> DEFINE q(k) == Scan(kept[k])
           T == {k \in 0..n : q(k)[1] = r[upTo(k)][1] /\ q(k)[2] = -1}
<1>6. 0 \in T
  <2>1. r[0] = <<0, -1, 0>> /\ 0 \in 0..n
    BY <1>1 DEF Scans
  <2>2. q(0) = <<0, -1, 0>>
    BY <1>3, ScanAppend DEF KeptScan
  <2>3. upTo(0) = 0
    BY <1>5
  <2> HIDE DEF q, upTo
  <2> QED BY <2>1, <2>2, <2>3
<1>7. ASSUME NEW k \in 1..n, k - 1 \in T PROVE k \in T
  <2>1. k \in 0..n /\ k - 1 \in 0..n /\ k \in Nat /\ k # 0
    BY <1>1
  <2>2. r[k] = ScanStep(r[k - 1], x[k]) /\ r[k - 1] \in States
    BY <2>1 DEF Scans, n
  <2>3. q(k - 1) \in States
    <3>1. kept[k - 1] \in Texts
      BY <1>3, <2>1 DEF KeptScan, n
    <3> QED BY <3>1, ScanRuns
  <2>4. q(k - 1)[1] = r[upTo(k - 1)][1] /\ q(k - 1)[2] = -1
    BY <1>7
  <2>5. x[k] \in Figure \cup Separators /\ \A c \in Separators : c \notin Figure
    BY FigureIs DEF n, Separators
  <2>6. CASE x[k] \in Figure /\ (mark = 0 \/ k < mark)
    <3>1. q(k) = ScanStep(q(k - 1), x[k])
      BY <1>2, <1>3, <2>6 DEF KeptScan, n
    <3>2. upTo(k) = k /\ upTo(k - 1) = k - 1
      <4>1. mark = 0 \/ (k <= mark /\ k - 1 <= mark)
        BY <1>5, <2>1, <2>6
      <4> QED BY <4>1
    <3> HIDE DEF q, upTo
    <3>3. q(k)[1] = 10 * q(k - 1)[1] + Worth[x[k]] /\ (q(k - 1)[2] = -1 => q(k)[2] = -1)
      BY <2>3, <2>6, <3>1, FigureStep
    <3>4. r[k][1] = 10 * r[k - 1][1] + Worth[x[k]]
      BY <2>2, <2>6, FigureStep
    <3> QED BY <2>1, <2>4, <3>2, <3>3, <3>4
  <2>7. CASE ~(x[k] \in Figure /\ (mark = 0 \/ k < mark))
    <3>1. q(k) = q(k - 1)
      BY <1>2, <1>3, <2>7 DEF KeptScan, n
    <3>2. CASE mark # 0 /\ k > mark
      <4>1. upTo(k) = upTo(k - 1)
        BY <1>5, <2>1, <3>2
      <4> HIDE DEF q, upTo
      <4> QED BY <2>1, <2>4, <3>1, <4>1
    <3>3. CASE mark = 0 \/ k <= mark
      <4>1. upTo(k) = k /\ upTo(k - 1) = k - 1
        <5>1. mark = 0 \/ (k <= mark /\ k - 1 <= mark)
          BY <1>5, <2>1, <3>3
        <5> QED BY <5>1
      <4>2. x[k] \in Separators
        <5>1. CASE x[k] \in Figure
          <6>1. mark # 0 /\ k = mark
            BY <1>5, <2>1, <2>7, <3>3, <5>1
          <6> QED BY <6>1
        <5> QED BY <2>5, <5>1
      <4>3. r[k][1] = r[k - 1][1]
        BY <2>2, <4>2, SeparatorStep
      <4> HIDE DEF q, upTo
      <4> QED BY <2>1, <2>4, <3>1, <4>1, <4>3
    <3> QED BY <1>5, <2>1, <3>2, <3>3
  <2> QED BY <2>6, <2>7
<1>8. n \in T
  <2> HIDE DEF T
  <2>1. 0..n \subseteq T
    BY <1>1, <1>6, <1>7, Induction
  <2> QED BY <1>1, <2>1
<1>9. upTo(n) = IF mark = 0 THEN n ELSE mark
  BY <1>1, <1>5
<1> QED BY <1>4, <1>8, <1>9 DEF n

\* The figures after the separator, put behind a text that has those before it.
LEMMA FracScan ==
  ASSUME NEW x \in Texts, NEW r, Scans(r, x), NEW mark \in 1..Len(x),
         \A i \in 1..Len(x) : i > mark => x[i] \in Figure,
         x[mark] \in Separators,
         NEW f, f = At(x, {i \in Positions(x, Figure) : mark # 0 /\ i > mark}),
         NEW base \in Texts, Scan(base)[1] = r[mark][1]
  PROVE  /\ Scan(base \o (<<".">> \o f))[1] = r[Len(x)][1]
         /\ Scan(base \o (<<".">> \o f))[2] = r[Len(x)][2]
<1> DEFINE n == Len(x)
           K == {i \in Positions(x, Figure) : mark # 0 /\ i > mark}
<1>1. n \in Nat /\ DOMAIN x = 1..n /\ \A i \in 1..n : x[i] \in Symbol
  BY TextFacts
<1>2. mark \in Nat /\ mark >= 1 /\ mark <= n
  BY <1>1
<1>3. \A k \in 1..n : k \in K <=> k > mark
  <2>1. \A k \in 1..n : k \in K <=> x[k] \in Figure /\ k > mark
    BY <1>1, <1>2 DEF Positions
  <2> HIDE DEF K
  <2> QED BY <2>1
<1> HIDE DEF K
<1>4. PICK kept : KeptScan(kept, x, K)
  BY KeptScans
<1>5. f = kept[n] /\ kept \in [0..n -> Texts]
  BY <1>4 DEF KeptScan, K
<1> HIDE DEF n
<1>6. "." \in Symbol /\ "." \in Separators
  BY SymbolFacts DEF Separators
<1> DEFINE whole(s) == base \o (<<".">> \o s)
           q(k) == Scan(whole(kept[k]))
<1>7. whole(<<>>) = Append(base, ".")
  <2>1. <<".">> \in Seq(Symbol) /\ base \in Seq(Symbol)
    BY <1>6 DEF Texts
  <2>2. <<".">> \o <<>> = <<".">>
    BY <2>1, ConcatEmptySeq
  <2> QED BY <1>6, <2>1, <2>2, AppendIsConcat
<1>8. ASSUME NEW s \in Texts, NEW c \in Symbol
      PROVE  whole(s) \in Texts /\ whole(Append(s, c)) = Append(whole(s), c)
  <2>1. <<".">> \in Seq(Symbol) /\ base \in Seq(Symbol) /\ s \in Seq(Symbol) /\ <<c>> \in Seq(Symbol)
    BY <1>6 DEF Texts
  <2>2. <<".">> \o s \in Seq(Symbol)
    BY <2>1, ConcatProperties
  <2>3. whole(s) \in Seq(Symbol)
    BY <2>1, <2>2, ConcatProperties
  <2>4. Append(s, c) = s \o <<c>> /\ Append(whole(s), c) = whole(s) \o <<c>>
    <3> HIDE DEF whole
    <3> QED BY <2>1, <2>3, AppendIsConcat
  <2>5. (<<".">> \o s) \o <<c>> = <<".">> \o (s \o <<c>>)
    BY <2>1, ConcatAssociative
  <2>6. (base \o (<<".">> \o s)) \o <<c>> = base \o ((<<".">> \o s) \o <<c>>)
    BY <2>1, <2>2, ConcatAssociative
  <2> QED BY <2>3, <2>4, <2>5, <2>6 DEF Texts
<1> DEFINE T == {k \in 0..n : /\ k <= mark => kept[k] = <<>>
                              /\ k >= mark => q(k)[1] = r[k][1] /\ q(k)[2] = r[k][2]}
<1>9. 0 \in T
  <2>1. 0 \in 0..n /\ ~(0 >= mark) /\ kept[0] = <<>>
    BY <1>1, <1>2, <1>4 DEF KeptScan
  <2> QED BY <2>1
<1>10. ASSUME NEW k \in 1..n, k - 1 \in T PROVE k \in T
  <2>1. k \in 0..n /\ k - 1 \in 0..n /\ k \in Nat
    BY <1>1
  <2>2. r[k] = ScanStep(r[k - 1], x[k]) /\ r[k - 1] \in States
    BY <2>1 DEF Scans, n
  <2>3. ASSUME k <= mark PROVE kept[k] = <<>>
    <3>1. k \notin K /\ k - 1 <= mark
      BY <1>2, <1>3, <2>1, <2>3
    <3>2. kept[k] = kept[k - 1]
      BY <1>4, <3>1 DEF KeptScan, n
    <3> QED BY <1>10, <3>1, <3>2
  <2>4. ASSUME k = mark PROVE q(k)[1] = r[k][1] /\ q(k)[2] = r[k][2]
    <3>1. q(k) = Scan(Append(base, "."))
      <4>1. kept[k] = <<>>
        BY <1>2, <2>3, <2>4
      <4> HIDE DEF whole
      <4> QED BY <1>7, <4>1
    <3>2. q(k) = ScanStep(Scan(base), ".") /\ Scan(base) \in States
      BY <1>6, <3>1, ScanAppend, ScanRuns
    <3> HIDE DEF q
    <3>3. q(k)[1] = Scan(base)[1] /\ q(k)[2] = 0
      BY <1>6, <3>2, SeparatorStep
    <3>4. r[k][2] = 0
      BY <2>2, <2>4, SeparatorStep
    <3> QED BY <2>4, <3>3, <3>4
  <2>5. ASSUME k > mark PROVE q(k)[1] = r[k][1] /\ q(k)[2] = r[k][2]
    <3>1. kept[k] = Append(kept[k - 1], x[k])
      BY <1>3, <1>4, <2>5 DEF KeptScan, n
    <3>2. kept[k - 1] \in Texts /\ x[k] \in Symbol
      BY <1>1, <1>5, <2>1
    <3>3. whole(kept[k]) = Append(whole(kept[k - 1]), x[k]) /\ whole(kept[k - 1]) \in Texts
      BY <1>8, <3>1, <3>2
    <3>4. q(k) = ScanStep(q(k - 1), x[k]) /\ q(k - 1) \in States
      <4> HIDE DEF whole
      <4> QED BY <3>2, <3>3, ScanAppend, ScanRuns
    <3>5. q(k - 1)[1] = r[k - 1][1] /\ q(k - 1)[2] = r[k - 1][2]
      <4>1. k - 1 >= mark
        BY <1>2, <2>1, <2>5
      <4> HIDE DEF q
      <4> QED BY <1>10, <4>1
    <3> HIDE DEF q
    <3> QED BY <2>2, <3>4, <3>5, StepsAlike
  <2>6. k >= mark => k = mark \/ k > mark
    BY <1>2, <2>1
  <2> HIDE DEF q
  <2> QED BY <2>1, <2>3, <2>4, <2>5, <2>6
<1>11. n \in T
  <2> HIDE DEF T
  <2>1. 0..n \subseteq T
    BY <1>1, <1>9, <1>10, Induction
  <2> QED BY <1>1, <2>1
<1> HIDE DEF q
<1>12. q(n)[1] = r[n][1] /\ q(n)[2] = r[n][2]
  BY <1>2, <1>11
<1> QED BY <1>5, <1>12 DEF q, n

LEMMA DecimalIs ==
  ASSUME NEW x \in Texts
  PROVE  LET mark == DecimalAt(x)
             P == Positions(x, Separators)
         IN  \/ mark = 0 /\ P = {}
             \/ mark = 0 /\ \E top \in P : (\A p \in P : p <= top) /\ Len(x) - top > 2
             \/ mark \in P /\ \A p \in P : p <= mark
<1> DEFINE n == Len(x)
           P == Positions(x, Separators)
<1>1. n \in Nat /\ P \in SUBSET (1..n)
  <2>1. n \in Nat /\ DOMAIN x = 1..n
    BY TextFacts
  <2> QED BY <2>1 DEF Positions
<1>2. ASSUME P # {} PROVE Max(P) \in P /\ \A p \in P : p <= Max(P)
  <2> HIDE DEF P, n
  <2>1. Max(P) \in P /\ \A p \in P : Max(P) >= p
    BY <1>1, <1>2, MaxIsIn
  <2>2. \A p \in P : p \in Int
    BY <1>1
  <2> QED BY <2>1, <2>2
<1>3. \/ P = {} /\ DecimalAt(x) = 0
      \/ P # {} /\ n - Max(P) > 2 /\ DecimalAt(x) = 0
      \/ P # {} /\ DecimalAt(x) = Max(P)
  BY Zenon DEF DecimalAt, DecimalAmong
<1> HIDE DEF P
<1> QED BY <1>2, <1>3 DEF P

\* Whatever separator is taken, what is put together amounts to what there was.
LEMMA SplitScan ==
  ASSUME NEW x \in Texts, \A i \in 1..Len(x) : x[i] \in Figure \cup Separators,
         NEW mark, mark = DecimalAt(x),
         NEW w, w = At(x, {i \in Positions(x, Figure) : mark = 0 \/ i < mark}),
         NEW f, f = At(x, {i \in Positions(x, Figure) : mark # 0 /\ i > mark})
  PROVE  Value(Scan((IF w = <<>> THEN <<"0">> ELSE w) \o (IF f = <<>> THEN <<>> ELSE <<".">> \o f)))
           = Value(Scan(x))
<1> DEFINE n == Len(x)
           P == Positions(x, Separators)
           base == IF w = <<>> THEN <<"0">> ELSE w
           text == base \o (IF f = <<>> THEN <<>> ELSE <<".">> \o f)
<1>1. n \in Nat /\ DOMAIN x = 1..n /\ \A i \in 1..n : x[i] \in Symbol
  BY TextFacts
<1>2. PICK r : Scans(r, x) /\ Scan(x) = r[n]
  BY ScanRuns
<1>3. \/ mark = 0 /\ P = {}
      \/ mark = 0 /\ \E top \in P : (\A p \in P : p <= top) /\ n - top > 2
      \/ mark \in P /\ \A p \in P : p <= mark
  BY DecimalIs
<1>4. \A i : i \in P <=> i \in 1..n /\ x[i] \in Separators
  BY <1>1 DEF Positions
<1> HIDE DEF P
<1>5. mark \in 0..n /\ (mark # 0 => x[mark] \in Separators)
  <2>1. 0 \in 0..n /\ \A i \in 1..n : i \in 0..n /\ i # 0
    BY <1>1
  <2> HIDE DEF n
  <2> QED BY <1>3, <1>4, <2>1
<1>6. w \in Texts /\ f \in Texts
  <2>1. {i \in Positions(x, Figure) : mark = 0 \/ i < mark} \in SUBSET DOMAIN x
    BY DEF Positions
  <2>2. {i \in Positions(x, Figure) : mark # 0 /\ i > mark} \in SUBSET DOMAIN x
    BY DEF Positions
  <2> QED BY <2>1, <2>2, AtText
<1>7. Scan(w)[1] = r[IF mark = 0 THEN n ELSE mark][1] /\ Scan(w)[2] = -1
  <2> HIDE DEF n
  <2> QED BY <1>2, <1>5, WholeScan DEF n
<1>8. base \in Texts /\ Scan(base)[1] = Scan(w)[1] /\ Scan(base)[2] = -1
  <2>1. CASE w = <<>>
    <3>1. base = Append(<<>>, "0") /\ "0" \in Symbol /\ <<>> \in Texts
      <4>1. <<"0">> = Append(<<>>, "0")
        OBVIOUS
      <4> QED BY <1>6, <2>1, <4>1, SymbolFacts
    <3>2. Scan(<<>>) = <<0, -1, 0>> /\ Scan(<<>>) \in States
      BY <3>1, ScanAppend, ScanRuns
    <3>3. Scan(base) = ScanStep(Scan(<<>>), "0") /\ base \in Texts
      <4> HIDE DEF base
      <4> QED BY <3>1, ScanAppend
    <3> HIDE DEF base
    <3>4. /\ Scan(base)[1] = 10 * Scan(<<>>)[1] + Worth["0"]
          /\ Scan(<<>>)[2] = -1 => Scan(base)[2] = -1
      BY <3>2, <3>3, ZeroIsWorthNothing, FigureStep
    <3> QED BY <2>1, <3>2, <3>3, <3>4, ZeroIsWorthNothing
  <2>2. CASE w # <<>>
    BY <1>6, <1>7, <2>2
  <2> QED BY <2>1, <2>2
<1> HIDE DEF base
<1>9. base \o <<>> = base
  BY <1>8, ConcatEmptySeq DEF Texts
<1>10. CASE mark = 0
  <2>1. f = <<>>
    <3>1. {i \in Positions(x, Figure) : mark # 0 /\ i > mark} = {}
      BY <1>10
    <3>2. At(x, {}) = <<>>
      <4>1. x \in Seq(Symbol) /\ {} \in SUBSET DOMAIN x
        BY DEF Texts
      <4> QED BY <4>1, AtHolds
    <3> QED BY <3>1, <3>2
  <2>2. Scan(text)[1] = r[n][1] /\ Scan(text)[2] = -1
    BY <1>7, <1>8, <1>9, <1>10, <2>1
  <2>3. r[n][2] # 1 /\ r[n][2] # 2
    <3>1. CASE P = {}
      <4>1. r[n][2] = -1
        <5>1. 0 \in 0..n /\ \A i \in 1..n : ~(x[i] \in Separators)
          BY <1>1, <1>4, <3>1
        <5> HIDE DEF n
        <5>2. r[n][2] = IF 0 = 0 THEN -1 ELSE n - 0
          BY <1>2, <5>1, TailIs DEF n
        <5> QED BY <5>2
      <4> QED BY <4>1
    <3>2. CASE \E top \in P : (\A p \in P : p <= top) /\ n - top > 2
      <4>1. PICK top \in P : (\A p \in P : p <= top) /\ n - top > 2
        BY <3>2
      <4>2. top \in 0..n /\ top # 0 /\ x[top] \in Separators
        BY <1>1, <1>4, <4>1
      <4>3. \A i \in 1..n : x[i] \in Separators => i <= top
        BY <1>4, <4>1
      <4> HIDE DEF n
      <4>4. r[n][2] = n - top
        BY <1>2, <4>2, <4>3, TailIs DEF n
      <4>5. n - top \in Int
        BY <1>1, <4>2
      <4> QED BY <4>1, <4>4, <4>5
    <3>3. 0 \notin P
      BY <1>1, <1>4
    <3> QED BY <1>3, <1>10, <3>1, <3>2, <3>3
  <2> HIDE DEF text
  <2> QED BY <1>2, <2>2, <2>3 DEF Value, text, base
<1>11. CASE mark # 0
  <2>1. mark \in 1..n /\ x[mark] \in Separators /\ \A i \in 1..n : i > mark => x[i] \in Figure
    <3>1. mark \in P /\ \A p \in P : p <= mark
      BY <1>3, <1>11
    <3>2. mark \in 1..n /\ x[mark] \in Separators
      BY <1>4, <3>1
    <3>3. ASSUME NEW i \in 1..n, i > mark PROVE x[i] \in Figure
      <4>1. ~(i <= mark)
        BY <3>2, <3>3
      <4> QED BY <1>4, <3>1, <4>1
    <3> QED BY <3>2, <3>3
  <2>2. Scan(base)[1] = r[mark][1]
    BY <1>7, <1>8, <1>11
  <2>3. /\ Scan(base \o (<<".">> \o f))[1] = r[n][1]
        /\ Scan(base \o (<<".">> \o f))[2] = r[n][2]
    <3> HIDE DEF n
    <3> QED BY <1>2, <1>8, <2>1, <2>2, FracScan DEF n
  <2>4. CASE f # <<>>
    <3>1. text = base \o (<<".">> \o f)
      BY <2>4
    <3> HIDE DEF text, base
    <3>2. Scan(text)[1] = r[n][1] /\ Scan(text)[2] = r[n][2]
      BY <2>3, <3>1
    <3>3. Value(Scan(text)) = Value(Scan(x))
      BY <1>2, <3>2 DEF Value
    <3> QED BY <3>3 DEF text, base
  <2>5. CASE f = <<>>
    <3>1. text = base
      BY <1>9, <2>5
    <3>2. base \o (<<".">> \o f) = Append(base, ".") /\ "." \in Symbol /\ "." \in Separators
      <4>1. "." \in Symbol /\ "." \in Separators
        BY SymbolFacts DEF Separators
      <4>2. base \in Seq(Symbol) /\ <<".">> \in Seq(Symbol)
        BY <1>8, <4>1 DEF Texts
      <4>3. <<".">> \o f = <<".">>
        BY <2>5, <4>2, ConcatEmptySeq
      <4> QED BY <4>1, <4>2, <4>3, AppendIsConcat
    <3>3. Scan(Append(base, ".")) = ScanStep(Scan(base), ".") /\ Scan(base) \in States
      BY <1>8, <3>2, ScanAppend, ScanRuns
    <3>4. Scan(Append(base, "."))[1] = Scan(base)[1] /\ Scan(Append(base, "."))[2] = 0
      BY <3>2, <3>3, SeparatorStep
    <3>5. r[n][1] = Scan(base)[1] /\ r[n][2] = 0
      BY <2>3, <3>2, <3>4
    <3> HIDE DEF text, base
    <3>6. Scan(text)[1] = r[n][1] /\ Scan(text)[2] = -1
      BY <1>8, <3>1, <3>5
    <3>7. Value(Scan(text)) = 100 * r[n][1]
      BY <3>6 DEF Value
    <3>8. Value(r[n]) = 100 * r[n][1]
      BY <3>5 DEF Value
    <3>9. Value(Scan(text)) = Value(Scan(x))
      BY <1>2, <3>7, <3>8
    <3> QED BY <3>9 DEF text, base
  <2> QED BY <2>4, <2>5
<1> QED BY <1>10, <1>11

\* The lenient reading of a text that is accepted.
LEMMA LenientScan ==
  ASSUME NEW v \in Texts, Sound(ReadLeniently(v))
  PROVE  Accept(ReadLeniently(v)).cents = Value(Scan(MapOCR(v)))
<1> DEFINE m == MapOCR(v)
           currency == DetectCurrency(m)
           K == Positions(m, Figure \cup Separators)
           x == At(m, K)
           mark == DecimalAt(x)
           w == At(x, {i \in Positions(x, Figure) : mark = 0 \/ i < mark})
           f == At(x, {i \in Positions(x, Figure) : mark # 0 /\ i > mark})
           text == (IF w = <<>> THEN <<"0">> ELSE w) \o (IF f = <<>> THEN <<>> ELSE <<".">> \o f)
           read == ReadLeniently(v)
<1>1. /\ read.error = "" /\ read.currency \in {"", "EUR"} /\ Plain(read.text, Separators)
      /\ Accept(read).cents = Cents(read.text)
  BY Accepted, Zenon
<1>2. m \in Texts
  BY MapOCRIs
<1>3. read = ReadMapped(m, currency)
  BY Zenon DEF ReadLeniently
<1> HIDE DEF m
<1>4. K \in SUBSET DOMAIN m /\ \A i \in DOMAIN m : m[i] \in Figure \cup Separators <=> i \in K
  BY DEF Positions
<1> HIDE DEF K, read
<1>5. x \in Texts /\ Scan(x) = Scan(m)
  BY <1>2, <1>4, AtText, ScanAt
<1>6. \A i \in 1..Len(x) : x[i] \in Figure \cup Separators
  <2>1. m \in Seq(Symbol)
    BY <1>2 DEF Texts
  <2>2. DOMAIN x = 1..Len(x) /\ \A i \in DOMAIN x : \E k \in K : x[i] = m[k]
    BY <1>4, <2>1, AtHolds
  <2> HIDE DEF x
  <2> QED BY <1>4, <2>2
<1> HIDE DEF currency
<1>7. read = NormalizeSeparators(x, currency)
  <2>1. currency \in {"", "EUR"}
    BY <1>1, <1>3, Zenon DEF ReadMapped, Read
  <2> QED BY <1>3, <2>1, Zenon DEF ReadMapped, x, K
<1> HIDE DEF x
<1>8. read = Assembled(w, f, currency)
  <2>1. read = SplitAt(x, mark, currency)
    BY <1>1, <1>7, ErrorsAreTold, Zenon DEF NormalizeSeparators
  <2> QED BY <2>1, Zenon DEF SplitAt
<1> HIDE DEF w, f, mark
<1>9. read = Read(text, currency)
  BY <1>1, <1>8, ErrorsAreTold, Zenon DEF Assembled
<1>10. read.text = text
  <2> HIDE DEF text
  <2> QED BY <1>9, Zenon DEF Read
<1>11. read.text \in Texts
  BY ReadTexts DEF read
<1>12. Cents(read.text) = Value(Scan(read.text))
  BY <1>1, <1>11, PlainScan
<1>13. Value(Scan(text)) = Value(Scan(x))
  BY <1>5, <1>6, SplitScan DEF w, f, mark
<1> HIDE DEF text
<1> QED BY <1>1, <1>5, <1>10, <1>12, <1>13 DEF read, m

LEMMA ReadingsAre ==
  ASSUME NEW t, NEW r \in Readings(t)
  PROVE  \E format \in Formats, l \in BOOLEAN : r = ParseAmount(t, format, l)
BY DEF Readings

\* Every reading that is accepted, lenient or strict, is what going through the
\* text symbol by symbol comes to.
LEMMA ReadsTheScan ==
  ASSUME NEW t \in Texts, ~EuroWithin(t), NEW format, NEW l \in BOOLEAN, Taken(t, format, l)
  PROVE  ParseAmount(t, format, l).cents = Value(Scan(MapOCR(TrimSpaces(t))))
<1> DEFINE v == TrimSpaces(t)
<1>1. v \in Texts /\ ~EuroWithin(v)
  BY TrimSpacesKeeps, TrimKeepsEuro
<1>2. CASE Leniently(format, l)
  <2>1. Sound(ReadLeniently(v)) /\ ParseAmount(t, format, l) = Accept(ReadLeniently(v))
    BY <1>2, Behind
  <2> HIDE DEF v
  <2>2. ParseAmount(t, format, l).cents = Value(Scan(MapOCR(v)))
    BY <1>1, <2>1, LenientScan
  <2> QED BY <2>2 DEF v
<1>3. CASE ~Leniently(format, l)
  <2>1. Sound(ReadStrictly(v, format)) /\ ParseAmount(t, format, l) = Accept(ReadStrictly(v, format))
    BY <1>3, Behind
  <2> HIDE DEF v
  <2>2. ParseAmount(t, format, l).cents = Value(Scan(v)) /\ Scan(v)[3] = 1
    BY <1>1, <2>1, StrictScan
  <2>3. Scan(v)[3] = 1 => Value(Scan(MapOCR(v))) = Value(Scan(v))
    BY <1>1, MapScan DEF Value
  <2>4. ParseAmount(t, format, l).cents = Value(Scan(MapOCR(v)))
    BY <2>2, <2>3
  <2> QED BY <2>4 DEF v
<1> QED BY <1>2, <1>3

LEMMA OneReading ==
  ASSUME NEW t \in Texts, ~EuroWithin(t), NEW r \in Readings(t), r.error = ""
  PROVE  r.cents = Value(Scan(MapOCR(TrimSpaces(t))))
<1>1. PICK format \in Formats, l \in BOOLEAN : r = ParseAmount(t, format, l)
  BY ReadingsAre, Zenon
<1>2. Taken(t, format, l)
  BY <1>1, Zenon DEF Taken
<1>3. ParseAmount(t, format, l).cents = Value(Scan(MapOCR(TrimSpaces(t))))
  BY <1>2, ReadsTheScan, Zenon
<1> QED BY <1>1, <1>3, Zenon

\* However an amount is written and whatever formats take it, leniently or not, all
\* of them read the same amount, unless the word EURO stands between figures.
THEOREM OneAmountInAllFormats == Spec => []FormatsAgree
<1>1. PaymentsInv => FormatsAgree
  <2> SUFFICES ASSUME PaymentsInv, at = "received", ~EuroWithin(in.amount)
               PROVE  \A r, s \in Readings(in.amount) :
                        r.error = "" /\ s.error = "" => r.cents = s.cents
    BY Zenon DEF FormatsAgree
  <2>1. in.amount \in Texts
    BY InputFacts DEF PaymentsInv
  <2> QED BY <2>1, OneReading
<1> QED BY <1>1, Invariance, PTL

-----------------------------------------------------------------------------
(* The figures of a number, and the groups they are written in.             *)

LEMMA FigureIsWorth ==
  ASSUME NEW k \in 0..9
  PROVE  Figures[k + 1] \in Figure /\ Worth[Figures[k + 1]] = k
<1> DEFINE c == Figures[k + 1]
           w == Worth[c]
<1>1. c \in Figure
  BY FigureAt
<1>2. w \in 0..35 /\ (Figures \o Letters)[w + 1] = c
  BY <1>1, WorthFacts
<1> HIDE DEF w
<1>3. k \in {0, 1, 2, 3, 4, 5, 6, 7, 8, 9}
  OBVIOUS
<1>4. ASSUME w \in 0..35, (Figures \o Letters)[w + 1] = c PROVE w = k
  BY <1>3, <1>4, SMTT(60) DEF Figures, Letters
<1> QED BY <1>1, <1>2, <1>4 DEF w

\* Every number is above all that it was written from.
LEMMA DigitsScan ==
  ASSUME NEW n \in Nat
  PROVE  /\ Digits[n] \in Seq(Figure) /\ Digits[n] \in Texts
         /\ Scan(Digits[n]) = <<n, -1, 1>>
         /\ Len(Digits[n]) \in Nat \ {0}
<1> DEFINE Counts(m) == Digits[m] \in Texts /\ Scan(Digits[m]) = <<m, -1, 1>> /\ Len(Digits[m]) \in Nat \ {0}
           bad == {m \in Nat : ~Counts(m)}
<1> HIDE DEF Counts
<1>1. ASSUME NEW m \in bad, \A k \in bad : m <= k PROVE FALSE
  <2>1. m \in Nat /\ ~Counts(m) /\ \A k \in Nat : k < m => Counts(k)
    BY <1>1
  <2>2. Digits[m] = IF m < 10 THEN <<Figures[m + 1]>>
                    ELSE Append(Digits[m \div 10], Figures[(m % 10) + 1])
    BY <2>1, DigitsAre
  <2>3. CASE m < 10
    <3> DEFINE c == Figures[m + 1]
    <3>1. c \in Figure /\ Worth[c] = m
      <4>1. m \in 0..9
        BY <2>1, <2>3
      <4> QED BY <4>1, FigureIsWorth
    <3>2. c \in Symbol
      BY <3>1, SymbolFacts
    <3> HIDE DEF c
    <3>3. Digits[m] = Append(<<>>, c) /\ <<>> \in Texts
      BY <2>2, <2>3, <3>2 DEF c, Texts
    <3>4. Scan(Append(<<>>, c)) = ScanStep(<<0, -1, 0>>, c) /\ Append(<<>>, c) \in Texts
      BY <3>2, <3>3, ScanAppend
    <3>5. ScanStep(<<0, -1, 0>>, c) = <<m, -1, 1>>
      BY <2>1, <3>1 DEF ScanStep
    <3>6. Len(Digits[m]) = 1
      BY <2>2, <2>3, <3>2
    <3> QED BY <2>1, <3>3, <3>4, <3>5, <3>6 DEF Counts
  <2>4. CASE m >= 10
    <3> DEFINE c == Figures[(m % 10) + 1]
               d == m \div 10
    <3>1. d \in Nat /\ d < m /\ m % 10 \in 0..9 /\ m = 10 * d + (m % 10)
      BY <2>1, <2>4, Tenth
    <3>2. c \in Figure /\ Worth[c] = m % 10
      BY <3>1, FigureIsWorth
    <3>3. c \in Symbol
      BY <3>2, SymbolFacts
    <3>4. Digits[m] = Append(Digits[d], c)
      BY <2>1, <2>2, <2>4
    <3> HIDE DEF c, d
    <3>5. Digits[d] \in Texts /\ Scan(Digits[d]) = <<d, -1, 1>> /\ Len(Digits[d]) \in Nat \ {0}
      BY <2>1, <3>1 DEF Counts
    <3>6. Scan(Digits[m]) = ScanStep(<<d, -1, 1>>, c) /\ Digits[m] \in Texts
      BY <3>3, <3>4, <3>5, ScanAppend
    <3>7. ScanStep(<<d, -1, 1>>, c) = <<m, -1, 1>>
      <4>1. ScanStep(<<d, -1, 1>>, c) = <<10 * d + Worth[c], -1, 1>>
        BY <3>2 DEF ScanStep
      <4> QED BY <3>1, <3>2, <4>1
    <3>8. Len(Digits[m]) \in Nat \ {0}
      <4>1. Len(Digits[m]) = Len(Digits[d]) + 1
        BY <3>3, <3>4, <3>5, AppendProperties DEF Texts
      <4> QED BY <3>5, <4>1
    <3> QED BY <2>1, <3>6, <3>7, <3>8 DEF Counts
  <2> QED BY <2>1, <2>3, <2>4
<1>2. bad = {}
  <2>1. bad \in SUBSET Nat
    OBVIOUS
  <2> HIDE DEF bad
  <2> QED BY <1>1, <2>1, LeastNatural
<1>3. Counts(n)
  BY <1>2
<1> QED BY <1>3, DigitsAre DEF Counts

\* A larger number has no fewer figures.
LEMMA DigitsGrow ==
  ASSUME NEW n \in Nat, NEW m \in 0..n
  PROVE  Len(Digits[m]) <= Len(Digits[n])
<1> DEFINE bad == {k \in Nat : \E j \in 0..k : ~(Len(Digits[j]) <= Len(Digits[k]))}
<1>1. ASSUME NEW k \in bad, \A l \in bad : k <= l PROVE FALSE
  <2>1. k \in Nat /\ \A l \in Nat : l < k => \A j \in 0..l : Len(Digits[j]) <= Len(Digits[l])
    BY <1>1
  <2>2. PICK j \in 0..k : ~(Len(Digits[j]) <= Len(Digits[k]))
    BY <1>1
  <2> HIDE DEF bad
  <2>3. j \in Nat /\ j <= k
    BY <2>1
  <2>4. \A x \in Nat : Len(Digits[x]) \in Nat \ {0}
    BY DigitsScan
  <2>5. \A x \in Nat : x < 10 => Len(Digits[x]) = 1
    <3>1. ASSUME NEW x \in Nat, x < 10 PROVE Len(Digits[x]) = 1
      <4>1. Digits[x] = <<Figures[x + 1]>>
        BY <3>1, DigitsAre
      <4> QED BY <4>1
    <3> QED BY <3>1
  <2>6. \A x \in Nat : x >= 10 => Len(Digits[x]) = Len(Digits[x \div 10]) + 1
    <3>1. ASSUME NEW x \in Nat, x >= 10 PROVE Len(Digits[x]) = Len(Digits[x \div 10]) + 1
      <4> DEFINE d == x \div 10
                 c == Figures[(x % 10) + 1]
      <4>1. Digits[x] = Append(Digits[d], c)
        <5>1. Digits[x] = IF x < 10 THEN <<Figures[x + 1]>> ELSE Append(Digits[d], c)
          BY DigitsAre
        <5>2. ~(x < 10)
          BY <3>1
        <5> QED BY <5>1, <5>2, Zenon
      <4>2. d \in Nat /\ c \in Figure
        BY Tenth, FigureIsWorth
      <4>3. Digits[d] \in Seq(Figure)
        BY <4>2, DigitsAre
      <4> HIDE DEF d, c
      <4>4. Len(Digits[x]) = Len(Digits[d]) + 1
        BY <4>1, <4>2, <4>3, AppendProperties
      <4> QED BY <4>4 DEF d
    <3> QED BY <3>1
  <2>7. j >= 10 /\ k >= 10
    <3>1. Len(Digits[j]) \in Nat \ {0} /\ Len(Digits[k]) \in Nat \ {0}
      BY <2>1, <2>3, <2>4
    <3>2. ~(j < 10)
      <4>1. Len(Digits[j]) = 1 => Len(Digits[j]) <= Len(Digits[k])
        BY <3>1
      <4> QED BY <2>2, <2>3, <2>5, <4>1
    <3> QED BY <2>1, <2>3, <3>2
  <2> DEFINE a == j \div 10
             b == k \div 10
  <2>8. a \in 0..b /\ b \in Nat /\ b < k
    BY <2>1, <2>3, <2>7
  <2>9. Len(Digits[j]) = Len(Digits[a]) + 1 /\ Len(Digits[k]) = Len(Digits[b]) + 1
    BY <2>1, <2>3, <2>6, <2>7
  <2> HIDE DEF a, b
  <2>10. Len(Digits[a]) <= Len(Digits[b])
    BY <2>1, <2>8
  <2>11. Len(Digits[a]) \in Nat /\ Len(Digits[b]) \in Nat
    BY <2>4, <2>8
  <2> QED BY <2>2, <2>9, <2>10, <2>11
<1>2. bad = {}
  <2>1. bad \in SUBSET Nat
    OBVIOUS
  <2> HIDE DEF bad
  <2> QED BY <1>1, <2>1, LeastNatural
<1> QED BY <1>2

\* The texts that come up while a number is written in groups, figure by figure.
Groups(run, w, mark) ==
  /\ run \in [0..Len(w) -> Texts] /\ run[0] = <<>> /\ run[Len(w)] = Punctuated(w, mark)
  /\ \A k \in 1..Len(w) :
       run[k] = IF k < Len(w) /\ (Len(w) - k) % 3 = 0 THEN Append(run[k - 1], w[k]) \o mark
                ELSE Append(run[k - 1], w[k])

LEMMA GroupsExist ==
  ASSUME NEW w \in Seq(Figure), NEW mark \in Texts
  PROVE  \E run : Groups(run, w, mark)
<1> DEFINE n == Len(w)
           V == Texts
           Goes(i) == i < Len(w) /\ (Len(w) - i) % 3 = 0
           Next1(t, i) == t \o <<w[i]>> \o (IF i < Len(w) /\ (Len(w) - i) % 3 = 0 THEN mark ELSE <<>>)
           place == [i \in DOMAIN w |-> i]
           Value1(g, s) == IF s = {} THEN <<>> ELSE Next1(g[s \ {Max(s)}], place[Max(s)])
           d == [p \in V \X (1..n) |-> Next1(p[1], p[2])]
           fold == CHOOSE g : g = [s \in SUBSET DOMAIN place |-> Value1(g, s)]
<1>1. n \in Nat /\ DOMAIN w = 1..n /\ \A i \in 1..n : w[i] \in Figure /\ w[i] \in Symbol
  <2>1. n \in Nat /\ DOMAIN w = 1..n /\ \A i \in 1..n : w[i] \in Figure
    BY LenProperties, ElementOfSeq
  <2> QED BY <2>1, SymbolFacts
<1>2. Punctuated(w, mark) = fold[DOMAIN place]
  BY DEF Punctuated, FoldLeftDomain, FoldLeft, MapThenFoldSet
<1>3. ASSUME NEW t \in V, NEW i \in 1..n
      PROVE  /\ Next1(t, i) \in V
             /\ Next1(t, i) = IF Goes(i) THEN Append(t, w[i]) \o mark ELSE Append(t, w[i])
  <2>1. t \in Seq(Symbol) /\ w[i] \in Symbol /\ mark \in Seq(Symbol) /\ <<>> \in Seq(Symbol)
    BY <1>1 DEF Texts
  <2>2. Append(t, w[i]) = t \o <<w[i]>> /\ Append(t, w[i]) \in Seq(Symbol)
    BY <2>1, AppendIsConcat, AppendProperties
  <2>3. Append(t, w[i]) \o <<>> = Append(t, w[i]) /\ Append(t, w[i]) \o mark \in Seq(Symbol)
    BY <2>1, <2>2, ConcatEmptySeq, ConcatProperties
  <2>4. Next1(t, i) = Append(t, w[i]) \o (IF Goes(i) THEN mark ELSE <<>>)
    BY <2>2
  <2> HIDE DEF Next1, Goes
  <2> QED BY <2>2, <2>3, <2>4 DEF Texts
<1> HIDE DEF Next1
<1>4. d \in [V \X (1..n) -> V] /\ \A t \in V, i \in 1..n : d[<<t, i>>] = Next1(t, i)
  <2> HIDE DEF V, n, Goes
  <2> QED BY <1>3
<1>5. DOMAIN place = 1..n /\ \A i \in 1..n : place[i] = i
  BY <1>1
<1>6. <<>> \in V
  BY EmptySeq DEF Texts
<1> HIDE DEF d, V, place, Goes, n
<1>7. PICK h \in [SUBSET (1..n) -> V] : IsFold(h, <<>>, d, n)
  BY <1>1, <1>4, <1>6, FoldExists
<1>8. h = [s \in SUBSET DOMAIN place |-> Value1(h, s)]
  <2>1. ASSUME NEW s \in SUBSET (1..n) PROVE h[s] = Value1(h, s)
    <3>1. CASE s = {}
      BY <1>7, <3>1 DEF IsFold
    <3>2. CASE s # {}
      <4>1. h[s] = d[<<h[s \ {Max(s)}], Max(s)>>]
        BY <1>7, <3>2 DEF IsFold
      <4>2. Max(s) \in s
        BY <1>1, <3>2, MaxIsIn
      <4>3. h[s \ {Max(s)}] \in V /\ Max(s) \in 1..n
        BY <1>7, <4>2
      <4>4. h[s] = Next1(h[s \ {Max(s)}], Max(s)) /\ place[Max(s)] = Max(s)
        BY <1>4, <1>5, <4>1, <4>3
      <4> QED BY <3>2, <4>4
    <3> QED BY <3>1, <3>2
  <2> HIDE DEF Value1
  <2> QED BY <1>5, <1>7, <2>1
<1>9. fold = [s \in SUBSET (1..n) |-> Value1(fold, s)]
  <2> HIDE DEF Value1
  <2> QED BY <1>5, <1>8
<1> HIDE DEF fold
<1>10. fold[{}] = <<>>
  BY <1>9
<1>11. ASSUME NEW k \in 1..n, fold[1..(k - 1)] \in V
       PROVE  fold[1..k] = d[<<fold[1..(k - 1)], k>>]
  <2>1. 1..k \in SUBSET (1..n) /\ 1..k # {} /\ Max(1..k) = k /\ (1..k) \ {k} = 1..(k - 1)
    BY <1>1, Initial
  <2>2. fold[1..k] = Value1(fold, 1..k)
    <3> HIDE DEF Value1
    <3> QED BY <1>9, <2>1
  <2>3. fold[1..k] = Next1(fold[1..(k - 1)], k)
    BY <1>5, <2>1, <2>2
  <2> HIDE DEF Value1
  <2> QED BY <1>4, <1>11, <2>3
<1> HIDE DEF Value1
<1>12. PICK run : Runs(run, <<>>, d, n, V) /\ run[n] = fold[1..n]
  <2>1. Unfolds(fold, <<>>, d, n, V)
    BY <1>1, <1>4, <1>6, <1>10, <1>11 DEF Unfolds
  <2> QED BY <2>1, FoldRuns DEF HasRun
<1>13. ASSUME NEW k \in 1..n
       PROVE  run[k] = IF Goes(k) THEN Append(run[k - 1], w[k]) \o mark ELSE Append(run[k - 1], w[k])
  <2>1. k - 1 \in 0..n
    BY <1>1
  <2>2. run[k - 1] \in V /\ run[k] = d[<<run[k - 1], k>>]
    BY <1>12, <2>1 DEF Runs
  <2>3. run[k] = Next1(run[k - 1], k)
    BY <1>4, <2>2
  <2> QED BY <1>3, <2>2, <2>3
<1>14. run[n] = Punctuated(w, mark) /\ run \in [0..n -> Texts] /\ run[0] = <<>>
  BY <1>2, <1>5, <1>12 DEF Runs, V
<1> QED BY <1>13, <1>14 DEF Groups, n, Goes

-----------------------------------------------------------------------------
(* What is kept of texts that begin or end alike.                           *)

\* Texts that begin alike, of which the same is kept.
LEMMA KeepsAlike ==
  ASSUME NEW t, NEW r, NEW K, Keeps(r, t, K), Len(t) \in Nat,
         NEW u, NEW q, NEW L, Keeps(q, u, L), Len(u) \in Nat,
         NEW n \in Nat, n <= Len(t), n <= Len(u),
         \A i \in 1..n : t[i] = u[i] /\ (i \in K <=> i \in L)
  PROVE  r[n] = q[n]
<1> DEFINE T == {k \in 0..n : r[k] = q[k]}
<1>1. 0 \in T
  BY DEF Keeps
<1>2. ASSUME NEW k \in 1..n, k - 1 \in T PROVE k \in T
  <2>1. k \in 1..Len(t) /\ k \in 1..Len(u) /\ k \in 0..n /\ r[k - 1] = q[k - 1]
    BY <1>2
  <2>2. r[k] = (IF k \in K THEN Append(r[k - 1], t[k]) ELSE r[k - 1])
    BY <2>1 DEF Keeps
  <2>3. q[k] = (IF k \in L THEN Append(q[k - 1], u[k]) ELSE q[k - 1])
    BY <2>1 DEF Keeps
  <2>4. r[k] = q[k]
    BY <2>1, <2>2, <2>3
  <2> QED BY <2>1, <2>4
<1>3. 0..n \subseteq T
  <2> HIDE DEF T
  <2> QED BY <1>1, <1>2, Induction
<1> QED BY <1>3

LEMMA KeepsOf ==
  ASSUME NEW t \in Texts, NEW K
  PROVE  \E run \in [0..Len(t) -> Texts] : Keeps(run, t, K) /\ At(t, K) = run[Len(t)]
BY AtRuns DEF Texts

LEMMA AppendIs ==
  ASSUME NEW t \in Texts, NEW c \in Symbol
  PROVE  /\ Append(t, c) \in Texts /\ Len(t) \in Nat /\ Len(Append(t, c)) = Len(t) + 1
         /\ Append(t, c)[Len(t) + 1] = c
         /\ \A i \in 1..Len(t) : Append(t, c)[i] = t[i] /\ i # Len(t) + 1
         /\ \A i \in 1..(Len(t) + 1) : i = Len(t) + 1 \/ i \in 1..Len(t)
<1>1. t \in Seq(Symbol)
  BY DEF Texts
<1>2. Len(t) \in Nat /\ Append(t, c) \in Seq(Symbol) /\ Len(Append(t, c)) = Len(t) + 1
      /\ Append(t, c)[Len(t) + 1] = c /\ \A i \in 1..Len(t) : Append(t, c)[i] = t[i]
  BY <1>1, AppendProperties, LenProperties
<1> QED BY <1>2 DEF Texts

LEMMA AtAppend ==
  ASSUME NEW t \in Texts, NEW c \in Symbol, NEW K, NEW L,
         \A i \in 1..Len(t) : i \in K <=> i \in L
  PROVE  At(Append(t, c), K) = IF Len(t) + 1 \in K THEN Append(At(t, L), c) ELSE At(t, L)
<1> DEFINE u == Append(t, c)
           n == Len(t)
<1>1. /\ u \in Texts /\ n \in Nat /\ Len(u) = n + 1 /\ u[n + 1] = c
      /\ \A i \in 1..n : u[i] = t[i]
  BY AppendIs
<1> HIDE DEF u
<1>2. PICK r \in [0..Len(u) -> Texts] : Keeps(r, u, K) /\ At(u, K) = r[Len(u)]
  BY <1>1, KeepsOf
<1>3. PICK q \in [0..n -> Texts] : Keeps(q, t, L) /\ At(t, L) = q[n]
  BY KeepsOf
<1>4. r[n] = q[n]
  BY <1>1, <1>2, <1>3, KeepsAlike
<1>5. r[n + 1] = IF n + 1 \in K THEN Append(r[n], u[n + 1]) ELSE r[n]
  <2>1. n + 1 \in 1..Len(u) /\ (n + 1) - 1 = n
    BY <1>1
  <2> QED BY <1>2, <2>1 DEF Keeps
<1> QED BY <1>1, <1>2, <1>3, <1>4, <1>5 DEF u

\* Keeping what comes after m.
LEMMA SuffixIs ==
  ASSUME NEW t \in Texts, NEW m \in 0..Len(t), NEW K, \A i \in 1..Len(t) : i \in K <=> i > m
  PROVE  /\ At(t, K) \in Texts /\ Len(At(t, K)) = Len(t) - m
         /\ \A i \in 1..(Len(t) - m) : At(t, K)[i] = t[m + i]
<1> DEFINE n == Len(t)
<1>1. n \in Nat /\ \A i \in 1..n : t[i] \in Symbol
  BY TextFacts
<1>2. PICK r \in [0..n -> Texts] : Keeps(r, t, K) /\ At(t, K) = r[n]
  BY KeepsOf
<1> DEFINE Ends(k) == Len(r[k]) = k - m /\ \A i \in 1..(k - m) : r[k][i] = t[m + i]
           T == {k \in 0..n : IF k <= m THEN r[k] = <<>> ELSE Ends(k)}
<1> HIDE DEF Ends
<1>3. 0 \in T
  <2>1. r[0] = <<>> /\ 0 \in 0..n /\ 0 <= m
    BY <1>1, <1>2 DEF Keeps
  <2> QED BY <2>1
<1>4. ASSUME NEW k \in 1..n, k - 1 \in T PROVE k \in T
  <2>1. k \in 0..n /\ k - 1 \in 0..n /\ m \in Nat /\ k \in Nat
    BY <1>1
  <2>2. r[k] = IF k \in K THEN Append(r[k - 1], t[k]) ELSE r[k - 1]
    BY <1>2 DEF Keeps, n
  <2>3. k \in K <=> k > m
    BY DEF n
  <2>4. CASE k <= m
    <3>1. r[k - 1] = <<>> /\ k \notin K
      BY <1>4, <2>1, <2>3, <2>4
    <3> QED BY <2>1, <2>2, <2>4, <3>1
  <2>5. CASE k > m
    <3> DEFINE s == r[k - 1]
    <3>1. s \in Texts /\ r[k] = Append(s, t[k]) /\ t[k] \in Symbol
      BY <1>1, <1>2, <2>1, <2>2, <2>3, <2>5
    <3>2. Len(s) = k - 1 - m /\ \A i \in 1..(k - 1 - m) : s[i] = t[m + i]
      <4>1. CASE k - 1 <= m
        <5>1. s = <<>> /\ k - 1 = m
          BY <1>4, <2>1, <2>5, <4>1
        <5> QED BY <2>1, <5>1
      <4>2. CASE ~(k - 1 <= m)
        <5>1. Ends(k - 1)
          BY <1>4, <4>2
        <5> QED BY <5>1 DEF Ends
      <4> QED BY <4>1, <4>2
    <3> HIDE DEF s
    <3>3. /\ Len(r[k]) = Len(s) + 1 /\ r[k][Len(s) + 1] = t[k]
          /\ \A i \in 1..Len(s) : r[k][i] = s[i]
      BY <3>1, AppendIs
    <3>4. ASSUME NEW i \in 1..(k - m) PROVE r[k][i] = t[m + i]
      <4>1. CASE i = k - m
        <5>1. i = Len(s) + 1 /\ m + i = k
          BY <2>1, <3>2, <4>1
        <5> QED BY <3>3, <5>1
      <4>2. CASE i # k - m
        <5>1. i \in 1..(k - 1 - m)
          BY <2>1, <4>2
        <5> QED BY <3>2, <3>3, <5>1
      <4> QED BY <4>1, <4>2
    <3>5. Len(r[k]) = k - m
      BY <2>1, <3>2, <3>3
    <3>6. Ends(k)
      BY <3>4, <3>5 DEF Ends
    <3> QED BY <2>1, <2>5, <3>6
  <2> QED BY <2>1, <2>4, <2>5
<1>5. n \in T
  <2> HIDE DEF T
  <2>1. 0..n \subseteq T
    BY <1>1, <1>3, <1>4, Induction
  <2> QED BY <1>1, <2>1
<1>6. At(t, K) \in Texts
  BY <1>1, <1>2
<1>7. CASE n <= m
  <2>1. r[n] = <<>> /\ n - m = 0
    BY <1>1, <1>5, <1>7
  <2>2. Len(r[n]) = n - m
    BY <2>1
  <2> QED BY <1>2, <1>6, <2>1, <2>2
<1>8. CASE ~(n <= m)
  <2>1. Ends(n)
    BY <1>5, <1>8
  <2> QED BY <1>2, <1>6, <2>1 DEF Ends
<1> QED BY <1>7, <1>8

LEMMA SameTexts ==
  ASSUME NEW s \in Texts, NEW t \in Texts, Len(s) = Len(t), \A i \in 1..Len(t) : s[i] = t[i]
  PROVE  s = t
BY SeqEqual DEF Texts

\* Two parts with nothing in common have as many symbols as both together.
LEMMA PartsCount ==
  ASSUME NEW t \in Texts, NEW K, NEW L, NEW M,
         \A i \in 1..Len(t) : /\ i \in M <=> i \in K \/ i \in L
                              /\ ~(i \in K /\ i \in L)
  PROVE  Len(At(t, M)) = Len(At(t, K)) + Len(At(t, L))
<1> DEFINE n == Len(t)
<1>1. n \in Nat /\ \A i \in 1..n : t[i] \in Symbol
  BY TextFacts
<1>2. PICK r \in [0..n -> Texts] : Keeps(r, t, K) /\ At(t, K) = r[n]
  BY KeepsOf
<1>3. PICK q \in [0..n -> Texts] : Keeps(q, t, L) /\ At(t, L) = q[n]
  BY KeepsOf
<1>4. PICK p \in [0..n -> Texts] : Keeps(p, t, M) /\ At(t, M) = p[n]
  BY KeepsOf
<1> DEFINE T == {k \in 0..n : Len(p[k]) = Len(r[k]) + Len(q[k])}
<1>5. 0 \in T
  <2>1. r[0] = <<>> /\ q[0] = <<>> /\ p[0] = <<>> /\ 0 \in 0..n /\ Len(<<>>) = 0
    BY <1>1, <1>2, <1>3, <1>4 DEF Keeps
  <2> QED BY <2>1
<1>6. ASSUME NEW k \in 1..n, k - 1 \in T PROVE k \in T
  <2>1. k \in 0..n /\ k - 1 \in 0..n
    BY <1>1
  <2>2. r[k - 1] \in Texts /\ q[k - 1] \in Texts /\ p[k - 1] \in Texts /\ t[k] \in Symbol
    BY <1>1, <1>2, <1>3, <1>4, <2>1
  <2>3. /\ r[k] = IF k \in K THEN Append(r[k - 1], t[k]) ELSE r[k - 1]
        /\ q[k] = IF k \in L THEN Append(q[k - 1], t[k]) ELSE q[k - 1]
        /\ p[k] = IF k \in M THEN Append(p[k - 1], t[k]) ELSE p[k - 1]
    BY <1>2, <1>3, <1>4 DEF Keeps, n
  <2>4. /\ Len(r[k]) = Len(r[k - 1]) + (IF k \in K THEN 1 ELSE 0)
        /\ Len(q[k]) = Len(q[k - 1]) + (IF k \in L THEN 1 ELSE 0)
        /\ Len(p[k]) = Len(p[k - 1]) + (IF k \in M THEN 1 ELSE 0)
        /\ Len(r[k - 1]) \in Nat /\ Len(q[k - 1]) \in Nat
    <3>1. \A s \in Texts : Len(s) \in Nat /\ Len(Append(s, t[k])) = Len(s) + 1 /\ Len(s) = Len(s) + 0
      BY <2>2, AppendIs
    <3> QED BY <2>2, <2>3, <3>1
  <2>5. (k \in M <=> k \in K \/ k \in L) /\ ~(k \in K /\ k \in L)
    BY DEF n
  <2>6. Len(p[k - 1]) = Len(r[k - 1]) + Len(q[k - 1])
    BY <1>6
  <2>7. Len(p[k]) = Len(r[k]) + Len(q[k])
    <3> DEFINE a == Len(r[k - 1])
               b == Len(q[k - 1])
               c == Len(p[k - 1])
               x == IF k \in K THEN 1 ELSE 0
               y == IF k \in L THEN 1 ELSE 0
               z == IF k \in M THEN 1 ELSE 0
    <3>1. a \in Nat /\ b \in Nat /\ c = a + b
      BY <2>4, <2>6
    <3>2. x \in Nat /\ y \in Nat /\ z = x + y
      BY <2>5
    <3>3. Len(r[k]) = a + x /\ Len(q[k]) = b + y /\ Len(p[k]) = c + z
      BY <2>4
    <3> HIDE DEF a, b, c, x, y, z
    <3> QED BY <3>1, <3>2, <3>3
  <2> QED BY <2>1, <2>7
<1>7. n \in T
  <2> HIDE DEF T
  <2>1. 0..n \subseteq T
    BY <1>1, <1>5, <1>6, Induction
  <2> QED BY <1>1, <2>1
<1> QED BY <1>2, <1>3, <1>4, <1>7

\* The texts that a text begins with.
Begins(p, t) ==
  /\ p \in [0..Len(t) -> Texts] /\ p[0] = <<>> /\ p[Len(t)] = t
  /\ \A k \in 1..Len(t) : p[k] = Append(p[k - 1], t[k])

LEMMA BeginsExist ==
  ASSUME NEW t \in Texts
  PROVE  \E p : Begins(p, t)
<1> DEFINE n == Len(t)
<1>1. n \in Nat
  BY TextFacts
<1>2. PICK r \in [0..n -> Texts] : Keeps(r, t, 1..n) /\ At(t, 1..n) = r[n]
  BY KeepsOf
<1>3. At(t, 1..n) = t
  <2>1. 0 \in 0..n /\ (\A i \in 1..n : i \in 1..n <=> i > 0) /\ n - 0 = n /\ \A i \in 1..n : 0 + i = i
    BY <1>1
  <2>2. At(t, 1..n) \in Texts /\ Len(At(t, 1..n)) = n /\ \A i \in 1..n : At(t, 1..n)[i] = t[i]
    <3>1. /\ At(t, 1..n) \in Texts /\ Len(At(t, 1..n)) = n - 0
          /\ \A i \in 1..(n - 0) : At(t, 1..n)[i] = t[0 + i]
      BY <2>1, SuffixIs
    <3> HIDE DEF n
    <3> QED BY <2>1, <3>1
  <2> QED BY <2>2, SameTexts
<1>4. r[0] = <<>> /\ \A k \in 1..n : r[k] = Append(r[k - 1], t[k])
  BY <1>2 DEF Keeps
<1> QED BY <1>2, <1>3, <1>4 DEF Begins

Picked(t, S) == At(t, Positions(t, S))

LEMMA PickedAppend ==
  ASSUME NEW t \in Texts, NEW c \in Symbol, NEW S
  PROVE  Picked(Append(t, c), S) = IF c \in S THEN Append(Picked(t, S), c) ELSE Picked(t, S)
<1> DEFINE u == Append(t, c)
           n == Len(t)
<1>1. /\ u \in Texts /\ n \in Nat /\ Len(u) = n + 1 /\ u[n + 1] = c
      /\ \A i \in 1..n : u[i] = t[i]
  BY AppendIs
<1>2. DOMAIN t = 1..n /\ DOMAIN u = 1..(n + 1)
  BY <1>1, TextFacts
<1> HIDE DEF u, n
<1>3. \A i \in 1..n : i \in 1..(n + 1)
  BY <1>1
<1>4. n + 1 \in 1..(n + 1)
  BY <1>1
<1>5. \A i \in 1..n : i \in Positions(u, S) <=> i \in Positions(t, S)
  BY <1>1, <1>2, <1>3 DEF Positions
<1>6. n + 1 \in Positions(u, S) <=> c \in S
  BY <1>1, <1>2, <1>4 DEF Positions
<1>7. At(u, Positions(u, S)) = IF n + 1 \in Positions(u, S) THEN Append(At(t, Positions(t, S)), c)
                               ELSE At(t, Positions(t, S))
  BY <1>5, AtAppend DEF u, n
<1> QED BY <1>6, <1>7 DEF Picked, u

LEMMA PickedText ==
  ASSUME NEW t \in Texts, NEW S
  PROVE  /\ Picked(t, S) \in Texts /\ Len(Picked(t, S)) \in Nat
         /\ \A i \in 1..Len(Picked(t, S)) : Picked(t, S)[i] \in S
         /\ \A x : Holds(Picked(t, S), x) <=> x \in S /\ Holds(t, x)
<1> DEFINE K == Positions(t, S)
           s == At(t, K)
<1>1. K \in SUBSET DOMAIN t /\ \A k : k \in K <=> k \in DOMAIN t /\ t[k] \in S
  BY DEF Positions
<1>2. /\ s \in Texts /\ \A i \in DOMAIN s : \E k \in K : s[i] = t[k]
      /\ \A x : Holds(s, x) <=> \E k \in K : t[k] = x
  <2>1. t \in Seq(Symbol)
    BY DEF Texts
  <2> HIDE DEF K
  <2> QED BY <1>1, <2>1, AtHolds, AtText
<1>3. Len(s) \in Nat /\ DOMAIN s = 1..Len(s)
  BY <1>2, TextFacts
<1> HIDE DEF s, K
<1>4. \A x : (\E k \in K : t[k] = x) <=> x \in S /\ Holds(t, x)
  BY <1>1, TextFacts
<1> QED BY <1>1, <1>2, <1>3, <1>4 DEF Picked, s, K

LEMMA PickedNothing ==
  ASSUME NEW S
  PROVE  <<>> \in Texts /\ Len(<<>>) = 0 /\ Picked(<<>>, S) = <<>>
<1>1. <<>> \in Texts /\ Len(<<>>) = 0
  BY EmptySeq DEF Texts
<1>2. PICK r \in [0..Len(<<>>) -> Texts] :
        Keeps(r, <<>>, Positions(<<>>, S)) /\ At(<<>>, Positions(<<>>, S)) = r[Len(<<>>)]
  BY <1>1, KeepsOf
<1> QED BY <1>1, <1>2 DEF Keeps, Picked

LEMMA ConcatAppend ==
  ASSUME NEW a \in Texts, NEW s \in Texts, NEW c \in Symbol
  PROVE  a \o s \in Texts /\ a \o Append(s, c) = Append(a \o s, c)
<1>1. /\ a \in Seq(Symbol) /\ s \in Seq(Symbol) /\ <<c>> \in Seq(Symbol)
      /\ a \o s \in Seq(Symbol)
  BY ConcatProperties DEF Texts
<1>2. Append(s, c) = s \o <<c>> /\ Append(a \o s, c) = (a \o s) \o <<c>>
  BY <1>1, AppendIsConcat
<1>3. a \o (s \o <<c>>) = (a \o s) \o <<c>>
  BY <1>1, ConcatAssociative
<1> QED BY <1>1, <1>2, <1>3 DEF Texts

LEMMA PickedConcat ==
  ASSUME NEW a \in Texts, NEW b \in Texts, NEW S
  PROVE  Len(Picked(a \o b, S)) = Len(Picked(a, S)) + Len(Picked(b, S))
<1> DEFINE n == Len(b)
<1>1. n \in Nat /\ \A i \in 1..n : b[i] \in Symbol
  BY TextFacts
<1>2. PICK p : Begins(p, b)
  BY BeginsExist
<1> DEFINE C(t) == Len(Picked(t, S))
           T == {k \in 0..n : C(a \o p[k]) = C(a) + C(p[k])}
<1>3. \A t \in Texts, c \in Symbol : /\ C(t) \in Nat
                                     /\ c \in S => C(Append(t, c)) = C(t) + 1
                                     /\ c \notin S => C(Append(t, c)) = C(t)
  <2> TAKE t \in Texts, c \in Symbol
  <2>1. Picked(t, S) \in Texts /\ C(t) \in Nat
    BY PickedText
  <2>2. Len(Append(Picked(t, S), c)) = C(t) + 1
    BY <2>1, AppendIs
  <2> QED BY <2>1, <2>2, PickedAppend
<1> HIDE DEF C
<1>4. 0 \in T
  <2>1. p[0] = <<>> /\ 0 \in 0..n /\ a \o <<>> = a
    BY <1>1, <1>2, ConcatEmptySeq DEF Begins, Texts
  <2>2. C(<<>>) = 0
    BY PickedNothing DEF C
  <2>3. C(a) \in Nat
    BY PickedText DEF C
  <2>4. C(a \o <<>>) = C(a) + C(<<>>)
    BY <2>1, <2>2, <2>3
  <2>5. C(a \o p[0]) = C(a) + C(p[0])
    BY <2>1, <2>4
  <2> HIDE DEF n
  <2> QED BY <2>1, <2>5
<1>5. ASSUME NEW k \in 1..n, k - 1 \in T PROVE k \in T
  <2>1. k \in 0..n /\ k - 1 \in 0..n
    BY <1>1
  <2>2. p[k] = Append(p[k - 1], b[k]) /\ p[k - 1] \in Texts /\ b[k] \in Symbol
    BY <1>1, <1>2, <2>1 DEF Begins, n
  <2>3. a \o p[k - 1] \in Texts /\ a \o p[k] = Append(a \o p[k - 1], b[k])
    <3> DEFINE s == p[k - 1]
               c == b[k]
    <3>1. s \in Texts /\ c \in Symbol /\ p[k] = Append(s, c)
      BY <2>2
    <3> HIDE DEF s, c
    <3>2. a \o s \in Texts /\ a \o Append(s, c) = Append(a \o s, c)
      BY <3>1, ConcatAppend
    <3>3. a \o s \in Texts /\ a \o p[k] = Append(a \o s, c)
      BY <3>1, <3>2
    <3> QED BY <3>3 DEF s, c
  <2>4. C(a \o p[k - 1]) = C(a) + C(p[k - 1]) /\ C(a) \in Nat /\ C(p[k - 1]) \in Nat
    BY <1>5, <2>2, PickedText DEF C
  <2>5. CASE b[k] \in S
    <3>1. C(a \o p[k]) = C(a \o p[k - 1]) + 1 /\ C(p[k]) = C(p[k - 1]) + 1
      BY <1>3, <2>2, <2>3, <2>5
    <3> QED BY <2>1, <2>4, <3>1
  <2>6. CASE b[k] \notin S
    <3>1. C(a \o p[k]) = C(a \o p[k - 1]) /\ C(p[k]) = C(p[k - 1])
      BY <1>3, <2>2, <2>3, <2>6
    <3> QED BY <2>1, <2>4, <3>1
  <2> QED BY <2>5, <2>6
<1>6. n \in T
  <2> HIDE DEF T
  <2>1. 0..n \subseteq T
    BY <1>1, <1>4, <1>5, Induction
  <2> QED BY <1>1, <2>1
<1>7. p[n] = b
  BY <1>2 DEF Begins
<1> QED BY <1>6, <1>7 DEF C

LEMMA PickedTwice ==
  ASSUME NEW t \in Texts, NEW S, NEW R, R \subseteq S
  PROVE  Picked(Picked(t, S), R) = Picked(t, R)
<1> DEFINE n == Len(t)
<1>1. n \in Nat /\ \A i \in 1..n : t[i] \in Symbol
  BY TextFacts
<1>2. PICK p : Begins(p, t)
  BY BeginsExist
<1> DEFINE T == {k \in 0..n : Picked(Picked(p[k], S), R) = Picked(p[k], R)}
<1>3. 0 \in T
  <2>1. p[0] = <<>> /\ 0 \in 0..n
    BY <1>1, <1>2 DEF Begins
  <2> QED BY <2>1, PickedNothing
<1>4. ASSUME NEW k \in 1..n, k - 1 \in T PROVE k \in T
  <2> DEFINE s == p[k - 1]
             c == t[k]
  <2>1. k \in 0..n /\ k - 1 \in 0..n
    BY <1>1
  <2>2. p[k] = Append(s, c) /\ s \in Texts /\ c \in Symbol
    BY <1>1, <1>2, <2>1 DEF Begins, n
  <2>3. Picked(Picked(s, S), R) = Picked(s, R)
    BY <1>4
  <2> HIDE DEF s, c
  <2>4. Picked(s, S) \in Texts
    BY <2>2, PickedText
  <2>5. Picked(Append(s, c), S) = (IF c \in S THEN Append(Picked(s, S), c) ELSE Picked(s, S))
    BY <2>2, PickedAppend
  <2>6. Picked(Append(s, c), R) = (IF c \in R THEN Append(Picked(s, R), c) ELSE Picked(s, R))
    BY <2>2, PickedAppend
  <2>7. Picked(Append(Picked(s, S), c), R)
          = (IF c \in R THEN Append(Picked(Picked(s, S), R), c) ELSE Picked(Picked(s, S), R))
    BY <2>2, <2>4, PickedAppend
  <2>8. Picked(Picked(Append(s, c), S), R) = Picked(Append(s, c), R)
    BY <2>3, <2>5, <2>6, <2>7
  <2> QED BY <2>1, <2>2, <2>8
<1>5. n \in T
  <2> HIDE DEF T
  <2>1. 0..n \subseteq T
    BY <1>1, <1>3, <1>4, Induction
  <2> QED BY <1>1, <2>1
<1>6. p[n] = t
  BY <1>2 DEF Begins
<1> QED BY <1>5, <1>6

-----------------------------------------------------------------------------
(* Texts that are accepted.                                                 *)

LEMMA FiguresAreNoSeparators == Figure \cap Separators = {}
BY FigureIs, Zenon DEF Separators

\* The currencies that are accepted.
Euros == {"", "EUR"}

LEMMA PlainIsSound ==
  ASSUME NEW t, NEW currency \in Euros, Plain(t, Separators)
  PROVE  Sound(Read(t, currency))
BY Zenon DEF Sound, Accept, Read, Euros

\* Figures, and perhaps a point and figures, in one piece.
LEMMA PutTogether ==
  ASSUME NEW w \in Texts, Len(w) \in 1..MaxWhole, \A i \in 1..Len(w) : w[i] \in Figure,
         NEW s \in Separators, NEW f \in Texts, Len(f) \in 0..2, \A i \in 1..Len(f) : f[i] \in Figure
  PROVE  Plain(w \o (IF f = <<>> THEN <<>> ELSE <<s>> \o f), {s})
<1> DEFINE t == w \o (IF f = <<>> THEN <<>> ELSE <<s>> \o f)
           n == Len(w)
<1>1. w \in Seq(Symbol) /\ f \in Seq(Symbol) /\ <<s>> \in Seq(Symbol) /\ Len(<<s>>) = 1
  <2>1. s \in Symbol
    BY SymbolFacts
  <2> QED BY <2>1 DEF Texts
<1>2. n \in 1..MaxWhole /\ n \in Nat /\ MaxWhole \in Nat
  BY MaxWholeAssumption
<1>3. f = <<>> <=> Len(f) = 0
  BY <1>1, EmptySeq
<1>4. CASE f = <<>>
  <2>1. t = w
    BY <1>1, <1>4, ConcatEmptySeq
  <2>2. Len(t) = n /\ DOMAIN t = 1..n /\ \A i \in 1..n : t[i] \in Figure
    BY <1>1, <2>1, LenProperties
  <2> HIDE DEF t, n
  <2>3. n <= Len(t) /\ (\A i \in DOMAIN t : i = n + 1 \/ t[i] \in Figure) /\ ~(n < Len(t))
    BY <1>2, <2>2
  <2>4. Plain(t, {s})
    BY <1>2, <2>3 DEF Plain
  <2> QED BY <2>4 DEF t
<1>5. CASE f # <<>>
  <2> DEFINE g == <<s>> \o f
             m == Len(f)
  <2>1. m \in 1..2
    BY <1>3, <1>5
  <2>2. g \in Seq(Symbol) /\ Len(g) = 1 + m /\ g[1] = s /\ \A i \in 1..m : g[1 + i] = f[i]
    <3>1. /\ g \in Seq(Symbol) /\ Len(g) = 1 + m
          /\ \A i \in 1..(1 + m) : g[i] = IF i <= 1 THEN <<s>>[i] ELSE f[i - 1]
      BY <1>1, ConcatProperties
    <3> HIDE DEF g
    <3>2. g[1] = s
      BY <2>1, <3>1
    <3>3. ASSUME NEW i \in 1..m PROVE g[1 + i] = f[i]
      <4>1. 1 + i \in 1..(1 + m) /\ ~(1 + i <= 1) /\ (1 + i) - 1 = i
        BY <2>1
      <4> QED BY <3>1, <4>1
    <3> QED BY <3>1, <3>2, <3>3
  <2>3. t = w \o g
    BY <1>5
  <2> HIDE DEF g, t
  <2>4. /\ t \in Seq(Symbol) /\ Len(t) = n + (1 + m)
        /\ \A i \in 1..(n + (1 + m)) : t[i] = IF i <= n THEN w[i] ELSE g[i - n]
    <3>1. /\ t \in Seq(Symbol) /\ Len(t) = n + Len(g)
          /\ \A i \in 1..(n + Len(g)) : t[i] = IF i <= n THEN w[i] ELSE g[i - n]
      BY <1>1, <2>2, <2>3, ConcatProperties
    <3>2. Len(g) = 1 + m
      BY <2>2
    <3> HIDE DEF n, m
    <3> QED BY <3>1, <3>2
  <2>5. DOMAIN t = 1..(n + (1 + m))
    BY <2>4, LenProperties
  <2>6. ASSUME NEW i \in DOMAIN t, i # n + 1 PROVE t[i] \in Figure
    <3>1. CASE i <= n
      <4>1. i \in 1..n /\ t[i] = w[i]
        BY <1>2, <2>4, <2>5, <3>1
      <4> QED BY <4>1
    <3>2. CASE ~(i <= n)
      <4> DEFINE j == i - n - 1
      <4>1. j \in 1..m /\ i - n = 1 + j
        BY <1>2, <2>1, <2>5, <2>6, <3>2
      <4>2. t[i] = g[i - n]
        BY <2>4, <2>5, <3>2
      <4> HIDE DEF j
      <4>3. t[i] = f[j]
        BY <2>2, <4>1, <4>2
      <4> QED BY <4>1, <4>3
    <3> QED BY <3>1, <3>2
  <2>7. t[n + 1] = s
    <3>1. n + 1 \in 1..(n + (1 + m)) /\ ~(n + 1 <= n) /\ (n + 1) - n = 1
      BY <1>2, <2>1
    <3>2. t[n + 1] = g[(n + 1) - n]
      BY <2>4, <3>1
    <3> QED BY <2>2, <3>1, <3>2
  <2> HIDE DEF n, m
  <2>8. Len(t) - n \in {2, 3} /\ n <= Len(t)
    <3>1. Len(t) = n + (1 + m)
      BY <2>4
    <3> QED BY <1>2, <2>1, <3>1
  <2>9. Plain(t, {s})
    BY <1>2, <2>6, <2>7, <2>8 DEF Plain
  <2> QED BY <2>9 DEF t
<1> QED BY <1>4, <1>5

LEMMA PlainAmong ==
  ASSUME NEW t, NEW R, NEW S, R \subseteq S, Plain(t, R)
  PROVE  Plain(t, S)
BY DEF Plain

\* What is after the separator: a fraction of d figures, or none.
Ending(t, d) == IF d = 0 THEN Scan(t)[2] \in {-1, 3} /\ ~Holds(t, ",") ELSE Scan(t)[2] = d

\* Where the separator is, and that what is put together is a plain number.
LEMMA NormalizedSound ==
  ASSUME NEW x \in Texts, \A i \in 1..Len(x) : x[i] \in Figure \cup Separators,
         NEW n \in Nat, n \in 1..MaxWhole, NEW d \in 0..2,
         Len(Picked(x, Figure)) = n + d, Ending(x, d),
         NEW currency \in Euros
  PROVE  Sound(NormalizeSeparators(x, currency))
<1> DEFINE len == Len(x)
           P == Positions(x, Separators)
           F == Positions(x, Figure)
           top == IF P = {} THEN 0 ELSE Max(P)
           mark == DecimalAt(x)
           Kw == {i \in Positions(x, Figure) : mark = 0 \/ i < mark}
           Kf == {i \in Positions(x, Figure) : mark # 0 /\ i > mark}
           w == At(x, Kw)
           f == At(x, Kf)
           text == w \o (IF f = <<>> THEN <<>> ELSE <<".">> \o f)
<1>1. len \in Nat /\ DOMAIN x = 1..len /\ \A i \in 1..len : x[i] \in Symbol
  BY TextFacts
<1>2. /\ \A i : i \in P <=> i \in 1..len /\ x[i] \in Separators
      /\ \A i : i \in F <=> i \in 1..len /\ x[i] \in Figure
  BY <1>1 DEF Positions
<1>3. \A i \in 1..len : i \in F <=> i \notin P
  BY <1>2, FiguresAreNoSeparators
<1>4. mark = IF P = {} \/ (~(Holds(x, ".") /\ Holds(x, ",")) /\ len - top > 2) THEN 0 ELSE top
  <2>1. CASE P = {}
    BY <2>1 DEF DecimalAt, DecimalAmong
  <2>2. CASE P # {}
    <3>1. top = Max(P)
      BY <2>2
    <3> QED BY <2>2, <3>1, Zenon DEF DecimalAt, DecimalAmong
  <2> QED BY <2>1, <2>2
<1> HIDE DEF P, F, mark
<1>5. /\ top \in 0..len /\ (top # 0 => top \in P) /\ (top = 0 <=> P = {})
      /\ \A i \in P : i <= top
  <2>1. P \in SUBSET (1..len)
    BY <1>2
  <2>2. CASE P = {}
    BY <1>1, <2>2
  <2>3. CASE P # {}
    <3>1. Max(P) \in P /\ \A i \in P : Max(P) >= i
      BY <1>1, <2>1, <2>3, MaxIsIn
    <3>2. top = Max(P)
      BY <2>3
    <3> HIDE DEF top, len
    <3>3. top \in P /\ \A i \in P : top >= i
      BY <3>1, <3>2
    <3>4. top \in 1..len
      BY <2>1, <3>3
    <3>5. top \in 0..len /\ top # 0
      BY <1>1, <3>4
    <3>6. ASSUME NEW i \in P PROVE i <= top
      <4>1. i \in 1..len /\ top >= i
        BY <2>1, <3>3
      <4> QED BY <3>4, <4>1
    <3> QED BY <2>3, <3>3, <3>5, <3>6
  <2> QED BY <2>2, <2>3
<1> HIDE DEF top
<1>6. Scan(x)[2] = IF top = 0 THEN -1 ELSE len - top
  <2>1. PICK r : Scans(r, x) /\ Scan(x) = r[len]
    BY ScanRuns
  <2>2. /\ top # 0 => x[top] \in Separators
        /\ \A i \in 1..len : x[i] \in Separators => i <= top
    BY <1>2, <1>5
  <2>3. r[len][2] = IF top = 0 THEN -1 ELSE len - top
    BY <1>5, <2>1, <2>2, TailIs
  <2> QED BY <2>1, <2>3
<1>7. /\ d > 0 => mark = top /\ top # 0 /\ len - top = d
      /\ d = 0 => mark = 0
  <2>1. CASE d > 0
    <3>1. Scan(x)[2] = d
      <4>1. d # 0
        BY <2>1
      <4> QED BY <4>1, Zenon DEF Ending
    <3>2. top # 0 /\ len - top = d
      BY <1>6, <2>1, <3>1
    <3>3. ~(len - top > 2)
      BY <3>2
    <3>4. P # {} /\ d # 0
      BY <1>5, <2>1, <3>2
    <3>5. mark = top
      BY <1>4, <3>3, <3>4, Zenon
    <3> QED BY <3>2, <3>4, <3>5
  <2>2. CASE d = 0
    <3>1. Scan(x)[2] \in {-1, 3} /\ ~Holds(x, ",")
      BY <2>2, Zenon DEF Ending
    <3>2. top = 0 \/ len - top = 3
      <4>1. ASSUME top # 0 PROVE len - top = 3
        <5>1. len - top \in {-1, 3}
          BY <1>6, <3>1, <4>1
        <5>2. len - top # -1
          BY <1>1, <1>5
        <5> QED BY <5>1, <5>2
      <4> QED BY <4>1
    <3>3. P = {} \/ len - top > 2
      BY <1>5, <3>2
    <3>4. mark = 0
      BY <1>4, <3>1, <3>3, Zenon
    <3>5. ~(d > 0)
      BY <2>2
    <3> QED BY <3>4, <3>5
  <2> QED BY <2>1, <2>2
<1>8. /\ \A i : i \in Kw <=> i \in F /\ (mark = 0 \/ i < mark)
      /\ \A i : i \in Kf <=> i \in F /\ mark # 0 /\ i > mark
  BY DEF F
<1> HIDE DEF Kw, Kf
<1>9. Kw \in SUBSET DOMAIN x /\ Kf \in SUBSET DOMAIN x
  BY <1>1, <1>2, <1>8
<1>10. w \in Texts /\ f \in Texts /\ Len(w) \in Nat /\ Len(f) \in Nat
  BY <1>9, AtText, TextFacts
<1>11. /\ \A i \in 1..Len(w) : w[i] \in Figure
       /\ \A i \in 1..Len(f) : f[i] \in Figure
  <2>1. \A i \in DOMAIN w : \E k \in Kw : w[i] = x[k]
    BY <1>9, AtHolds DEF Texts
  <2>2. \A i \in DOMAIN f : \E k \in Kf : f[i] = x[k]
    BY <1>9, AtHolds DEF Texts
  <2>3. DOMAIN w = 1..Len(w) /\ DOMAIN f = 1..Len(f)
    BY <1>10, TextFacts
  <2> HIDE DEF w, f
  <2> QED BY <1>2, <1>8, <2>1, <2>2, <2>3
<1>12. Len(w) + Len(f) = n + d
  <2>1. mark \in Int /\ mark \in P \cup {0}
    <3>1. mark = top \/ mark = 0
      BY <1>7
    <3> QED BY <1>1, <1>5, <3>1
  <2>2. \A i \in 1..len : /\ i \in F <=> i \in Kw \/ i \in Kf
                          /\ ~(i \in Kw /\ i \in Kf)
    <3> TAKE i \in 1..len
    <3>1. i \in Int /\ (i \in F /\ mark # 0 => i # mark)
      BY <1>1, <1>3, <2>1
    <3> QED BY <1>8, <2>1, <3>1
  <2>3. Len(At(x, F)) = Len(w) + Len(f)
    BY <2>2, PartsCount
  <2>4. At(x, F) = Picked(x, Figure)
    BY DEF Picked, F
  <2> QED BY <2>3, <2>4
<1>13. Len(f) = d
  <2>1. CASE d > 0
    <3>1. \A i \in 1..len : i \in Kf <=> i > mark
      <4> TAKE i \in 1..len
      <4>1. i > top => i \notin P
        BY <1>1, <1>5
      <4> QED BY <1>3, <1>7, <1>8, <2>1, <4>1
    <3>2. mark \in 0..Len(x)
      BY <1>5, <1>7, <2>1
    <3>3. Len(f) = Len(x) - mark
      BY <3>1, <3>2, SuffixIs
    <3> QED BY <1>7, <2>1, <3>3
  <2>2. CASE d = 0
    <3>1. Kf = {}
      BY <1>7, <1>8, <2>2
    <3>2. f = <<>>
      BY <1>9, <3>1, AtHolds DEF Texts
    <3> HIDE DEF f
    <3>3. Len(f) = 0
      BY <3>2
    <3> QED BY <2>2, <3>3
  <2> QED BY <2>1, <2>2
<1> HIDE DEF w, f
<1>14. Len(w) = n
  BY <1>10, <1>12, <1>13
<1>15. Plain(text, Separators)
  <2>1. "." \in Separators /\ {"."} \subseteq Separators
    BY DEF Separators
  <2>2. Plain(text, {"."})
    BY <1>10, <1>11, <1>13, <1>14, <2>1, PutTogether
  <2> HIDE DEF text
  <2> QED BY <2>1, <2>2, PlainAmong
<1>16. NormalizeSeparators(x, currency) = Read(text, currency)
  <2>1. w # <<>> /\ Len(f) <= 2 /\ x # <<>>
    <3>1. w # <<>>
      <4>1. Len(<<>>) = 0 /\ n # 0
        BY PickedNothing
      <4> QED BY <1>14, <4>1
    <3>2. x # <<>>
      <4>1. Len(x) # 0
        <5>1. Kw = {} => w = <<>>
          BY <1>9, AtHolds DEF w, Texts
        <5>2. 1..0 = {}
          OBVIOUS
        <5> QED BY <1>1, <1>9, <3>1, <5>1, <5>2
      <4> QED BY <4>1, PickedNothing
    <3> QED BY <1>13, <3>1, <3>2
  <2>2. w \o f # <<>>
    BY <1>10, <2>1, ConcatEqualIffEmpty DEF Texts
  <2>3. NormalizeSeparators(x, currency) = Assembled(w, f, currency)
    BY <2>1, Zenon DEF NormalizeSeparators, SplitAt, w, f, Kw, Kf, mark
  <2>4. Assembled(w, f, currency) = Read(text, currency)
    <3>1. ~(w \o f = <<>> \/ Len(f) > 2)
      BY <1>13, <2>2
    <3> QED BY <2>1, <3>1, Zenon DEF Assembled
  <2> QED BY <2>3, <2>4
<1> HIDE DEF text
<1> QED BY <1>15, <1>16, PlainIsSound

-----------------------------------------------------------------------------
(* Amounts beside a mark.                                                   *)

Marks == {<<>>, <<"EUR", " ">>, <<"EUR", "O", " ">>}

\* A text of an amount, n figures and d more in the fraction.
AmountText(t, n, d) ==
  /\ t \in Texts /\ Len(t) \in Nat \ {0}
  /\ \A i \in 1..Len(t) : t[i] \in Figure \cup Separators \cup {" "}
  /\ t[1] \in Figure /\ t[Len(t)] \in Figure
  /\ \A i \in 2..Len(t) : t[i] = " " => t[i - 1] # " "
  /\ n \in 1..MaxWhole /\ n + 1 \in 1..MaxWhole /\ d \in 0..2
  /\ Len(Picked(t, Figure)) = n + d /\ Ending(t, d) /\ Scan(t)[3] = 1

LEMMA NoFigures ==
  /\ "EUR" \notin Figure \cup Separators \cup {" "} /\ "O" \notin Figure \cup Separators \cup {" "}
  /\ "USD" \notin Figure \cup Separators \cup {" "} /\ "GBP" \notin Figure \cup Separators \cup {" "}
  /\ " " \notin Figure \cup Separators
  /\ "EUR" # "O" /\ "EUR" # " " /\ "O" # " " /\ "USD" # "EUR" /\ "USD" # "O" /\ "GBP" # "EUR" /\ "GBP" # "O"
  /\ "," # "EUR" /\ "," # "O" /\ "," # " " /\ "USD" # " " /\ "GBP" # " "
  /\ "EUR" \in Symbol /\ "O" \in Symbol /\ " " \in Symbol
<1>1. "O" \in Letter
  BY LetterIs, Zenon
<1>2. "EUR" \in Symbol /\ "O" \in Symbol /\ " " \in Symbol
  BY <1>1, SymbolFacts, Zenon
<1>3. Figure \cup Separators \cup {" "} =
        {"0", "1", "2", "3", "4", "5", "6", "7", "8", "9", ".", ",", " "}
  BY FigureIs, Zenon DEF Separators
<1>4. Figure \cup Separators =
        {"0", "1", "2", "3", "4", "5", "6", "7", "8", "9", ".", ","}
  BY FigureIs, Zenon DEF Separators
<1> QED BY <1>2, <1>3, <1>4

LEMMA ShortTexts ==
  ASSUME NEW x \in Symbol, NEW y \in Symbol, NEW z \in Symbol
  PROVE  /\ <<>> \in Texts /\ Len(<<>>) = 0
         /\ <<x>> \in Texts /\ Len(<<x>>) = 1 /\ <<x>>[1] = x
         /\ <<x, y>> \in Texts /\ Len(<<x, y>>) = 2 /\ <<x, y>>[1] = x /\ <<x, y>>[2] = y
         /\ <<x, y, z>> \in Texts /\ Len(<<x, y, z>>) = 3
         /\ <<x, y, z>>[1] = x /\ <<x, y, z>>[2] = y /\ <<x, y, z>>[3] = z
BY DEF Texts

MarkLengths == {k \in 0..3 : k # 1}

LEMMA MarkIs ==
  ASSUME NEW a \in Marks
  PROVE  /\ a \in Texts /\ Len(a) \in MarkLengths
         /\ \A i \in 1..Len(a) :
              /\ i = 1 => a[i] = "EUR"
              /\ i = Len(a) => a[i] = " "
              /\ i # 1 /\ i # Len(a) => i = 2 /\ a[i] = "O"
<1> DEFINE e == "EUR"
           o == "O"
           s == " "
<1>1. e \in Symbol /\ o \in Symbol /\ s \in Symbol
  BY NoFigures, Zenon
<1>2. a = <<>> \/ a = <<e, s>> \/ a = <<e, o, s>>
  BY Zenon DEF Marks
<1> HIDE DEF e, o, s
<1> DEFINE Shape == /\ a \in Texts /\ Len(a) \in MarkLengths
                    /\ \A i \in 1..Len(a) :
                         /\ i = 1 => a[i] = e
                         /\ i = Len(a) => a[i] = s
                         /\ i # 1 /\ i # Len(a) => i = 2 /\ a[i] = o
<1> SUFFICES Shape
  BY Zenon DEF e, o, s
<1>3. CASE a = <<>>
  <2>1. a \in Texts /\ Len(a) = 0
    BY <1>1, <1>3, ShortTexts
  <2> QED BY <2>1 DEF MarkLengths
<1>4. CASE a = <<e, s>>
  <2>1. a \in Texts /\ Len(a) = 2 /\ a[1] = e /\ a[2] = s
    BY <1>1, <1>4, ShortTexts
  <2>2. \A i \in 1..2 : i = 1 \/ i = 2
    OBVIOUS
  <2> QED BY <2>1, <2>2 DEF MarkLengths
<1>5. CASE a = <<e, o, s>>
  <2>1. a \in Texts /\ Len(a) = 3 /\ a[1] = e /\ a[2] = o /\ a[3] = s
    BY <1>1, <1>5, ShortTexts
  <2>2. \A i \in 1..3 : i = 1 \/ i = 2 \/ i = 3
    OBVIOUS
  <2> QED BY <2>1, <2>2 DEF MarkLengths
<1> QED BY <1>2, <1>3, <1>4, <1>5

IsJoin(v, a, t) ==
  /\ v \in Texts /\ Len(a) \in Nat /\ Len(t) \in Nat /\ Len(v) = Len(a) + Len(t)
  /\ \A i \in 1..Len(a) : v[i] = a[i] /\ i \in 1..Len(v)
  /\ \A i \in 1..Len(t) : v[Len(a) + i] = t[i] /\ Len(a) + i \in 1..Len(v)
  /\ \A i \in 1..Len(v) :
       i \in 1..Len(a) \/ (i > Len(a) /\ i - Len(a) \in 1..Len(t) /\ v[i] = t[i - Len(a)])

LEMMA JoinIs ==
  ASSUME NEW a \in Texts, NEW t \in Texts
  PROVE  IsJoin(a \o t, a, t)
<1> DEFINE l == Len(a)
           m == Len(t)
           v == a \o t
<1>1. /\ v \in Texts /\ Len(v) = l + m
      /\ \A i \in 1..(l + m) : v[i] = IF i <= l THEN a[i] ELSE t[i - l]
  BY ConcatProperties DEF Texts
<1>2. l \in Nat /\ m \in Nat
  BY TextFacts
<1> HIDE DEF l, m, v
<1>3. \A i \in 1..l : v[i] = a[i] /\ i \in 1..Len(v)
  BY <1>1, <1>2
<1>4. \A i \in 1..m : v[l + i] = t[i] /\ l + i \in 1..Len(v)
  <2> TAKE i \in 1..m
  <2>1. l + i \in 1..(l + m) /\ ~(l + i <= l) /\ (l + i) - l = i
    BY <1>2
  <2> QED BY <1>1, <2>1
<1>5. \A i \in 1..Len(v) : i \in 1..l \/ (i > l /\ i - l \in 1..m /\ v[i] = t[i - l])
  BY <1>1, <1>2
<1>6. IsJoin(v, a, t)
  BY <1>1, <1>2, <1>3, <1>4, <1>5 DEF l, m, IsJoin
<1> QED BY <1>6 DEF v

\* Keeping everything, or all that comes after a part.
LEMMA KeptWhole ==
  ASSUME NEW t \in Texts, NEW K, \A i \in 1..Len(t) : i \in K
  PROVE  At(t, K) = t
<1>1. Len(t) \in Nat /\ 0 \in 0..Len(t) /\ Len(t) - 0 = Len(t)
      /\ \A i \in 1..Len(t) : (i \in K <=> i > 0) /\ 0 + i = i
  BY TextFacts
<1>2. At(t, K) \in Texts /\ Len(At(t, K)) = Len(t) /\ \A i \in 1..(Len(t) - 0) : At(t, K)[i] = t[0 + i]
  BY <1>1, SuffixIs
<1>3. \A i \in 1..Len(t) : At(t, K)[i] = t[i]
  BY <1>1, <1>2
<1> QED BY <1>2, <1>3, SameTexts

LEMMA KeptEnd ==
  ASSUME NEW a \in Texts, NEW t \in Texts, NEW v, v = a \o t, NEW K,
         \A i \in 1..Len(v) : i \in K <=> i > Len(a)
  PROVE  At(v, K) = t
<1> DEFINE l == Len(a)
<1>1. /\ v \in Texts /\ l \in Nat /\ Len(t) \in Nat /\ Len(v) = l + Len(t)
      /\ \A i \in 1..Len(t) : v[l + i] = t[i]
  <2>1. IsJoin(v, a, t)
    BY JoinIs
  <2> QED BY <2>1 DEF IsJoin
<1> HIDE DEF l
<1>2. l \in 0..Len(v) /\ Len(v) - l = Len(t)
  BY <1>1
<1>3. /\ At(v, K) \in Texts /\ Len(At(v, K)) = Len(v) - l
      /\ \A i \in 1..(Len(v) - l) : At(v, K)[i] = v[l + i]
  BY <1>1, <1>2, SuffixIs, ZenonT(40) DEF l
<1>4. Len(At(v, K)) = Len(t) /\ \A i \in 1..Len(t) : At(v, K)[i] = t[i]
  BY <1>1, <1>2, <1>3
<1> QED BY <1>3, <1>4, SameTexts

\* What the mark does not change.
LEMMA MarkedIs ==
  ASSUME NEW a \in Marks, NEW t, NEW n, NEW d, AmountText(t, n, d), NEW v, v = a \o t
  PROVE  /\ v \in Texts /\ v # <<>> /\ TrimSpaces(v) = v /\ Scan(v) = Scan(t)
         /\ ~EuroWithin(v) /\ ~Holds(v, "USD") /\ ~Holds(v, "GBP")
<1> DEFINE l == Len(a)
           m == Len(v)
<1>1. /\ a \in Texts /\ l \in MarkLengths
      /\ \A i \in 1..l : /\ i = 1 => a[i] = "EUR"
                         /\ i = l => a[i] = " "
                         /\ i # 1 /\ i # l => i = 2 /\ a[i] = "O"
  BY MarkIs
<1>2. /\ t \in Texts /\ Len(t) \in Nat \ {0} /\ t[1] \in Figure /\ t[Len(t)] \in Figure
      /\ \A i \in 1..Len(t) : t[i] \in Figure \cup Separators \cup {" "}
  BY DEF AmountText
<1>3. /\ v \in Texts /\ Len(t) \in Nat /\ m = l + Len(t)
      /\ \A i \in 1..l : v[i] = a[i] /\ i \in 1..m
      /\ \A i \in 1..Len(t) : v[l + i] = t[i] /\ l + i \in 1..m
      /\ \A i \in 1..m : i \in 1..l \/ (i > l /\ i - l \in 1..Len(t) /\ v[i] = t[i - l])
  <2>1. IsJoin(v, a, t)
    BY <1>1, <1>2, JoinIs
  <2> QED BY <2>1 DEF IsJoin
<1>4. DOMAIN v = 1..m /\ \A x : Holds(v, x) <=> \E i \in DOMAIN v : v[i] = x
  BY <1>3, TextFacts
<1> HIDE DEF l, m
<1>5. l \in Nat /\ m \in Nat /\ m >= 1 /\ Len(t) \in Nat /\ Len(t) >= 1
  <2>1. l \in Nat
    <3>1. l \in MarkLengths
      BY <1>1
    <3>2. MarkLengths \subseteq Nat
      BY DEF MarkLengths
    <3> QED BY <3>1, <3>2, Zenon
  <2>2. Len(t) \in Nat \ {0} /\ m = l + Len(t)
    BY <1>2, <1>3
  <2> QED BY <2>1, <2>2
<1>6. \A i \in 1..l : v[i] \in {"EUR", "O", " "}
  BY <1>1, <1>3
<1>7. \A i \in 1..m : i > l => v[i] \in Figure \cup Separators \cup {" "}
  <2> TAKE i \in 1..m
  <2>1. ASSUME i > l PROVE v[i] \in Figure \cup Separators \cup {" "}
    <3>1. i \notin 1..l
      BY <1>5, <2>1
    <3>2. i - l \in 1..Len(t) /\ v[i] = t[i - l]
      BY <1>3, <3>1
    <3> QED BY <1>2, <3>2
  <2> QED BY <2>1
<1>8. v[1] # " " /\ v[m] # " "
  <2>1. v[1] # " "
    <3>1. CASE l = 0
      <4>1. 1 \in 1..Len(t) /\ l + 1 = 1
        BY <1>5, <3>1
      <4>2. v[1] = t[1]
        BY <1>3, <4>1
      <4> QED BY <1>2, <4>2, NoFigures
    <3>2. CASE l # 0
      <4>1. 1 \in 1..l
        BY <1>5, <3>2
      <4> QED BY <1>1, <1>3, <4>1, NoFigures
    <3> QED BY <3>1, <3>2
  <2>2. v[m] = t[Len(t)]
    <3>1. Len(t) \in 1..Len(t)
      BY <1>5
    <3> QED BY <1>3, <3>1
  <2> QED BY <1>2, <2>1, <2>2, NoFigures
<1>9. TrimSpaces(v) = v
  <2> DEFINE K == {i \in DOMAIN v : \E j, k \in DOMAIN v : j <= i /\ i <= k /\ v[j] # " " /\ v[k] # " "}
  <2>1. \A i \in 1..m : i \in K
    <3> TAKE i \in 1..m
    <3>1. 1 \in 1..m /\ m \in 1..m /\ 1 <= i /\ i <= m
      BY <1>5
    <3> QED BY <1>4, <1>8, <3>1
  <2>2. TrimSpaces(v) = At(v, K)
    BY DEF TrimSpaces
  <2> HIDE DEF K
  <2> QED BY <1>3, <2>1, <2>2, KeptWhole DEF m
<1>10. Scan(v) = Scan(t)
  <2> DEFINE K == {i \in DOMAIN v : i > l}
  <2>1. \A i \in 1..m : i \in K <=> i > l
    BY <1>4
  <2>2. K \in SUBSET DOMAIN v
    OBVIOUS
  <2>3. \A i \in DOMAIN v : v[i] \in Figure \cup Separators => i \in K
    <3> TAKE i \in DOMAIN v
    <3>1. i \in 1..l => v[i] \notin Figure \cup Separators
      BY <1>6, NoFigures
    <3>2. i \in 1..l \/ i > l
      BY <1>3, <1>4
    <3> QED BY <3>1, <3>2
  <2> HIDE DEF K
  <2>4. At(v, K) = t
    <3>1. a \in Texts /\ t \in Texts
      BY <1>1, <1>2
    <3>2. \A i \in 1..Len(v) : i \in K <=> i > Len(a)
      BY <2>1 DEF m, l
    <3> QED BY <3>1, <3>2, KeptEnd, Zenon
  <2> QED BY <1>3, <2>2, <2>3, <2>4, ScanAt, ZenonT(40)
<1>11. ASSUME EuroWithin(v) PROVE FALSE
  <2>1. PICK i \in DOMAIN v, j \in DOMAIN v : i < j /\ v[i] \in Figure /\ v[j] = "O"
    BY <1>11 DEF EuroWithin
  <2>2. ~(j > l) /\ i \in 1..m /\ j \in 1..m
    BY <1>4, <1>7, <2>1, NoFigures, ZenonT(40)
  <2>3. i \in 1..l
    BY <1>5, <2>1, <2>2
  <2> QED BY <1>6, <2>1, <2>3, NoFigures
<1>12. ASSUME NEW x \in {"USD", "GBP"}, Holds(v, x) PROVE FALSE
  <2>1. PICK i \in 1..m : v[i] = x
    BY <1>4, <1>12
  <2>2. i \in 1..l \/ i > l
    BY <1>3
  <2> QED BY <1>6, <1>7, <2>1, <2>2, NoFigures
<1>13. v # <<>>
  BY <1>5, PickedNothing DEF m
<1> QED BY <1>3, <1>9, <1>10, <1>11, <1>12, <1>13

MarkSymbols == {"EUR", "O", " "}

\* A mark of l symbols, at most three, and the amount after it.
Placed(v, l, t) ==
  /\ v \in Texts /\ t \in Texts /\ l \in 0..3 /\ Len(t) \in Nat \ {0} /\ Len(v) = l + Len(t)
  /\ \A i \in 1..Len(t) : v[l + i] = t[i] /\ l + i \in 1..Len(v) /\ t[i] \in Near
  /\ \A i \in 1..Len(v) :
       \/ i \in 1..l /\ v[i] \in MarkSymbols /\ (v[i] = "O" => i = 2)
       \/ i > l /\ i - l \in 1..Len(t) /\ v[i] = t[i - l] /\ v[i] \in Near

LEMMA MarkedPlaces ==
  ASSUME NEW a \in Marks, NEW t, NEW n, NEW d, AmountText(t, n, d), NEW v, v = a \o t
  PROVE  Placed(v, Len(a), t)
<1> DEFINE l == Len(a)
<1>1. a \in Texts
  BY MarkIs, Zenon
<1>2. l \in 0..3
  <2>1. l \in MarkLengths
    BY MarkIs, Zenon
  <2>2. MarkLengths \subseteq 0..3
    BY DEF MarkLengths
  <2> QED BY <2>1, <2>2, Zenon
<1>3. \A i \in 1..l : a[i] \in MarkSymbols /\ (a[i] = "O" => i = 2)
  <2> TAKE i \in 1..l
  <2>1. /\ i = 1 => a[i] = "EUR"
        /\ i = l => a[i] = " "
        /\ i # 1 /\ i # l => i = 2 /\ a[i] = "O"
    BY MarkIs, Zenon
  <2>2. "EUR" # "O" /\ " " # "O"
    BY NoFigures, Zenon
  <2> QED BY <2>1, <2>2, Zenon DEF MarkSymbols
<1>4. t \in Texts /\ Len(t) \in Nat \ {0} /\ \A i \in 1..Len(t) : t[i] \in Near
  BY DEF AmountText, Near
<1>5. /\ v \in Texts /\ Len(v) = l + Len(t)
      /\ \A i \in 1..l : v[i] = a[i] /\ i \in 1..Len(v)
      /\ \A i \in 1..Len(t) : v[l + i] = t[i] /\ l + i \in 1..Len(v)
      /\ \A i \in 1..Len(v) : i \in 1..l \/ (i > l /\ i - l \in 1..Len(t) /\ v[i] = t[i - l])
  <2>1. IsJoin(v, a, t)
    BY <1>1, <1>4, JoinIs
  <2> QED BY <2>1 DEF IsJoin
<1> HIDE DEF l
<1>6. \A i \in 1..Len(v) :
        \/ i \in 1..l /\ v[i] \in MarkSymbols /\ (v[i] = "O" => i = 2)
        \/ i > l /\ i - l \in 1..Len(t) /\ v[i] = t[i - l] /\ v[i] \in Near
  BY <1>3, <1>4, <1>5
<1> QED BY <1>2, <1>4, <1>5, <1>6 DEF Placed, l

LEMMA FewKept ==
  ASSUME NEW t \in Texts, NEW K \in SUBSET DOMAIN t, \A i \in K : i = 2
  PROVE  Len(At(t, K)) \in {0, 1}
<1>1. At(t, K) \in Texts /\ \E e : Places(e, At(t, K), t, K)
  BY AtPlaces DEF Texts
<1> DEFINE s == At(t, K)
<1> HIDE DEF s
<1>2. PICK e : Places(e, s, t, K)
  BY <1>1 DEF s
<1>3. Len(s) \in Nat
  BY <1>1, TextFacts DEF s
<1> DEFINE n == Len(s)
<1>4. ASSUME n > 1 PROVE FALSE
  <2>1. 1 \in 1..Len(s) /\ 2 \in 1..Len(s) /\ 1 < 2
    BY <1>3, <1>4
  <2>2. e[1] \in K /\ e[2] \in K /\ e[1] < e[2]
    BY <1>2, <2>1 DEF Places
  <2> QED BY <2>2
<1>5. n \in Nat
  BY <1>3
<1> HIDE DEF n
<1>6. n = 0 \/ n = 1
  BY <1>4, <1>5
<1> QED BY <1>6 DEF s, n

\* The figures that the mark and the amount come to, an O read as a zero.
LEMMA MappedFigures ==
  ASSUME NEW v, NEW l, NEW t, Placed(v, l, t)
  PROVE  LET m == MapOCR(v)
         IN  /\ Len(Picked(m, Figure)) - Len(Picked(t, Figure)) \in {0, 1}
             /\ Holds(m, ",") => Holds(t, ",")
<1> DEFINE m == MapOCR(v)
           b == At(m, 1..l)
<1>1. /\ v \in Texts /\ t \in Texts /\ l \in 0..3 /\ Len(t) \in Nat /\ Len(v) = l + Len(t)
      /\ \A i \in 1..Len(t) : v[l + i] = t[i] /\ l + i \in 1..Len(v) /\ t[i] \in Near
      /\ \A i \in 1..Len(v) :
           \/ i \in 1..l /\ v[i] \in MarkSymbols /\ (v[i] = "O" => i = 2)
           \/ i > l /\ i - l \in 1..Len(t) /\ v[i] = t[i - l] /\ v[i] \in Near
  BY DEF Placed
<1>2. /\ m \in Texts /\ Len(m) = Len(v)
      /\ \A i \in 1..Len(v) : m[i] = IF v[i] = "O" /\ NumericNeighbor(v, i) THEN "0" ELSE v[i]
  BY <1>1, MapOCRIs
<1> HIDE DEF m
<1>3. "O" \notin Near /\ \A x \in MarkSymbols : x \notin Figure /\ x # ","
  BY NoFigures, Zenon DEF Near, MarkSymbols
<1>4. \A i \in 1..Len(t) : m[l + i] = t[i]
  BY <1>1, <1>2, <1>3, ZenonT(40)
<1>5. l \in 0..Len(m) /\ m \in Seq(Symbol)
  BY <1>1, <1>2 DEF Texts
<1>6. b \in Texts /\ Len(b) = l /\ \A i \in 1..l : b[i] = m[i]
  BY <1>5, AtPrefix DEF Texts
<1> HIDE DEF b
<1>7. m = b \o t
  <2> DEFINE u == b \o t
  <2>1. b \in Texts /\ t \in Texts /\ u = b \o t
    BY <1>1, <1>6
  <2> HIDE DEF u
  <2>2. /\ u \in Texts /\ Len(u) = l + Len(t)
        /\ \A i \in 1..Len(b) : u[i] = b[i]
        /\ \A i \in 1..Len(u) : i \in 1..Len(b) \/ (i > Len(b) /\ i - Len(b) \in 1..Len(t) /\ u[i] = t[i - Len(b)])
    <3>1. IsJoin(u, b, t)
      BY <2>1, JoinIs
    <3> QED BY <1>6, <3>1 DEF IsJoin
  <2>3. \A i \in 1..Len(u) : m[i] = u[i]
    <3> TAKE i \in 1..Len(u)
    <3>1. CASE i \in 1..l
      BY <1>6, <2>2, <3>1
    <3>2. CASE ~(i \in 1..l)
      <4>1. i - l \in 1..Len(t) /\ u[i] = t[i - l] /\ l + (i - l) = i
        BY <1>1, <1>6, <2>2, <3>2
      <4> QED BY <1>4, <4>1
    <3> QED BY <3>1, <3>2
  <2>4. m = u
    BY <1>1, <1>2, <2>2, <2>3, SameTexts
  <2> QED BY <2>4 DEF u
<1>8. Len(Picked(m, Figure)) = Len(Picked(b, Figure)) + Len(Picked(t, Figure))
  BY <1>1, <1>6, <1>7, PickedConcat
<1>9. Len(Picked(b, Figure)) \in {0, 1}
  <2> DEFINE K == Positions(b, Figure)
  <2>1. DOMAIN b = 1..l
    BY <1>6, TextFacts
  <2>2. \A i \in K : i \in DOMAIN b /\ b[i] \in Figure
    BY DEF Positions
  <2> HIDE DEF K
  <2>3. \A i \in K : i = 2
    <3> TAKE i \in K
    <3>1. i \in 1..l /\ m[i] \in Figure
      BY <1>6, <2>1, <2>2
    <3>2. i \in 1..Len(v)
      BY <1>1, <3>1
    <3>3. v[i] \in MarkSymbols /\ (v[i] = "O" => i = 2)
      BY <1>1, <3>1, <3>2
    <3>4. v[i] = "O"
      BY <1>2, <1>3, <3>1, <3>2, <3>3, Zenon
    <3> QED BY <3>3, <3>4
  <2>4. K \in SUBSET DOMAIN b
    BY <2>2
  <2>5. Len(At(b, K)) \in {0, 1}
    BY <1>6, <2>3, <2>4, FewKept
  <2> QED BY <2>5 DEF Picked, K
<1>10. Len(Picked(t, Figure)) \in Nat
  BY <1>1, PickedText
<1>11. Len(Picked(m, Figure)) - Len(Picked(t, Figure)) \in {0, 1}
  BY <1>8, <1>9, <1>10
<1>12. ASSUME Holds(m, ",") PROVE Holds(t, ",")
  <2>1. PICK i \in 1..Len(m) : m[i] = ","
    BY <1>2, <1>12, TextFacts, ZenonT(40)
  <2>2. "," # "0"
    OBVIOUS
  <2>3. v[i] = "," /\ i \in 1..Len(v)
    BY <1>2, <2>1, <2>2, Zenon
  <2>4. i - l \in 1..Len(t) /\ v[i] = t[i - l]
    BY <1>1, <1>3, <2>3
  <2> QED BY <1>1, <2>3, <2>4, TextFacts
<1> QED BY <1>11, <1>12 DEF m

\* Written beside a mark, or without one, it is taken by the lenient format.
LEMMA LenientTaken ==
  ASSUME NEW a \in Marks, NEW t, NEW n, NEW d, AmountText(t, n, d), NEW v, v = a \o t
  PROVE  Sound(ReadLeniently(v))
<1> DEFINE m == MapOCR(v)
           x == Picked(m, Figure \cup Separators)
           c == DetectCurrency(m)
<1>1. /\ v \in Texts /\ Scan(v) = Scan(t)
      /\ ~EuroWithin(v) /\ ~Holds(v, "USD") /\ ~Holds(v, "GBP")
  BY MarkedIs, Zenon
<1>2. /\ n \in 1..MaxWhole /\ n + 1 \in 1..MaxWhole /\ d \in 0..2
      /\ Len(Picked(t, Figure)) = n + d /\ Ending(t, d) /\ Scan(t)[3] = 1
  BY DEF AmountText
<1>3. /\ Len(Picked(m, Figure)) - Len(Picked(t, Figure)) \in {0, 1}
      /\ Holds(m, ",") => Holds(t, ",")
  <2>1. Placed(v, Len(a), t)
    BY MarkedPlaces, Zenon
  <2> QED BY <2>1, MappedFigures, Zenon
<1>4. m \in Texts /\ \A y \in {"EUR", "USD", "GBP"} : Holds(m, y) <=> Holds(v, y)
  BY <1>1, MapOCRKeeps, Zenon
<1>5. Scan(m)[2] = Scan(t)[2]
  BY <1>1, <1>2, MapScan, Zenon
<1>6. c \in Euros
  BY <1>1, <1>4, Zenon DEF DetectCurrency, Euros
<1>7. ReadLeniently(v) = NormalizeSeparators(x, c)
  <2>1. ReadLeniently(v) = ReadMapped(m, c)
    BY Zenon DEF ReadLeniently
  <2>2. ~(c \notin {"", "EUR"})
    BY <1>6, Zenon DEF Euros
  <2> QED BY <2>1, <2>2, Zenon DEF ReadMapped, Picked
<1> HIDE DEF m, c
<1>8. /\ x \in Texts /\ \A i \in 1..Len(x) : x[i] \in Figure \cup Separators
      /\ \A y : Holds(x, y) <=> y \in Figure \cup Separators /\ Holds(m, y)
  BY <1>4, PickedText, Zenon
<1>9. Picked(x, Figure) = Picked(m, Figure)
  BY <1>4, PickedTwice
<1>10. Scan(x) = Scan(m)
  <2> DEFINE K == Positions(m, Figure \cup Separators)
  <2>1. K \in SUBSET DOMAIN m /\ \A i \in DOMAIN m : m[i] \in Figure \cup Separators => i \in K
    BY DEF Positions
  <2>2. x = At(m, K)
    BY DEF Picked
  <2> HIDE DEF x, K
  <2> QED BY <1>4, <2>1, <2>2, ScanAt
<1> HIDE DEF x
<1>11. Ending(x, d)
  BY <1>2, <1>3, <1>5, <1>8, <1>10, Zenon DEF Ending
<1>12. PICK e \in 1..MaxWhole : Len(Picked(x, Figure)) = e + d
  <2> DEFINE p == Len(Picked(x, Figure))
             q == Len(Picked(t, Figure))
  <2>1. p \in Nat /\ p = Len(Picked(m, Figure))
    BY <1>8, <1>9, PickedText
  <2>2. p - q \in {0, 1} /\ q = n + d
    BY <1>2, <1>3, <2>1
  <2>3. n \in Nat /\ d \in Nat
    BY <1>2, MaxWholeAssumption
  <2> HIDE DEF p, q
  <2>4. p = n + d \/ p = (n + 1) + d
    BY <2>1, <2>2, <2>3
  <2> QED BY <1>2, <2>4 DEF p
<1>13. e \in Nat
  BY MaxWholeAssumption
<1>14. Sound(NormalizeSeparators(x, c))
  BY <1>2, <1>6, <1>8, <1>11, <1>12, <1>13, NormalizedSound, Zenon
<1> QED BY <1>7, <1>14

\* Nothing is left of the mark once it is unmarked.
LEMMA UnmarkedIs ==
  ASSUME NEW a \in Marks, NEW t, NEW n, NEW d, AmountText(t, n, d), NEW v, v = a \o t
  PROVE  Unmarked(v) = t
<1> DEFINE l == Len(a)
           z == IF l = 0 THEN 0 ELSE 1
           K == {i \in DOMAIN v : ~IsMark(v, i)}
           u == At(v, K)
           L == {i \in DOMAIN u : \/ u[i] # " "
                                  \/ /\ i > 1 /\ u[i - 1] # " "
                                     /\ \E j \in i..Len(u) : u[j] # " "}
<1>1. /\ v \in Texts /\ t \in Texts /\ l \in 0..3 /\ Len(t) \in Nat \ {0} /\ Len(v) = l + Len(t)
      /\ \A i \in 1..Len(t) : v[l + i] = t[i] /\ l + i \in 1..Len(v) /\ t[i] \in Near
      /\ \A i \in 1..Len(v) :
           \/ i \in 1..l /\ v[i] \in MarkSymbols /\ (v[i] = "O" => i = 2)
           \/ i > l /\ i - l \in 1..Len(t) /\ v[i] = t[i - l] /\ v[i] \in Near
  <2>1. Placed(v, l, t)
    BY MarkedPlaces, Zenon
  <2> QED BY <2>1 DEF Placed
<1>2. /\ l # 1
      /\ \A i \in 1..l : /\ i = 1 => v[i] = "EUR"
                         /\ i = l => v[i] = " "
                         /\ i # 1 /\ i # l => i = 2 /\ v[i] = "O"
  <2>1. a \in Texts /\ l \in MarkLengths
        /\ \A i \in 1..Len(a) : /\ i = 1 => a[i] = "EUR"
                                /\ i = Len(a) => a[i] = " "
                                /\ i # 1 /\ i # Len(a) => i = 2 /\ a[i] = "O"
    BY MarkIs, Zenon
  <2>2. \A i \in 1..Len(a) : v[i] = a[i]
    <3>1. IsJoin(v, a, t)
      BY <1>1, <2>1, JoinIs
    <3> QED BY <3>1, Zenon DEF IsJoin
  <2>3. l # 1
    BY <2>1 DEF MarkLengths
  <2> QED BY <2>1, <2>2, <2>3, Zenon
<1>3. /\ t[1] # " " /\ t[Len(t)] # " "
      /\ \A i \in 2..Len(t) : t[i] = " " => t[i - 1] # " "
  BY NoFigures, Zenon DEF AmountText
<1>4. DOMAIN v = 1..Len(v)
  BY <1>1, TextFacts
<1> HIDE DEF l
<1>0. l \in 0..3 /\ l \in Nat /\ l # 1 /\ Len(t) \in Nat \ {0} /\ Len(t) \in Nat /\ Len(v) = l + Len(t)
  <2>1. l # 1
    BY <1>2, Zenon
  <2>2. l \in 0..3 /\ Len(t) \in Nat \ {0} /\ Len(v) = l + Len(t)
    BY <1>1, Zenon
  <2> QED BY <2>1, <2>2
<1>5. z \in 0..1 /\ l - z \in 0..Len(v) /\ Len(v) - (l - z) = z + Len(t)
  BY <1>1
<1>6. \A i \in 1..Len(v) : i \in K <=> i > l - z
  <2> TAKE i \in 1..Len(v)
  <2>1. i \in K <=> ~IsMark(v, i)
    BY <1>4
  <2>2. CASE i > l
    <3>1. v[i] \in Near
      BY <1>1, <2>2
    <3>2. ~IsMark(v, i)
      BY <3>1, NoFigures, Zenon DEF IsMark, Near
    <3>3. i > l - z
      BY <1>1, <2>2
    <3> QED BY <2>1, <3>2, <3>3
  <2>3. CASE i <= l
    <3>1. i \in 1..l
      BY <1>1, <2>3
    <3>2. CASE i = l
      <4>1. v[i] = " "
        BY <1>2, <3>1, <3>2
      <4>2. ~IsMark(v, i)
        BY <4>1, NoFigures, Zenon DEF IsMark
      <4>3. i > l - z
        BY <1>1, <3>1, <3>2
      <4> QED BY <2>1, <4>2, <4>3
    <3>3. CASE i = 1
      <4>0. l > 1
        BY <1>0, <3>1, <3>3
      <4>1. v[i] = "EUR" /\ l # 1 /\ l > 1
        BY <1>2, <3>1, <3>3, <4>0, Zenon
      <4>2. IsMark(v, i)
        BY <4>1, Zenon DEF IsMark
      <4>3. ~(i > l - z)
        BY <1>0, <3>3, <4>0
      <4> QED BY <2>1, <4>2, <4>3
    <3>4. CASE i # 1 /\ i # l
      <4>0. i = 2 /\ v[i] = "O"
        BY <1>2, <3>1, <3>4, Zenon
      <4>1. i > 1 /\ i - 1 = 1 /\ 1 \in 1..l
        BY <1>0, <3>1, <4>0
      <4>2. v[1] = "EUR"
        BY <1>2, <4>1, Zenon
      <4>3. IsMark(v, i)
        <5>1. v[i - 1] = "EUR"
          BY <4>1, <4>2
        <5> QED BY <4>0, <4>1, <5>1, Zenon DEF IsMark
      <4>4. ~(i > l - z)
        BY <1>0, <3>1, <3>4
      <4> QED BY <2>1, <4>3, <4>4
    <3> QED BY <3>2, <3>3, <3>4
  <2> QED BY <1>1, <2>2, <2>3
<1> HIDE DEF K
<1>7. /\ u \in Texts /\ Len(u) = z + Len(t) /\ \A i \in 1..(z + Len(t)) : u[i] = v[(l - z) + i]
  <2> DEFINE y == l - z
  <2>1. y \in 0..Len(v) /\ \A i \in 1..Len(v) : i \in K <=> i > y
    BY <1>5, <1>6
  <2> HIDE DEF y
  <2>0. v \in Texts
    BY <1>1
  <2>2. At(v, K) \in Texts /\ Len(At(v, K)) = Len(v) - y
        /\ \A i \in 1..(Len(v) - y) : At(v, K)[i] = v[y + i]
    BY <2>0, <2>1, SuffixIs, Zenon
  <2> QED BY <1>5, <2>2 DEF y
<1> HIDE DEF u
<1>8. \A i \in 1..Len(t) : u[z + i] = t[i] /\ z + i \in 1..Len(u)
  <2> TAKE i \in 1..Len(t)
  <2>1. z + i \in 1..(z + Len(t)) /\ (l - z) + (z + i) = l + i
    BY <1>1, <1>5
  <2> QED BY <1>1, <1>7, <2>1
<1>9. z = 1 => u[1] = " "
  <2> HAVE z = 1
  <2>1. 1 \in 1..(z + Len(t)) /\ (l - z) + 1 = l /\ l \in 1..l
    BY <1>1
  <2> QED BY <1>2, <1>7, <2>1
<1>10. DOMAIN u = 1..Len(u)
  BY <1>7, TextFacts
<1> HIDE DEF z
<1>11. u[Len(u)] # " " /\ Len(u) \in Nat /\ z \in 0..Len(u) /\ Len(u) = z + Len(t)
  <2>1. Len(t) \in 1..Len(t)
    BY <1>0
  <2>2. Len(u) \in Nat /\ z \in 0..Len(u) /\ Len(u) = z + Len(t)
    BY <1>0, <1>5, <1>7
  <2>3. u[Len(u)] = t[Len(t)]
    BY <1>8, <2>1, <2>2
  <2> QED BY <1>3, <2>2, <2>3, Zenon
<1>12. \A i \in 1..Len(u) : i \in L <=> i > z
  <2> TAKE i \in 1..Len(u)
  <2>1. i \in L <=> \/ u[i] # " "
                    \/ /\ i > 1 /\ u[i - 1] # " "
                       /\ \E j \in i..Len(u) : u[j] # " "
    BY <1>10
  <2> HIDE DEF L
  <2>2. CASE i <= z
    <3>1. i = 1 /\ z = 1 /\ ~(i > 1) /\ ~(i > z)
      BY <1>5, <2>2
    <3> QED BY <1>9, <2>1, <3>1
  <2>3. CASE i > z
    <3> DEFINE k == i - z
    <3>1. k \in 1..Len(t) /\ z + k = i
      BY <1>5, <1>7, <2>3
    <3> HIDE DEF k
    <3>2. u[i] = t[k]
      BY <1>8, <3>1
    <3>3. \E j \in i..Len(u) : u[j] # " "
      <4>1. Len(u) \in i..Len(u)
        <5>1. Len(u) \in Nat
          BY <1>11
        <5> QED BY <5>1
      <4> QED BY <1>11, <4>1
    <3>4. ASSUME u[i] = " " PROVE i > 1 /\ u[i - 1] # " "
      <4>1. k # 1
        BY <1>3, <3>2, <3>4
      <4>2. k \in 2..Len(t) /\ k - 1 \in 1..Len(t) /\ z + (k - 1) = i - 1 /\ i > 1
        BY <1>5, <3>1, <4>1
      <4> QED BY <1>3, <1>8, <3>2, <3>4, <4>2
    <3> QED BY <2>1, <2>3, <3>3, <3>4
  <2> QED BY <1>5, <2>2, <2>3
<1>13. Unmarked(v) = At(u, L)
  BY Zenon DEF Unmarked, Squeeze, u, K
<1> HIDE DEF L
<1>14. At(u, L) = t
  <2>1. z \in 0..Len(u)
    BY <1>11, Zenon
  <2>2. /\ At(u, L) \in Texts /\ Len(At(u, L)) = Len(u) - z
        /\ \A i \in 1..(Len(u) - z) : At(u, L)[i] = u[z + i]
    BY <1>7, <1>12, <2>1, SuffixIs, ZenonT(40)
  <2>3. Len(u) - z = Len(t)
    BY <1>1, <1>5, <1>7
  <2>4. \A i \in 1..Len(t) : At(u, L)[i] = t[i]
    BY <1>8, <2>2, <2>3
  <2> QED BY <1>1, <2>2, <2>3, <2>4, SameTexts
<1> QED BY <1>13, <1>14

\* The symbols of a text without the group marks of a format.
Ungrouped(t, format) == At(t, DOMAIN t \ Positions(t, {GroupMark(format)}))

\* And it is taken by the format it is written in.
LEMMA StrictTaken ==
  ASSUME NEW a \in Marks, NEW t, NEW n, NEW d, AmountText(t, n, d), NEW v, v = a \o t,
         NEW format, Fits(t, format), Plain(Ungrouped(t, format), Separators)
  PROVE  Sound(ReadStrictly(v, format))
<1> DEFINE c == NamedCurrency(v)
<1>1. ~Holds(v, "USD")
  BY MarkedIs, Zenon
<1>2. Unmarked(v) = t
  BY UnmarkedIs, Zenon
<1>3. t # <<>>
  <2>1. Len(t) # 0
    BY DEF AmountText
  <2> QED BY <2>1, PickedNothing
<1>4. ReadStrictly(v, format) = Read(Ungrouped(t, format), c)
  BY <1>1, <1>2, <1>3, Zenon DEF ReadStrictly, ReadUnmarked, Ungrouped
<1>5. c \in Euros
  BY <1>1, Zenon DEF NamedCurrency, Euros
<1> HIDE DEF c
<1> QED BY <1>4, <1>5, PlainIsSound, Zenon

-----------------------------------------------------------------------------
(* How the number before the separator is written.                          *)

GroupMarks == {" ", "."}

LEMMA GroupMarksAre ==
  ASSUME NEW s \in GroupMarks
  PROVE  /\ s \in Symbol /\ s \notin Figure /\ s # "," /\ s # "" /\ s \in Figure \cup Separators \cup {" "}
         /\ s = " " <=> s \notin Separators
<1>1. s \in Symbol
  BY SymbolFacts, Zenon DEF GroupMarks, Separators
<1> QED BY <1>1, FigureIs, Zenon DEF GroupMarks, Separators

LEMMA FigureAppended ==
  ASSUME NEW t \in Texts, NEW c \in Figure
  PROVE  /\ Append(t, c) \in Texts /\ c \in Symbol /\ Scan(t) \in States /\ Scan(Append(t, c)) \in States
         /\ Scan(Append(t, c))[1] = 10 * Scan(t)[1] + Worth[c]
         /\ Scan(t)[2] = -1 => Scan(Append(t, c))[2] = -1
         /\ Scan(t)[2] # -1 => Scan(Append(t, c))[2] = Scan(t)[2] + 1
         /\ Scan(Append(t, c))[3] = IF Scan(t)[3] = 0 THEN 1 ELSE Scan(t)[3]
<1>1. c \in Symbol /\ Scan(t) \in States
  BY SymbolFacts, ScanRuns
<1>2. Append(t, c) \in Texts /\ Scan(Append(t, c)) = ScanStep(Scan(t), c)
  BY <1>1, ScanAppend
<1>3. Scan(Append(t, c)) \in States
  BY <1>1, <1>2, ScanStepIs
<1> QED BY <1>1, <1>2, <1>3, FigureStep

LEMMA OtherAppended ==
  ASSUME NEW t \in Texts, NEW c \in Symbol, c \notin Figure
  PROVE  /\ Append(t, c) \in Texts /\ Scan(t) \in States
         /\ Scan(Append(t, c))[1] = Scan(t)[1]
         /\ Scan(Append(t, c))[2] = IF c \in Separators THEN 0 ELSE Scan(t)[2]
         /\ Scan(t)[3] # 0 => Scan(Append(t, c))[3] = Scan(t)[3]
<1>1. Scan(t) \in States
  BY ScanRuns
<1>2. Append(t, c) \in Texts /\ Scan(Append(t, c)) = ScanStep(Scan(t), c)
  BY ScanAppend
<1>3. CASE c \in Separators
  BY <1>1, <1>2, <1>3, SeparatorStep
<1>4. CASE c \notin Separators
  BY <1>1, <1>2, <1>4, ScanStepIs
<1> QED BY <1>1, <1>2, <1>3, <1>4

\* A step of a run: a figure, and after some the mark.
LEMMA GroupStep ==
  ASSUME NEW w \in Seq(Figure), NEW s \in GroupMarks, NEW run, Groups(run, w, <<s>>),
         NEW k \in 1..Len(w)
  PROVE  /\ k \in 0..Len(w) /\ k - 1 \in 0..Len(w) /\ run[k - 1] \in Texts /\ w[k] \in Figure
         /\ Append(run[k - 1], w[k]) \in Texts
         /\ run[k] = IF k < Len(w) /\ (Len(w) - k) % 3 = 0 THEN Append(Append(run[k - 1], w[k]), s)
                     ELSE Append(run[k - 1], w[k])
<1>1. k \in 0..Len(w) /\ k - 1 \in 0..Len(w) /\ w[k] \in Figure
  BY LenProperties, ElementOfSeq
<1>2. run[k - 1] \in Texts
  BY <1>1 DEF Groups
<1>3. Append(run[k - 1], w[k]) \in Texts
  BY <1>1, <1>2, FigureAppended
<1> DEFINE u == Append(run[k - 1], w[k])
<1>4. run[k] = IF k < Len(w) /\ (Len(w) - k) % 3 = 0 THEN u \o <<s>> ELSE u
  BY DEF Groups
<1> HIDE DEF u
<1>5. u \o <<s>> = Append(u, s)
  <2>1. u \in Seq(Symbol) /\ s \in Symbol
    BY <1>3, GroupMarksAre DEF u, Texts
  <2> QED BY <2>1, AppendIsConcat
<1>6. run[k] = IF k < Len(w) /\ (Len(w) - k) % 3 = 0 THEN Append(u, s) ELSE u
  BY <1>4, <1>5
<1> QED BY <1>1, <1>2, <1>3, <1>6 DEF u

\* The marks do not change the number, and without them the figures are left.
LEMMA GroupedNumber ==
  ASSUME NEW w \in Seq(Figure), NEW s \in GroupMarks, NEW run, Groups(run, w, <<s>>)
  PROVE  /\ Scan(run[Len(w)])[1] = Scan(w)[1] /\ Scan(run[Len(w)])[3] = Scan(w)[3]
         /\ Picked(run[Len(w)], Symbol \ {s}) = w
<1> DEFINE n == Len(w)
           S == Symbol \ {s}
<1>1. w \in Texts /\ n \in Nat
  <2>1. Figure \subseteq Symbol
    BY SymbolFacts
  <2> QED BY <2>1, SeqMonotonic, LenProperties DEF Texts
<1>2. PICK p : Begins(p, w)
  BY <1>1, BeginsExist
<1> DEFINE T == {k \in 0..n : /\ Scan(run[k])[1] = Scan(p[k])[1]
                              /\ Scan(run[k])[3] = Scan(p[k])[3]
                              /\ Picked(run[k], S) = p[k]}
<1>3. 0 \in T
  <2>1. run[0] = <<>> /\ p[0] = <<>> /\ 0 \in 0..n
    BY <1>1, <1>2 DEF Groups, Begins
  <2> QED BY <2>1, PickedNothing
<1>4. ASSUME NEW k \in 1..n, k - 1 \in T PROVE k \in T
  <2> DEFINE c == w[k]
             r == run[k - 1]
             o == p[k - 1]
             u == Append(r, c)
  <2>1. /\ k \in 0..n /\ k - 1 \in 0..n /\ r \in Texts /\ c \in Figure /\ u \in Texts
        /\ run[k] = IF k < n /\ (n - k) % 3 = 0 THEN Append(u, s) ELSE u
    BY GroupStep
  <2>2. p[k] = Append(o, c) /\ o \in Texts
    BY <1>2, <2>1 DEF Begins
  <2>3. Scan(r)[1] = Scan(o)[1] /\ Scan(r)[3] = Scan(o)[3] /\ Picked(r, S) = o
    BY <1>4
  <2>4. c \in S /\ s \in Symbol /\ s \notin S /\ s \notin Figure /\ c \in Symbol
    BY <2>1, GroupMarksAre, SymbolFacts
  <2> HIDE DEF c, r, o, S
  <2>5. /\ Scan(u)[1] = Scan(p[k])[1] /\ Scan(u)[3] = Scan(p[k])[3] /\ Scan(u)[3] # 0
    <3>1. /\ Scan(u)[1] = 10 * Scan(r)[1] + Worth[c]
          /\ Scan(u)[3] = IF Scan(r)[3] = 0 THEN 1 ELSE Scan(r)[3]
      BY <2>1, FigureAppended
    <3>2. /\ Scan(Append(o, c))[1] = 10 * Scan(o)[1] + Worth[c]
          /\ Scan(Append(o, c))[3] = IF Scan(o)[3] = 0 THEN 1 ELSE Scan(o)[3]
      BY <2>1, <2>2, FigureAppended
    <3> HIDE DEF u
    <3> QED BY <2>2, <2>3, <3>1, <3>2
  <2>6. Picked(u, S) = p[k]
    <3>1. Picked(u, S) = Append(Picked(r, S), c)
      BY <2>1, <2>4, PickedAppend
    <3> QED BY <2>2, <2>3, <3>1
  <2> HIDE DEF u
  <2>7. /\ Scan(Append(u, s))[1] = Scan(u)[1] /\ Scan(Append(u, s))[3] = Scan(u)[3]
        /\ Picked(Append(u, s), S) = Picked(u, S)
    <3>1. Scan(Append(u, s))[1] = Scan(u)[1] /\ Scan(Append(u, s))[3] = Scan(u)[3]
      BY <2>1, <2>4, <2>5, OtherAppended
    <3>2. Picked(Append(u, s), S) = Picked(u, S)
      BY <2>1, <2>4, PickedAppend
    <3> QED BY <3>1, <3>2
  <2>8. /\ Scan(run[k])[1] = Scan(p[k])[1] /\ Scan(run[k])[3] = Scan(p[k])[3]
        /\ Picked(run[k], S) = p[k]
    BY <2>1, <2>5, <2>6, <2>7
  <2> QED BY <2>1, <2>8
<1>5. n \in T
  <2> HIDE DEF T
  <2>1. 0..n \subseteq T
    BY <1>1, <1>3, <1>4, Induction
  <2> QED BY <1>1, <2>1
<1>6. p[n] = w
  BY <1>2 DEF Begins
<1> QED BY <1>5, <1>6

LEMMA Remainders ==
  /\ \A y \in Int : (3 * y) % 3 = 0 /\ (3 * y + 1) % 3 # 0 /\ (3 * y + 2) % 3 # 0
  /\ \A y \in Int : (4 * y) % 4 = 0 /\ (4 * y + 1) % 4 = 1 /\ (4 * y + 2) % 4 # 1 /\ (4 * y + 3) % 4 # 1
OBVIOUS

\* Groups of three figures after the first, with a mark before each.
InPattern(t, first, s) ==
  \A i \in 1..Len(t) : IF i > first /\ (i - first) % 4 = 1 THEN t[i] = s ELSE t[i] \in Figure

LEMMA PatternGoesOn ==
  ASSUME NEW t \in Texts, NEW first \in 1..3, NEW s, InPattern(t, first, s), NEW c \in Symbol,
         LET i == Len(t) + 1
         IN  IF i > first /\ (i - first) % 4 = 1 THEN c = s ELSE c \in Figure
  PROVE  InPattern(Append(t, c), first, s)
<1> DEFINE u == Append(t, c)
           n == Len(t)
<1>1. /\ n \in Nat /\ Len(u) = n + 1 /\ u[n + 1] = c
      /\ \A i \in 1..n : u[i] = t[i]
  BY AppendIs
<1> HIDE DEF u
<1>2. ASSUME NEW i \in 1..Len(u)
      PROVE  IF i > first /\ (i - first) % 4 = 1 THEN u[i] = s ELSE u[i] \in Figure
  <2>1. CASE i = n + 1
    BY <1>1, <2>1
  <2>2. CASE i # n + 1
    <3>1. i \in 1..n
      BY <1>1, <2>2
    <3> QED BY <1>1, <3>1 DEF InPattern
  <2> QED BY <2>1, <2>2
<1> QED BY <1>2 DEF InPattern, u

\* Where in its group the figure k of n is, and what stands before it.
Phase(t, s, first, n, k) ==
  /\ InPattern(t, first, s)
  /\ s \notin Separators => Scan(t)[2] = -1
  /\ IF k < first THEN Len(t) = k /\ Scan(t)[2] = -1
     ELSE \E j \in Nat, r \in 0..2 :
            /\ k = first + 3 * j + r
            /\ k < n => Len(t) = first + 4 * j + r + 1 /\ (s \in Separators => Scan(t)[2] = r)
            /\ k = n => Len(t) = first + 4 * j + r /\ (Scan(t)[2] = -1 \/ Scan(t)[2] = 3)

LEMMA GroupedPattern ==
  ASSUME NEW w \in Seq(Figure), NEW s \in GroupMarks, NEW run, Groups(run, w, <<s>>),
         NEW first \in 1..3, NEW J \in Nat, Len(w) = first + 3 * J
  PROVE  /\ Len(run[Len(w)]) = first + 4 * J /\ InPattern(run[Len(w)], first, s)
         /\ Scan(run[Len(w)])[2] = -1 \/ Scan(run[Len(w)])[2] = 3
<1> DEFINE n == Len(w)
           T == {k \in 0..n : Phase(run[k], s, first, n, k)}
<1>1. n \in Nat /\ n = first + 3 * J /\ s \in Symbol /\ s \notin Figure
  <2>1. n = first + 3 * J /\ first + 3 * J \in Nat
    OBVIOUS
  <2>2. s \in Symbol /\ s \notin Figure
    BY GroupMarksAre
  <2> HIDE DEF n
  <2> QED BY <2>1, <2>2
<1>2. 0 \in T
  <2>1. run[0] = <<>> /\ 0 \in 0..n
    BY <1>1 DEF Groups
  <2>2. Len(<<>>) = 0 /\ Scan(<<>>)[2] = -1
    BY ScanAppend, PickedNothing
  <2>3. InPattern(<<>>, first, s)
    BY <2>2 DEF InPattern
  <2>4. Phase(run[0], s, first, n, 0)
    BY <2>1, <2>2, <2>3 DEF Phase
  <2> QED BY <2>1, <2>4
<1>3. ASSUME NEW k \in 1..n, k - 1 \in T PROVE k \in T
  <2> DEFINE c == w[k]
             o == run[k - 1]
             u == Append(o, c)
             v == Append(u, s)
  <2>1. /\ k \in 0..n /\ k - 1 \in 0..n /\ o \in Texts /\ c \in Figure /\ u \in Texts
        /\ run[k] = IF k < n /\ (n - k) % 3 = 0 THEN v ELSE u
    BY GroupStep
  <2>2. Phase(o, s, first, n, k - 1)
    BY <1>3
  <2> HIDE DEF c, o, n, T
  <2>3. /\ c \in Symbol /\ Len(o) \in Nat /\ Len(u) = Len(o) + 1
        /\ Scan(o)[2] = -1 => Scan(u)[2] = -1
        /\ Scan(o)[2] # -1 => Scan(u)[2] = Scan(o)[2] + 1
    <3>1. c \in Symbol
      BY <2>1, FigureAppended
    <3> QED BY <2>1, <3>1, FigureAppended, AppendIs
  <2> HIDE DEF u
  <2>4. /\ v \in Texts /\ Len(u) \in Nat /\ Len(v) = Len(u) + 1
        /\ Scan(v)[2] = IF s \in Separators THEN 0 ELSE Scan(u)[2]
    <3>1. Len(u) \in Nat /\ Len(v) = Len(u) + 1
      BY <1>1, <2>1, AppendIs
    <3> QED BY <1>1, <2>1, <3>1, OtherAppended
  <2>5. ~(Len(u) > first /\ (Len(u) - first) % 4 = 1) => InPattern(u, first, s)
    <3> HAVE ~(Len(u) > first /\ (Len(u) - first) % 4 = 1)
    <3>1. InPattern(o, first, s)
      BY <2>2 DEF Phase
    <3> QED BY <2>1, <2>3, <3>1, PatternGoesOn DEF u
  <2>6. ASSUME InPattern(u, first, s), Len(v) > first, (Len(v) - first) % 4 = 1
        PROVE  InPattern(v, first, s)
    BY <1>1, <2>1, <2>4, <2>6, PatternGoesOn
  <2> HIDE DEF v
  <2>7. s \notin Separators => Scan(u)[2] = -1 /\ Scan(v)[2] = -1
    BY <2>2, <2>3, <2>4 DEF Phase
  <2>8. CASE k < first
    <3>1. Len(o) = k - 1 /\ Scan(o)[2] = -1
      BY <2>1, <2>2, <2>8 DEF Phase
    <3>2. ~((n - k) % 3 = 0) /\ Len(u) = k /\ Scan(u)[2] = -1 /\ ~(Len(u) > first)
      <4>1. n - k = 3 * J + 1 \/ n - k = 3 * J + 2
        BY <1>1, <2>1, <2>8
      <4>2. ~((n - k) % 3 = 0)
        BY <4>1, Remainders
      <4> QED BY <2>1, <2>3, <2>8, <3>1, <4>2
    <3>3. run[k] = u /\ InPattern(u, first, s)
      BY <2>1, <2>5, <3>2
    <3> QED BY <2>1, <2>7, <2>8, <3>2, <3>3 DEF T, Phase
  <2>9. CASE k = first
    <3>1. Len(o) = k - 1 /\ Scan(o)[2] = -1
      <4>1. k - 1 < first
        BY <2>9
      <4> QED BY <2>2, <4>1 DEF Phase
    <3>2. Len(u) = first /\ Scan(u)[2] = -1 /\ InPattern(u, first, s)
      BY <2>1, <2>3, <2>5, <2>9, <3>1
    <3>3. CASE k < n
      <4>1. (n - k) % 3 = 0
        <5>1. n - k = 3 * J
          BY <1>1, <2>9
        <5> QED BY <5>1, Remainders
      <4>2. run[k] = v /\ Len(v) = first + 1
        BY <2>1, <2>4, <3>2, <3>3, <4>1
      <4>3. InPattern(v, first, s)
        BY <2>6, <3>2, <4>2
      <4>4. s \in Separators => Scan(v)[2] = 0
        BY <2>4
      <4>5. k = first + 3 * 0 + 0 /\ Len(v) = first + 4 * 0 + 0 + 1 /\ ~(k < first) /\ ~(k = n)
        BY <2>9, <3>3, <4>2
      <4>6. Phase(v, s, first, n, k)
        BY <2>7, <4>3, <4>4, <4>5 DEF Phase
      <4> QED BY <2>1, <4>2, <4>6 DEF T
    <3>4. CASE k = n
      <4>1. run[k] = u
        BY <2>1, <3>4
      <4>2. k = first + 3 * 0 + 0 /\ Len(u) = first + 4 * 0 + 0 /\ ~(k < first) /\ ~(k < n)
        BY <2>9, <3>2, <3>4
      <4>3. Phase(u, s, first, n, k)
        BY <2>7, <3>2, <4>2 DEF Phase
      <4> QED BY <2>1, <4>1, <4>3 DEF T
    <3> QED BY <1>1, <2>1, <3>3, <3>4
  <2>10. CASE k > first
    <3>1. ~(k - 1 < first) /\ k - 1 < n
      BY <1>1, <2>1, <2>10
    <3>2. PICK j \in Nat, r \in 0..2 :
            /\ k - 1 = first + 3 * j + r
            /\ Len(o) = first + 4 * j + r + 1 /\ (s \in Separators => Scan(o)[2] = r)
      BY <2>2, <3>1 DEF Phase
    <3>3. Len(u) = first + 4 * j + r + 2 /\ (s \in Separators => Scan(u)[2] = r + 1)
      BY <2>3, <3>2
    <3>4. InPattern(u, first, s)
      <4>1. Len(u) - first = 4 * j + 2 \/ Len(u) - first = 4 * j + 3 \/ Len(u) - first = 4 * (j + 1)
        BY <3>3
      <4>2. ~((Len(u) - first) % 4 = 1)
        BY <4>1, Remainders
      <4> QED BY <2>5, <4>2
    <3>5. CASE r < 2
      <4>1. n - k = 3 * (J - j - 1) + 2 \/ n - k = 3 * (J - j - 1) + 1
        BY <1>1, <3>2, <3>5
      <4>2. ~((n - k) % 3 = 0) /\ k # n
        <5>1. J - j - 1 \in Int
          OBVIOUS
        <5>2. ~((n - k) % 3 = 0)
          BY <4>1, <5>1, Remainders
        <5>3. n - k # 0
          BY <4>1
        <5> QED BY <1>1, <5>2, <5>3
      <4>3. run[k] = u /\ k < n
        BY <1>1, <2>1, <4>2
      <4> DEFINE q == r + 1
      <4>4. q \in 0..2 /\ k = first + 3 * j + q /\ Len(u) = first + 4 * j + q + 1 /\ ~(k < first) /\ ~(k = n)
        BY <2>10, <3>2, <3>3, <3>5, <4>3
      <4>5. s \in Separators => Scan(u)[2] = q
        BY <3>3
      <4> HIDE DEF q
      <4>6. Phase(u, s, first, n, k)
        BY <2>7, <3>4, <4>4, <4>5 DEF Phase
      <4> QED BY <2>1, <4>3, <4>6 DEF T
    <3>6. CASE r = 2
      <4>1. (n - k) % 3 = 0
        <5>1. n - k = 3 * (J - j - 1) /\ J - j - 1 \in Int
          BY <1>1, <3>2, <3>6
        <5> QED BY <5>1, Remainders
      <4> DEFINE i == j + 1
      <4>2. i \in Nat /\ k = first + 3 * i + 0 /\ Len(u) = first + 4 * i + 0 /\ ~(k < first)
        BY <2>10, <3>2, <3>3, <3>6
      <4>3. s \in Separators => Scan(u)[2] = 3
        BY <3>3, <3>6
      <4> HIDE DEF i
      <4>4. CASE k < n
        <5>1. run[k] = v /\ Len(v) = first + 4 * i + 0 + 1 /\ ~(k = n)
          BY <1>1, <2>1, <2>4, <4>1, <4>2, <4>4
        <5>2. InPattern(v, first, s)
          <6>1. Len(v) - first = 4 * i + 1 /\ Len(v) > first
            BY <4>2, <5>1
          <6>2. (Len(v) - first) % 4 = 1
            BY <4>2, <6>1, Remainders
          <6> QED BY <2>6, <3>4, <6>1, <6>2
        <5>3. s \in Separators => Scan(v)[2] = 0
          BY <2>4
        <5>4. Phase(v, s, first, n, k)
          <6>1. 0 \in 0..2 /\ i \in Nat /\ k = first + 3 * i + 0 /\ ~(k < first)
            BY <4>2
          <6>2. /\ k < n => Len(v) = first + 4 * i + 0 + 1 /\ (s \in Separators => Scan(v)[2] = 0)
                /\ k = n => Len(v) = first + 4 * i + 0 /\ (Scan(v)[2] = -1 \/ Scan(v)[2] = 3)
            BY <5>1, <5>3
          <6> HIDE DEF Scan
          <6> QED BY <2>7, <5>2, <6>1, <6>2 DEF Phase
        <5> QED BY <2>1, <5>1, <5>4 DEF T
      <4>5. CASE k = n
        <5>1. run[k] = u /\ ~(k < n)
          BY <2>1, <4>5
        <5>2. Scan(u)[2] = -1 \/ Scan(u)[2] = 3
          BY <2>7, <4>3
        <5>3. Phase(u, s, first, n, k)
          BY <2>7, <3>4, <4>2, <5>1, <5>2 DEF Phase
        <5> QED BY <2>1, <5>1, <5>3 DEF T
      <4> QED BY <1>1, <2>1, <4>4, <4>5
    <3> QED BY <3>5, <3>6
  <2> QED BY <2>1, <2>8, <2>9, <2>10
<1>4. n \in T
  <2> HIDE DEF T
  <2>1. 0..n \subseteq T
    BY <1>1, <1>2, <1>3, Induction
  <2> QED BY <1>1, <2>1
<1> HIDE DEF n
<1>5. InPattern(run[n], first, s) /\ ~(n < first)
  BY <1>1, <1>4 DEF Phase
<1>6. PICK j \in Nat, r \in 0..2 :
        /\ n = first + 3 * j + r
        /\ Len(run[n]) = first + 4 * j + r /\ (Scan(run[n])[2] = -1 \/ Scan(run[n])[2] = 3)
  BY <1>4, <1>5 DEF Phase
<1>7. j = J /\ r = 0
  BY <1>1, <1>6
<1> QED BY <1>5, <1>6, <1>7 DEF n

\* A number w as it is written with the mark s between its groups, or without ("").
WholeText(g, w, s) ==
  /\ g \in Texts /\ Len(g) \in Nat \ {0}
  /\ Scan(g)[1] = Scan(w)[1] /\ (Scan(g)[2] = -1 \/ Scan(g)[2] = 3) /\ Scan(g)[3] = 1
  /\ Picked(g, Symbol \ {s}) = w
  /\ g[1] \in Figure /\ g[Len(g)] \in Figure
  /\ \A i \in 1..Len(g) : g[i] \in Figure \/ (g[i] = s /\ s \in GroupMarks)
  /\ \A i \in 2..Len(g) : g[i] \in Figure \/ g[i - 1] \in Figure
  /\ s \in GroupMarks => \E first \in 1..3 : first <= Len(g) /\ (Len(g) - first) % 4 = 0 /\ InPattern(g, first, s)

LEMMA BareWhole ==
  ASSUME NEW w \in Seq(Figure), Len(w) \in Nat \ {0}, Scan(w)[2] = -1, Scan(w)[3] = 1
  PROVE  Punctuated(w, <<>>) = w /\ WholeText(w, w, "")
<1> DEFINE n == Len(w)
           S == Symbol \ {""}
<1>1. w \in Texts /\ n \in Nat /\ \A i \in 1..n : w[i] \in Figure /\ w[i] \in Symbol
  <2>1. Figure \subseteq Symbol
    BY SymbolFacts
  <2>2. \A i \in 1..n : w[i] \in Figure
    BY LenProperties, ElementOfSeq
  <2> QED BY <2>1, <2>2, SeqMonotonic, LenProperties DEF Texts
<1>2. Punctuated(w, <<>>) = w
  <2>1. <<>> \in Texts
    BY PickedNothing
  <2>2. PICK run : Groups(run, w, <<>>)
    BY <2>1, GroupsExist
  <2>3. PICK p : Begins(p, w)
    BY <1>1, BeginsExist
  <2> DEFINE T == {k \in 0..n : run[k] = p[k]}
  <2>4. 0 \in T
    BY <1>1, <2>2, <2>3 DEF Groups, Begins
  <2>5. ASSUME NEW k \in 1..n, k - 1 \in T PROVE k \in T
    <3>1. k \in 0..n /\ k - 1 \in 0..n /\ run[k - 1] = p[k - 1] /\ w[k] \in Symbol
      BY <1>1, <2>5
    <3> DEFINE u == Append(run[k - 1], w[k])
    <3>2. run[k] = (IF k < Len(w) /\ (Len(w) - k) % 3 = 0 THEN u \o <<>> ELSE u) /\ run[k - 1] \in Texts
      BY <2>2, <3>1 DEF Groups
    <3>3. p[k] = u
      BY <2>3, <3>1 DEF Begins
    <3>4. u \in Seq(Symbol)
      BY <3>1, <3>2, AppendIs DEF Texts
    <3> HIDE DEF u
    <3>5. u \o <<>> = u
      BY <3>4, ConcatEmptySeq
    <3> QED BY <3>1, <3>2, <3>3, <3>5
  <2>6. n \in T
    <3> HIDE DEF T
    <3>1. 0..n \subseteq T
      BY <1>1, <2>4, <2>5, Induction
    <3> QED BY <1>1, <3>1
  <2> QED BY <2>2, <2>3, <2>6 DEF Groups, Begins
<1>3. Picked(w, S) = w
  <2> DEFINE K == Positions(w, S)
  <2>1. \A i \in 1..n : i \in K
    <3>1. "" \notin Figure
      BY FigureIs, Zenon
    <3>2. DOMAIN w = 1..n
      BY <1>1, TextFacts
    <3> QED BY <1>1, <3>1, <3>2, Zenon DEF Positions
  <2> HIDE DEF K
  <2>2. At(w, K) = w
    BY <1>1, <2>1, KeptWhole
  <2> QED BY <2>2 DEF Picked, K
<1>4. 1 \in 1..n /\ n \in 1..n
  BY <1>1
<1>5. "" \notin GroupMarks
  BY Zenon DEF GroupMarks
<1>6. \A i \in 2..n : i \in 1..n
  BY <1>1
<1>7. WholeText(w, w, "")
  BY <1>1, <1>3, <1>4, <1>5, <1>6, Zenon DEF WholeText
<1> QED BY <1>2, <1>7

LEMMA GroupedWhole ==
  ASSUME NEW w \in Seq(Figure), Len(w) \in Nat \ {0}, Scan(w)[2] = -1, Scan(w)[3] = 1,
         NEW s \in GroupMarks
  PROVE  WholeText(Punctuated(w, <<s>>), w, s)
<1> DEFINE n == Len(w)
           J == (n - 1) \div 3
           first == n - 3 * J
<1>1. J \in Nat /\ first \in 1..3 /\ n \in Nat
  OBVIOUS
<1>2. n = first + 3 * J
  BY <1>1
<1>3. s \in Symbol /\ <<s>> \in Texts
  <2>1. s \in Symbol
    BY GroupMarksAre
  <2> QED BY <2>1, ShortTexts
<1>4. PICK run : Groups(run, w, <<s>>)
  BY <1>3, GroupsExist
<1> DEFINE g == run[n]
<1>5. g \in Texts /\ g = Punctuated(w, <<s>>)
  <2>1. n \in 0..Len(w)
    BY <1>1
  <2> QED BY <1>4, <2>1 DEF Groups
<1> HIDE DEF J, first
<1>6. /\ Len(g) = first + 4 * J /\ InPattern(g, first, s)
      /\ Scan(g)[2] = -1 \/ Scan(g)[2] = 3
  BY <1>1, <1>2, <1>4, GroupedPattern
<1>7. Scan(g)[1] = Scan(w)[1] /\ Scan(g)[3] = 1 /\ Picked(g, Symbol \ {s}) = w
  <2>1. /\ Scan(run[Len(w)])[1] = Scan(w)[1] /\ Scan(run[Len(w)])[3] = Scan(w)[3]
        /\ Picked(run[Len(w)], Symbol \ {s}) = w
    BY <1>4, GroupedNumber, Zenon
  <2> QED BY <2>1, Zenon
<1> HIDE DEF g, n
<1>8. Len(g) \in Nat \ {0} /\ first <= Len(g) /\ (Len(g) - first) % 4 = 0
  <2>1. Len(g) - first = 4 * J
    BY <1>1, <1>6
  <2> QED BY <1>1, <1>6, <2>1, Remainders
<1>9. g[1] \in Figure /\ g[Len(g)] \in Figure
  <2>1. 1 \in 1..Len(g) /\ Len(g) \in 1..Len(g) /\ ~(1 > first) /\ ~((Len(g) - first) % 4 = 1)
    BY <1>1, <1>8
  <2> QED BY <1>6, <2>1 DEF InPattern
<1>10. \A i \in 1..Len(g) : g[i] \in Figure \/ (g[i] = s /\ s \in GroupMarks)
  BY <1>6 DEF InPattern
<1>11. \A i \in 2..Len(g) : g[i] \in Figure \/ g[i - 1] \in Figure
  <2> SUFFICES ASSUME NEW i \in 2..Len(g), g[i] \notin Figure PROVE g[i - 1] \in Figure
    OBVIOUS
  <2>1. i \in 1..Len(g) /\ i - 1 \in 1..Len(g) /\ i \in Nat
    BY <1>8
  <2>2. i > first /\ (i - first) % 4 = 1
    BY <1>6, <2>1 DEF InPattern
  <2>3. ~((i - 1 - first) % 4 = 1)
    BY <1>1, <2>1, <2>2
  <2> QED BY <1>6, <2>1, <2>3 DEF InPattern
<1> QED BY <1>1, <1>5, <1>6, <1>7, <1>8, <1>9, <1>10, <1>11 DEF WholeText

-----------------------------------------------------------------------------
(* With the fraction, of d figures after the separator.                     *)

LEMMA TailAppended ==
  ASSUME NEW g \in Texts, NEW c \in Symbol, NEW a \in Symbol, NEW b \in Symbol
  PROVE  /\ g \o (<<c>> \o <<a>>) = Append(Append(g, c), a)
         /\ g \o (<<c>> \o <<a, b>>) = Append(Append(Append(g, c), a), b)
<1>1. <<>> \in Texts /\ <<c>> \in Texts /\ <<a>> \in Texts
  BY ShortTexts
<1>2. <<c>> = Append(<<>>, c) /\ <<a>> = Append(<<>>, a) /\ <<a, b>> = Append(<<a>>, b)
  OBVIOUS
<1>3. g \o <<>> = g /\ <<c>> \o <<>> = <<c>>
  BY <1>1, ConcatEmptySeq DEF Texts
<1>4. g \o <<c>> = Append(g, c)
  <2>1. g \o Append(<<>>, c) = Append(g \o <<>>, c)
    BY <1>1, ConcatAppend
  <2> QED BY <1>2, <1>3, <2>1
<1>5. <<c>> \o <<a>> = Append(<<c>>, a)
  <2>1. <<c>> \o Append(<<>>, a) = Append(<<c>> \o <<>>, a)
    BY <1>1, ConcatAppend
  <2> QED BY <1>2, <1>3, <2>1
<1> DEFINE p == <<c>> \o <<a>>
<1>6. p \in Texts /\ <<c>> \o <<a, b>> = Append(p, b)
  <2>1. <<c>> \o Append(<<a>>, b) = Append(<<c>> \o <<a>>, b) /\ <<c>> \o <<a>> \in Texts
    BY <1>1, ConcatAppend
  <2> QED BY <1>2, <2>1
<1>7. g \o p = Append(Append(g, c), a)
  <2>1. g \o Append(<<c>>, a) = Append(g \o <<c>>, a)
    BY <1>1, ConcatAppend
  <2> QED BY <1>4, <1>5, <2>1
<1> HIDE DEF p
<1>8. g \o Append(p, b) = Append(g \o p, b)
  BY <1>6, ConcatAppend
<1> QED BY <1>6, <1>7, <1>8 DEF p

\* A text g, a separator, and d figures.
Ended(t, g, sep, d) ==
  /\ t \in Texts /\ Len(g) \in Nat /\ Len(t) = Len(g) + 1 + d
  /\ \A i \in 1..Len(g) : t[i] = g[i]
  /\ t[Len(g) + 1] = sep
  /\ \A i \in (Len(g) + 2)..Len(t) : t[i] \in Figure
  /\ Scan(t)[2] = d /\ Scan(t)[3] = 1
  /\ Len(Picked(t, Figure)) = Len(Picked(g, Figure)) + d

LEMMA EndedAtPoint ==
  ASSUME NEW g \in Texts, Scan(g)[3] = 1, NEW sep \in Separators
  PROVE  Ended(Append(g, sep), g, sep, 0) /\ Scan(Append(g, sep))[1] = Scan(g)[1]
<1> DEFINE t == Append(g, sep)
<1>1. sep \in Symbol /\ sep \notin Figure
  BY SymbolFacts, FiguresAreNoSeparators
<1>2. /\ t \in Texts /\ Len(g) \in Nat /\ Len(t) = Len(g) + 1 /\ t[Len(g) + 1] = sep
      /\ \A i \in 1..Len(g) : t[i] = g[i]
  BY <1>1, AppendIs
<1>3. Scan(t)[1] = Scan(g)[1] /\ Scan(t)[2] = 0 /\ Scan(t)[3] = 1
  BY <1>1, OtherAppended
<1>4. Picked(t, Figure) = Picked(g, Figure)
  BY <1>1, PickedAppend
<1>5. Len(Picked(g, Figure)) \in Nat
  BY PickedText
<1> HIDE DEF t
<1>6. \A i \in (Len(g) + 2)..Len(t) : t[i] \in Figure
  BY <1>2
<1>7. Ended(t, g, sep, 0)
  BY <1>2, <1>3, <1>4, <1>5, <1>6 DEF Ended
<1> QED BY <1>3, <1>7 DEF t

LEMMA EndedByFigure ==
  ASSUME NEW t, NEW g \in Texts, NEW sep, NEW d \in Nat, Ended(t, g, sep, d), NEW c \in Figure
  PROVE  /\ Ended(Append(t, c), g, sep, d + 1)
         /\ Scan(Append(t, c))[1] = 10 * Scan(t)[1] + Worth[c]
<1> DEFINE u == Append(t, c)
<1>1. /\ t \in Texts /\ Len(g) \in Nat /\ Len(t) = Len(g) + 1 + d
      /\ \A i \in 1..Len(g) : t[i] = g[i]
      /\ t[Len(g) + 1] = sep
      /\ \A i \in (Len(g) + 2)..Len(t) : t[i] \in Figure
      /\ Scan(t)[2] = d /\ Scan(t)[3] = 1
      /\ Len(Picked(t, Figure)) = Len(Picked(g, Figure)) + d
  BY DEF Ended
<1>2. c \in Symbol /\ Scan(u)[1] = 10 * Scan(t)[1] + Worth[c] /\ Scan(u)[2] = d + 1 /\ Scan(u)[3] = 1
  BY <1>1, FigureAppended
<1>3. /\ u \in Texts /\ Len(u) = Len(t) + 1 /\ u[Len(t) + 1] = c
      /\ \A i \in 1..Len(t) : u[i] = t[i]
  BY <1>1, <1>2, AppendIs
<1>4. Len(Picked(u, Figure)) = Len(Picked(g, Figure)) + (d + 1)
  <2>1. Picked(u, Figure) = Append(Picked(t, Figure), c)
    BY <1>1, <1>2, PickedAppend
  <2>2. Picked(t, Figure) \in Texts /\ Len(Picked(g, Figure)) \in Nat
    BY <1>1, PickedText
  <2>3. Len(Picked(u, Figure)) = Len(Picked(t, Figure)) + 1
    BY <1>2, <2>1, <2>2, AppendIs
  <2> QED BY <1>1, <2>2, <2>3
<1> HIDE DEF u
<1>5. \A i \in 1..Len(g) : u[i] = g[i]
  <2> TAKE i \in 1..Len(g)
  <2>1. i \in 1..Len(t)
    BY <1>1
  <2> QED BY <1>1, <1>3, <2>1
<1>6. u[Len(g) + 1] = sep
  <2>1. Len(g) + 1 \in 1..Len(t)
    BY <1>1
  <2> QED BY <1>1, <1>3, <2>1
<1>7. \A i \in (Len(g) + 2)..Len(u) : u[i] \in Figure
  <2> TAKE i \in (Len(g) + 2)..Len(u)
  <2>1. i = Len(t) + 1 \/ (i \in (Len(g) + 2)..Len(t) /\ i \in 1..Len(t))
    BY <1>1, <1>3, SMTT(40)
  <2> QED BY <1>1, <1>3, <2>1
<1>8. Len(u) = Len(g) + 1 + (d + 1)
  BY <1>1, <1>3
<1>9. Ended(u, g, sep, d + 1)
  BY <1>1, <1>2, <1>3, <1>4, <1>5, <1>6, <1>7, <1>8 DEF Ended
<1> QED BY <1>2, <1>9 DEF u

LEMMA FiguresLeft ==
  ASSUME NEW g, NEW w \in Seq(Figure), NEW s, s \notin Figure, WholeText(g, w, s)
  PROVE  Len(Picked(g, Figure)) = Len(w)
<1>1. g \in Texts /\ Picked(g, Symbol \ {s}) = w
  BY DEF WholeText
<1>2. Figure \subseteq Symbol \ {s}
  BY SymbolFacts
<1>3. Picked(Picked(g, Symbol \ {s}), Figure) = Picked(g, Figure)
  BY <1>1, <1>2, PickedTwice
<1>4. w \in Texts /\ DOMAIN w = 1..Len(w) /\ \A i \in 1..Len(w) : w[i] \in Figure
  <2>1. Figure \subseteq Symbol
    BY SymbolFacts
  <2>2. \A i \in 1..Len(w) : w[i] \in Figure
    BY LenProperties, ElementOfSeq
  <2> QED BY <2>1, <2>2, SeqMonotonic, LenProperties DEF Texts
<1>5. Picked(w, Figure) = w
  <2> DEFINE K == Positions(w, Figure)
  <2>1. \A i \in 1..Len(w) : i \in K
    BY <1>4 DEF Positions
  <2> HIDE DEF K
  <2>2. At(w, K) = w
    BY <1>4, <2>1, KeptWhole
  <2> QED BY <2>2 DEF Picked, K
<1> QED BY <1>1, <1>3, <1>5

Punctuation == GroupMarks \cup {""}

\* t is g, or g with a fraction of d figures.
Fraction(t, g, sep, d) == (d = 0 /\ t = g) \/ (d \in 1..2 /\ Ended(t, g, sep, d))

LEMMA FractionText ==
  ASSUME NEW g, NEW w \in Seq(Figure), NEW s \in Punctuation, WholeText(g, w, s),
         NEW sep \in Separators, NEW d \in 0..2, NEW t, Fraction(t, g, sep, d),
         Len(w) \in 1..MaxWhole, Len(w) + 1 \in 1..MaxWhole
  PROVE  AmountText(t, Len(w), d)
<1> DEFINE Symbols == Figure \cup Separators \cup {" "}
           n == Len(w)
<1>1. /\ s \notin Figure /\ \A c \in Figure : c # " " /\ c # "," /\ c \in Symbols
      /\ sep # " " /\ sep \notin Figure /\ sep \in Symbols
      /\ s \in GroupMarks => s # "," /\ s \in Symbols
  <2>1. s \notin Figure
    BY FigureIs, Zenon DEF Punctuation, GroupMarks
  <2>2. \A c \in Figure : c # " " /\ c # "," /\ c \in Symbols
    BY FigureIs, Zenon
  <2>3. sep # " " /\ sep \notin Figure /\ sep \in Symbols
    BY NoFigures, FiguresAreNoSeparators, Zenon
  <2>4. s \in GroupMarks => s # "," /\ s \in Symbols
    BY GroupMarksAre, Zenon
  <2> QED BY <2>1, <2>2, <2>3, <2>4, Zenon
<1>2. /\ g \in Texts /\ Len(g) \in Nat \ {0}
      /\ (Scan(g)[2] = -1 \/ Scan(g)[2] = 3) /\ Scan(g)[3] = 1
      /\ g[1] \in Figure /\ g[Len(g)] \in Figure
      /\ \A i \in 1..Len(g) : g[i] \in Figure \/ (g[i] = s /\ s \in GroupMarks)
      /\ \A i \in 2..Len(g) : g[i] \in Figure \/ g[i - 1] \in Figure
  BY Zenon DEF WholeText
<1>3. Len(Picked(g, Figure)) = n /\ n \in Nat
  BY <1>1, FiguresLeft, LenProperties, Zenon
<1> HIDE DEF Symbols, n
<1>4. CASE d = 0
  <2>1. t = g
    <3>1. d \notin 1..2
      BY <1>4
    <3> QED BY <3>1 DEF Fraction
  <2>2. \A i \in 1..Len(g) : g[i] \in Symbols /\ g[i] # ","
    BY <1>1, <1>2, Zenon
  <2>3. ~Holds(g, ",")
    BY <1>2, <2>2, TextFacts, ZenonT(40)
  <2>4. \A i \in 2..Len(g) : g[i] = " " => g[i - 1] # " "
    BY <1>1, <1>2, Zenon
  <2>5. Scan(g)[2] \in {-1, 3} /\ n + d = n
    BY <1>2, <1>3, <1>4
  <2>6. Ending(g, d)
    BY <1>4, <2>3, <2>5, Zenon DEF Ending
  <2>7. Len(Picked(g, Figure)) = n + d
    BY <1>3, <2>5
  <2> QED BY <1>2, <2>1, <2>2, <2>4, <2>6, <2>7, Zenon DEF AmountText, Symbols, n
<1>5. CASE d # 0
  <2>1. /\ t \in Texts /\ Len(g) \in Nat /\ Len(t) = Len(g) + 1 + d
        /\ \A i \in 1..Len(g) : t[i] = g[i]
        /\ t[Len(g) + 1] = sep
        /\ \A i \in (Len(g) + 2)..Len(t) : t[i] \in Figure
        /\ Scan(t)[2] = d /\ Scan(t)[3] = 1
        /\ Len(Picked(t, Figure)) = n + d
    BY <1>3, <1>5 DEF Fraction, Ended
  <2> DEFINE l == Len(g)
             m == Len(t)
  <2>2. l \in Nat \ {0} /\ m = l + 1 + d /\ d \in 1..2 /\ m \in Nat \ {0}
    <3>1. l \in Nat \ {0}
      BY <1>2, Zenon
    <3>2. m = l + 1 + d
      BY <2>1, Zenon
    <3> HIDE DEF l, m
    <3> QED BY <1>5, <3>1, <3>2
  <2>3. \A i \in 1..m : i \in 1..l \/ i = l + 1 \/ i \in (l + 2)..m
    <3> HIDE DEF l, m
    <3> QED BY <2>2
  <2>4. \A i \in 1..m : t[i] \in Symbols
    <3> TAKE i \in 1..m
    <3>1. i \in 1..l => t[i] \in Symbols
      BY <1>1, <1>2, <2>1, Zenon
    <3>2. i = l + 1 => t[i] \in Symbols
      BY <1>1, <2>1, Zenon
    <3>3. i \in (l + 2)..m => t[i] \in Symbols
      BY <1>1, <2>1, Zenon
    <3> QED BY <2>3, <3>1, <3>2, <3>3, Zenon
  <2>5. t[1] \in Figure /\ t[m] \in Figure
    <3>1. 1 \in 1..l /\ m \in (l + 2)..m
      <4> HIDE DEF l, m
      <4> QED BY <2>2
    <3> QED BY <1>2, <2>1, <3>1, Zenon
  <2>6. \A i \in 2..m : t[i] = " " => t[i - 1] # " "
    <3>0. \A i \in 2..m : i \in 1..m /\ (i \in 1..l => i \in 2..l /\ i - 1 \in 1..l)
      <4> HIDE DEF l, m
      <4> QED BY <2>2
    <3> SUFFICES ASSUME NEW i \in 2..m, t[i] = " " PROVE t[i - 1] # " "
      BY Zenon
    <3>1. i \in 1..m /\ (i \in 1..l => i \in 2..l /\ i - 1 \in 1..l)
      BY <3>0, Zenon
    <3>2. i \in 1..l
      BY <1>1, <2>1, <2>3, <3>1, Zenon
    <3>3. g[i] = " " /\ t[i - 1] = g[i - 1]
      BY <2>1, <3>1, <3>2, Zenon
    <3>4. g[i] \in Figure \/ g[i - 1] \in Figure
      BY <1>2, <3>1, <3>2, Zenon
    <3> QED BY <1>1, <3>3, <3>4, Zenon
  <2>7. Ending(t, d)
    BY <1>5, <2>1, Zenon DEF Ending
  <2> QED BY <2>1, <2>2, <2>4, <2>5, <2>6, <2>7, Zenon DEF AmountText, Symbols, n
<1> QED BY <1>4, <1>5

Comma == ","

LEMMA FractionGrouped ==
  ASSUME NEW g, NEW w, NEW s \in GroupMarks, WholeText(g, w, s),
         NEW d \in 0..2, NEW t, Fraction(t, g, Comma, d)
  PROVE  Grouped(t, s)
<1> DEFINE l == Len(g)
<1>1. g \in Texts /\ l \in Nat \ {0}
  BY Zenon DEF WholeText
<1>2. PICK first \in 1..3 : first <= l /\ (l - first) % 4 = 0 /\ InPattern(g, first, s)
  BY Zenon DEF WholeText
<1>3. \A i \in 1..l : IF i > first /\ (i - first) % 4 = 1 THEN g[i] = s ELSE g[i] \in Figure
  BY <1>2 DEF InPattern
<1> HIDE DEF l
<1>4. CASE d = 0
  <2>1. t = g
    <3>1. d \notin 1..2
      BY <1>4
    <3> QED BY <3>1, Zenon DEF Fraction
  <2>2. l \in 1..l /\ ~(l < l) /\ (l + 2)..l = {}
    BY <1>1
  <2> QED BY <1>2, <1>3, <2>1, <2>2, Zenon DEF Grouped, l
<1>5. CASE d # 0
  <2>1. /\ Len(t) = l + 1 + d
        /\ \A i \in 1..l : t[i] = g[i]
        /\ t[l + 1] = Comma
        /\ \A i \in (l + 2)..Len(t) : t[i] \in Figure
    BY <1>5, Zenon DEF Fraction, Ended, l
  <2> DEFINE m == Len(t)
  <2> HIDE DEF m
  <2>2. m = l + 1 + d /\ d \in 1..2
    BY <1>5, <2>1 DEF m
  <2>3. l \in 1..m /\ m - l \in {2, 3}
    BY <1>1, <2>2
  <2>4. \A i \in 1..l : IF i > first /\ (i - first) % 4 = 1 THEN t[i] = s ELSE t[i] \in Figure
    BY <1>3, <2>1
  <2> QED BY <1>2, <2>1, <2>3, <2>4, Zenon DEF Grouped, m, l, Comma
<1> QED BY <1>4, <1>5

LEMMA FractionHolds ==
  ASSUME NEW g, NEW w, NEW s, WholeText(g, w, s),
         NEW sep, NEW d \in 0..2, NEW t, Fraction(t, g, sep, d), NEW x, Holds(t, x)
  PROVE  x \in Figure \/ x = sep \/ (x = s /\ s \in GroupMarks)
<1>1. /\ g \in Texts /\ Len(g) \in Nat \ {0}
      /\ \A i \in 1..Len(g) : g[i] \in Figure \/ (g[i] = s /\ s \in GroupMarks)
  BY Zenon DEF WholeText
<1>2. CASE d = 0 /\ t = g
  <2>1. PICK i \in 1..Len(g) : g[i] = x
    BY <1>1, <1>2, TextFacts
  <2> QED BY <1>1, <2>1
<1>3. CASE d \in 1..2 /\ Ended(t, g, sep, d)
  <2>1. /\ t \in Texts /\ Len(t) = Len(g) + 1 + d
        /\ \A i \in 1..Len(g) : t[i] = g[i]
        /\ t[Len(g) + 1] = sep
        /\ \A i \in (Len(g) + 2)..Len(t) : t[i] \in Figure
    BY <1>3 DEF Ended
  <2>2. PICK i \in 1..Len(t) : t[i] = x
    BY <2>1, TextFacts
  <2>3. i \in 1..Len(g) \/ i = Len(g) + 1 \/ i \in (Len(g) + 2)..Len(t)
    BY <1>1, <2>1
  <2> QED BY <1>1, <2>1, <2>2, <2>3
<1> QED BY <1>2, <1>3 DEF Fraction

LEMMA UngroupedIs ==
  ASSUME NEW t \in Texts, NEW format
  PROVE  /\ Ungrouped(t, format) = Picked(t, Symbol \ {GroupMark(format)})
         /\ ~Holds(t, GroupMark(format)) => Ungrouped(t, format) = t
<1> DEFINE s == GroupMark(format)
           K == Positions(t, Symbol \ {s})
           L == DOMAIN t \ Positions(t, {s})
<1>1. DOMAIN t = 1..Len(t) /\ \A i \in 1..Len(t) : t[i] \in Symbol
  BY TextFacts
<1> HIDE DEF s
<1>2. K = L
  BY <1>1 DEF Positions
<1>3. ~Holds(t, s) => \A i \in 1..Len(t) : i \in L
  BY <1>1, TextFacts DEF Positions
<1>4. Ungrouped(t, format) = At(t, L)
  BY Zenon DEF Ungrouped, s
<1> HIDE DEF K, L
<1>5. ~Holds(t, s) => At(t, L) = t
  BY <1>3, KeptWhole
<1>6. Picked(t, Symbol \ {s}) = At(t, K)
  BY Zenon DEF Picked, K
<1> QED BY <1>2, <1>4, <1>5, <1>6, Zenon DEF s

LEMMA ExplicitFormats ==
  ASSUME NEW format \in Explicit
  PROVE  /\ GroupMark(format) \in Punctuation
         /\ Separator(format) \in Separators /\ Separator(format) # GroupMark(format)
         /\ GroupMark(format) \in GroupMarks => Separator(format) = Comma
<1>1. format \in {"eur_dot", "eur_comma", "eur_grouped_space_comma", "eur_grouped_dot_comma"}
  BY Zenon DEF Explicit, Formats
<1> QED BY <1>1 DEF GroupMark, Separator, Punctuation, GroupMarks, Separators, Comma

\* A text is as the format says it is written in asks for.
LEMMA FractionFits ==
  ASSUME NEW format \in Explicit, NEW g, NEW w, WholeText(g, w, GroupMark(format)),
         NEW d \in 0..2, NEW t \in Texts, Fraction(t, g, Separator(format), d),
         Plain(Picked(t, Symbol \ {GroupMark(format)}), {Separator(format)})
  PROVE  Fits(t, format) /\ Plain(Ungrouped(t, format), Separators)
<1> DEFINE s == GroupMark(format)
           sep == Separator(format)
<1>1. s \in Punctuation /\ sep \in Separators /\ sep # s /\ (s \in GroupMarks => sep = Comma)
  BY ExplicitFormats, Zenon
<1>2. Plain(Ungrouped(t, format), {sep})
  BY UngroupedIs, Zenon
<1>3. Plain(Ungrouped(t, format), Separators)
  <2>1. {sep} \subseteq Separators
    BY <1>1
  <2> QED BY <1>2, <2>1, PlainAmong, Zenon
<1>4. ~Holds(t, s) => Plain(t, {sep})
  BY <1>2, UngroupedIs, Zenon
<1>5. s \in GroupMarks => Grouped(t, s)
  BY <1>1, FractionGrouped, Zenon
<1>6. \A x : Holds(t, x) => x \in Figure \/ x = sep \/ (x = s /\ s \in GroupMarks)
  BY FractionHolds, Zenon
<1>7. Fits(t, format)
  <2>1. CASE format = "eur_dot"
    <3>1. s = "" /\ sep = "."
      BY <2>1 DEF GroupMark, Separator
    <3>2. "" \notin Figure /\ "" # "." /\ "" \notin GroupMarks
      BY FigureIs, Zenon DEF GroupMarks
    <3>3. Plain(t, {"."})
      BY <1>4, <1>6, <3>1, <3>2, Zenon
    <3> QED BY <2>1, <3>3 DEF Fits
  <2>2. CASE format = "eur_comma"
    <3>1. s = "" /\ sep = ","
      BY <2>2 DEF GroupMark, Separator
    <3>2. "" \notin Figure /\ "" # "," /\ "" \notin GroupMarks
      BY FigureIs, Zenon DEF GroupMarks
    <3>3. Plain(t, {","})
      BY <1>4, <1>6, <3>1, <3>2, Zenon
    <3> QED BY <2>2, <3>3 DEF Fits
  <2>3. CASE format = "eur_grouped_space_comma"
    <3>1. s = " " /\ sep = ","
      BY <2>3 DEF GroupMark, Separator
    <3>2. "." \notin Figure /\ "." # "," /\ "." # " " /\ " " \in GroupMarks
      BY FigureIs, Zenon DEF GroupMarks
    <3>3. ~Holds(t, ".") /\ Grouped(t, " ") /\ (~Holds(t, " ") => Plain(t, {","}))
      BY <1>4, <1>5, <1>6, <3>1, <3>2, Zenon
    <3> QED BY <2>3, <3>3 DEF Fits
  <2>4. CASE format = "eur_grouped_dot_comma"
    <3>1. s = "." /\ sep = ","
      BY <2>4 DEF GroupMark, Separator
    <3>2. "." \in GroupMarks
      BY Zenon DEF GroupMarks
    <3>3. Grouped(t, ".") /\ (~Holds(t, ".") => Plain(t, {","}))
      BY <1>4, <1>5, <3>1, <3>2, Zenon
    <3> QED BY <2>4, <3>3 DEF Fits
  <2>5. format \in {"eur_dot", "eur_comma", "eur_grouped_space_comma", "eur_grouped_dot_comma"}
    BY Zenon DEF Explicit, Formats
  <2> QED BY <2>1, <2>2, <2>3, <2>4, <2>5, Zenon
<1> QED BY <1>3, <1>7

\* A number and a fraction of d figures as they are written, and what they come to.
WrittenAs(t, g, w, s, sep, d, total) ==
  /\ t \in Texts /\ Fraction(t, g, sep, d) /\ Scan(t)[1] = total
  /\ Plain(Picked(t, Symbol \ {s}), {sep})

LEMMA WrittenText ==
  ASSUME NEW g, NEW w \in Seq(Figure), NEW s \in Punctuation, WholeText(g, w, s),
         Len(w) \in 1..MaxWhole, NEW sep \in Separators, sep # s,
         NEW a \in Figure, NEW b \in Figure
  PROVE  /\ WrittenAs(g, g, w, s, sep, 0, Scan(w)[1])
         /\ WrittenAs(g \o (<<sep>> \o <<a>>), g, w, s, sep, 1, 10 * Scan(w)[1] + Worth[a])
         /\ WrittenAs(g \o (<<sep>> \o <<a, b>>), g, w, s, sep, 2,
                      10 * (10 * Scan(w)[1] + Worth[a]) + Worth[b])
<1> DEFINE S == Symbol \ {s}
           p == Append(g, sep)
           t == Append(p, a)
           u == Append(t, b)
           q == Append(w, sep)
           x == Append(q, a)
           y == Append(x, b)
<1>1. /\ g \in Texts /\ Scan(g)[1] = Scan(w)[1] /\ Scan(g)[3] = 1 /\ Picked(g, S) = w
  BY Zenon DEF WholeText
<1>2. /\ s \notin Figure /\ sep \in Symbol /\ a \in Symbol /\ b \in Symbol
      /\ sep \in S /\ a \in S /\ b \in S
  <2>1. s \notin Figure
    BY FigureIs, Zenon DEF Punctuation, GroupMarks
  <2> QED BY <2>1, SymbolFacts
<1>3. w \in Texts /\ \A i \in 1..Len(w) : w[i] \in Figure
  <2>1. Figure \subseteq Symbol
    BY SymbolFacts
  <2>2. \A i \in 1..Len(w) : w[i] \in Figure
    BY LenProperties, ElementOfSeq
  <2> QED BY <2>1, <2>2, SeqMonotonic DEF Texts
<1> HIDE DEF S
<1>4. Ended(p, g, sep, 0) /\ Scan(p)[1] = Scan(g)[1]
  BY <1>1, EndedAtPoint
<1>5. Picked(p, S) = q /\ p \in Texts
  <2>1. Picked(p, S) = Append(Picked(g, S), sep)
    BY <1>1, <1>2, PickedAppend
  <2>2. p \in Texts
    BY <1>4 DEF Ended
  <2> QED BY <1>1, <2>1, <2>2
<1> HIDE DEF p, q
<1>6. Ended(t, g, sep, 1) /\ Scan(t)[1] = 10 * Scan(p)[1] + Worth[a]
  <2>1. Ended(t, g, sep, 0 + 1) /\ Scan(t)[1] = 10 * Scan(p)[1] + Worth[a]
    BY <1>1, <1>4, EndedByFigure
  <2>2. 0 + 1 = 1
    OBVIOUS
  <2> QED BY <2>1, <2>2
<1>7. Picked(t, S) = x /\ t \in Texts
  <2>1. Picked(t, S) = Append(Picked(p, S), a)
    BY <1>2, <1>5, PickedAppend
  <2>2. t \in Texts
    BY <1>6 DEF Ended
  <2> QED BY <1>5, <2>1, <2>2
<1> HIDE DEF t, x
<1>8. Ended(u, g, sep, 2) /\ Scan(u)[1] = 10 * Scan(t)[1] + Worth[b]
  <2>1. Ended(u, g, sep, 1 + 1) /\ Scan(u)[1] = 10 * Scan(t)[1] + Worth[b]
    BY <1>1, <1>6, EndedByFigure
  <2>2. 1 + 1 = 2
    OBVIOUS
  <2> QED BY <2>1, <2>2
<1>9. Picked(u, S) = y /\ u \in Texts
  <2>1. Picked(u, S) = Append(Picked(t, S), b)
    BY <1>2, <1>7, PickedAppend
  <2>2. u \in Texts
    BY <1>8 DEF Ended
  <2> QED BY <1>7, <2>1, <2>2
<1> HIDE DEF u, y
<1>10. /\ g \o (<<sep>> \o <<a>>) = t /\ g \o (<<sep>> \o <<a, b>>) = u
       /\ w \o (<<sep>> \o <<a>>) = x /\ w \o (<<sep>> \o <<a, b>>) = y
  <2>1. g \o (<<sep>> \o <<a>>) = t /\ g \o (<<sep>> \o <<a, b>>) = u
    BY <1>1, <1>2, TailAppended, ZenonT(40) DEF t, u, p
  <2>2. w \o (<<sep>> \o <<a>>) = x /\ w \o (<<sep>> \o <<a, b>>) = y
    BY <1>2, <1>3, TailAppended, ZenonT(40) DEF x, y, q
  <2> QED BY <2>1, <2>2
<1>11. Plain(w, {sep}) /\ Plain(x, {sep}) /\ Plain(y, {sep})
  <2>1. ASSUME NEW f \in Texts, Len(f) \in 0..2, \A i \in 1..Len(f) : f[i] \in Figure
        PROVE  Plain(w \o (IF f = <<>> THEN <<>> ELSE <<sep>> \o f), {sep})
    BY <1>3, <2>1, PutTogether
  <2>2. Plain(w, {sep})
    <3>1. <<>> \in Texts /\ Len(<<>>) = 0 /\ w \o <<>> = w
      BY <1>3, ShortTexts, PickedNothing, ConcatEmptySeq DEF Texts
    <3>2. Len(<<>>) \in 0..2 /\ \A i \in 1..Len(<<>>) : <<>>[i] \in Figure
      BY <3>1
    <3>3. Plain(w \o (IF <<>> = <<>> THEN <<>> ELSE <<sep>> \o <<>>), {sep})
      BY <2>1, <3>1, <3>2, Zenon
    <3> QED BY <3>1, <3>3, Zenon
  <2>3. Plain(x, {sep})
    <3> DEFINE f == <<a>>
    <3>1. f \in Texts /\ Len(f) \in 0..2 /\ f # <<>> /\ \A i \in 1..Len(f) : f[i] \in Figure
      <4>1. f \in Texts /\ Len(f) = 1 /\ f[1] = a
        BY <1>2, ShortTexts, Zenon
      <4>2. Len(<<>>) = 0
        BY PickedNothing, Zenon
      <4>3. \A i \in 1..1 : i = 1
        OBVIOUS
      <4> HIDE DEF f
      <4>4. f # <<>> /\ Len(f) \in 0..2
        <5>1. 1 # 0 /\ 2 # 0 /\ 1 \in 0..2 /\ 2 \in 0..2
          OBVIOUS
        <5> QED BY <4>1, <4>2, <5>1, Zenon
      <4> QED BY <4>1, <4>3, <4>4
    <3>2. x = w \o (<<sep>> \o f)
      BY <1>10
    <3> HIDE DEF f
    <3> QED BY <2>1, <3>1, <3>2, Zenon
  <2>4. Plain(y, {sep})
    <3> DEFINE f == <<a, b>>
    <3>1. f \in Texts /\ Len(f) \in 0..2 /\ f # <<>> /\ \A i \in 1..Len(f) : f[i] \in Figure
      <4>1. f \in Texts /\ Len(f) = 2 /\ f[1] = a /\ f[2] = b
        BY <1>2, ShortTexts, Zenon
      <4>2. Len(<<>>) = 0
        BY PickedNothing, Zenon
      <4>3. \A i \in 1..2 : i = 1 \/ i = 2
        OBVIOUS
      <4> HIDE DEF f
      <4>4. f # <<>> /\ Len(f) \in 0..2
        <5>1. 1 # 0 /\ 2 # 0 /\ 1 \in 0..2 /\ 2 \in 0..2
          OBVIOUS
        <5> QED BY <4>1, <4>2, <5>1, Zenon
      <4> QED BY <4>1, <4>3, <4>4
    <3>2. y = w \o (<<sep>> \o f)
      BY <1>10
    <3> HIDE DEF f
    <3> QED BY <2>1, <3>1, <3>2, Zenon
  <2> QED BY <2>2, <2>3, <2>4
<1>12. WrittenAs(g, g, w, s, sep, 0, Scan(w)[1])
  BY <1>1, <1>11, Zenon DEF WrittenAs, Fraction, S
<1>13. WrittenAs(t, g, w, s, sep, 1, 10 * Scan(w)[1] + Worth[a])
  <2>1. 1 \in 1..2 /\ Scan(t)[1] = 10 * Scan(w)[1] + Worth[a]
    BY <1>1, <1>4, <1>6
  <2> QED BY <1>6, <1>7, <1>11, <2>1, Zenon DEF WrittenAs, Fraction, S
<1>14. WrittenAs(u, g, w, s, sep, 2, 10 * (10 * Scan(w)[1] + Worth[a]) + Worth[b])
  <2>1. 2 \in 1..2 /\ Scan(u)[1] = 10 * (10 * Scan(w)[1] + Worth[a]) + Worth[b]
    BY <1>1, <1>4, <1>6, <1>8
  <2> QED BY <1>8, <1>9, <1>11, <2>1, Zenon DEF WrittenAs, Fraction, S
<1> QED BY <1>10, <1>12, <1>13, <1>14

LEMMA CentsAre ==
  ASSUME NEW cents \in Nat
  PROVE  LET q == cents \div 100
             x == (cents % 100) \div 10
             y == cents % 10
         IN  /\ q \in Nat /\ x \in 0..9 /\ y \in 0..9 /\ cents = 10 * (10 * q + x) + y
             /\ cents % 100 = 0 => cents = 100 * q
OBVIOUS

\* The fraction of an amount as it is printed.
LEMMA FractionIs ==
  ASSUME NEW cents \in Nat
  PROVE  LET n == Len(Digits[cents \div 100])
         IN  SubSeq(Printed(cents, "."), n + 2, n + 3)
               = <<Figures[((cents % 100) \div 10) + 1], Figures[(cents % 10) + 1]>>
<1> DEFINE w == Digits[cents \div 100]
           n == Len(w)
           a == Figures[((cents % 100) \div 10) + 1]
           b == Figures[(cents % 10) + 1]
           point == "."
           e == <<a, b>>
           v == w \o <<point>>
           p == v \o e
           f == SubSeq(p, n + 2, n + 3)
<1>1. w \in Texts /\ n \in Nat
  <2>1. cents \div 100 \in Nat
    OBVIOUS
  <2>2. w \in Texts
    BY <2>1, DigitsScan
  <2> QED BY <2>2, TextFacts
<1>2. a \in Symbol /\ b \in Symbol /\ point \in Symbol
  <2>1. (cents % 100) \div 10 \in 0..9 /\ cents % 10 \in 0..9
    OBVIOUS
  <2>2. a \in Figure /\ b \in Figure
    BY <2>1, FigureIsWorth
  <2>3. point \in Symbol
    BY SymbolFacts, Zenon DEF Separators
  <2> QED BY <2>2, <2>3, SymbolFacts
<1>3. Printed(cents, ".") = p
  BY Zenon DEF Printed
<1> HIDE DEF w, a, b, point
<1>4. <<point>> \in Texts /\ Len(<<point>>) = 1 /\ e \in Texts /\ Len(e) = 2 /\ e[1] = a /\ e[2] = b
  BY <1>2, ShortTexts, Zenon
<1> HIDE DEF e
<1>5. v \in Texts /\ Len(v) = n + 1
  <2>1. IsJoin(v, w, <<point>>)
    BY <1>1, <1>4, JoinIs
  <2> HIDE DEF v
  <2> QED BY <1>4, <2>1 DEF IsJoin
<1> HIDE DEF v
<1>6. p \in Texts /\ Len(p) = n + 3 /\ p[n + 2] = a /\ p[n + 3] = b
  <2>1. IsJoin(p, v, e)
    BY <1>4, <1>5, JoinIs
  <2> HIDE DEF p
  <2>2. /\ p \in Texts /\ Len(p) = Len(v) + Len(e)
        /\ \A i \in 1..Len(e) : p[Len(v) + i] = e[i]
    BY <2>1 DEF IsJoin
  <2>3. 1 \in 1..2 /\ 2 \in 1..2 /\ (n + 1) + 1 = n + 2 /\ (n + 1) + 2 = n + 3
    BY <1>1
  <2> QED BY <1>4, <1>5, <2>2, <2>3
<1> HIDE DEF p, n
<1>7. f \in Texts /\ Len(f) = 2 /\ f[1] = a /\ f[2] = b
  <2>1. p \in Seq(Symbol) /\ n + 2 \in 1..Len(p) + 1 /\ n + 3 \in n + 1..Len(p)
    BY <1>1, <1>6 DEF Texts
  <2>2. f \in Seq(Symbol) /\ Len(f) = 2 /\ \A i \in 1..2 : f[i] = p[(n + 2) + i - 1]
    BY <1>1, <1>6, <2>1, SubSeqProperties
  <2>3. 1 \in 1..2 /\ 2 \in 1..2 /\ (n + 2) + 1 - 1 = n + 2 /\ (n + 2) + 2 - 1 = n + 3
    BY <1>1
  <2> QED BY <1>6, <2>2, <2>3 DEF Texts
<1> HIDE DEF f
<1>8. f = e
  <2>1. \A i \in 1..2 : i = 1 \/ i = 2
    OBVIOUS
  <2>2. \A i \in 1..Len(e) : f[i] = e[i]
    BY <1>4, <1>7, <2>1
  <2> QED BY <1>4, <1>7, <2>2, SameTexts
<1> QED BY <1>3, <1>8, Zenon DEF f, e, p, n, w, a, b

\* As many figures as are taken, and one more.
LEMMA FewFigures ==
  ASSUME NEW cents \in 0..MaxCents
  PROVE  LET n == Len(Digits[cents \div 100])
         IN  n \in 1..MaxWhole /\ n + 1 \in 1..MaxWhole
<1> DEFINE q == cents \div 100
           m == MaxCents \div 100
<1>1. q \in Nat /\ m \in Nat /\ q \in 0..m
  <2>1. MaxCents \in Nat
    BY PaymentsAssumption, Zenon
  <2>2. \A j, k \in Nat : j <= k => j \div 100 \in 0..(k \div 100) /\ k \div 100 \in Nat /\ j \div 100 \in Nat
    OBVIOUS
  <2>3. cents \in Nat /\ cents <= MaxCents
    BY <2>1
  <2> QED BY <2>1, <2>2, <2>3
<1> HIDE DEF q, m
<1>2. Len(Digits[q]) <= Len(Digits[m]) /\ Len(Digits[q]) \in Nat \ {0} /\ Len(Digits[m]) \in Nat
  BY <1>1, DigitsGrow, DigitsScan
<1>3. Len(Digits[m]) < MaxWhole
  BY LargestAssumption DEF m
<1> QED BY <1>2, <1>3, MaxWholeAssumption DEF q

LEMMA WholeIsWritten ==
  ASSUME NEW q \in Nat, NEW format \in Explicit
  PROVE  WholeText(Punctuated(Digits[q], IF GroupMark(format) = "" THEN <<>> ELSE <<GroupMark(format)>>),
                   Digits[q], GroupMark(format))
<1> DEFINE w == Digits[q]
           s == GroupMark(format)
<1>1. w \in Seq(Figure) /\ Len(w) \in Nat \ {0} /\ Scan(w)[2] = -1 /\ Scan(w)[3] = 1
  <2>1. w \in Seq(Figure) /\ Len(w) \in Nat \ {0} /\ Scan(w) = <<q, -1, 1>>
    BY DigitsScan
  <2> HIDE DEF w
  <2> QED BY <2>1
<1> HIDE DEF w
<1>2. s \in Punctuation
  BY ExplicitFormats, Zenon
<1>3. CASE s = ""
  <2>1. Punctuated(w, <<>>) = w /\ WholeText(w, w, "")
    BY <1>1, BareWhole, Zenon
  <2> QED BY <1>3, <2>1, Zenon DEF w
<1>4. CASE s # ""
  <2>1. s \in GroupMarks
    BY <1>2, <1>4, Zenon DEF Punctuation
  <2>2. WholeText(Punctuated(w, <<s>>), w, s)
    BY <1>1, <2>1, GroupedWhole, Zenon
  <2> QED BY <1>4, <2>2, Zenon DEF w
<1> QED BY <1>3, <1>4, Zenon

\* What an amount that is written in a format has, for it to be read as itself.
ReadsAs(t, format, cents) ==
  \E n, d : /\ AmountText(t, n, d)
            /\ Fits(t, format) /\ Plain(Ungrouped(t, format), Separators)
            /\ Value(Scan(t)) = cents

LEMMA ReadsAsWritten ==
  ASSUME NEW format \in Explicit, NEW g, NEW w \in Seq(Figure),
         WholeText(g, w, GroupMark(format)), Len(w) \in 1..MaxWhole, Len(w) + 1 \in 1..MaxWhole,
         NEW d \in 0..2, NEW total, NEW t,
         WrittenAs(t, g, w, GroupMark(format), Separator(format), d, total),
         NEW cents \in Nat, \A p \in States : p = Scan(t) => Value(p) = cents
  PROVE  ReadsAs(t, format, cents)
<1> DEFINE s == GroupMark(format)
           sep == Separator(format)
<1>1. s \in Punctuation /\ sep \in Separators
  BY ExplicitFormats, Zenon
<1>2. t \in Texts /\ Fraction(t, g, sep, d) /\ Plain(Picked(t, Symbol \ {s}), {sep})
  BY Zenon DEF WrittenAs
<1>3. AmountText(t, Len(w), d)
  BY <1>1, <1>2, FractionText, Zenon
<1>4. Fits(t, format) /\ Plain(Ungrouped(t, format), Separators)
  BY <1>2, FractionFits, Zenon
<1>5. Value(Scan(t)) = cents
  <2>1. Scan(t) \in States
    BY <1>2, ScanRuns, Zenon
  <2> QED BY <2>1, Zenon
<1> QED BY <1>3, <1>4, <1>5, Zenon DEF ReadsAs

\* Whatever way an amount is written in a format.
LEMMA WrittenIs ==
  ASSUME NEW cents \in 0..MaxCents, NEW format \in Explicit, NEW t \in Written(cents, format)
  PROVE  ReadsAs(t, format, cents)
<1> DEFINE q == cents \div 100
           x == (cents % 100) \div 10
           y == cents % 10
           w == Digits[q]
           n == Len(w)
           a == Figures[x + 1]
           b == Figures[y + 1]
           s == GroupMark(format)
           sep == Separator(format)
           g == Punctuated(w, IF s = "" THEN <<>> ELSE <<s>>)
           frac == SubSeq(Printed(cents, "."), n + 2, n + 3)
<1>0. cents \in Nat
  <2>1. MaxCents \in Nat
    BY PaymentsAssumption, Zenon
  <2> QED BY <2>1
<1>1. /\ q \in Nat /\ x \in 0..9 /\ y \in 0..9 /\ cents = 10 * (10 * q + x) + y
      /\ cents % 100 = 0 => cents = 100 * q
  BY <1>0, CentsAre
<1>2. a \in Figure /\ Worth[a] = x /\ b \in Figure /\ Worth[b] = y
  BY <1>1, FigureIsWorth
<1>3. frac = <<a, b>>
  BY <1>0, FractionIs, Zenon
<1>4. n \in 1..MaxWhole /\ n + 1 \in 1..MaxWhole
  BY FewFigures, Zenon
<1>5. w \in Seq(Figure) /\ Scan(w)[1] = q
  <2>1. w \in Seq(Figure) /\ Scan(w) = <<q, -1, 1>>
    BY <1>1, DigitsScan
  <2> HIDE DEF w, q
  <2> QED BY <2>1
<1>6. WholeText(g, w, s)
  BY <1>1, WholeIsWritten, Zenon
<1>7. s \in Punctuation /\ sep \in Separators /\ sep # s
  BY ExplicitFormats, Zenon
<1>8. \/ t = g \o (<<sep>> \o frac)
      \/ cents % 10 = 0 /\ t = g \o <<sep, frac[1]>>
      \/ cents % 100 = 0 /\ t = g \o <<>>
  <2> DEFINE always == {<<sep>> \o frac}
             tenths == IF cents % 10 = 0 THEN {<<sep, frac[1]>>} ELSE {}
             none == IF cents % 100 = 0 THEN {<<>>} ELSE {}
  <2>1. Written(cents, format) = {g \o f : f \in always \cup tenths \cup none}
    BY Zenon DEF Written
  <2> HIDE DEF always, tenths, none
  <2>2. PICK f \in always \cup tenths \cup none : t = g \o f
    BY <2>1, Zenon
  <2>3. f \in always => f = <<sep>> \o frac
    BY Zenon DEF always
  <2>4. f \in tenths => cents % 10 = 0 /\ f = <<sep, frac[1]>>
    BY Zenon DEF tenths
  <2>5. f \in none => cents % 100 = 0 /\ f = <<>>
    BY Zenon DEF none
  <2> HIDE DEF g, sep, frac
  <2> QED BY <2>2, <2>3, <2>4, <2>5, Zenon
<1> HIDE DEF q, x, y, w, n, a, b, s, sep, g, frac
<1>9. frac[1] = a /\ <<sep, a>> = <<sep>> \o <<a>>
  <2>1. frac[1] = a
    BY <1>3
  <2>2. <<sep, a>> = <<sep>> \o <<a>>
    OBVIOUS
  <2> QED BY <2>1, <2>2
<1>10. g \in Texts /\ g \o <<>> = g
  <2>1. g \in Texts
    BY <1>6, Zenon DEF WholeText
  <2> QED BY <2>1, ConcatEmptySeq DEF Texts
<1>11. /\ WrittenAs(g, g, w, s, sep, 0, Scan(w)[1])
       /\ WrittenAs(g \o (<<sep>> \o <<a>>), g, w, s, sep, 1, 10 * Scan(w)[1] + Worth[a])
       /\ WrittenAs(g \o (<<sep>> \o <<a, b>>), g, w, s, sep, 2,
                    10 * (10 * Scan(w)[1] + Worth[a]) + Worth[b])
  BY <1>2, <1>4, <1>5, <1>6, <1>7, WrittenText, Zenon DEF n
<1>12. ASSUME NEW d \in 0..2, NEW total, WrittenAs(t, g, w, s, sep, d, total),
              \A p \in States : p = Scan(t) => Value(p) = cents
       PROVE  ReadsAs(t, format, cents)
  BY <1>0, <1>4, <1>5, <1>6, <1>12, ReadsAsWritten, Zenon DEF n, s, sep
<1>13. CASE t = g \o (<<sep>> \o <<a, b>>)
  <2>1. WrittenAs(t, g, w, s, sep, 2, cents)
    <3>1. 10 * (10 * Scan(w)[1] + Worth[a]) + Worth[b] = cents
      BY <1>1, <1>2, <1>5
    <3> QED BY <1>11, <1>13, <3>1, Zenon
  <2>2. Scan(t)[1] = cents /\ Scan(t)[2] = 2
    BY <2>1 DEF WrittenAs, Fraction, Ended
  <2>3. \A p \in States : p = Scan(t) => Value(p) = cents
    BY <2>2 DEF Value
  <2>4. 2 \in 0..2
    OBVIOUS
  <2> QED BY <1>12, <2>1, <2>3, <2>4, Zenon
<1>14. CASE cents % 10 = 0 /\ t = g \o (<<sep>> \o <<a>>)
  <2>1. WrittenAs(t, g, w, s, sep, 1, 10 * q + x)
    <3>1. 10 * Scan(w)[1] + Worth[a] = 10 * q + x
      BY <1>1, <1>2, <1>5
    <3> QED BY <1>11, <1>14, <3>1, Zenon
  <2>2. Scan(t)[1] = 10 * q + x /\ Scan(t)[2] = 1
    BY <2>1 DEF WrittenAs, Fraction, Ended
  <2>3. 10 * (10 * q + x) = cents
    <3>1. y = 0
      BY <1>14 DEF y
    <3> QED BY <1>1, <3>1
  <2>4. \A p \in States : p = Scan(t) => Value(p) = cents
    BY <2>2, <2>3 DEF Value
  <2>5. 1 \in 0..2
    OBVIOUS
  <2> QED BY <1>12, <2>1, <2>4, <2>5, Zenon
<1>15. CASE cents % 100 = 0 /\ t = g
  <2>1. WrittenAs(t, g, w, s, sep, 0, Scan(w)[1])
    BY <1>11, <1>15, Zenon
  <2>2. Scan(t)[1] = q /\ (Scan(t)[2] = -1 \/ Scan(t)[2] = 3)
    BY <1>5, <1>6, <1>15 DEF WholeText
  <2>3. 100 * q = cents
    BY <1>1, <1>15
  <2>4. \A p \in States : p = Scan(t) => Value(p) = cents
    BY <2>2, <2>3 DEF Value
  <2>5. 0 \in 0..2
    OBVIOUS
  <2> QED BY <1>12, <2>1, <2>4, <2>5, Zenon
<1> QED BY <1>3, <1>8, <1>9, <1>10, <1>13, <1>14, <1>15, Zenon

-----------------------------------------------------------------------------
(* An amount is read as what was written.                                   *)

LEMMA ReadBack ==
  ASSUME NEW t, NEW format \in Explicit, NEW cents, ReadsAs(t, format, cents),
         NEW a \in Marks, NEW l \in BOOLEAN
  PROVE  /\ ParseAmount(a \o t, format, l).cents = cents
         /\ ParseAmount(a \o t, "auto_eur_lenient", TRUE).cents = cents
<1> DEFINE v == a \o t
           auto == "auto_eur_lenient"
<1>1. PICK n, d : /\ AmountText(t, n, d)
                  /\ Fits(t, format) /\ Plain(Ungrouped(t, format), Separators)
                  /\ Value(Scan(t)) = cents
  BY ZenonT(40) DEF ReadsAs
<1>2. v \in Texts /\ v # <<>> /\ TrimSpaces(v) = v /\ Scan(v) = Scan(t) /\ ~EuroWithin(v)
  BY <1>1, MarkedIs, ZenonT(40)
<1>3. Sound(ReadLeniently(v)) /\ Sound(ReadStrictly(v, format))
  BY <1>1, LenientTaken, StrictTaken, Zenon
<1>4. Scan(t)[3] = 1
  BY <1>1, Zenon DEF AmountText
<1> HIDE DEF v
<1>5. Value(Scan(MapOCR(v))) = cents
  <2>1. Scan(MapOCR(v))[1] = Scan(v)[1] /\ Scan(MapOCR(v))[2] = Scan(v)[2]
    BY <1>2, <1>4, MapScan, Zenon
  <2>2. Value(Scan(v)) = cents
    BY <1>1, <1>2, Zenon
  <2> QED BY <2>1, <2>2, Zenon DEF Value
<1>6. ASSUME NEW f, NEW k \in BOOLEAN, Taken(v, f, k) PROVE ParseAmount(v, f, k).cents = cents
  BY <1>2, <1>5, <1>6, ReadsTheScan, Zenon
<1>7. ParseAmount(v, format, l) = Accept(ReadStrictly(v, format))
  <2>1. format \in Formats /\ format # "auto" /\ format # "auto_eur_lenient"
    BY Zenon DEF Explicit
  <2> QED BY <1>2, <2>1, Zenon DEF ParseAmount, ParseTrimmed
<1>8. ParseAmount(v, auto, TRUE) = Accept(ReadLeniently(v))
  <2>1. auto \in Formats
    BY Zenon DEF Formats
  <2> QED BY <1>2, <2>1, Zenon DEF ParseAmount, ParseTrimmed
<1>9. Taken(v, format, l) /\ Taken(v, auto, TRUE)
  BY <1>3, <1>7, <1>8, Zenon DEF Taken, Sound
<1>10. ParseAmount(v, format, l).cents = cents
  BY <1>6, <1>9, Zenon
<1>11. ParseAmount(v, auto, TRUE).cents = cents
  <2>1. TRUE \in BOOLEAN
    OBVIOUS
  <2> QED BY <1>6, <1>9, <2>1, Zenon
<1> QED BY <1>10, <1>11, Zenon DEF v

\* An amount that was accepted, written anew in any of the explicit formats, grouped
\* or not, with whatever mark of the euro, is read as itself: see AmountReadsBack.
THEOREM AmountAlwaysReadsBack == Spec => []AmountReadsBack
<1>1. PaymentsInv => AmountReadsBack
  <2> SUFFICES ASSUME PaymentsInv, at = "built",
                      NEW format \in Explicit, NEW t \in Written(clean.cents, format),
                      NEW mark \in Marks
               PROVE  /\ ParseAmount(mark \o t, format, lenient).cents = clean.cents
                      /\ ParseAmount(mark \o t, "auto_eur_lenient", TRUE).cents = clean.cents
    BY Zenon DEF AmountReadsBack, Marks
  <2>1. /\ in \in Input /\ lenient \in BOOLEAN /\ Fault(in) = None
        /\ clean = Validated(in)
    BY DEF PaymentsInv
  <2>2. Right(in)
    BY <2>1, NotRefused
  <2>3. clean.cents = Amount(in).cents
    BY <2>1, Zenon DEF Validated
  <2>4. clean.cents \in Nat
    <3>1. Taken(in.amount, in.amount_format, lenient)
      BY <2>2, Zenon DEF Right, Amount, Taken
    <3>2. in.amount \in Texts
      BY <2>1, InputFacts
    <3> QED BY <2>1, <2>3, <3>1, <3>2, AmountIsNat DEF Amount
  <2>5. clean.cents \in 0..MaxCents
    <3> DEFINE c == clean.cents
    <3>1. MaxCents \in Nat
      BY PaymentsAssumption, Zenon
    <3>2. ~(c > MaxCents)
      BY <2>2, <2>3, Zenon DEF Right
    <3>3. c \in Nat
      BY <2>4
    <3> HIDE DEF c
    <3>4. c \in 0..MaxCents
      BY <3>1, <3>2, <3>3
    <3> QED BY <3>4 DEF c
  <2>6. ReadsAs(t, format, clean.cents)
    BY <2>5, WrittenIs, Zenon
  <2>7. lenient \in BOOLEAN
    BY <2>1, Zenon
  <2>8. \A l \in BOOLEAN : /\ ParseAmount(mark \o t, format, l).cents = clean.cents
                          /\ ParseAmount(mark \o t, "auto_eur_lenient", TRUE).cents = clean.cents
    BY <2>6, ReadBack, ZenonT(40)
  <2> QED BY <2>7, <2>8, Zenon
<1> QED BY <1>1, Invariance, PTL

=============================================================================
