------------------------- MODULE SequencePartsProofs -------------------------
(***************************************************************************)
(* Lemmas about numbers, recursive functions and sequences.                *)
(***************************************************************************)
EXTENDS SequenceParts, SequencesExt, FiniteSetTheorems, SequenceTheorems, TLAPS

(***************************************************************************)
(* Numbers and sequences.  An induction is a statement about a set of      *)
(* numbers here, because a set can be given to a lemma.                    *)
(***************************************************************************)

\* A set of natural numbers that is not empty has a least element: the sets 0 .. n of its
\* elements are finite, and inclusion is well-founded on finite sets.
LEMMA LeastNumber ==
    ASSUME NEW T \in SUBSET Nat, T # {}
    PROVE  \E m \in T : \A n \in T : m <= n
<1> DEFINE Upto == {0 .. n : n \in T}
           R == StrictSubsetOrdering(Nat)
<1>1. Upto \subseteq FiniteSubsetsOf(Nat)
  <2>1. \A n \in T : IsFiniteSet(0 .. n)
    BY FS_Interval
  <2> QED
    BY <2>1 DEF FiniteSubsetsOf
<1>2. Upto # {}
  OBVIOUS
<1>3. IsWellFoundedOn(R, FiniteSubsetsOf(Nat))
  BY FS_StrictSubsetOrderingWellFounded
<1>4. PICK I \in Upto : \A J \in Upto : ~ (<<J, I>> \in R)
  <2> HIDE DEF Upto, R
  <2> QED
    BY <1>1, <1>2, <1>3, WFMin
<1>5. PICK m \in T : I = 0 .. m
  OBVIOUS
<1>6. ASSUME NEW n \in T, n < m PROVE FALSE
  <2>1. 0 .. n \in Upto /\ 0 .. n \subseteq 0 .. m /\ 0 .. n # 0 .. m
    BY <1>6
  <2>2. 0 .. n \in SUBSET Nat /\ 0 .. m \in SUBSET Nat
    OBVIOUS
  <2> QED
    BY <2>1, <2>2, <1>4, <1>5 DEF StrictSubsetOrdering
<1> QED
  BY <1>6

\* Induction over the numbers.
LEMMA NatSetInduction ==
    ASSUME NEW S, 0 \in S, \A n \in Nat : n \in S => n + 1 \in S
    PROVE  \A n \in Nat : n \in S
<1> DEFINE T == Nat \ S
<1> SUFFICES ASSUME T # {} PROVE FALSE
  OBVIOUS
<1>1. T \in SUBSET Nat
  OBVIOUS
<1>2. PICK m \in T : \A n \in T : m <= n
  <2> HIDE DEF T
  <2> QED
    BY <1>1, LeastNumber
<1>3. m # 0 /\ m - 1 \in Nat /\ m - 1 \notin T
  BY <1>2
<1> QED
  BY <1>2, <1>3

\* f starts with b and computes every value from the one before it.
Recursion(f, V, b, L, g) ==
    /\ f \in [0 .. L -> V]
    /\ f[0] = b
    /\ \A i \in 1 .. L : f[i] = g[i][f[i - 1]]

\* There is such a function.
LEMMA RecursionExists ==
    ASSUME NEW V, NEW b \in V, NEW L \in Nat, NEW g \in [1 .. L -> [V -> V]]
    PROVE  \E f : Recursion(f, V, b, L, g)
<1> DEFINE Good(n, f) == f[0] = b /\ \A i \in 1 .. n : f[i] = g[i][f[i - 1]]
           S == {n \in Nat : n <= L => \E f \in [0 .. n -> V] : Good(n, f)}
<1>1. 0 \in S
  <2>1. [i \in 0 .. 0 |-> b] \in [0 .. 0 -> V] /\ Good(0, [i \in 0 .. 0 |-> b])
    OBVIOUS
  <2> QED
    BY <2>1
<1>2. ASSUME NEW n \in Nat, n \in S PROVE n + 1 \in S
  <2> SUFFICES ASSUME n + 1 <= L PROVE \E f \in [0 .. n + 1 -> V] : Good(n + 1, f)
    OBVIOUS
  <2>1. PICK f \in [0 .. n -> V] : Good(n, f)
    BY <1>2
  <2> DEFINE h == [i \in 0 .. n + 1 |-> IF i = n + 1 THEN g[n + 1][f[n]] ELSE f[i]]
  <2>2. h \in [0 .. n + 1 -> V]
    OBVIOUS
  <2>3. ASSUME NEW i \in 1 .. n + 1 PROVE h[i] = g[i][h[i - 1]]
    <3>1. CASE i \in 1 .. n
      <4>1. i - 1 \in 0 .. n /\ i \in 0 .. n /\ i # 0 /\ i # n + 1 /\ i - 1 # n + 1
        BY <3>1
      <4>2. h[i] = f[i] /\ h[i - 1] = f[i - 1]
        BY <4>1
      <4>3. f[i] = g[i][f[i - 1]]
        BY <3>1, <2>1
      <4> QED
        BY <4>1, <4>2, <4>3
    <3>2. CASE i = n + 1
      BY <3>2
    <3> QED
      BY <3>1, <3>2
  <2>4. Good(n + 1, h)
    BY <2>1, <2>3
  <2> QED
    BY <2>2, <2>4
<1> HIDE DEF S
<1>3. L \in S
  BY <1>1, <1>2, NatSetInduction
<1> QED
  BY <1>3 DEF S, Recursion

\* The positions that Picked keeps, up to position n.
LEMMA PickedSteps ==
    ASSUME NEW S, NEW seq \in Seq(S), NEW positions
    PROVE  \E f \in [0 .. Len(seq) -> Seq(S)] :
              /\ Picked(seq, positions) = f[Len(seq)]
              /\ f[0] = <<>>
              /\ \A n \in 1 .. Len(seq) :
                    f[n] = IF n \in positions THEN Append(f[n - 1], seq[n]) ELSE f[n - 1]
<1> DEFINE V == Seq(S)
           L == Len(seq)
           g == [n \in 1 .. L |-> [s \in V |-> IF n \in positions THEN Append(s, seq[n]) ELSE s]]
           Def(f) == f = [n \in 0 .. L |-> IF n = 0 THEN <<>>
                                ELSE IF n \in positions THEN Append(f[n - 1], seq[n]) ELSE f[n - 1]]
<1>1. L \in Nat /\ \A n \in 1 .. L : seq[n] \in S
  OBVIOUS
<1>2. g \in [1 .. L -> [V -> V]]
  BY <1>1
<1>3. PICK e \in [0 .. L -> V] : e[0] = <<>> /\ \A n \in 1 .. L : e[n] = g[n][e[n - 1]]
  <2> DEFINE empty == <<>>
  <2>1. empty \in V /\ L \in Nat
    OBVIOUS
  <2>2. \E e : Recursion(e, V, empty, L, g)
    <3> HIDE DEF g, V, L, empty
    <3> QED
      BY <1>2, <2>1, RecursionExists
  <2> HIDE DEF g, V, L
  <2> QED
    BY <2>2 DEF Recursion
<1>4. Def(e)
  <2>1. \A n \in 1 .. L : n - 1 \in 0 .. L /\ n # 0 /\ n \in 0 .. L
    BY <1>1
  <2>2. \A n \in 1 .. L : e[n - 1] \in V
    <3> HIDE DEF V, L
    <3> QED
      BY <2>1, <1>3
  <2>3. ASSUME NEW n \in 1 .. L
        PROVE  g[n][e[n - 1]] = IF n \in positions THEN Append(e[n - 1], seq[n]) ELSE e[n - 1]
    <3> HIDE DEF V, L
    <3> QED
      BY <2>2
  <2>4. \A n \in 0 .. L : n = 0 \/ n \in 1 .. L
    BY <1>1
  <2>5. ASSUME NEW n \in 0 .. L
        PROVE  e[n] = IF n = 0 THEN <<>> ELSE IF n \in positions THEN Append(e[n - 1], seq[n]) ELSE e[n - 1]
    <3> HIDE DEF V, L, g
    <3> QED
      BY <1>3, <2>3, <2>4
  <2> HIDE DEF V, L, g
  <2> QED
    BY <1>3, <2>5
<1> DEFINE f == CHOOSE f : Def(f)
<1>5. Def(f)
  <2> HIDE DEF Def
  <2> QED
    BY <1>4
<1>6. Picked(seq, positions) = f[L]
  BY DEF Picked
<1> HIDE DEF f
<1>7. /\ f[0] = <<>>
      /\ \A n \in 1 .. L : f[n] = IF n \in positions THEN Append(f[n - 1], seq[n]) ELSE f[n - 1]
  <2>1. 0 \in 0 .. L /\ \A n \in 1 .. L : n \in 0 .. L /\ n # 0
    BY <1>1
  <2> HIDE DEF L
  <2> QED
    BY <1>5, <2>1
<1> DEFINE G == {n \in Nat : n <= L => f[n] \in V}
<1>8. 0 \in G
  <2>1. <<>> \in V
    OBVIOUS
  <2> QED
    BY <1>7, <2>1
<1>9. ASSUME NEW n \in Nat, n \in G PROVE n + 1 \in G
  <2> SUFFICES ASSUME n + 1 <= L PROVE f[n + 1] \in V
    OBVIOUS
  <2>1. n + 1 \in 1 .. L /\ (n + 1) - 1 = n /\ f[n] \in V
    BY <1>1, <1>9
  <2>2. f[n + 1] = IF n + 1 \in positions THEN Append(f[n], seq[n + 1]) ELSE f[n]
    <3> HIDE DEF L, V
    <3> QED
      BY <1>7, <2>1
  <2> QED
    BY <1>1, <2>1, <2>2
<1>10. \A n \in Nat : n \in G
  <2> HIDE DEF G
  <2> QED
    BY <1>8, <1>9, NatSetInduction
<1>11. f \in [0 .. L -> V]
  <2>1. \A n \in 0 .. L : f[n] \in V
    BY <1>1, <1>10
  <2>2. f = [n \in 0 .. L |-> f[n]]
    <3> HIDE DEF L
    <3> QED
      BY <1>5
  <2> HIDE DEF L, V
  <2> QED
    BY <2>1, <2>2
<1> QED
  BY <1>6, <1>7, <1>11

\* Picked keeps what stands at the positions, each once and in their order: e maps a place
\* of the result to the place it comes from.
LEMMA PickedShape ==
    ASSUME NEW S, NEW seq \in Seq(S), NEW positions
    PROVE  /\ Picked(seq, positions) \in Seq(S)
           /\ \E e \in [1 .. Len(Picked(seq, positions)) -> positions \cap DOMAIN seq] :
                 /\ \A j, k \in 1 .. Len(Picked(seq, positions)) : j < k => e[j] < e[k]
                 /\ \A i \in positions \cap DOMAIN seq : \E k \in 1 .. Len(Picked(seq, positions)) : e[k] = i
                 /\ \A k \in 1 .. Len(Picked(seq, positions)) : Picked(seq, positions)[k] = seq[e[k]]
<1> DEFINE L == Len(seq)
           Shape(n, s, e) == /\ \A j, k \in 1 .. Len(s) : j < k => e[j] < e[k]
                             /\ \A i \in positions \cap 1 .. n : \E k \in 1 .. Len(s) : e[k] = i
                             /\ \A k \in 1 .. Len(s) : s[k] = seq[e[k]]
<1>1. PICK f \in [0 .. L -> Seq(S)] :
         /\ Picked(seq, positions) = f[L]
         /\ f[0] = <<>>
         /\ \A n \in 1 .. L : f[n] = IF n \in positions THEN Append(f[n - 1], seq[n]) ELSE f[n - 1]
  <2> HIDE DEF L
  <2> QED
    BY PickedSteps DEF L
<1> DEFINE G == {n \in Nat : n <= L => \E e \in [1 .. Len(f[n]) -> positions \cap 1 .. n] : Shape(n, f[n], e)}
<1>2. 0 \in G
  <2> DEFINE e == [k \in 1 .. 0 |-> 0]
  <2>1. e \in [1 .. Len(f[0]) -> positions \cap 1 .. 0] /\ Shape(0, f[0], e)
    BY <1>1
  <2> QED
    BY <2>1
<1>3. ASSUME NEW n \in Nat, n \in G PROVE n + 1 \in G
  <2> SUFFICES ASSUME n + 1 <= L
               PROVE  \E e \in [1 .. Len(f[n + 1]) -> positions \cap 1 .. n + 1] : Shape(n + 1, f[n + 1], e)
    <3> HIDE DEF Shape, L
    <3> QED
      OBVIOUS
  <2>1. n + 1 \in 1 .. L /\ n \in 0 .. L /\ n + 1 \in 0 .. L /\ (n + 1) - 1 = n
    OBVIOUS
  <2>2. f[n] \in Seq(S) /\ f[n + 1] \in Seq(S) /\ seq[n + 1] \in S
    BY <2>1
  <2>3. f[n + 1] = IF n + 1 \in positions THEN Append(f[n], seq[n + 1]) ELSE f[n]
    <3> HIDE DEF L
    <3> QED
      BY <1>1, <2>1
  <2>4. PICK e \in [1 .. Len(f[n]) -> positions \cap 1 .. n] : Shape(n, f[n], e)
    <3>1. n <= L
      OBVIOUS
    <3> HIDE DEF Shape, L
    <3> QED
      BY <1>3, <3>1
  <2>5. CASE n + 1 \notin positions
    <3>1. f[n + 1] = f[n] /\ positions \cap 1 .. n + 1 = positions \cap 1 .. n
      BY <2>3, <2>5
    <3>2. e \in [1 .. Len(f[n + 1]) -> positions \cap 1 .. n + 1] /\ Shape(n, f[n + 1], e)
      <4> HIDE DEF Shape
      <4> QED
        BY <2>4, <3>1
    <3>3. Shape(n + 1, f[n + 1], e)
      BY <3>1, <3>2
    <3> HIDE DEF Shape
    <3> QED
      BY <3>2, <3>3
  <2>6. CASE n + 1 \in positions
    <3> DEFINE m == Len(f[n])
               h == [k \in 1 .. m + 1 |-> IF k = m + 1 THEN n + 1 ELSE e[k]]
    <3>1. m \in Nat /\ f[n + 1] = Append(f[n], seq[n + 1]) /\ Len(f[n + 1]) = m + 1
      BY <2>2, <2>3, <2>6
    <3>2. h \in [1 .. m + 1 -> positions \cap 1 .. n + 1]
      BY <2>4, <2>6, <3>1
    <3>3. \A k \in 1 .. m : h[k] = e[k] /\ e[k] <= n /\ e[k] \in positions \cap 1 .. n
      <4>1. \A k \in 1 .. m : h[k] = e[k]
        BY <3>1
      <4>2. \A k \in 1 .. m : e[k] \in positions \cap 1 .. n
        BY <2>4
      <4> HIDE DEF h, m
      <4> QED
        BY <4>1, <4>2
    <3>4. h[m + 1] = n + 1
      BY <3>1
    <3>5. \A j, k \in 1 .. m + 1 : j < k => h[j] < h[k]
      <4> SUFFICES ASSUME NEW j \in 1 .. m + 1, NEW k \in 1 .. m + 1, j < k PROVE h[j] < h[k]
        OBVIOUS
      <4>1. j \in 1 .. m
        BY <3>1
      <4>2. CASE k = m + 1
        <5> HIDE DEF h
        <5> QED
          BY <3>3, <3>4, <4>1, <4>2
      <4>3. CASE k # m + 1
        <5>1. k \in 1 .. m
          BY <3>1, <4>3
        <5> HIDE DEF h
        <5> QED
          BY <3>3, <4>1, <5>1, <2>4
      <4> QED
        BY <4>2, <4>3
    <3>6. ASSUME NEW i \in positions \cap 1 .. n + 1 PROVE \E k \in 1 .. m + 1 : h[k] = i
      <4>1. CASE i = n + 1
        BY <3>1, <3>4, <4>1
      <4>2. CASE i # n + 1
        <5>1. i \in positions \cap 1 .. n
          BY <4>2
        <5>2. PICK k \in 1 .. m : e[k] = i
          <6> HIDE DEF h
          <6> QED
            BY <2>4, <5>1
        <5>3. k \in 1 .. m + 1 /\ h[k] = i
          BY <5>2, <3>1
        <5> HIDE DEF h, m
        <5> QED
          BY <5>3
      <4> QED
        BY <4>1, <4>2
    <3>7. ASSUME NEW k \in 1 .. m + 1 PROVE f[n + 1][k] = seq[h[k]]
      <4>1. CASE k = m + 1
        BY <2>2, <3>1, <3>4, <4>1
      <4>2. CASE k # m + 1
        <5>1. k \in 1 .. m /\ f[n][k] = seq[e[k]]
          BY <2>4, <3>1, <4>2
        <5>2. h[k] = e[k]
          <6> HIDE DEF h
          <6> QED
            BY <5>1, <3>3
        <5> HIDE DEF h
        <5>3. f[n + 1][k] = f[n][k]
          BY <2>2, <3>1, <5>1
        <5> QED
          BY <5>1, <5>2, <5>3
      <4> QED
        BY <4>1, <4>2
    <3> HIDE DEF h, m
    <3>8. Len(f[n + 1]) = m + 1
      BY <3>1
    <3>9. /\ \A i \in positions \cap 1 .. n + 1 : \E k \in 1 .. m + 1 : h[k] = i
          /\ \A k \in 1 .. m + 1 : f[n + 1][k] = seq[h[k]]
      BY <3>6, <3>7
    <3>10. Shape(n + 1, f[n + 1], h)
      BY <3>5, <3>8, <3>9
    <3> HIDE DEF Shape
    <3> QED
      BY <3>2, <3>8, <3>10
  <2> QED
    BY <2>5, <2>6
<1>4. L \in G
  <2> L \in Nat
    OBVIOUS
  <2> HIDE DEF G, L
  <2> QED
    BY <1>2, <1>3, NatSetInduction
<1>5. PICK e \in [1 .. Len(f[L]) -> positions \cap 1 .. L] : Shape(L, f[L], e)
  <2> HIDE DEF Shape
  <2> QED
    BY <1>4
<1>6. L \in 0 .. L /\ DOMAIN seq = 1 .. L
  OBVIOUS
<1>7. f[L] \in Seq(S)
  <2> HIDE DEF L
  <2> QED
    BY <1>6
<1>8. /\ f[L] \in Seq(S)
      /\ \E d \in [1 .. Len(f[L]) -> positions \cap DOMAIN seq] :
            /\ \A j, k \in 1 .. Len(f[L]) : j < k => d[j] < d[k]
            /\ \A i \in positions \cap DOMAIN seq : \E k \in 1 .. Len(f[L]) : d[k] = i
            /\ \A k \in 1 .. Len(f[L]) : f[L][k] = seq[d[k]]
  <2>1. /\ e \in [1 .. Len(f[L]) -> positions \cap DOMAIN seq]
        /\ \A j, k \in 1 .. Len(f[L]) : j < k => e[j] < e[k]
        /\ \A i \in positions \cap DOMAIN seq : \E k \in 1 .. Len(f[L]) : e[k] = i
        /\ \A k \in 1 .. Len(f[L]) : f[L][k] = seq[e[k]]
    <3> HIDE DEF L
    <3> QED
      BY <1>5, <1>6
  <2> HIDE DEF L
  <2> QED
    BY <1>7, <2>1
<1> HIDE DEF L
<1> QED
  BY <1>1, <1>8

\* What Picked does to the set of elements and to repetitions.
LEMMA PickedElements ==
    ASSUME NEW S, NEW seq \in Seq(S), NEW positions
    PROVE  /\ Picked(seq, positions) \in Seq(S)
           /\ ToSet(Picked(seq, positions)) = {seq[i] : i \in positions \cap DOMAIN seq}
           /\ IsInjective(seq) => IsInjective(Picked(seq, positions))
<1> DEFINE P == Picked(seq, positions)
<1>1. P \in Seq(S)
  BY PickedShape
<1>2. PICK e \in [1 .. Len(P) -> positions \cap DOMAIN seq] :
         /\ \A j, k \in 1 .. Len(P) : j < k => e[j] < e[k]
         /\ \A i \in positions \cap DOMAIN seq : \E k \in 1 .. Len(P) : e[k] = i
         /\ \A k \in 1 .. Len(P) : P[k] = seq[e[k]]
  <2> HIDE DEF P
  <2> QED
    BY PickedShape DEF P
<1> HIDE DEF P
<1>3. DOMAIN P = 1 .. Len(P) /\ Len(P) \in Nat /\ DOMAIN seq = 1 .. Len(seq)
  BY <1>1
<1>4. ToSet(P) = {seq[i] : i \in positions \cap DOMAIN seq}
  <2>1. \A k \in 1 .. Len(P) : e[k] \in positions \cap DOMAIN seq /\ P[k] = seq[e[k]]
    BY <1>2
  <2>2. \A i \in positions \cap DOMAIN seq : \E k \in 1 .. Len(P) : P[k] = seq[i]
    BY <1>2
  <2> DEFINE R == positions \cap DOMAIN seq
  <2>3. ToSet(P) = {P[k] : k \in 1 .. Len(P)}
    BY <1>3 DEF ToSet
  <2> HIDE DEF R
  <2>4. {P[k] : k \in 1 .. Len(P)} \subseteq {seq[i] : i \in R}
    BY <2>1 DEF R
  <2>5. {seq[i] : i \in R} \subseteq {P[k] : k \in 1 .. Len(P)}
    BY <2>2 DEF R
  <2> QED
    BY <2>3, <2>4, <2>5 DEF R
<1>5. ASSUME IsInjective(seq), NEW j \in 1 .. Len(P), NEW k \in 1 .. Len(P), P[j] = P[k] PROVE j = k
  <2>1. e[j] \in DOMAIN seq /\ e[k] \in DOMAIN seq /\ e[j] = e[k]
    <3>1. e[j] \in DOMAIN seq /\ e[k] \in DOMAIN seq
      BY <1>2
    <3>2. seq[e[j]] = seq[e[k]]
      BY <1>2, <1>5
    <3> QED
      BY <1>5, <3>1, <3>2 DEF IsInjective
  <2>2. ~ (j < k) /\ ~ (k < j)
    BY <1>2, <1>3, <2>1
  <2> QED
    BY <1>3, <2>2
<1>6. IsInjective(seq) => IsInjective(P)
  BY <1>3, <1>5 DEF IsInjective
<1> QED
  BY <1>1, <1>4, <1>6 DEF P

\* A sequence without repetitions is as long as the set of its elements is large.
LEMMA InjectiveCount ==
    ASSUME NEW S, NEW s \in Seq(S)
    PROVE  /\ IsFiniteSet(ToSet(s))
           /\ Cardinality(ToSet(s)) \in Nat
           /\ Cardinality(ToSet(s)) <= Len(s)
           /\ IsInjective(s) <=> Cardinality(ToSet(s)) = Len(s)
<1>1. Len(s) \in Nat /\ DOMAIN s = 1 .. Len(s)
  OBVIOUS
<1>2. s \in Surjection(1 .. Len(s), ToSet(s))
  BY <1>1 DEF Surjection, ToSet
<1>3. IsFiniteSet(1 .. Len(s)) /\ Cardinality(1 .. Len(s)) = Len(s)
  <2>1. \A m \in Nat : IsFiniteSet(1 .. m) /\ Cardinality(1 .. m) = m
    BY FS_Interval
  <2> QED
    BY <1>1, <2>1
<1>4. /\ IsFiniteSet(ToSet(s))
      /\ Cardinality(ToSet(s)) <= Len(s)
      /\ Cardinality(ToSet(s)) = Len(s) <=> s \in Injection(1 .. Len(s), ToSet(s))
  BY <1>2, <1>3, FS_Surjection
<1>5. s \in Injection(1 .. Len(s), ToSet(s)) <=> IsInjective(s)
  BY <1>1 DEF Injection, ToSet
<1> QED
  BY <1>4, <1>5, FS_CardinalityType

\* Two sequences with the same elements and without repetitions are equally long.
LEMMA SameLength ==
    ASSUME NEW S, NEW s \in Seq(S), NEW t \in Seq(S),
           IsInjective(s), IsInjective(t), ToSet(s) = ToSet(t)
    PROVE  Len(s) = Len(t)
BY InjectiveCount

\* Two sequences with the same elements at the same places are the same.
LEMMA SameSequence ==
    ASSUME NEW S, NEW s \in Seq(S), NEW t \in Seq(S),
           Len(s) = Len(t), \A i \in 1 .. Len(t) : s[i] = t[i]
    PROVE  s = t
OBVIOUS

\* Adding an element at the end.
LEMMA AppendElements ==
    ASSUME NEW S, NEW s \in Seq(S), NEW x \in S
    PROVE  /\ Append(s, x) \in Seq(S)
           /\ ToSet(Append(s, x)) = ToSet(s) \cup {x}
           /\ IsInjective(s) /\ x \notin ToSet(s) => IsInjective(Append(s, x))
<1>1. /\ Append(s, x) \in Seq(S) /\ Len(s) \in Nat /\ DOMAIN s = 1 .. Len(s)
      /\ DOMAIN Append(s, x) = 1 .. Len(s) + 1
      /\ \A i \in 1 .. Len(s) + 1 : Append(s, x)[i] = IF i = Len(s) + 1 THEN x ELSE s[i]
  OBVIOUS
<1>2. ToSet(Append(s, x)) = ToSet(s) \cup {x}
  <2> DEFINE a == Append(s, x)
  <2>1. a[Len(s) + 1] = x /\ Len(s) + 1 \in DOMAIN a
    BY <1>1
  <2>2. \A i \in DOMAIN s : i \in DOMAIN a /\ a[i] = s[i]
    BY <1>1
  <2>3. \A i \in DOMAIN a : i = Len(s) + 1 \/ i \in DOMAIN s
    BY <1>1
  <2> HIDE DEF a
  <2> QED
    BY <2>1, <2>2, <2>3 DEF ToSet, a
<1>3. ASSUME IsInjective(s), x \notin ToSet(s) PROVE IsInjective(Append(s, x))
  BY <1>1, <1>3 DEF IsInjective, ToSet
<1> QED
  BY <1>1, <1>2, <1>3

\* Putting one sequence after another.
LEMMA ConcatElements ==
    ASSUME NEW S, NEW s \in Seq(S), NEW t \in Seq(S)
    PROVE  /\ s \o t \in Seq(S)
           /\ ToSet(s \o t) = ToSet(s) \cup ToSet(t)
           /\ IsInjective(s) /\ IsInjective(t) /\ ToSet(s) \cap ToSet(t) = {} => IsInjective(s \o t)
<1> DEFINE c == s \o t
<1>1. /\ c \in Seq(S) /\ Len(s) \in Nat /\ Len(t) \in Nat
      /\ DOMAIN s = 1 .. Len(s) /\ DOMAIN t = 1 .. Len(t) /\ DOMAIN c = 1 .. Len(s) + Len(t)
      /\ \A i \in DOMAIN s : c[i] = s[i]
      /\ \A i \in DOMAIN t : c[Len(s) + i] = t[i]
  OBVIOUS
<1>2. \A i \in DOMAIN c : \/ i \in DOMAIN s /\ c[i] = s[i]
                          \/ i - Len(s) \in DOMAIN t /\ i \notin DOMAIN s /\ c[i] = t[i - Len(s)]
  OBVIOUS
<1>3. \A i \in DOMAIN s : i \in DOMAIN c
  BY <1>1
<1>4. \A i \in DOMAIN t : Len(s) + i \in DOMAIN c
  BY <1>1
<1> HIDE DEF c
<1>5. ToSet(c) = ToSet(s) \cup ToSet(t)
  BY <1>1, <1>2, <1>3, <1>4 DEF ToSet
<1>6. ASSUME IsInjective(s), IsInjective(t), ToSet(s) \cap ToSet(t) = {},
             NEW i \in DOMAIN c, NEW j \in DOMAIN c, c[i] = c[j]
      PROVE  i = j
  <2>1. CASE i \in DOMAIN s /\ j \in DOMAIN s
    BY <1>1, <1>6, <2>1 DEF IsInjective
  <2>2. CASE i \notin DOMAIN s /\ j \notin DOMAIN s
    <3>1. i - Len(s) = j - Len(s)
      BY <1>2, <1>6, <2>2 DEF IsInjective
    <3> QED
      BY <1>1, <3>1
  <2>3. CASE i \in DOMAIN s /\ j \notin DOMAIN s
    BY <1>1, <1>2, <1>6, <2>3 DEF ToSet
  <2>4. CASE i \notin DOMAIN s /\ j \in DOMAIN s
    BY <1>1, <1>2, <1>6, <2>4 DEF ToSet
  <2> QED
    BY <2>1, <2>2, <2>3, <2>4
<1>7. IsInjective(s) /\ IsInjective(t) /\ ToSet(s) \cap ToSet(t) = {} => IsInjective(c)
  BY <1>6 DEF IsInjective
<1> QED
  BY <1>1, <1>5, <1>7 DEF c

\* The first place of a sequence where something holds.
LEMMA FirstPlace ==
    ASSUME NEW I \in SUBSET Nat, I # {}
    PROVE  Min(I) \in I /\ \A i \in I : Min(I) <= i
BY LeastNumber DEF Min

\* Two neighbours change places.
LEMMA SwapElements ==
    ASSUME NEW ids \in Seq(Nat), NEW row \in 1 .. Len(ids) - 1
    PROVE  LET s == [ids EXCEPT ![row] = ids[row + 1], ![row + 1] = ids[row]]
           IN /\ s \in Seq(Nat)
              /\ ToSet(s) = ToSet(ids)
              /\ IsInjective(ids) => IsInjective(s)
<1> DEFINE s == [ids EXCEPT ![row] = ids[row + 1], ![row + 1] = ids[row]]
           to == [i \in DOMAIN ids |-> IF i = row THEN row + 1 ELSE IF i = row + 1 THEN row ELSE i]
<1>1. /\ DOMAIN ids = 1 .. Len(ids) /\ Len(ids) \in Nat
      /\ row \in DOMAIN ids /\ row + 1 \in DOMAIN ids /\ row # row + 1
  OBVIOUS
<1>2. s \in Seq(Nat) /\ DOMAIN s = DOMAIN ids
  BY <1>1
<1>3. \A i \in DOMAIN ids : s[i] = ids[to[i]] /\ to[i] \in DOMAIN ids /\ to[to[i]] = i
  BY <1>1
<1> HIDE DEF s, to
<1>4. ToSet(s) = ToSet(ids)
  <2>1. \A i \in DOMAIN ids : s[to[i]] = ids[i]
    BY <1>3
  <2>2. ASSUME NEW x \in ToSet(s) PROVE x \in ToSet(ids)
    <3>1. PICK i \in DOMAIN ids : x = s[i]
      BY <1>2 DEF ToSet
    <3>2. to[i] \in DOMAIN ids /\ x = ids[to[i]]
      BY <1>3, <3>1
    <3> QED
      BY <3>2 DEF ToSet
  <2>3. ASSUME NEW x \in ToSet(ids) PROVE x \in ToSet(s)
    <3>1. PICK i \in DOMAIN ids : x = ids[i]
      BY DEF ToSet
    <3>2. to[i] \in DOMAIN s /\ x = s[to[i]]
      BY <1>2, <1>3, <2>1, <3>1
    <3> QED
      BY <3>2 DEF ToSet
  <2> QED
    BY <2>2, <2>3
<1>5. ASSUME IsInjective(ids) PROVE IsInjective(s)
  <2>1. ASSUME NEW i \in DOMAIN ids, NEW j \in DOMAIN ids, s[i] = s[j] PROVE i = j
    <3>1. to[i] \in DOMAIN ids /\ to[j] \in DOMAIN ids /\ ids[to[i]] = ids[to[j]]
      BY <1>3, <2>1
    <3>2. to[i] = to[j]
      BY <1>5, <3>1 DEF IsInjective
    <3> QED
      BY <1>3, <3>2
  <2> QED
    BY <1>2, <2>1 DEF IsInjective
<1> QED
  BY <1>2, <1>4, <1>5 DEF s

\* What stands where in one sequence after another.
LEMMA ConcatShape ==
    ASSUME NEW S, NEW s \in Seq(S), NEW t \in Seq(S)
    PROVE  /\ s \o t \in Seq(S)
           /\ Len(s \o t) = Len(s) + Len(t)
           /\ \A k \in 1 .. Len(s) + Len(t) : (s \o t)[k] = IF k <= Len(s) THEN s[k] ELSE t[k - Len(s)]
OBVIOUS

\* What stands where after an element was put at a place.
LEMMA InsertAtShape ==
    ASSUME NEW S, NEW s \in Seq(S), NEW x \in S, NEW i \in 1 .. Len(s) + 1
    PROVE  /\ InsertAt(s, i, x) \in Seq(S)
           /\ Len(InsertAt(s, i, x)) = Len(s) + 1
           /\ \A k \in 1 .. Len(s) + 1 :
                 InsertAt(s, i, x)[k] = IF k < i THEN s[k] ELSE IF k = i THEN x ELSE s[k - 1]
<1> DEFINE a == SubSeq(s, 1, i - 1)
           b == SubSeq(s, i, Len(s))
           c == <<x>>
<1>1. /\ a \in Seq(S) /\ Len(a) = i - 1 /\ \A k \in 1 .. i - 1 : a[k] = s[k]
      /\ Len(s) \in Nat /\ i \in Nat /\ 1 <= i /\ i <= Len(s) + 1
  OBVIOUS
<1>2. b \in Seq(S) /\ Len(b) = Len(s) + 1 - i /\ \A k \in 1 .. Len(s) + 1 - i : b[k] = s[k + i - 1]
  OBVIOUS
<1>3. c \in Seq(S) /\ Len(c) = 1 /\ c[1] = x
  OBVIOUS
<1>4. InsertAt(s, i, x) = a \o c \o b
  BY DEF InsertAt
<1> HIDE DEF a, b, c
<1>5. /\ a \o c \in Seq(S) /\ Len(a \o c) = i
      /\ \A k \in 1 .. i : (a \o c)[k] = IF k < i THEN s[k] ELSE x
  <2>1. /\ a \o c \in Seq(S) /\ Len(a \o c) = i - 1 + 1
        /\ \A k \in 1 .. i - 1 + 1 : (a \o c)[k] = IF k <= i - 1 THEN a[k] ELSE c[k - (i - 1)]
    <3>1. /\ a \o c \in Seq(S) /\ Len(a \o c) = Len(a) + Len(c)
          /\ \A k \in 1 .. Len(a) + Len(c) : (a \o c)[k] = IF k <= Len(a) THEN a[k] ELSE c[k - Len(a)]
      BY <1>1, <1>3, ConcatShape
    <3> QED
      BY <1>1, <1>3, <3>1
  <2>2. ASSUME NEW k \in 1 .. i PROVE (a \o c)[k] = IF k < i THEN s[k] ELSE x
    <3>1. CASE k < i
      BY <1>1, <2>1, <3>1
    <3>2. CASE k = i
      <4>1. k - (i - 1) = 1 /\ ~ (k <= i - 1) /\ k \in 1 .. i - 1 + 1
        BY <1>1, <3>2
      <4> QED
        BY <1>3, <2>1, <3>2, <4>1
    <3>3. k < i \/ k = i
      BY <1>1
    <3> QED
      BY <3>1, <3>2, <3>3
  <2> QED
    BY <1>1, <2>1, <2>2
<1> DEFINE d == a \o c
<1> HIDE DEF d
<1>6. /\ d \o b \in Seq(S) /\ Len(d \o b) = Len(s) + 1
      /\ \A k \in 1 .. Len(s) + 1 : (d \o b)[k] = IF k <= i THEN d[k] ELSE b[k - i]
  <2>1. /\ d \o b \in Seq(S) /\ Len(d \o b) = i + (Len(s) + 1 - i)
        /\ \A k \in 1 .. i + (Len(s) + 1 - i) : (d \o b)[k] = IF k <= i THEN d[k] ELSE b[k - i]
    <3>1. d \in Seq(S) /\ Len(d) = i
      BY <1>5 DEF d
    <3>2. /\ d \o b \in Seq(S) /\ Len(d \o b) = Len(d) + Len(b)
          /\ \A k \in 1 .. Len(d) + Len(b) : (d \o b)[k] = IF k <= Len(d) THEN d[k] ELSE b[k - Len(d)]
      BY <1>2, <3>1, ConcatShape
    <3> QED
      BY <1>2, <3>1, <3>2
  <2>2. i + (Len(s) + 1 - i) = Len(s) + 1
    BY <1>1
  <2> QED
    BY <2>1, <2>2
<1>7. ASSUME NEW k \in 1 .. Len(s) + 1
      PROVE  (d \o b)[k] = IF k < i THEN s[k] ELSE IF k = i THEN x ELSE s[k - 1]
  <2>1. CASE k <= i
    BY <1>1, <1>5, <1>6, <2>1 DEF d
  <2>2. CASE k > i
    <3>1. k - i \in 1 .. Len(s) + 1 - i /\ (k - i) + i - 1 = k - 1
      BY <1>1, <2>2
    <3>2. b[k - i] = s[k - 1]
      BY <1>2, <3>1
    <3>3. (d \o b)[k] = b[k - i]
      BY <1>1, <1>6, <2>2
    <3> QED
      BY <1>1, <2>2, <3>2, <3>3
  <2>3. k <= i \/ k > i
    BY <1>1
  <2> QED
    BY <2>1, <2>2, <2>3
<1> QED
  BY <1>4, <1>6, <1>7 DEF d

\* What stands where after the element at a place was removed.
LEMMA RemoveAtShape ==
    ASSUME NEW S, NEW s \in Seq(S), NEW i \in 1 .. Len(s)
    PROVE  /\ RemoveAt(s, i) \in Seq(S)
           /\ Len(RemoveAt(s, i)) = Len(s) - 1
           /\ \A k \in 1 .. Len(s) - 1 : RemoveAt(s, i)[k] = IF k < i THEN s[k] ELSE s[k + 1]
<1> DEFINE a == SubSeq(s, 1, i - 1)
           b == SubSeq(s, i + 1, Len(s))
<1>1. /\ a \in Seq(S) /\ Len(a) = i - 1 /\ \A k \in 1 .. i - 1 : a[k] = s[k]
      /\ Len(s) \in Nat /\ i \in Nat /\ 1 <= i /\ i <= Len(s)
  OBVIOUS
<1>2. b \in Seq(S) /\ Len(b) = Len(s) - i /\ \A k \in 1 .. Len(s) - i : b[k] = s[k + i]
  OBVIOUS
<1>3. RemoveAt(s, i) = a \o b
  BY DEF RemoveAt
<1> HIDE DEF a, b
<1>4. /\ a \o b \in Seq(S) /\ Len(a \o b) = Len(s) - 1
      /\ \A k \in 1 .. Len(s) - 1 : (a \o b)[k] = IF k <= i - 1 THEN a[k] ELSE b[k - (i - 1)]
  <2>1. /\ a \o b \in Seq(S) /\ Len(a \o b) = i - 1 + (Len(s) - i)
        /\ \A k \in 1 .. i - 1 + (Len(s) - i) : (a \o b)[k] = IF k <= i - 1 THEN a[k] ELSE b[k - (i - 1)]
    <3>1. /\ a \o b \in Seq(S) /\ Len(a \o b) = Len(a) + Len(b)
          /\ \A k \in 1 .. Len(a) + Len(b) : (a \o b)[k] = IF k <= Len(a) THEN a[k] ELSE b[k - Len(a)]
      BY <1>1, <1>2, ConcatShape
    <3> QED
      BY <1>1, <1>2, <3>1
  <2>2. i - 1 + (Len(s) - i) = Len(s) - 1
    BY <1>1
  <2> QED
    BY <2>1, <2>2
<1>5. ASSUME NEW k \in 1 .. Len(s) - 1 PROVE (a \o b)[k] = IF k < i THEN s[k] ELSE s[k + 1]
  <2>1. CASE k < i
    BY <1>1, <1>4, <2>1
  <2>2. CASE k >= i
    <3>1. k - (i - 1) \in 1 .. Len(s) - i /\ (k - (i - 1)) + i = k + 1
      BY <1>1, <2>2
    <3>2. b[k - (i - 1)] = s[k + 1]
      BY <1>2, <3>1
    <3>3. (a \o b)[k] = b[k - (i - 1)]
      BY <1>1, <1>4, <2>2
    <3> QED
      BY <1>1, <2>2, <3>2, <3>3
  <2>3. k < i \/ k >= i
    BY <1>1
  <2> QED
    BY <2>1, <2>2, <2>3
<1> QED
  BY <1>3, <1>4, <1>5

\* The elements after an element was put at a place.
LEMMA InsertAtElements ==
    ASSUME NEW S, NEW s \in Seq(S), NEW x \in S, NEW i \in 1 .. Len(s) + 1
    PROVE  /\ ToSet(InsertAt(s, i, x)) = ToSet(s) \cup {x}
           /\ IsInjective(s) /\ x \notin ToSet(s) => IsInjective(InsertAt(s, i, x))
<1> DEFINE t == InsertAt(s, i, x)
           from(k) == IF k < i THEN k ELSE k - 1
<1>1. /\ t \in Seq(S) /\ Len(t) = Len(s) + 1 /\ Len(s) \in Nat
      /\ \A k \in 1 .. Len(s) + 1 : t[k] = IF k < i THEN s[k] ELSE IF k = i THEN x ELSE s[k - 1]
  BY InsertAtShape
<1> HIDE DEF t
<1>2. DOMAIN t = 1 .. Len(s) + 1 /\ DOMAIN s = 1 .. Len(s)
  BY <1>1
<1>3. \A k \in DOMAIN t \ {i} : from(k) \in DOMAIN s /\ t[k] = s[from(k)]
  BY <1>1, <1>2
<1>4. t[i] = x /\ i \in DOMAIN t
  BY <1>1, <1>2
<1>5. ToSet(t) = ToSet(s) \cup {x}
  <2>1. ASSUME NEW y \in ToSet(t) PROVE y \in ToSet(s) \cup {x}
    <3>1. PICK k \in DOMAIN t : y = t[k]
      BY DEF ToSet
    <3> HIDE DEF from
    <3> QED
      BY <1>3, <1>4, <3>1 DEF ToSet
  <2>2. ASSUME NEW y \in ToSet(s) PROVE y \in ToSet(t)
    <3>1. PICK k \in DOMAIN s : y = s[k]
      BY DEF ToSet
    <3>2. CASE k < i
      BY <1>1, <1>2, <3>1, <3>2 DEF ToSet
    <3>3. CASE k >= i
      <4>1. k + 1 \in DOMAIN t /\ t[k + 1] = s[k]
        BY <1>1, <1>2, <3>3
      <4> QED
        BY <4>1, <3>1 DEF ToSet
    <3> QED
      BY <1>1, <1>2, <3>2, <3>3
  <2> QED
    BY <1>4, <2>1, <2>2 DEF ToSet
<1>6. ASSUME IsInjective(s), x \notin ToSet(s), NEW j \in DOMAIN t, NEW k \in DOMAIN t, t[j] = t[k]
      PROVE  j = k
  <2>1. CASE j = i \/ k = i
    BY <1>3, <1>4, <1>6, <2>1 DEF ToSet
  <2>2. CASE j # i /\ k # i
    <3>1. from(j) = from(k)
      <4> HIDE DEF from
      <4> QED
        BY <1>3, <1>6, <2>2 DEF IsInjective
    <3> QED
      BY <1>2, <2>2, <3>1
  <2> QED
    BY <2>1, <2>2
<1> QED
  BY <1>5, <1>6 DEF IsInjective, t

\* SetToSeq lists a finite set without repetitions.
LEMMA SetToSeqElements ==
    ASSUME NEW T, IsFiniteSet(T)
    PROVE  SetToSeq(T) \in Seq(T) /\ ToSet(SetToSeq(T)) = T /\ IsInjective(SetToSeq(T))
<1> DEFINE n == Cardinality(T)
           s == SetToSeq(T)
<1>1. n \in Nat
  BY FS_CardinalityType
<1>2. \E f : f \in Bijection(1 .. n, T)
  BY FS_CardinalityType DEF ExistsBijection
<1>3. \E f \in [1 .. n -> T] : IsInjective(f)
  BY <1>2 DEF Bijection, Injection, IsInjective
<1>4. s \in [1 .. n -> T] /\ IsInjective(s)
  BY <1>3 DEF SetToSeq
<1> HIDE DEF s
<1>5. s \in Seq(T) /\ Len(s) = n /\ DOMAIN s = 1 .. n
  BY <1>1, <1>4
<1>6. ToSet(s) \subseteq T
  BY <1>5 DEF ToSet
<1>7. Cardinality(ToSet(s)) = n
  BY <1>4, <1>5, InjectiveCount
<1>8. ToSet(s) = T
  <2> HIDE DEF n
  <2> QED
    BY <1>6, <1>7, FS_Subset DEF n
<1> QED
  BY <1>4, <1>5, <1>8 DEF s

\* The greatest element of a set of numbers with a bound.
LEMMA GreatestNumber ==
    ASSUME NEW T \in SUBSET Nat, T # {}, NEW bound \in Nat, \A n \in T : n <= bound
    PROVE  Max(T) \in T /\ \A n \in T : n <= Max(T)
<1> DEFINE D == {bound - n : n \in T}
<1>1. D \in SUBSET Nat /\ D # {}
  <2>1. \A n \in T : bound - n \in Nat
    OBVIOUS
  <2> QED
    BY <2>1
<1>2. PICK d \in D : \A e \in D : d <= e
  <2> HIDE DEF D
  <2> QED
    BY <1>1, LeastNumber
<1>3. PICK m \in T : d = bound - m
  OBVIOUS
<1>4. ASSUME NEW n \in T PROVE n <= m
  <2>1. d <= bound - n
    BY <1>2
  <2> QED
    BY <1>3, <2>1
<1>5. \A n \in T : m >= n
  BY <1>4
<1> QED
  BY <1>5 DEF Max

\* The least and the greatest number of two, and of an interval.
LEMMA MinMaxShape ==
    ASSUME NEW a \in Int, NEW b \in Int
    PROVE  /\ Min({a, b}) = IF a <= b THEN a ELSE b
           /\ Max({a, b}) = IF a >= b THEN a ELSE b
           /\ a <= b => Min(a .. b) = a /\ Max(a .. b) = b
<1>1. Min({a, b}) = IF a <= b THEN a ELSE b
  BY DEF Min
<1>2. Max({a, b}) = IF a >= b THEN a ELSE b
  BY DEF Max
<1>3. ASSUME a <= b PROVE Min(a .. b) = a
  <2>1. \E x \in a .. b : \A y \in a .. b : x =< y
    BY <1>3
  <2>2. Min(a .. b) \in a .. b /\ \A y \in a .. b : Min(a .. b) =< y
    BY <2>1 DEF Min
  <2>3. a \in a .. b
    BY <1>3
  <2> QED
    BY <2>2, <2>3
<1>4. ASSUME a <= b PROVE Max(a .. b) = b
  <2>1. \E x \in a .. b : \A y \in a .. b : x >= y
    BY <1>4
  <2>2. Max(a .. b) \in a .. b /\ \A y \in a .. b : Max(a .. b) >= y
    BY <2>1 DEF Max
  <2>3. b \in a .. b
    BY <1>4
  <2> QED
    BY <2>2, <2>3
<1> QED
  BY <1>1, <1>2, <1>3, <1>4
==============================================================================
