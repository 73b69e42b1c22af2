----------------------------- MODULE Data_proofs -----------------------------
(***************************************************************************)
(* Facts about data that the proofs of several components need: the least  *)
(* and the greatest of a set, what a fold over a sequence computes, and    *)
(* that a sequence can be sorted.  No operator is a parameter here: a step *)
(* function is a function, an inductive hypothesis is a set.               *)
(***************************************************************************)
EXTENDS FiniteSetTheorems, Integers, FiniteSetsExt, SequencesExt, WellFoundedInduction, TLAPS

\* A set of naturals that is not empty has a least element.
LEMMA LeastNatural ==
    ASSUME NEW T, T \subseteq Nat, T # {}
    PROVE  \E x \in T : \A y \in T : x <= y
<1> DEFINE R == OpToRel(<, Nat)
<1>1. IsWellFoundedOn(R, Nat)
  BY NatLessThanWellFounded
<1>2. \A x, y \in Nat : x < y => <<x, y>> \in R
  BY DEF OpToRel
<1> HIDE DEF R
<1>3. PICK x \in T : \A y \in T : ~(<<y, x>> \in R)
  BY <1>1, WFMin
<1>4. ASSUME NEW y \in T PROVE x <= y
  <2>1. x \in Nat /\ y \in Nat /\ ~(y < x)
    BY <1>2, <1>3
  <2> QED
    BY <2>1
<1> QED
  BY <1>4

\* Min, as FiniteSetsExt defines it, is that element.
LEMMA MinOfNaturals ==
    ASSUME NEW T, T \subseteq Nat, T # {}
    PROVE  Min(T) \in T /\ \A y \in T : Min(T) <= y
BY LeastNatural DEF Min

\* The greater of two numbers.
LEMMA MaxOfTwo ==
    ASSUME NEW a \in Int, NEW b \in Int
    PROVE  Max({a, b}) \in {a, b} /\ a <= Max({a, b}) /\ b <= Max({a, b})
<1> DEFINE S == {a, b}
<1>1. \E x \in S : \A y \in S : x >= y
  <2>1. CASE a >= b
    BY <2>1
  <2>2. CASE b >= a
    BY <2>2
  <2> QED
    BY <2>1, <2>2
<1>2. Max(S) \in S /\ \A y \in S : Max(S) >= y
  <2> HIDE DEF S
  <2> QED
    BY <1>1 DEF Max
<1>3. Max(S) \in Int
  BY <1>2
<1> QED
  BY <1>2, <1>3

\* A set of naturals with an upper bound has a greatest element, which is Max.
LEMMA MaxOfBounded ==
    ASSUME NEW n \in Nat, NEW T, T \subseteq 0..n, T # {}
    PROVE  Max(T) \in T /\ \A y \in T : y <= Max(T)
<1> DEFINE U == {k \in Nat : \A y \in T : y <= k}
<1>1. PICK k \in U : \A l \in U : k <= l
  <2>1. n \in U
    OBVIOUS
  <2> QED
    BY <2>1, LeastNatural
<1>2. k \in T
  <2> SUFFICES ASSUME k \notin T PROVE FALSE
    OBVIOUS
  <2>1. PICK y \in T : TRUE
    OBVIOUS
  <2>2. k - 1 \in U
    BY <2>1
  <2> QED
    BY <1>1, <2>2
<1> QED
  BY <1>1, <1>2 DEF Max

\* Induction up to n, the hypothesis being a set of numbers.
LEMMA SetInduction ==
    ASSUME NEW n \in Nat, NEW S, 0 \in S, \A i \in 1..n : i - 1 \in S => i \in S
    PROVE  0..n \subseteq S
<1> DEFINE T == (0..n) \ S
<1> SUFFICES ASSUME T # {} PROVE FALSE
  OBVIOUS
<1>1. PICK x \in T : \A y \in T : x <= y
  <2>1. T \subseteq Nat
    OBVIOUS
  <2> HIDE DEF T
  <2> QED
    BY <2>1, LeastNatural
<1>2. x \in 1..n
  BY <1>1
<1>3. x - 1 \notin T
  BY <1>1, <1>2
<1>4. x - 1 \in S
  BY <1>2, <1>3
<1> QED
  BY <1>2, <1>4
----------------------------------------------------------------------------
(* Folds *)

\* The equation by which FoldLeft is defined: base, and then op of what the
\* positions before the last one give and the last element.
IsFold(it, base, seq, op) ==
    it = [s \in SUBSET DOMAIN seq |->
            IF s = {} THEN base ELSE op[it[s \ {Max(s)}]][seq[Max(s)]]]

\* It has a solution.
LEMMA FoldExists ==
    ASSUME NEW A, NEW B, NEW base \in A, NEW seq \in Seq(B), NEW op \in [A -> [B -> A]]
    PROVE  \E it \in [SUBSET DOMAIN seq -> A] : IsFold(it, base, seq, op)
<1> DEFINE N == Len(seq)
           G(n, g) == /\ g \in [SUBSET (1..n) -> A]
                      /\ \A s \in SUBSET (1..n) :
                           g[s] = IF s = {} THEN base ELSE op[g[s \ {Max(s)}]][seq[Max(s)]]
           Bad == {n \in 0..N : ~\E g : G(n, g)}
<1>0. N \in Nat /\ DOMAIN seq = 1..N
  OBVIOUS
<1>1. Bad = {}
  <2> SUFFICES ASSUME Bad # {} PROVE FALSE
    OBVIOUS
  <2>0. Bad \subseteq 0..N /\ Bad \subseteq Nat
    BY <1>0
  <2>1. PICK n \in Bad : \A m \in Bad : n <= m
    <3> HIDE DEF Bad
    <3> QED
      BY <2>0, LeastNatural
  <2>2. CASE n = 0
    <3> DEFINE g == [s \in SUBSET (1..0) |-> base]
    <3>1. G(0, g)
      OBVIOUS
    <3> QED
      BY <2>2, <3>1
  <2>3. CASE n # 0
    <3>1. n - 1 \in 0..N /\ n - 1 \notin Bad /\ n \in 1..N
      <4> HIDE DEF Bad
      <4>1. n \in 1..N
        BY <1>0, <2>0, <2>1, <2>3
      <4> QED
        BY <1>0, <2>1, <4>1
    <3>2. PICK g : G(n - 1, g)
      BY <3>1
    <3> HIDE DEF Bad
    <3> DEFINE h == [s \in SUBSET (1..n) |->
                       IF n \in s THEN op[g[s \ {n}]][seq[n]] ELSE g[s]]
    <3>3. ASSUME NEW s \in SUBSET (1..n)
          PROVE  /\ s \ {n} \in SUBSET (1..(n - 1))
                 /\ n \notin s => s \in SUBSET (1..(n - 1))
                 /\ n \in s => Max(s) = n
      <4>0. n \in Nat /\ s \subseteq 1..n
        BY <1>0, <3>1
      <4>1. ASSUME n \in s PROVE Max(s) = n
        <5>1. s \subseteq 0..n /\ s # {}
          BY <4>0, <4>1
        <5>2. Max(s) \in s /\ \A y \in s : y <= Max(s)
          BY <4>0, <5>1, MaxOfBounded
        <5>3. Max(s) \in 1..n /\ n <= Max(s)
          BY <4>0, <4>1, <5>2
        <5> QED
          BY <4>0, <5>3
      <4>2. \A y \in s : y # n => y \in 1..(n - 1)
        BY <4>0
      <4> QED
        BY <4>1, <4>2
    <3>4. h \in [SUBSET (1..n) -> A]
      BY <3>1, <3>2, <3>3
    <3>5. ASSUME NEW s \in SUBSET (1..n)
          PROVE  h[s] = IF s = {} THEN base ELSE op[h[s \ {Max(s)}]][seq[Max(s)]]
      <4>1. CASE n \in s
        BY <3>3, <4>1
      <4>2. CASE n \notin s
        <5>1. s \in SUBSET (1..(n - 1)) /\ h[s] = g[s]
          BY <3>3, <4>2
        <5>2. g[s] = IF s = {} THEN base ELSE op[g[s \ {Max(s)}]][seq[Max(s)]]
          BY <3>2, <5>1
        <5>3. s \ {Max(s)} \in SUBSET (1..n) /\ n \notin s \ {Max(s)}
          BY <4>2
        <5> QED
          BY <5>1, <5>2, <5>3
      <4> QED
        BY <4>1, <4>2
    <3>6. G(n, h)
      BY <3>4, <3>5
    <3> HIDE DEF G
    <3> QED
      BY <2>1, <3>6 DEF Bad
  <2> QED
    BY <2>2, <2>3
<1>2. PICK g : G(N, g)
  <2>1. N \in 0..N
    BY <1>0
  <2> HIDE DEF G, N
  <2> QED
    BY <1>1, <2>1
<1>3. IsFold(g, base, seq, op)
  <2> HIDE DEF N
  <2> QED
    BY <1>0, <1>2 DEF IsFold
<1> QED
  BY <1>0, <1>2, <1>3

\* The prefixes of a sequence, as the sets of positions a fold goes through.
LEMMA PrefixSets ==
    ASSUME NEW n \in Nat, NEW i \in 1..n
    PROVE  Max(1..i) = i /\ (1..i) \ {i} = 1..(i - 1)
           /\ i \in 1..i /\ 1..i \in SUBSET (1..n)
           /\ 1..(i - 1) \in SUBSET (1..n)
<1>1. i \in Nat /\ 1..i \subseteq 0..i /\ i \in 1..i
  OBVIOUS
<1>2. Max(1..i) \in 1..i /\ i <= Max(1..i)
  BY <1>1, MaxOfBounded
<1>3. Max(1..i) = i
  BY <1>1, <1>2
<1>4. (1..i) \ {i} = 1..(i - 1)
  OBVIOUS
<1>5. (1..i) \in SUBSET (1..n) /\ 1..(i - 1) \in SUBSET (1..n)
  OBVIOUS
<1> QED
  BY <1>1, <1>3, <1>4, <1>5
----------------------------------------------------------------------------
(* Sorting *)

\* Where an element belongs among sorted ones.
LEMMA InsertionPoint ==
    ASSUME NEW l \in Nat, NEW h \in [1..l -> Int], NEW v \in Int,
           \A i, k \in 1..l : i < k => h[i] <= h[k]
    PROVE  \E c \in 1..(l + 1) : /\ \A i \in 1..l : i < c => h[i] <= v
                                 /\ \A i \in 1..l : c <= i => v < h[i]
<1> DEFINE U == {i \in 1..l : v < h[i]}
<1>1. CASE U = {}
  <2>1. \A i \in 1..l : h[i] <= v
    BY <1>1
  <2>2. l + 1 \in 1..(l + 1) /\ \A i \in 1..l : ~(l + 1 <= i)
    OBVIOUS
  <2> QED
    BY <2>1, <2>2
<1>2. CASE U # {}
  <2>1. PICK c \in U : \A i \in U : c <= i
    <3>1. U \subseteq Nat
      OBVIOUS
    <3> HIDE DEF U
    <3> QED
      BY <1>2, <3>1, LeastNatural
  <2>2. c \in 1..l /\ v < h[c]
    OBVIOUS
  <2>3. ASSUME NEW i \in 1..l, i < c PROVE h[i] <= v
    BY <2>1, <2>2, <2>3
  <2>4. ASSUME NEW i \in 1..l, c <= i PROVE v < h[i]
    <3>1. c = i \/ c < i
      BY <2>2, <2>4
    <3>2. h[c] \in Int /\ h[i] \in Int
      BY <2>2
    <3> QED
      BY <2>2, <3>1, <3>2
  <2>5. c \in 1..(l + 1)
    BY <2>2
  <2> QED
    BY <2>3, <2>4, <2>5
<1> QED
  BY <1>1, <1>2

\* One more element is sorted in.
LEMMA Insertion ==
    ASSUME NEW l \in Nat, NEW key \in [1..(l + 1) -> Int], NEW p \in [1..l -> 1..l],
           \A i, k \in 1..l : p[i] = p[k] => i = k,
           \A t \in 1..l : \E i \in 1..l : p[i] = t,
           \A i, k \in 1..l : i < k => key[p[i]] <= key[p[k]]
    PROVE  \E q \in [1..(l + 1) -> 1..(l + 1)] :
              /\ \A i, k \in 1..(l + 1) : q[i] = q[k] => i = k
              /\ \A t \in 1..(l + 1) : \E i \in 1..(l + 1) : q[i] = t
              /\ \A i, k \in 1..(l + 1) : i < k => key[q[i]] <= key[q[k]]
<1> DEFINE m == l + 1
           h == [i \in 1..l |-> key[p[i]]]
<1>0. m \in Nat /\ m \in 1..m /\ \A i \in 1..l : i \in 1..m
  OBVIOUS
<1>1. key[m] \in Int /\ h \in [1..l -> Int]
  BY <1>0
<1>2. PICK c \in 1..m : /\ \A i \in 1..l : i < c => h[i] <= key[m]
                        /\ \A i \in 1..l : c <= i => key[m] < h[i]
  <2>1. \A i, k \in 1..l : i < k => h[i] <= h[k]
    OBVIOUS
  <2> HIDE DEF h
  <2> QED
    BY <1>1, <2>1, InsertionPoint
<1> DEFINE q == [i \in 1..m |-> IF i < c THEN p[i] ELSE IF i = c THEN m ELSE p[i - 1]]
<1>3. /\ \A i \in 1..m : i < c => i \in 1..l /\ q[i] = p[i]
      /\ q[c] = m
      /\ \A i \in 1..m : c < i => i - 1 \in 1..l /\ q[i] = p[i - 1]
  OBVIOUS
<1>4. ASSUME NEW i \in 1..l
      PROVE  /\ p[i] \in 1..l /\ p[i] # m /\ h[i] = key[p[i]] /\ h[i] \in Int
  OBVIOUS
<1>5. ASSUME NEW i \in 1..m PROVE q[i] \in 1..m
  <2>1. i < c \/ i = c \/ c < i
    OBVIOUS
  <2>2. CASE i < c
    BY <1>0, <1>3, <1>4, <2>2
  <2>3. CASE i = c
    BY <1>0, <1>3, <2>3
  <2>4. CASE c < i
    BY <1>0, <1>3, <1>4, <2>4
  <2> QED
    BY <2>1, <2>2, <2>3, <2>4
<1>6. q \in [1..m -> 1..m]
  BY <1>5
<1> HIDE DEF q
<1>7. ASSUME NEW i \in 1..m, NEW k \in 1..m, i < k
      PROVE  q[i] # q[k] /\ key[q[i]] <= key[q[k]]
  <2>1. CASE k < c
    <3>1. q[i] = p[i] /\ q[k] = p[k] /\ i \in 1..l /\ k \in 1..l
      <4>1. i < c
        BY <1>7, <2>1
      <4> QED
        BY <1>3, <2>1, <4>1
    <3>2. p[i] # p[k]
      <4>1. i # k
        BY <1>7
      <4> QED
        BY <3>1, <4>1, Zenon
    <3>3. key[p[i]] <= key[p[k]]
      BY <1>7, <3>1, Zenon
    <3> QED
      BY <3>1, <3>2, <3>3, Zenon
  <2>2. CASE k = c
    <3>1. q[i] = p[i] /\ q[k] = m /\ i \in 1..l /\ h[i] <= key[m]
      BY <1>2, <1>3, <1>7, <2>2
    <3> QED
      BY <1>4, <3>1
  <2>3. CASE c < k /\ i < c
    <3>1. q[i] = p[i] /\ q[k] = p[k - 1] /\ i \in 1..l /\ k - 1 \in 1..l
      BY <1>3, <2>3
    <3>2. i < k - 1 /\ i # k - 1
      BY <2>3
    <3>3. p[i] # p[k - 1]
      BY <3>1, <3>2, Zenon
    <3>4. key[p[i]] <= key[p[k - 1]]
      BY <3>1, <3>2, Zenon
    <3> QED
      BY <3>1, <3>3, <3>4, Zenon
  <2>4. CASE c < k /\ i = c
    <3>1. q[i] = m /\ q[k] = p[k - 1] /\ k - 1 \in 1..l
      BY <1>3, <2>4
    <3>2. key[m] < h[k - 1]
      <4>1. c <= k - 1
        BY <2>4
      <4> HIDE DEF h
      <4> QED
        BY <1>2, <3>1, <4>1
    <3>3. /\ p[k - 1] # m /\ h[k - 1] = key[p[k - 1]] /\ h[k - 1] \in Int
      BY <1>4, <3>1
    <3> HIDE DEF h
    <3>4. key[m] <= key[p[k - 1]]
      BY <1>1, <3>2, <3>3
    <3> QED
      BY <3>1, <3>3, <3>4, Zenon
  <2>5. CASE c < k /\ c < i
    <3>1. q[i] = p[i - 1] /\ q[k] = p[k - 1] /\ i - 1 \in 1..l /\ k - 1 \in 1..l
      BY <1>3, <2>5
    <3>2. i - 1 < k - 1 /\ i - 1 # k - 1
      BY <1>7
    <3> QED
      BY <3>1, <3>2
  <2> QED
    BY <1>7, <2>1, <2>2, <2>3, <2>4, <2>5
<1>8. ASSUME NEW t \in 1..m PROVE \E i \in 1..m : q[i] = t
  <2>1. CASE t = m
    BY <1>2, <1>3, <2>1
  <2>2. CASE t # m
    <3>1. PICK i \in 1..l : p[i] = t
      BY <2>2
    <3>2. CASE i < c
      BY <1>0, <1>3, <3>1, <3>2
    <3>3. CASE c <= i
      <4>1. i + 1 \in 1..m /\ c < i + 1 /\ (i + 1) - 1 = i
        BY <3>3
      <4>2. q[i + 1] = t
        BY <1>3, <3>1, <4>1
      <4> QED
        BY <4>1, <4>2, Zenon
    <3> QED
      BY <3>2, <3>3
  <2> QED
    BY <2>1, <2>2
<1>9. \A i, k \in 1..m : q[i] = q[k] => i = k
  <2>1. \A i, k \in 1..m : i # k => i < k \/ k < i
    OBVIOUS
  <2> QED
    BY <1>7, <2>1
<1> QED
  BY <1>6, <1>7, <1>8, <1>9

\* Every sequence of integers, or of anything by an integer key, can be sorted.
LEMMA SortExists ==
    ASSUME NEW n \in Nat, NEW key \in [1..n -> Int]
    PROVE  \E p \in Bijection(1..n, 1..n) :
             \A i, k \in 1..n : i < k => key[p[i]] <= key[p[k]]
<1> DEFINE Sorts(l, p) == /\ p \in [1..l -> 1..l]
                          /\ \A i, k \in 1..l : p[i] = p[k] => i = k
                          /\ \A t \in 1..l : \E i \in 1..l : p[i] = t
                          /\ \A i, k \in 1..l : i < k => key[p[i]] <= key[p[k]]
           S == {l \in 0..n : \E p : Sorts(l, p)}
<1>1. 0 \in S
  <2> DEFINE p == [i \in 1..0 |-> i]
  <2>1. Sorts(0, p)
    OBVIOUS
  <2> HIDE DEF Sorts
  <2> QED
    BY <2>1
<1>2. ASSUME NEW m \in 1..n, m - 1 \in S PROVE m \in S
  <2>1. PICK p : Sorts(m - 1, p)
    BY <1>2
  <2> DEFINE l == m - 1
             short == [i \in 1..(l + 1) |-> key[i]]
  <2>2. l \in Nat /\ l + 1 = m /\ m \in 0..n
    OBVIOUS
  <2> HIDE DEF l
  <2>3. short \in [1..(l + 1) -> Int] /\ \A i \in 1..(l + 1) : short[i] = key[i]
    BY <2>2
  <2>4. \A i \in 1..l : i \in 1..(l + 1)
    BY <2>2
  <2> HIDE DEF short
  <2>5. /\ p \in [1..l -> 1..l]
        /\ \A i, k \in 1..l : p[i] = p[k] => i = k
        /\ \A t \in 1..l : \E i \in 1..l : p[i] = t
        /\ \A i, k \in 1..l : i < k => short[p[i]] <= short[p[k]]
    BY <2>1, <2>3, <2>4 DEF l
  <2>6. PICK q \in [1..(l + 1) -> 1..(l + 1)] :
              /\ \A i, k \in 1..(l + 1) : q[i] = q[k] => i = k
              /\ \A t \in 1..(l + 1) : \E i \in 1..(l + 1) : q[i] = t
              /\ \A i, k \in 1..(l + 1) : i < k => short[q[i]] <= short[q[k]]
    <3> HIDE DEF Sorts, S
    <3> QED
      BY <2>2, <2>3, <2>5, Insertion
  <2>7. Sorts(l + 1, q)
    BY <2>3, <2>6
  <2> HIDE DEF Sorts
  <2> QED
    BY <2>2, <2>7
<1>3. n \in S
  <2> HIDE DEF S
  <2>1. 0..n \subseteq S
    BY <1>1, <1>2, SetInduction
  <2> QED
    BY <2>1
<1>4. PICK p : Sorts(n, p)
  BY <1>3
<1> QED
  BY <1>4 DEF Bijection, Injection, Surjection, IsInjective

\* Among finitely many integers there is a greatest one, and Max finds it.
LEMMA GreatestOf ==
    ASSUME NEW n \in Nat \ {0}, NEW h \in [1..n -> Int]
    PROVE  LET values == {h[i] : i \in 1..n}
           IN Max(values) \in values /\ \A v \in values : v <= Max(values)
<1> DEFINE values == {h[i] : i \in 1..n}
<1>1. PICK p \in Bijection(1..n, 1..n) : \A i, k \in 1..n : i < k => h[p[i]] <= h[p[k]]
  BY SortExists
<1>2. p \in [1..n -> 1..n] /\ \A t \in 1..n : \E i \in 1..n : p[i] = t
  BY <1>1 DEF Bijection, Injection, Surjection
<1>3. n \in 1..n /\ p[n] \in 1..n
  BY <1>2
<1>4. ASSUME NEW t \in 1..n PROVE h[t] <= h[p[n]]
  <2>1. PICK i \in 1..n : p[i] = t
    BY <1>2
  <2>2. CASE i = n
    <3>1. h[t] \in Int
      OBVIOUS
    <3> QED
      BY <2>1, <2>2, <3>1
  <2>3. CASE i # n
    <3>1. i < n
      BY <2>3
    <3>2. h[p[i]] <= h[p[n]]
      BY <1>1, <1>3, <3>1, Zenon
    <3> QED
      BY <2>1, <3>2, Zenon
  <2> QED
    BY <2>2, <2>3
<1>5. h[p[n]] \in values /\ \A v \in values : v <= h[p[n]]
  BY <1>3, <1>4
<1>6. \E x \in values : \A y \in values : x >= y
  <2>1. \A v \in values : v \in Int
    OBVIOUS
  <2> HIDE DEF values
  <2>2. \A v \in values : h[p[n]] >= v
    BY <1>5, <2>1
  <2> QED
    BY <1>5, <2>2
<1>7. Max(values) \in values /\ \A v \in values : Max(values) >= v
  <2> HIDE DEF values
  <2> QED
    BY <1>6 DEF Max
<1>8. \A v \in values : v \in Int
  OBVIOUS
<1>9. \A v \in values : v <= Max(values)
  <2> HIDE DEF values
  <2> QED
    BY <1>7, <1>8
<1> QED
  BY <1>7, <1>9

\* A finite set can be listed in the order of any number its elements have.
LEMMA Listed ==
    ASSUME NEW U, IsFiniteSet(U), NEW n, n = Cardinality(U), NEW key \in [U -> Int]
    PROVE  \E p \in Bijection(1..n, U) : \A i, k \in 1..n : i < k => key[p[i]] <= key[p[k]]
<1>1. PICK m \in Nat : ExistsBijection(1..m, U)
  BY FS_NatBijection
<1>2. m = n
  BY <1>1, FS_CountingElements
<1>3. PICK g : g \in Bijection(1..n, U)
  BY <1>1, <1>2 DEF ExistsBijection
<1>4. /\ n \in Nat /\ g \in [1..n -> U]
      /\ \A u \in U : \E i \in 1..n : g[i] = u
      /\ \A i, k \in 1..n : g[i] = g[k] => i = k
  BY <1>1, <1>2, <1>3 DEF Bijection, Injection, Surjection, IsInjective
<1> DEFINE value == [i \in 1..n |-> key[g[i]]]
<1>5. value \in [1..n -> Int]
  BY <1>4
<1> HIDE DEF value
<1>6. PICK s \in Bijection(1..n, 1..n) : \A i, k \in 1..n : i < k => value[s[i]] <= value[s[k]]
  <2>1. n \in Nat
    BY <1>4
  <2>2. \E s \in Bijection(1..n, 1..n) :
          \A i, k \in 1..n : i < k => value[s[i]] <= value[s[k]]
    BY <1>5, <2>1, SortExists, Zenon
  <2> QED
    BY <2>2, Zenon
<1>7. /\ s \in [1..n -> 1..n]
      /\ \A t \in 1..n : \E i \in 1..n : s[i] = t
      /\ \A i, k \in 1..n : s[i] = s[k] => i = k
  BY <1>6 DEF Bijection, Injection, Surjection, IsInjective
<1> DEFINE p == [i \in 1..n |-> g[s[i]]]
<1>8. p \in [1..n -> U] /\ \A i \in 1..n : p[i] = g[s[i]] /\ value[s[i]] = key[p[i]]
  BY <1>4, <1>7 DEF value
<1> HIDE DEF p
<1>9. \A u \in U : \E i \in 1..n : p[i] = u
  <2> TAKE u \in U
  <2>1. PICK t \in 1..n : g[t] = u
    BY <1>4
  <2>2. PICK i \in 1..n : s[i] = t
    BY <1>7
  <2> QED
    BY <1>8, <2>1, <2>2
<1>10. \A i, k \in 1..n : p[i] = p[k] => i = k
  <2> SUFFICES ASSUME NEW i \in 1..n, NEW k \in 1..n, p[i] = p[k] PROVE i = k
    OBVIOUS
  <2>1. g[s[i]] = g[s[k]] /\ s[i] \in 1..n /\ s[k] \in 1..n
    BY <1>7, <1>8
  <2>2. s[i] = s[k]
    BY <1>4, <2>1
  <2> QED
    BY <1>7, <2>2
<1>11. p \in Bijection(1..n, U)
  BY <1>8, <1>9, <1>10 DEF Bijection, Injection, Surjection, IsInjective
<1>12. \A i, k \in 1..n : i < k => key[p[i]] <= key[p[k]]
  BY <1>6, <1>8
<1> QED
  BY <1>11, <1>12

\* R says of some elements of U that one precedes the other.
Precedence(R, U) ==
    /\ \A x \in U : <<x, x>> \notin R
    /\ \A x, y, z \in U : <<x, y>> \in R /\ <<y, z>> \in R => <<x, z>> \in R

\* A finite set can be listed so that nothing comes after what it precedes.
LEMMA Ranked ==
    ASSUME NEW U, IsFiniteSet(U), NEW n, n = Cardinality(U), NEW R, Precedence(R, U)
    PROVE  \E p \in Bijection(1..n, U) : \A i, k \in 1..n : i < k => <<p[k], p[i]>> \notin R
<1> DEFINE Above(x) == {y \in U : <<y, x>> \in R}
           key == [x \in U |-> Cardinality(Above(x))]
<1>1. ASSUME NEW x \in U PROVE IsFiniteSet(Above(x)) /\ Cardinality(Above(x)) \in Nat
  <2>1. Above(x) \in SUBSET U
    OBVIOUS
  <2> HIDE DEF Above
  <2>2. IsFiniteSet(Above(x))
    BY <2>1, FS_Subset
  <2> QED
    BY <2>2, FS_CardinalityType
<1>2. ASSUME NEW x \in U, NEW y \in U, <<x, y>> \in R
      PROVE  Cardinality(Above(x)) < Cardinality(Above(y))
  <2>1. Above(x) \in SUBSET Above(y) /\ x \in Above(y) /\ x \notin Above(x)
    BY <1>2 DEF Precedence
  <2>2. Above(y) # Above(x)
    BY <2>1
  <2>3. IsFiniteSet(Above(y)) /\ Cardinality(Above(y)) \in Nat /\ Cardinality(Above(x)) \in Nat
    BY <1>1
  <2> HIDE DEF Above
  <2>4. /\ Cardinality(Above(x)) <= Cardinality(Above(y))
        /\ Cardinality(Above(y)) # Cardinality(Above(x))
    BY <2>1, <2>2, <2>3, FS_Subset
  <2> QED
    BY <2>3, <2>4
<1>3. key \in [U -> Int] /\ \A x \in U : key[x] = Cardinality(Above(x))
  BY <1>1
<1> HIDE DEF key, Above
<1>4. PICK p \in Bijection(1..n, U) : \A i, k \in 1..n : i < k => key[p[i]] <= key[p[k]]
  BY <1>3, Listed
<1>5. \A i \in 1..n : p[i] \in U
  BY <1>4 DEF Bijection, Injection
<1>6. ASSUME NEW i \in 1..n, NEW k \in 1..n, i < k PROVE <<p[k], p[i]>> \notin R
  <2>1. p[i] \in U /\ p[k] \in U /\ key[p[i]] <= key[p[k]]
    BY <1>4, <1>5, <1>6
  <2>2. key[p[i]] \in Int /\ key[p[k]] \in Int
    BY <1>3, <2>1
  <2>3. <<p[k], p[i]>> \in R => key[p[k]] < key[p[i]]
    BY <1>2, <1>3, <2>1
  <2> QED
    BY <2>1, <2>2, <2>3
<1> QED
  BY <1>4, <1>6
==============================================================================
