---------------------------- MODULE TreeTheorems ----------------------------
(***************************************************************************)
(* Facts about sums and about the ticket tree (Fenwick), for every         *)
(* number of participants: what the loops of bit_add and bit_sub visit,    *)
(* and which index bit_find_prefix returns.                                *)
(*                                                                         *)
(* Induction is done by looking at a least counterexample, because that a  *)
(* set of naturals has a least element is a first-order fact               *)
(* (LeastElement).  A recursive definition is first shown to have a        *)
(* solution (RecursionExists).                                             *)
(***************************************************************************)
EXTENDS Fenwick, WellFoundedInduction, TLAPS

\* A leaf that names no prover is given to SMT, for so many seconds at most.
USE SMTT(60)

\* s is the function of prefix sums of g.
IsPrefixSums(s, n, g) ==
    /\ s \in [0..n -> Int]
    /\ s[0] = 0
    /\ \A i \in 1..n : s[i] = s[i-1] + g[i]

\* A nonempty set of naturals has a least element: the principle behind every
\* induction below.
LEMMA LeastElement ==
    ASSUME NEW T, T \subseteq Nat, T # {}
    PROVE  \E m \in T : \A k \in T : m <= k
PROOF
<1> DEFINE R == OpToRel(<, Nat)
<1>1. IsWellFoundedOn(R, Nat)
  BY NatLessThanWellFounded, Zenon
<1>2. \A x, y \in Nat : <<x, y>> \in R <=> x < y
  BY DEF OpToRel
<1> HIDE DEF R
<1>3. PICK m \in T : \A y \in T : ~(<<y, m>> \in R)
  BY <1>1, WFMin, Zenon
<1>4. \A k \in T : m <= k
  <2>1. TAKE k \in T
  <2>2. k \in Nat /\ m \in Nat
    OBVIOUS
  <2>3. ~(<<k, m>> \in R)
    BY <1>3
  <2>4. <<k, m>> \in R <=> k < m
    BY <1>2, <2>2
  <2>5. QED
    BY <2>2, <2>3, <2>4
<1>5. QED
  BY <1>4

\* There are prefix sums of every function on 1..n: extend those up to m by one.
LEMMA PrefixSumsExist ==
    ASSUME NEW n \in Nat, NEW g \in [1..n -> Int]
    PROVE  \E s : IsPrefixSums(s, n, g)
PROOF
<1> DEFINE Missing == {m \in 0..n : ~ \E s : IsPrefixSums(s, m, g)}
<1>1. ASSUME Missing # {}
      PROVE  FALSE
  <2>1. Missing \subseteq Nat
    OBVIOUS
  <2>2. PICK m \in Missing : \A k \in Missing : m <= k
    BY <1>1, <2>1, LeastElement, Zenon
  <2>3. m # 0
    <3> DEFINE z == [i \in 0..0 |-> 0]
    <3>1. IsPrefixSums(z, 0, g)
      BY DEF IsPrefixSums
    <3>2. QED
      BY <2>2, <3>1
  <2>4. PICK s : IsPrefixSums(s, m-1, g)
    <3>1. m - 1 \in 0..n /\ ~(m <= m - 1)
      BY <2>3
    <3>2. QED
      BY <2>2, <3>1, Zenon
  <2> DEFINE t == [i \in 0..m |-> IF i = m THEN s[m-1] + g[m] ELSE s[i]]
  <2>5. t \in [0..m -> Int]
    BY <2>3, <2>4 DEF IsPrefixSums
  <2>6. t[0] = 0
    BY <2>3, <2>4 DEF IsPrefixSums
  <2>7. \A i \in 1..m : t[i] = t[i-1] + g[i]
    <3>1. TAKE i \in 1..m
    <3>2. CASE i = m
      <4>1. t[m] = s[m-1] + g[m] /\ t[m-1] = s[m-1]
        BY <2>3
      <4>2. QED
        BY <3>2, <4>1
    <3>3. CASE i # m
      <4>1. t[i] = s[i] /\ t[i-1] = s[i-1]
        BY <3>3
      <4>2. s[i] = s[i-1] + g[i]
        BY <2>3, <2>4, <3>3 DEF IsPrefixSums
      <4>3. QED
        BY <4>1, <4>2
    <3>4. QED
      BY <3>2, <3>3
  <2>8. IsPrefixSums(t, m, g)
    BY <2>5, <2>6, <2>7, Zenon DEF IsPrefixSums
  <2>9. QED
    BY <2>2, <2>8
<1>2. Missing = {}
  <2> HIDE DEF Missing
  <2>1. QED
    BY <1>1
<1>3. n \in 0..n
  OBVIOUS
<1>4. QED
  BY <1>2, <1>3, Zenon

\* PrefixSums is the only function of prefix sums: at a least index where another one
\* differed, the two would agree one before and add the same value.
LEMMA PrefixSumsUnique ==
    ASSUME NEW n \in Nat, NEW g \in [1..n -> Int], NEW s, IsPrefixSums(s, n, g)
    PROVE  PrefixSums(n, g) = s
PROOF
<1> DEFINE F(h) == [i \in 0..n |-> IF i = 0 THEN 0 ELSE h[i-1] + g[i]]
           p == CHOOSE h : h = F(h)
<1>1. s = F(s)
  BY DEF IsPrefixSums
<1>2. p = F(p)
  BY <1>1, Zenon
<1>3. PrefixSums(n, g) = p
  BY DEF PrefixSums
<1> HIDE DEF p
<1>4. ASSUME p # s
      PROVE  FALSE
  <2> DEFINE Differ == {i \in 0..n : p[i] # s[i]}
  <2>1. Differ # {}
    <3>1. p = [i \in 0..n |-> p[i]]
      BY <1>2, Zenon
    <3>2. s = [i \in 0..n |-> s[i]]
      BY <1>1, Zenon
    <3>3. QED
      BY <1>4, <3>1, <3>2, Zenon
  <2>2. PICK m \in Differ : \A k \in Differ : m <= k
    <3>1. Differ \subseteq Nat
      OBVIOUS
    <3>2. QED
      BY <2>1, <3>1, LeastElement, Zenon
  <2>3. m # 0
    BY <1>1, <1>2
  <2>4. m - 1 \in 0..n /\ m - 1 \notin Differ
    BY <2>2, <2>3
  <2>5. p[m] = p[m-1] + g[m]
    BY <1>2, <2>3
  <2>6. s[m] = s[m-1] + g[m]
    BY <2>3 DEF IsPrefixSums
  <2>7. QED
    BY <2>4, <2>5, <2>6
<1>5. QED
  BY <1>3, <1>4

\* The recursion that defines PrefixSums holds.
LEMMA PrefixSumsDef ==
    ASSUME NEW n \in Nat, NEW g \in [1..n -> Int]
    PROVE  IsPrefixSums(PrefixSums(n, g), n, g)
PROOF
<1>1. PICK s : IsPrefixSums(s, n, g)
  BY PrefixSumsExist
<1>2. PrefixSums(n, g) = s
  BY <1>1, PrefixSumsUnique
<1>3. QED
  BY <1>1, <1>2

\* A sum of integers is an integer.
LEMMA SumType ==
    ASSUME NEW n \in Nat, NEW g \in [1..n -> Int]
    PROVE  Sum(n, g) \in Int
PROOF
BY PrefixSumsDef DEF Sum, IsPrefixSums

\* A sum of zeros is zero.
LEMMA SumZero ==
    ASSUME NEW n \in Nat, NEW g \in [1..n -> Int], \A i \in 1..n : g[i] = 0
    PROVE  Sum(n, g) = 0
PROOF
<1> DEFINE z == [i \in 0..n |-> 0]
<1>1. IsPrefixSums(z, n, g)
  BY DEF IsPrefixSums
<1>2. PrefixSums(n, g) = z
  BY <1>1, PrefixSumsUnique
<1>3. QED
  BY <1>2 DEF Sum

\* Changing one value changes the prefix sums from there on by the difference.
LEMMA PrefixSumsUpdate ==
    ASSUME NEW n \in Nat, NEW g \in [1..n -> Int], NEW h \in [1..n -> Int],
           NEW u \in 1..n, \A i \in 1..n : i # u => h[i] = g[i]
    PROVE  \A i \in 0..n : PrefixSums(n, h)[i] =
               IF i < u THEN PrefixSums(n, g)[i] ELSE PrefixSums(n, g)[i] - g[u] + h[u]
PROOF
<1> DEFINE s == PrefixSums(n, g)
           t == [i \in 0..n |-> IF i < u THEN s[i] ELSE s[i] - g[u] + h[u]]
<1>1. IsPrefixSums(s, n, g)
  BY PrefixSumsDef
<1> HIDE DEF s
<1>2. t \in [0..n -> Int]
  <2>1. \A i \in 0..n : s[i] \in Int
    BY <1>1 DEF IsPrefixSums
  <2>2. g[u] \in Int /\ h[u] \in Int
    OBVIOUS
  <2>3. \A i \in 0..n : (IF i < u THEN s[i] ELSE s[i] - g[u] + h[u]) \in Int
    BY <2>1, <2>2
  <2>4. QED
    BY <2>3
<1>3. t[0] = 0
  BY <1>1 DEF IsPrefixSums
<1>4. \A i \in 1..n : t[i] = t[i-1] + h[i]
  <2>1. TAKE i \in 1..n
  <2>2. s[i] = s[i-1] + g[i] /\ s[i] \in Int /\ s[i-1] \in Int /\ g[i] \in Int
          /\ g[u] \in Int /\ h[u] \in Int
    <3>1. i \in 0..n /\ i-1 \in 0..n
      OBVIOUS
    <3>2. s[i] \in Int /\ s[i-1] \in Int
      BY <1>1, <3>1 DEF IsPrefixSums
    <3>3. s[i] = s[i-1] + g[i]
      BY <1>1 DEF IsPrefixSums
    <3>4. QED
      BY <3>2, <3>3
  <2>3. CASE i < u
    BY <2>2, <2>3
  <2>4. CASE i = u
    BY <2>2, <2>4
  <2>5. CASE i > u
    <3>1. t[i] = s[i] - g[u] + h[u] /\ t[i-1] = s[i-1] - g[u] + h[u]
      BY <2>5
    <3>2. h[i] = g[i]
      BY <2>5
    <3> HIDE DEF t
    <3>3. QED
      BY <2>2, <3>1, <3>2
  <2>6. QED
    BY <2>3, <2>4, <2>5
<1>5. PrefixSums(n, h) = t
  <2>1. IsPrefixSums(t, n, h)
    BY <1>2, <1>3, <1>4, Zenon DEF IsPrefixSums
  <2> HIDE DEF t
  <2>2. QED
    BY <2>1, PrefixSumsUnique
<1>6. QED
  BY <1>5 DEF s

\* Changing one value changes the sum by the difference.
LEMMA SumUpdate ==
    ASSUME NEW n \in Nat, NEW g \in [1..n -> Int], NEW h \in [1..n -> Int],
           NEW u \in 1..n, \A i \in 1..n : i # u => h[i] = g[i]
    PROVE  Sum(n, h) = Sum(n, g) - g[u] + h[u]
PROOF
<1>1. n \in 0..n /\ ~(n < u)
  OBVIOUS
<1>2. QED
  BY <1>1, PrefixSumsUpdate, Zenon DEF Sum

\* The prefix sums of naturals grow.
LEMMA PrefixSumsMonotone ==
    ASSUME NEW n \in Nat, NEW g \in [1..n -> Nat]
    PROVE  \A j \in 0..n : /\ PrefixSums(n, g)[j] \in Nat
                           /\ \A i \in 0..j : PrefixSums(n, g)[i] <= PrefixSums(n, g)[j]
PROOF
<1> DEFINE s == PrefixSums(n, g)
           Ok(j) == s[j] \in Nat /\ \A i \in 0..j : s[i] <= s[j]
           Bad == {j \in 0..n : ~Ok(j)}
<1>1. IsPrefixSums(s, n, g)
  BY PrefixSumsDef
<1> HIDE DEF s
<1>2. SUFFICES ASSUME Bad # {} PROVE FALSE
  BY DEF s
<1>3. PICK m \in Bad : \A k \in Bad : m <= k
  <2>1. Bad \subseteq Nat
    OBVIOUS
  <2> HIDE DEF Bad
  <2>2. QED
    BY <1>2, <2>1, LeastElement, Zenon
<1>4. m # 0
  BY <1>1 DEF IsPrefixSums
<1>5. m - 1 \in 0..n /\ ~(m <= m - 1) /\ m \in 1..n
  BY <1>4
<1>6. Ok(m-1)
  BY <1>3, <1>5
<1>7. s[m] = s[m-1] + g[m] /\ g[m] \in Nat
  BY <1>1, <1>5 DEF IsPrefixSums
<1>8. s[m] \in Nat /\ s[m-1] <= s[m] /\ s[m-1] \in Nat
  BY <1>6, <1>7
<1>9. \A i \in 0..m : s[i] <= s[m]
  <2>1. TAKE i \in 0..m
  <2>2. CASE i = m
    BY <1>8, <2>2
  <2>3. CASE i # m
    <3>1. i \in 0..(m-1) /\ i \in 0..n
      BY <1>5, <2>3
    <3>2. s[i] <= s[m-1] /\ s[i] \in Int
      BY <1>1, <1>6, <3>1 DEF IsPrefixSums
    <3>3. QED
      BY <1>8, <3>2
  <2>4. QED
    BY <2>2, <2>3
<1>10. QED
  BY <1>8, <1>9

\* The sum of naturals is not negative.
LEMMA SumNonNegative ==
    ASSUME NEW n \in Nat, NEW g \in [1..n -> Nat]
    PROVE  Sum(n, g) \in Nat
PROOF
<1>1. n \in 0..n
  OBVIOUS
<1>2. QED
  BY <1>1, PrefixSumsMonotone DEF Sum

\* No value of a sum of naturals exceeds the sum.
LEMMA SumAtLeast ==
    ASSUME NEW n \in Nat, NEW g \in [1..n -> Nat], NEW u \in 1..n
    PROVE  g[u] <= Sum(n, g)
PROOF
<1> DEFINE h == [g EXCEPT ![u] = 0]
<1>1. h \in [1..n -> Nat] /\ h \in [1..n -> Int] /\ g \in [1..n -> Int] /\ g[u] \in Nat
  OBVIOUS
<1>2. h[u] = 0 /\ \A i \in 1..n : i # u => h[i] = g[i]
  OBVIOUS
<1> HIDE DEF h
<1>3. Sum(n, h) = Sum(n, g) - g[u] + h[u]
  BY <1>1, <1>2, SumUpdate
<1>4. Sum(n, h) \in Nat /\ Sum(n, g) \in Int
  BY <1>1, SumNonNegative, SumType
<1>5. QED
  BY <1>1, <1>2, <1>3, <1>4

-----------------------------------------------------------------------------
\* A function on S with values in V is defined by recursion: at the elements of stops its
\* value is given, and elsewhere it is made from the value at an element of smaller rank.
IsRecursion(S, V, rank, bound, stops, first, pred, step) ==
    /\ rank \in [S -> Nat] /\ bound \in Nat /\ \A x \in S : rank[x] <= bound
    /\ first \in [S -> V] /\ pred \in [S -> S] /\ step \in [S -> [V -> V]]
    /\ \A x \in S : x \notin stops => rank[pred[x]] < rank[x]

\* f satisfies the equation of the recursion at x.
Recurs(f, x, stops, first, pred, step) ==
    f[x] = IF x \in stops THEN first[x] ELSE step[x][f[pred[x]]]

\* There is such a function: extend it by one rank at a time.
LEMMA RecursionExists ==
    ASSUME NEW S, NEW V, NEW rank, NEW bound, NEW stops, NEW first, NEW pred, NEW step,
           IsRecursion(S, V, rank, bound, stops, first, pred, step)
    PROVE  \E f \in [S -> V] : \A x \in S : Recurs(f, x, stops, first, pred, step)
PROOF
<1> DEFINE Holds(f, x) == Recurs(f, x, stops, first, pred, step)
           Upto(f, n) == \A x \in S : rank[x] < n => Holds(f, x)
           Bad == {n \in 0..(bound+1) : ~ \E f \in [S -> V] : Upto(f, n)}
<1> USE DEF IsRecursion, Recurs
<1>1. 0 \notin Bad
  <2>1. Upto(first, 0)
    OBVIOUS
  <2>2. QED
    BY <2>1
<1>2. ASSUME NEW n \in Nat, n + 1 \in Bad, n \notin Bad
      PROVE  FALSE
  <2>1. PICK f \in [S -> V] : Upto(f, n)
    BY <1>2
  <2> DEFINE g == [x \in S |-> IF x \in stops THEN first[x] ELSE step[x][f[pred[x]]]]
  <2>2. g \in [S -> V]
    OBVIOUS
  <2>3. ASSUME NEW x \in S, rank[x] < n + 1
        PROVE  Holds(g, x)
    <3>1. CASE x \in stops
      BY <3>1
    <3>2. CASE x \notin stops
      <4>1. rank[pred[x]] < n /\ pred[x] \in S
        BY <2>3, <3>2
      <4>2. g[pred[x]] = f[pred[x]]
        BY <2>1, <4>1
      <4>3. g[x] = step[x][f[pred[x]]]
        BY <3>2
      <4>4. QED
        BY <3>2, <4>2, <4>3, Zenon
    <3>3. QED
      BY <3>1, <3>2, Zenon
  <2>4. Upto(g, n + 1)
    <3> HIDE DEF g, Holds
    <3>1. QED
      BY <2>3
  <2>5. QED
    <3> HIDE DEF Upto, g
    <3>1. QED
      BY <1>2, <2>2, <2>4
<1>3. Bad = {}
  <2>1. SUFFICES ASSUME Bad # {} PROVE FALSE
    OBVIOUS
  <2> HIDE DEF Upto
  <2>2. Bad \subseteq Nat
    OBVIOUS
  <2>3. PICK n \in Bad : \A k \in Bad : n <= k
    <3> HIDE DEF Bad
    <3>1. QED
      BY <2>1, <2>2, LeastElement, Zenon
  <2>4. n # 0 /\ n \in Nat
    BY <1>1, <2>2, <2>3
  <2>5. n - 1 \in Nat /\ (n - 1) + 1 = n /\ ~(n <= n - 1)
    BY <2>4
  <2>6. QED
    <3> HIDE DEF Bad
    <3>1. QED
      BY <1>2, <2>3, <2>5
<1>4. PICK f \in [S -> V] : Upto(f, bound + 1)
  <2>1. bound + 1 \in 0..(bound+1)
    OBVIOUS
  <2> HIDE DEF Upto
  <2>2. QED
    BY <1>3, <2>1, Zenon
<1>5. \A x \in S : Holds(f, x)
  <2>1. TAKE x \in S
  <2>2. rank[x] < bound + 1
    OBVIOUS
  <2> HIDE DEF Holds
  <2>3. QED
    BY <1>4, <2>2
<1>6. QED
  BY <1>5

\* What satisfies the equation wherever it makes sense has its values in V.
LEMMA RecursionTyped ==
    ASSUME NEW S, NEW V, NEW rank, NEW bound, NEW stops, NEW first, NEW pred, NEW step,
           IsRecursion(S, V, rank, bound, stops, first, pred, step),
           NEW h,
           \A x \in S : x \in stops \/ h[pred[x]] \in V
                            => Recurs(h, x, stops, first, pred, step)
    PROVE  \A x \in S : h[x] \in V
PROOF
<1> DEFINE Bad == {n \in 0..bound : \E x \in S : rank[x] = n /\ h[x] \notin V}
<1> USE DEF IsRecursion
<1>1. SUFFICES ASSUME Bad # {} PROVE FALSE
  OBVIOUS
<1>2. Bad \subseteq Nat
  OBVIOUS
<1>3. PICK n \in Bad : \A k \in Bad : n <= k
  <2> HIDE DEF Bad
  <2>1. QED
    BY <1>1, <1>2, LeastElement, Zenon
<1>4. PICK x \in S : rank[x] = n /\ h[x] \notin V
  OBVIOUS
<1>5. x \notin stops
  BY <1>4 DEF Recurs
<1>6. pred[x] \in S /\ rank[pred[x]] < n /\ rank[pred[x]] \in 0..bound
  BY <1>4, <1>5
<1>7. h[pred[x]] \in V
  BY <1>3, <1>6
<1>8. QED
  BY <1>4, <1>5, <1>7 DEF Recurs

-----------------------------------------------------------------------------
\* The recursion that defines LowBit holds.
LEMMA LowBitDef ==
    /\ LowBit \in [Indices -> Nat]
    /\ \A i \in Indices : LowBit[i] = IF i % 2 = 1 THEN 1 ELSE 2 * LowBit[i \div 2]
PROOF
<1> DEFINE S == Indices
           F(h) == [i \in Indices |-> IF i % 2 = 1 THEN 1 ELSE 2 * h[i \div 2]]
           rank == [i \in S |-> i]
           odd == {i \in S : i % 2 = 1}
           first == [i \in S |-> 1]
           half == [i \in S |-> IF i % 2 = 1 THEN i ELSE i \div 2]
           double == [i \in S |-> [v \in Nat |-> 2 * v]]
<1>1. /\ rank \in [S -> Nat] /\ first \in [S -> Nat] /\ double \in [S -> [Nat -> Nat]]
      /\ MAX_PARTICIPANTS \in Nat /\ \A x \in S : rank[x] <= MAX_PARTICIPANTS
  BY FenwickAssumption DEF Indices
<1>2. \A i \in S : i % 2 = 1 \/ (i \div 2 \in S /\ i \div 2 < i)
  BY FenwickAssumption DEF Indices
<1>3. half \in [S -> S]
  BY <1>2
<1>4. \A x \in S : x \notin odd => rank[half[x]] < rank[x]
  BY <1>2
<1>a. IsRecursion(S, Nat, rank, MAX_PARTICIPANTS, odd, first, half, double)
  <2> HIDE DEF rank, odd, first, half, double, S
  <2>1. QED
    BY <1>1, <1>3, <1>4 DEF IsRecursion
<1>5. PICK f \in [S -> Nat] : \A x \in S : Recurs(f, x, odd, first, half, double)
  <2> HIDE DEF rank, odd, first, half, double, S
  <2>1. QED
    BY <1>a, RecursionExists
<1>6. f = F(f)
  <2>1. \A x \in S : f[x] = IF x % 2 = 1 THEN 1 ELSE 2 * f[x \div 2]
    BY <1>2, <1>5, Zenon DEF Recurs
  <2>2. QED
    BY <2>1
<1>7. LowBit = CHOOSE h : h = F(h)
  BY DEF LowBit
<1>8. LowBit = F(LowBit)
  BY <1>6, <1>7, Zenon
<1> HIDE DEF F
<1>9. \A i \in S : LowBit[i] = IF i % 2 = 1 THEN 1 ELSE 2 * LowBit[i \div 2]
  BY <1>8 DEF F
<1>10. \A x \in S : x \in odd \/ LowBit[half[x]] \in Nat
                     => Recurs(LowBit, x, odd, first, half, double)
  BY <1>2, <1>9 DEF Recurs
<1>11. \A i \in S : LowBit[i] \in Nat
  <2> HIDE DEF rank, odd, first, half, double, S
  <2>1. QED
    BY <1>a, <1>10, RecursionTyped
<1>12. LowBit = [i \in S |-> LowBit[i]]
  BY <1>8, Zenon DEF F
<1>13. QED
  BY <1>9, <1>11, <1>12

\* An odd index is its own node only; the node of an even index is twice that of its half.
LEMMA LowBitOdd == \A i \in Indices : i % 2 = 1 => LowBit[i] = 1
PROOF
BY LowBitDef

\* Doubling an index doubles its lowest bit.
LEMMA LowBitDouble ==
    \A a \in Nat : 2 * a \in Indices => a \in Indices /\ LowBit[2 * a] = 2 * LowBit[a]
PROOF
<1>1. TAKE a \in Nat
<1>2. HAVE 2 * a \in Indices
<1>3. a \in Indices /\ (2 * a) % 2 # 1 /\ (2 * a) \div 2 = a
  BY <1>2, FenwickAssumption DEF Indices
<1>4. QED
  BY <1>2, <1>3, LowBitDef

\* Every index is odd or the double of a smaller one, which is how lemmas about the lowest
\* bit are proved by induction.
LEMMA LowBitHalves ==
    \A i \in Indices :
        i % 2 = 1 \/ \E a \in Indices : i = 2 * a /\ a < i /\ LowBit[i] = 2 * LowBit[a]
PROOF
<1>1. TAKE i \in Indices
<1>2. CASE i % 2 = 1
  BY <1>2
<1>3. CASE i % 2 # 1
  <2>1. i \div 2 \in Nat /\ 2 * (i \div 2) = i /\ i \div 2 < i
    BY <1>3, FenwickAssumption DEF Indices
  <2>2. i \div 2 \in Indices /\ LowBit[i] = 2 * LowBit[i \div 2]
    BY <2>1, LowBitDouble
  <2>3. QED
    BY <2>1, <2>2
<1>4. QED
  BY <1>2, <1>3

\* The range of a node ends at its index and begins above zero.
LEMMA LowBitRange == \A i \in Indices : LowBit[i] \in Nat /\ 1 <= LowBit[i] /\ LowBit[i] <= i
PROOF
<1> DEFINE Ok(i) == 1 <= LowBit[i] /\ LowBit[i] <= i
           Bad == {i \in Indices : ~Ok(i)}
<1>1. SUFFICES ASSUME Bad # {} PROVE FALSE
  BY LowBitDef
<1>2. Bad \subseteq Nat
  BY FenwickAssumption DEF Indices
<1>3. PICK i \in Bad : \A k \in Bad : i <= k
  <2> HIDE DEF Bad
  <2>1. QED
    BY <1>1, <1>2, LeastElement, Zenon
<1>4. i \in Indices /\ i \in Nat /\ i >= 1
  BY FenwickAssumption DEF Indices
<1>5. i % 2 # 1
  BY <1>4, LowBitOdd
<1>6. PICK a \in Indices : i = 2 * a /\ a < i /\ LowBit[i] = 2 * LowBit[a]
  BY <1>4, <1>5, LowBitHalves
<1>7. Ok(a) /\ LowBit[a] \in Nat /\ a \in Nat
  BY <1>3, <1>4, <1>6, LowBitDef, FenwickAssumption DEF Indices
<1>8. QED
  BY <1>6, <1>7

\* The ranges of two nodes are nested or disjoint.
LEMMA RangesNest ==
    \A j \in Indices : \A k \in Indices :
        j - LowBit[j] < k /\ k <= j => j - LowBit[j] <= k - LowBit[k]
PROOF
<1> DEFINE Ok(j) == \A k \in Indices :
               j - LowBit[j] < k /\ k <= j => j - LowBit[j] <= k - LowBit[k]
           Bad == {j \in Indices : ~Ok(j)}
<1>1. SUFFICES ASSUME Bad # {} PROVE FALSE
  OBVIOUS
<1>2. Bad \subseteq Nat /\ \A x \in Indices : x \in Nat /\ LowBit[x] \in Nat
  BY FenwickAssumption, LowBitDef DEF Indices
<1>3. PICK j \in Bad : \A k \in Bad : j <= k
  <2> HIDE DEF Bad
  <2>1. QED
    BY <1>1, <1>2, LeastElement, Zenon
<1>4. PICK k \in Indices : j - LowBit[j] < k /\ k <= j /\ ~(j - LowBit[j] <= k - LowBit[k])
  OBVIOUS
<1>5. j % 2 # 1
  <2>1. ASSUME j % 2 = 1 PROVE FALSE
    <3>1. LowBit[j] = 1
      BY <2>1, LowBitOdd
    <3>2. k = j
      BY <1>2, <1>4, <3>1
    <3>3. QED
      BY <1>2, <1>4, <3>1, <3>2
  <2>2. QED
    BY <2>1
<1>6. k % 2 # 1
  <2>1. ASSUME k % 2 = 1 PROVE FALSE
    <3>1. LowBit[k] = 1
      BY <2>1, LowBitOdd
    <3>2. QED
      BY <1>2, <1>4, <3>1
  <2>2. QED
    BY <2>1
<1>7. PICK b \in Indices : j = 2 * b /\ b < j /\ LowBit[j] = 2 * LowBit[b]
  BY <1>5, LowBitHalves
<1>8. PICK a \in Indices : k = 2 * a /\ a < k /\ LowBit[k] = 2 * LowBit[a]
  BY <1>6, LowBitHalves
<1>9. Ok(b)
  BY <1>2, <1>3, <1>7
<1>10. QED
  BY <1>2, <1>4, <1>7, <1>8, <1>9

\* The next node of the loop covers the range of the node before it.
LEMMA NextCovers ==
    \A i \in Indices : i + LowBit[i] \in Indices =>
        i + LowBit[i] - LowBit[i + LowBit[i]] <= i - LowBit[i]
PROOF
<1> DEFINE Ok(i) == i + LowBit[i] \in Indices =>
               i + LowBit[i] - LowBit[i + LowBit[i]] <= i - LowBit[i]
           Bad == {i \in Indices : ~Ok(i)}
<1>1. SUFFICES ASSUME Bad # {} PROVE FALSE
  OBVIOUS
<1>2. Bad \subseteq Nat /\ \A x \in Indices : x \in Nat /\ LowBit[x] \in Nat
  BY FenwickAssumption, LowBitDef DEF Indices
<1>3. PICK i \in Bad : \A k \in Bad : i <= k
  <2> HIDE DEF Bad
  <2>1. QED
    BY <1>1, <1>2, LeastElement, Zenon
<1> DEFINE k == i + LowBit[i]
<1>4. k \in Indices /\ ~(k - LowBit[k] <= i - LowBit[i])
  BY <1>2
<1>5. i % 2 # 1
  <2>1. ASSUME i % 2 = 1 PROVE FALSE
    <3>1. LowBit[i] = 1 /\ k = i + 1
      BY <2>1, LowBitOdd
    <3>2. k % 2 # 1
      BY <1>2, <2>1, <3>1
    <3>3. PICK a \in Indices : k = 2 * a /\ LowBit[k] = 2 * LowBit[a]
      BY <1>4, <3>2, LowBitHalves
    <3>4. LowBit[a] >= 1 /\ LowBit[a] \in Nat
      BY LowBitRange
    <3> HIDE DEF k
    <3>5. QED
      BY <1>2, <1>4, <3>1, <3>3, <3>4
  <2>2. QED
    BY <2>1
<1>7. PICK a \in Indices : i = 2 * a /\ a < i /\ LowBit[i] = 2 * LowBit[a]
  BY <1>5, LowBitHalves
<1>8. k = 2 * (a + LowBit[a]) /\ a + LowBit[a] \in Nat
  BY <1>2, <1>7
<1>9. a + LowBit[a] \in Indices /\ LowBit[k] = 2 * LowBit[a + LowBit[a]]
  BY <1>4, <1>8, LowBitDouble
<1>10. Ok(a)
  BY <1>2, <1>3, <1>7
<1>11. QED
  <2> HIDE DEF k
  <2>1. QED
    BY <1>2, <1>4, <1>7, <1>8, <1>9, <1>10

\* A node above i whose range holds i is reached through the next node of the loop.
LEMMA NextBelow ==
    \A j \in Indices : \A i \in Indices :
        j - LowBit[j] < i /\ i < j => i + LowBit[i] <= j
PROOF
<1> DEFINE Ok(j) == \A i \in Indices : j - LowBit[j] < i /\ i < j => i + LowBit[i] <= j
           Bad == {j \in Indices : ~Ok(j)}
<1>1. SUFFICES ASSUME Bad # {} PROVE FALSE
  OBVIOUS
<1>2. Bad \subseteq Nat /\ \A x \in Indices : x \in Nat /\ LowBit[x] \in Nat
  BY FenwickAssumption, LowBitDef DEF Indices
<1>3. PICK j \in Bad : \A k \in Bad : j <= k
  <2> HIDE DEF Bad
  <2>1. QED
    BY <1>1, <1>2, LeastElement, Zenon
<1>4. PICK i \in Indices : j - LowBit[j] < i /\ i < j /\ ~(i + LowBit[i] <= j)
  OBVIOUS
<1>5. j % 2 # 1
  BY <1>2, <1>4, LowBitOdd
<1>6. i % 2 # 1
  BY <1>2, <1>4, LowBitOdd
<1>7. PICK b \in Indices : j = 2 * b /\ b < j /\ LowBit[j] = 2 * LowBit[b]
  BY <1>5, LowBitHalves
<1>8. PICK a \in Indices : i = 2 * a /\ a < i /\ LowBit[i] = 2 * LowBit[a]
  BY <1>6, LowBitHalves
<1>9. Ok(b)
  BY <1>2, <1>3, <1>7
<1>10. QED
  BY <1>2, <1>4, <1>7, <1>8, <1>9

\* The recursion that defines Path holds.
LEMMA PathDef ==
    \A i \in Indices :
        Path[i] = {i} \cup (IF i + LowBit[i] \in Indices THEN Path[i + LowBit[i]] ELSE {})
PROOF
<1> DEFINE S == Indices
           V == SUBSET Indices
           F(h) == [i \in Indices |-> {i} \cup (IF i + LowBit[i] \in Indices
                                                THEN h[i + LowBit[i]] ELSE {})]
           rank == [i \in S |-> MAX_PARTICIPANTS - i]
           last == {i \in S : i + LowBit[i] \notin S}
           first == [i \in S |-> {i}]
           after == [i \in S |-> IF i + LowBit[i] \in S THEN i + LowBit[i] ELSE i]
           add == [i \in S |-> [v \in V |-> {i} \cup v]]
<1>1. /\ first \in [S -> V] /\ add \in [S -> [V -> V]] /\ after \in [S -> S]
  OBVIOUS
<1>2. /\ rank \in [S -> Nat] /\ MAX_PARTICIPANTS \in Nat
      /\ \A x \in S : rank[x] <= MAX_PARTICIPANTS
      /\ \A x \in S : x \notin last => rank[after[x]] < rank[x]
  <2>1. MAX_PARTICIPANTS \in Nat /\ \A x \in S : x \in Nat /\ x <= MAX_PARTICIPANTS
    BY FenwickAssumption DEF Indices
  <2>2. ASSUME NEW x \in S, x \notin last PROVE rank[after[x]] < rank[x]
    <3>1. after[x] = x + LowBit[x] /\ after[x] \in S
      BY <2>2
    <3>2. LowBit[x] \in Nat /\ 1 <= LowBit[x]
      BY LowBitRange
    <3>3. QED
      BY <2>1, <3>1, <3>2
  <2>3. rank \in [S -> Nat] /\ \A x \in S : rank[x] <= MAX_PARTICIPANTS
    BY <2>1
  <2> HIDE DEF rank
  <2>4. QED
    BY <2>1, <2>2, <2>3
<1>3. IsRecursion(S, V, rank, MAX_PARTICIPANTS, last, first, after, add)
  <2> HIDE DEF S, V, rank, last, first, after, add
  <2>1. QED
    BY <1>1, <1>2 DEF IsRecursion
<1>4. PICK f \in [S -> V] : \A x \in S : Recurs(f, x, last, first, after, add)
  <2> HIDE DEF S, V, rank, last, first, after, add
  <2>1. QED
    BY <1>3, RecursionExists
<1>5. f = F(f)
  <2>1. ASSUME NEW x \in S
        PROVE  f[x] = {x} \cup (IF x + LowBit[x] \in Indices THEN f[x + LowBit[x]] ELSE {})
    <3>1. CASE x \in last
      BY <1>4, <3>1, Zenon DEF Recurs
    <3>2. CASE x \notin last
      <4>1. after[x] = x + LowBit[x] /\ x + LowBit[x] \in S /\ f[x + LowBit[x]] \in V
        BY <3>2
      <4>2. f[x] = add[x][f[x + LowBit[x]]]
        BY <1>4, <3>2, <4>1, Zenon DEF Recurs
      <4>3. QED
        BY <4>1, <4>2
    <3>3. QED
      BY <3>1, <3>2
  <2>2. QED
    BY <2>1
<1>6. Path = CHOOSE h : h = F(h)
  BY DEF Path
<1>7. Path = F(Path)
  BY <1>5, <1>6, Zenon
<1> HIDE DEF F
<1>8. QED
  BY <1>7 DEF F

\* The loops of bit_add and bit_sub visit exactly the nodes whose range holds the index.
LEMMA PathCovers ==
    \A i \in Indices :
        Path[i] = {j \in Indices : j - LowBit[j] < i /\ i <= j}
PROOF
<1> DEFINE Cover(i) == {j \in Indices : j - LowBit[j] < i /\ i <= j}
           Bad == {d \in 0..MAX_PARTICIPANTS : \E i \in Indices : d = MAX_PARTICIPANTS - i /\ Path[i] # Cover(i)}
<1>1. /\ Bad \subseteq Nat
      /\ \A x \in Indices : /\ x \in Nat /\ LowBit[x] \in Nat /\ 1 <= LowBit[x]
                            /\ MAX_PARTICIPANTS - x \in 0..MAX_PARTICIPANTS
  BY FenwickAssumption, LowBitRange DEF Indices
<1>2. SUFFICES ASSUME Bad # {} PROVE FALSE
  <2> HIDE DEF Cover
  <2>1. SUFFICES ASSUME Bad = {} PROVE \A i \in Indices : Path[i] = Cover(i)
    BY Zenon DEF Cover
  <2>2. QED
    BY <1>1, <2>1, Zenon
<1>3. PICK d \in Bad : \A k \in Bad : d <= k
  <2> HIDE DEF Bad
  <2>1. QED
    BY <1>1, <1>2, LeastElement, Zenon
<1>4. PICK i \in Indices : d = MAX_PARTICIPANTS - i /\ Path[i] # Cover(i)
  OBVIOUS
<1> DEFINE k == i + LowBit[i]
<1>5. i \in Cover(i) /\ Cover(i) \subseteq Indices
  BY <1>1
<1>6. CASE k \notin Indices
  <2>1. Path[i] = {i}
    BY <1>6, PathDef
  <2>2. PICK j \in Cover(i) : j # i
    <3> HIDE DEF Cover
    <3>1. QED
      BY <1>4, <1>5, <2>1
  <2>3. k <= j
    BY <1>1, <2>2, NextBelow
  <2>4. j \in Nat /\ j <= MAX_PARTICIPANTS /\ MAX_PARTICIPANTS \in Nat
    BY <1>5, <2>2, FenwickAssumption DEF Indices
  <2>5. k \in Nat /\ 1 <= k
    BY <1>1
  <2> HIDE DEF k
  <2>6. QED
    BY <1>6, <2>3, <2>4, <2>5 DEF Indices
<1>7. CASE k \in Indices
  <2>1. Path[i] = {i} \cup Path[k]
    BY <1>7, PathDef
  <2>2. Path[k] = Cover(k)
    <3>1. MAX_PARTICIPANTS - k \in 0..MAX_PARTICIPANTS /\ ~(d <= MAX_PARTICIPANTS - k)
      BY <1>1, <1>4, <1>7, FenwickAssumption
    <3> HIDE DEF Cover, k
    <3>2. QED
      BY <1>3, <1>7, <3>1
  <2>3. ASSUME NEW j \in Cover(k) PROVE j \in Cover(i)
    <3>1. j - LowBit[j] <= k - LowBit[k]
      BY <1>7, RangesNest
    <3>2. k - LowBit[k] <= i - LowBit[i]
      BY <1>1, <1>7, NextCovers
    <3> HIDE DEF k
    <3>3. k = i + LowBit[i] /\ k \in Nat /\ LowBit[k] \in Nat
      BY <1>1, <1>7 DEF k
    <3>4. j \in Indices /\ j \in Nat /\ LowBit[j] \in Nat /\ k <= j
      BY <1>1
    <3>5. QED
      BY <1>1, <3>1, <3>2, <3>3, <3>4
  <2>4. ASSUME NEW j \in Cover(i), j # i PROVE j \in Cover(k)
    <3>1. i < j /\ j - LowBit[j] < i
      BY <1>1, <2>4
    <3>2. k <= j
      BY <1>1, <3>1, NextBelow
    <3>3. QED
      BY <1>1, <3>1, <3>2
  <2>5. QED
    <3> HIDE DEF Cover, k
    <3>1. QED
      BY <1>4, <1>5, <2>1, <2>2, <2>3, <2>4
<1>8. QED
  BY <1>6, <1>7

-----------------------------------------------------------------------------
\* The tree summarises the table g of tickets: a node holds the sum of its range.
HoldsRanges(bit, g) ==
    \A j \in Indices :
        bit[j] = PrefixSums(MAX_PARTICIPANTS, g)[j]
                 - PrefixSums(MAX_PARTICIPANTS, g)[j - LowBit[j]]

\* What the proofs about the tree use of indices, nodes and sums.
LEMMA NodeTypes ==
    /\ MAX_PARTICIPANTS \in Nat /\ MAX_PARTICIPANTS >= 1
    /\ \A j \in Indices : /\ j \in Nat /\ 1 <= j /\ j <= MAX_PARTICIPANTS
                          /\ j \in 0..MAX_PARTICIPANTS
                          /\ j - LowBit[j] \in 0..j
                          /\ j - LowBit[j] \in 0..MAX_PARTICIPANTS
PROOF
<1>1. MAX_PARTICIPANTS \in Nat /\ MAX_PARTICIPANTS >= 1
  BY FenwickAssumption
<1>2. ASSUME NEW j \in Indices
      PROVE  /\ j \in Nat /\ 1 <= j /\ j <= MAX_PARTICIPANTS
             /\ j \in 0..MAX_PARTICIPANTS
             /\ j - LowBit[j] \in 0..j
             /\ j - LowBit[j] \in 0..MAX_PARTICIPANTS
  <2>1. j \in Nat /\ 1 <= j /\ j <= MAX_PARTICIPANTS
    BY <1>1 DEF Indices
  <2>2. LowBit[j] \in Nat /\ 1 <= LowBit[j] /\ LowBit[j] <= j
    BY LowBitRange
  <2>3. QED
    BY <1>1, <2>1, <2>2
<1>3. QED
  BY <1>1, <1>2

\* An empty tree summarises a table without tickets.
LEMMA TreeEmpty ==
    ASSUME NEW g \in [Indices -> Nat], \A i \in Indices : g[i] = 0
    PROVE  HoldsRanges(EmptyTree, g)
PROOF
<1> DEFINE n == MAX_PARTICIPANTS
           z == [i \in 0..n |-> 0]
<1>1. g \in [1..n -> Int] /\ n \in Nat
  BY FenwickAssumption DEF Indices
<1>2. IsPrefixSums(z, n, g)
  BY <1>1 DEF IsPrefixSums, Indices
<1>3. PrefixSums(n, g) = z
  BY <1>1, <1>2, PrefixSumsUnique
<1>4. QED
  BY <1>3, NodeTypes DEF HoldsRanges, EmptyTree

\* A node holds at most all tickets, and at least those of each index in its range.
LEMMA NodeBounds ==
    ASSUME NEW bit, NEW g \in [Indices -> Nat], HoldsRanges(bit, g), NEW j \in Indices
    PROVE  /\ bit[j] \in Nat
           /\ bit[j] <= Sum(MAX_PARTICIPANTS, g)
           /\ \A i \in Indices : j \in Path[i] => g[i] <= bit[j]
PROOF
<1> DEFINE n == MAX_PARTICIPANTS
           s == PrefixSums(n, g)
           l == j - LowBit[j]
<1>1. n \in Nat /\ g \in [1..n -> Nat] /\ g \in [1..n -> Int] /\ n \in 0..n
  BY FenwickAssumption DEF Indices
<1>2. \A b \in 0..n : s[b] \in Nat /\ \A a \in 0..b : s[a] <= s[b]
  BY <1>1, PrefixSumsMonotone
<1>3. \A i \in 1..n : s[i] = s[i-1] + g[i]
  BY <1>1, PrefixSumsDef, Zenon DEF IsPrefixSums
<1>4. j \in 0..n /\ l \in 0..n /\ l \in 0..j
  BY NodeTypes
<1>5. bit[j] = s[j] - s[l]
  BY DEF HoldsRanges
<1> HIDE DEF s, l
<1>6. s[j] \in Nat /\ s[l] \in Nat /\ s[l] <= s[j] /\ s[j] <= s[n]
  BY <1>1, <1>2, <1>4
<1>7. ASSUME NEW i \in Indices, j \in Path[i] PROVE g[i] <= bit[j]
  <2>1. l < i /\ i <= j
    BY <1>7, PathCovers DEF l
  <2>2. i \in 1..n /\ i \in Int /\ j \in Int /\ l \in Int
    BY <1>4, NodeTypes DEF Indices
  <2>3. i \in 0..j /\ l \in 0..(i-1) /\ i \in 0..n /\ i - 1 \in 0..n
    BY <1>1, <1>4, <2>1, <2>2
  <2>4. s[i] <= s[j] /\ s[l] <= s[i-1] /\ s[i] \in Nat /\ s[i-1] \in Nat
    BY <1>2, <1>4, <2>3
  <2>5. s[i] = s[i-1] + g[i] /\ g[i] \in Nat
    BY <1>3, <2>2
  <2>6. QED
    BY <1>5, <1>6, <2>4, <2>5
<1>8. bit[j] \in Nat /\ bit[j] <= s[n]
  BY <1>1, <1>2, <1>5, <1>6
<1>9. QED
  BY <1>7, <1>8 DEF Sum, s

-----------------------------------------------------------------------------
\* The tables g and h differ at most at u.
SameExceptAt(u, g, h) == \A i \in Indices : i # u => h[i] = g[i]

\* To subtract is to add the negative.
LEMMA BitSubIsBitAdd ==
    ASSUME NEW bit \in [Indices -> Nat], NEW u, NEW d \in Nat
    PROVE  BitSub(bit, u, d) = BitAdd(bit, u, 0 - d)
BY DEF BitSub, BitAdd

\* The node-by-node update of bit_add and bit_sub is the update of one entry of the table.
LEMMA TreeUpdate ==
    ASSUME NEW bit, NEW g \in [Indices -> Nat], NEW u \in Indices, NEW h \in [Indices -> Nat],
           HoldsRanges(bit, g), SameExceptAt(u, g, h)
    PROVE  /\ BitAdd(bit, u, h[u] - g[u]) \in [Indices -> Nat]
           /\ HoldsRanges(BitAdd(bit, u, h[u] - g[u]), h)
           /\ Sum(MAX_PARTICIPANTS, h) = Sum(MAX_PARTICIPANTS, g) - g[u] + h[u]
PROOF
<1> DEFINE new == BitAdd(bit, u, h[u] - g[u])
<1>1. \A i \in Indices : i # u => h[i] = g[i]
  BY DEF SameExceptAt
<1>2. \A j \in Indices : new[j] = IF j \in Path[u] THEN bit[j] + (h[u] - g[u]) ELSE bit[j]
  BY DEF BitAdd
<1>3. new = [j \in Indices |-> new[j]]
  BY DEF BitAdd
<1> HIDE DEF new
<1> DEFINE n == MAX_PARTICIPANTS
           s == PrefixSums(n, g)
           t == PrefixSums(n, h)
<1>4. n \in Nat /\ g \in [1..n -> Int] /\ h \in [1..n -> Int] /\ u \in 1..n
  BY <1>1, FenwickAssumption DEF Indices
<1>5. \A i \in 0..n : t[i] = IF i < u THEN s[i] ELSE s[i] - g[u] + h[u]
  BY <1>4, <1>1, PrefixSumsUpdate, Zenon DEF Indices
<1>6. \A i \in 0..n : s[i] \in Int
  BY <1>4, PrefixSumsDef DEF IsPrefixSums
<1> HIDE DEF s, t
<1>7. ASSUME NEW j \in Indices PROVE new[j] = t[j] - t[j - LowBit[j]]
  <2> DEFINE l == j - LowBit[j]
  <2>1. j \in 0..n /\ l \in 0..n /\ j \in Int /\ l \in Int /\ u \in Int
    BY NodeTypes
  <2>2. bit[j] = s[j] - s[l]
    BY DEF HoldsRanges, s
  <2>3. j \in Path[u] <=> l < u /\ u <= j
    BY PathCovers
  <2>4. s[j] \in Int /\ s[l] \in Int /\ g[u] \in Int /\ h[u] \in Int
    BY <1>6, <2>1
  <2>5. /\ t[j] = IF j < u THEN s[j] ELSE s[j] - g[u] + h[u]
        /\ t[l] = IF l < u THEN s[l] ELSE s[l] - g[u] + h[u]
    BY <1>5, <2>1
  <2>6. l <= j
    BY NodeTypes
  <2>7. new[j] = IF j \in Path[u] THEN bit[j] + (h[u] - g[u]) ELSE bit[j]
    BY <1>2
  <2> HIDE DEF l
  <2>8. QED
    BY <2>1, <2>2, <2>3, <2>4, <2>5, <2>6, <2>7 DEF l
<1>8. HoldsRanges(new, h)
  BY <1>7 DEF HoldsRanges, t
<1>9. new \in [Indices -> Nat]
  BY <1>8, <1>1, <1>3, NodeBounds
<1>10. Sum(n, h) = Sum(n, g) - g[u] + h[u]
  BY <1>4, <1>1, SumUpdate, Zenon DEF Indices
<1>11. QED
  BY <1>8, <1>9, <1>10 DEF new

\* The node that a step of the descent looks at ranges from the index reached so far: the
\* steps are powers of two (LowBit[d] = d) and the index is a multiple of the earlier ones.
LEMMA StepNode ==
    \A d \in Indices : \A a \in 0..MAX_PARTICIPANTS :
        /\ LowBit[d] = d
        /\ a = 0 \/ LowBit[a] >= 2 * d
        /\ a + d \in Indices
        => LowBit[a + d] = d
PROOF
<1> DEFINE Ok(d) == \A a \in 0..MAX_PARTICIPANTS :
               /\ LowBit[d] = d
               /\ a = 0 \/ LowBit[a] >= 2 * d
               /\ a + d \in Indices
               => LowBit[a + d] = d
           Bad == {d \in Indices : ~Ok(d)}
<1>1. SUFFICES ASSUME Bad # {} PROVE FALSE
  OBVIOUS
<1>2. /\ Bad \subseteq Nat
      /\ \A x \in Indices : x \in Nat /\ 1 <= x /\ LowBit[x] \in Nat
      /\ MAX_PARTICIPANTS \in Nat
      /\ \A x \in 0..MAX_PARTICIPANTS : x \in Nat /\ (x = 0 \/ x \in Indices)
  BY FenwickAssumption, LowBitDef DEF Indices
<1>3. PICK d \in Bad : \A k \in Bad : d <= k
  <2> HIDE DEF Bad
  <2>1. QED
    BY <1>1, <1>2, LeastElement, Zenon
<1>4. PICK a \in 0..MAX_PARTICIPANTS :
          /\ LowBit[d] = d
          /\ a = 0 \/ LowBit[a] >= 2 * d
          /\ a + d \in Indices
          /\ LowBit[a + d] # d
  BY <1>3
<1>5. a = 0 \/ a % 2 # 1
  BY <1>2, <1>4, LowBitOdd
<1>6. PICK c \in Nat : a = 2 * c /\ (c = 0 \/ (c \in Indices /\ LowBit[a] = 2 * LowBit[c]))
  <2>1. CASE a = 0
    BY <2>1
  <2>2. CASE a # 0
    BY <1>2, <1>5, <2>2, LowBitHalves, Zenon
  <2>3. QED
    BY <2>1, <2>2
<1>7. d % 2 # 1
  <2>1. ASSUME d % 2 = 1 PROVE FALSE
    <3>1. d = 1
      BY <1>4, <2>1, LowBitOdd
    <3>2. (a + d) % 2 = 1
      BY <1>6, <3>1
    <3>3. QED
      BY <1>4, <3>1, <3>2, LowBitOdd
  <2>2. QED
    BY <2>1
<1>8. PICK e \in Indices : d = 2 * e /\ e < d /\ LowBit[d] = 2 * LowBit[e]
  BY <1>7, LowBitHalves
<1>9. Ok(e)
  BY <1>2, <1>3, <1>8
<1>10. a + d = 2 * (c + e) /\ c + e \in Nat
  BY <1>2, <1>6, <1>8
<1>11. c + e \in Indices /\ LowBit[a + d] = 2 * LowBit[c + e]
  BY <1>4, <1>10, LowBitDouble
<1>12. LowBit[e] = e /\ (c = 0 \/ LowBit[c] >= 2 * e)
  BY <1>2, <1>4, <1>6, <1>8
<1>13. c \in 0..MAX_PARTICIPANTS
  BY <1>2, <1>6 DEF Indices
<1>14. QED
  BY <1>4, <1>8, <1>9, <1>11, <1>12, <1>13

DescentState == [idx : Nat, cur : Nat, ok : BOOLEAN]

\* The recursion that defines the descent holds.
LEMMA DescentDef ==
    ASSUME NEW bit \in [Indices -> Nat], NEW target \in Nat
    PROVE  \A step \in 1..(2 * MAX_PARTICIPANTS) :
               Descent(bit, target)[step] =
                   IF step > MAX_PARTICIPANTS THEN [idx |-> 0, cur |-> 0, ok |-> TRUE]
                   ELSE Descend(bit, target, Descent(bit, target)[2 * step], step)
PROOF
<1> DEFINE n == MAX_PARTICIPANTS
           S == 1..(2 * n)
           V == DescentState
           top == [idx |-> 0, cur |-> 0, ok |-> TRUE]
           F(h) == [step \in 1..(2 * MAX_PARTICIPANTS) |->
                       IF step > MAX_PARTICIPANTS THEN [idx |-> 0, cur |-> 0, ok |-> TRUE]
                       ELSE Descend(bit, target, h[2 * step], step)]
           rank == [x \in S |-> 2 * n - x]
           stops == {x \in S : x > n}
           first == [x \in S |-> top]
           pred == [x \in S |-> IF x > n THEN x ELSE 2 * x]
           move == [x \in S |-> [v \in V |-> Descend(bit, target, v, x)]]
<1>1. n \in Nat /\ 2 * n \in Nat
  BY FenwickAssumption
<1>2. /\ rank \in [S -> Nat] /\ first \in [S -> V] /\ pred \in [S -> S]
      /\ \A x \in S : rank[x] <= 2 * n
  BY <1>1 DEF DescentState
<1>3. \A x \in S : x \notin stops => rank[pred[x]] < rank[x]
  BY <1>1
<1>4. ASSUME NEW x \in S, NEW v \in V PROVE Descend(bit, target, v, x) \in V
  <2>1. v.idx \in Nat /\ v.cur \in Nat /\ v.ok \in BOOLEAN /\ x \in Nat /\ x >= 1
        /\ v = [idx |-> v.idx, cur |-> v.cur, ok |-> v.ok]
    BY <1>1 DEF DescentState
  <2>2. CASE v.idx + x > n
    BY <2>2 DEF Descend
  <2>3. CASE ~(v.idx + x > n)
    <3>1. v.idx + x \in Indices
      BY <1>1, <2>1, <2>3 DEF Indices
    <3>2. bit[v.idx + x] \in Nat
      BY <3>1
    <3>3. v.cur + bit[v.idx + x] \in Nat /\ v.idx + x \in Nat
      BY <2>1, <3>2
    <3>4. /\ [v EXCEPT !.ok = FALSE] \in V
          /\ [v EXCEPT !.idx = v.idx + x, !.cur = v.cur + bit[v.idx + x]] \in V
      BY <2>1, <3>3, Zenon DEF DescentState
    <3>5. QED
      BY <2>3, <3>4 DEF Descend
  <2>4. QED
    BY <2>2, <2>3
<1>5. move \in [S -> [V -> V]]
  BY <1>4
<1>6. IsRecursion(S, V, rank, 2 * n, stops, first, pred, move)
  <2> HIDE DEF S, V, rank, stops, first, pred, move, n
  <2>1. QED
    BY <1>1, <1>2, <1>3, <1>5 DEF IsRecursion
<1>7. PICK f \in [S -> V] : \A x \in S : Recurs(f, x, stops, first, pred, move)
  <2> HIDE DEF S, V, rank, stops, first, pred, move, n
  <2>1. QED
    BY <1>6, RecursionExists
<1>8. f = F(f)
  <2>1. ASSUME NEW x \in S
        PROVE  f[x] = IF x > n THEN top ELSE Descend(bit, target, f[2 * x], x)
    <3>1. CASE x > n
      BY <1>7, <3>1, Zenon DEF Recurs
    <3>2. CASE ~(x > n)
      <4>1. pred[x] = 2 * x /\ 2 * x \in S /\ f[2 * x] \in V /\ x \notin stops
        BY <1>1, <3>2
      <4>2. f[x] = move[x][f[2 * x]]
        BY <1>7, <4>1, Zenon DEF Recurs
      <4>3. move[x][f[2 * x]] = Descend(bit, target, f[2 * x], x)
        BY <4>1
      <4>4. QED
        BY <3>2, <4>2, <4>3
    <3>3. QED
      BY <3>1, <3>2
  <2>2. QED
    BY <2>1
<1>9. Descent(bit, target) = CHOOSE h : h = F(h)
  BY DEF Descent
<1>10. Descent(bit, target) = F(Descent(bit, target))
  BY <1>8, <1>9, Zenon
<1> HIDE DEF F
<1>11. QED
  BY <1>10, Zenon DEF F

\* bit_find_prefix on a tree that summarises g, for a ticket that somebody owns: it does not
\* overflow, and it finds the index whose range of tickets holds the target.
LEMMA FindsOwner ==
    ASSUME NEW bit \in [Indices -> Nat], NEW g \in [Indices -> Nat], HoldsRanges(bit, g),
           Sum(MAX_PARTICIPANTS, g) <= U64_MAX,
           NEW target \in 1..Sum(MAX_PARTICIPANTS, g)
    PROVE  LET found == BitFindPrefix(bit, target)
           IN  /\ found.ok
               /\ found.index \in Indices
               /\ PrefixSums(MAX_PARTICIPANTS, g)[found.index - 1] < target
               /\ target <= PrefixSums(MAX_PARTICIPANTS, g)[found.index]
PROOF
<1> DEFINE n == MAX_PARTICIPANTS
           s == PrefixSums(n, g)
           after == Descent(bit, target)
           start == [idx |-> 0, cur |-> 0, ok |-> TRUE]
           Good(v, d) == /\ v \in DescentState
                         /\ v.ok
                         /\ v.idx <= n
                         /\ v.idx = 0 \/ LowBit[v.idx] >= d
                         /\ v.cur = s[v.idx]
                         /\ s[v.idx] < target
                         /\ v.idx + d > n \/ target <= s[v.idx + d]
<1>1. n \in Nat /\ n >= 1 /\ g \in [1..n -> Nat] /\ g \in [1..n -> Int] /\ n \in 0..n
      /\ U64_MAX \in Nat
  BY FenwickAssumption DEF Indices
<1>2. \A b \in 0..n : s[b] \in Nat /\ \A a \in 0..b : s[a] <= s[b]
  BY <1>1, PrefixSumsMonotone, Zenon
<1>3. s[0] = 0
  BY <1>1, PrefixSumsDef DEF IsPrefixSums
<1>4. s[n] \in Nat /\ s[n] <= U64_MAX /\ target \in Nat /\ 1 <= target /\ target <= s[n]
  BY <1>1, <1>2 DEF Sum
<1>5. \A d \in 1..(2 * n) : after[d] = IF d > n THEN start
                                       ELSE Descend(bit, target, after[2 * d], d)
  BY <1>4, DescentDef
<1>6. \A j \in Indices : bit[j] = s[j] - s[j - LowBit[j]]
  BY DEF HoldsRanges
<1> HIDE DEF s, after
\* The step of length d, from a good state of the step before.
<1>7. ASSUME NEW d \in Indices, LowBit[d] = d, NEW v, Good(v, 2 * d)
      PROVE  Good(Descend(bit, target, v, d), d)
  <2> DEFINE next == v.idx + d
             cand == v.cur + bit[next]
  <2>1. /\ v.idx \in Nat /\ v.cur \in Nat /\ v.ok = TRUE /\ d \in Nat /\ d >= 1 /\ v.idx \in 0..n
        /\ v = [idx |-> v.idx, cur |-> v.cur, ok |-> v.ok]
    BY <1>1, <1>7 DEF DescentState, Indices
  <2>2. CASE next > n
    <3>1. Descend(bit, target, v, d) = v
      BY <2>2 DEF Descend
    <3>2. v.idx = 0 \/ LowBit[v.idx] >= d
      <4>1. v.idx = 0 \/ v.idx \in Indices
        BY <1>1, <2>1 DEF Indices
      <4>2. QED
        BY <1>7, <2>1, <4>1, LowBitRange
    <3>3. QED
      BY <1>7, <2>2, <3>1, <3>2
  <2>3. CASE ~(next > n)
    <3>1. next \in Indices /\ next \in 0..n /\ next \in Nat
      BY <1>1, <2>1, <2>3 DEF Indices
    <3>2. LowBit[next] = d
      BY <1>7, <2>1, <3>1, StepNode
    <3>3. next - d = v.idx
      BY <2>1
    <3>4. bit[next] = s[next] - s[v.idx]
      BY <1>6, <3>1, <3>2, <3>3
    <3>5. s[next] \in Nat /\ s[v.idx] \in Nat /\ s[next] <= s[n] /\ v.cur = s[v.idx]
      BY <1>1, <1>2, <1>7, <2>1, <3>1, Zenon
    <3>6. cand = s[next]
      BY <3>4, <3>5
    <3>7. ~(cand > U64_MAX)
      <4> HIDE DEF cand, next
      <4>1. QED
        BY <1>1, <1>4, <3>5, <3>6
    <3>8. next + d = v.idx + 2 * d
      BY <2>1
    <3>9. CASE cand < target
      <4> DEFINE w == [v EXCEPT !.idx = next, !.cur = cand]
      <4>1. Descend(bit, target, v, d) = w
        BY <2>3, <3>7, <3>9 DEF Descend
      <4>2. w.idx = next /\ w.cur = cand /\ w.ok = TRUE /\ w \in DescentState
        BY <2>1, <3>1, <3>5, <3>6, Zenon DEF DescentState
      <4> HIDE DEF w, cand, next
      <4>3. Good(w, d)
        <5>1. w.idx <= n
          BY <1>1, <3>1, <4>2
        <5>2. LowBit[w.idx] >= d
          BY <2>1, <3>2, <4>2
        <5>3. w.cur = s[w.idx] /\ s[w.idx] < target
          BY <3>6, <3>9, <4>2
        <5>4. w.idx + d > n \/ target <= s[w.idx + d]
          BY <1>7, <3>8, <4>2
        <5>5. QED
          BY <4>2, <5>1, <5>2, <5>3, <5>4
      <4>4. QED
        BY <4>1, <4>3
    <3>10. CASE ~(cand < target)
      <4>1. Descend(bit, target, v, d) = v
        BY <2>3, <3>7, <3>10 DEF Descend
      <4>2. target <= s[v.idx + d]
        BY <1>4, <3>5, <3>6, <3>10
      <4>3. v.idx = 0 \/ LowBit[v.idx] >= d
        <5>1. v.idx = 0 \/ v.idx \in Indices
          BY <1>1, <2>1 DEF Indices
        <5>2. QED
          BY <1>7, <2>1, <5>1, LowBitRange
      <4>4. QED
        BY <1>7, <4>1, <4>2, <4>3
    <3>11. QED
      BY <3>9, <3>10
  <2>4. QED
    BY <2>2, <2>3
<1> HIDE DEF Good
<1>8. ASSUME NEW d \in Nat, d > n PROVE Good(start, d)
  BY <1>1, <1>3, <1>4, <1>8 DEF Good, DescentState
<1>9. \A d \in Indices : LowBit[d] = d => Good(after[d], d)
  <2> DEFINE Bad == {c \in 0..n : \E d \in Indices : c = n - d /\ LowBit[d] = d /\ ~Good(after[d], d)}
  <2>1. \A d \in Indices : n - d \in 0..n /\ d \in 1..(2 * n) /\ ~(d > n) /\ d \in Nat /\ d >= 1
    BY <1>1 DEF Indices
  <2>2. SUFFICES ASSUME Bad # {} PROVE FALSE
    BY <2>1
  <2>3. PICK c \in Bad : \A k \in Bad : c <= k
    <3>1. Bad \subseteq Nat
      BY <1>1
    <3> HIDE DEF Bad
    <3>2. QED
      BY <2>2, <3>1, LeastElement, Zenon
  <2>4. PICK d \in Indices : c = n - d /\ LowBit[d] = d /\ ~Good(after[d], d)
    OBVIOUS
  <2>5. after[d] = Descend(bit, target, after[2 * d], d)
    BY <1>5, <2>1
  <2>6. Good(after[2 * d], 2 * d)
    <3>1. CASE 2 * d > n
      <4>1. 2 * d \in 1..(2 * n) /\ 2 * d \in Nat
        BY <1>1, <2>1
      <4>2. after[2 * d] = start
        BY <1>5, <3>1, <4>1
      <4>3. QED
        BY <1>8, <3>1, <4>1, <4>2
    <3>2. CASE ~(2 * d > n)
      <4>1. 2 * d \in Indices /\ d \in Nat
        BY <1>1, <2>1, <3>2 DEF Indices
      <4>2. LowBit[2 * d] = 2 * d
        BY <2>4, <4>1, LowBitDouble
      <4>3. n - 2 * d \in 0..n /\ ~(c <= n - 2 * d)
        BY <1>1, <2>1, <2>4, <4>1
      <4>4. QED
        BY <2>3, <4>1, <4>2, <4>3
    <3>3. QED
      BY <3>1, <3>2
  <2>7. QED
    BY <1>7, <2>4, <2>5, <2>6
<1>10. 1 \in Indices /\ LowBit[1] = 1
  BY <1>1, LowBitOdd DEF Indices
<1> DEFINE v == after[1]
<1>11. Good(v, 1)
  BY <1>9, <1>10
<1>12. v.idx \in Nat /\ v.ok /\ v.idx <= n /\ s[v.idx] < target /\ (v.idx + 1 > n \/ target <= s[v.idx + 1])
  BY <1>11 DEF Good, DescentState
<1>13. v.idx # n
  BY <1>4, <1>12
<1> HIDE DEF v
<1>14. v.idx + 1 \in Indices /\ target <= s[v.idx + 1] /\ (v.idx + 1) - 1 = v.idx
  <2>1. ASSUME NEW x \in Nat, x <= n, x # n
        PROVE  x + 1 \in Indices /\ ~(x + 1 > n) /\ (x + 1) - 1 = x
    BY <1>1, <2>1 DEF Indices
  <2>2. QED
    BY <1>12, <1>13, <2>1
<1>15. BitFindPrefix(bit, target) = [index |-> v.idx + 1, ok |-> v.ok]
  BY DEF BitFindPrefix, v, after
<1>16. QED
  BY <1>12, <1>14, <1>15 DEF s

=============================================================================
