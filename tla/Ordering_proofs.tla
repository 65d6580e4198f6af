--------------------------- MODULE Ordering_proofs ---------------------------
(* What Arranged returns for every finite set and every total order, and the *)
(* induction on a number that the proofs about sequences need.               *)
EXTENDS Ordering, FiniteSetTheorems, WellFoundedInduction, TLAPS

LEMMA Least ==
    ASSUME NEW T \in SUBSET Nat, T # {}
    PROVE  \E n \in T : \A m \in T : n <= m
<1>1. PICK n \in T : \A m \in T : <<m, n>> \notin OpToRel(<, Nat)
  BY WFMin, NatLessThanWellFounded
<1>2. \A m \in T : ~(m < n)
  BY <1>1 DEF OpToRel
<1>3. QED
  BY <1>2

\* R orders S: of two members one comes first, and what comes before is carried on.
Orders(R, S) ==
    /\ \A x, y \in S : x # y => <<x, y>> \in R \/ <<y, x>> \in R
    /\ \A x, y, z \in S : <<x, y>> \in R /\ <<y, z>> \in R => <<x, z>> \in R

Arrangement(f, S, R) ==
    /\ f \in [1 .. Cardinality(S) -> S]
    /\ \A x \in S : \E i \in 1 .. Cardinality(S) : f[i] = x
    /\ \A i, j \in 1 .. Cardinality(S) : i < j => <<f[i], f[j]>> \in R

\* A member that comes before all others.
LEMMA First ==
    ASSUME NEW S, IsFiniteSet(S), S # {}, NEW R, Orders(R, S)
    PROVE  \E x \in S : \A y \in S \ {x} : <<x, y>> \in R
<1> DEFINE Bad == {n \in Nat : \E T \in SUBSET S :
                     /\ T # {} /\ Cardinality(T) = n
                     /\ \A x \in T : \E y \in T \ {x} : <<x, y>> \notin R}
<1>1. CASE Bad = {}
  <2>1. Cardinality(S) \in Nat
    BY FS_CardinalityType
  <2>2. Cardinality(S) \notin Bad
    BY <1>1
  <2>3. ~\A x \in S : \E y \in S \ {x} : <<x, y>> \notin R
    BY <2>1, <2>2
  <2>4. QED
    BY <2>3
<1>2. CASE Bad # {}
  <2>1. PICK n \in Bad : \A m \in Bad : n <= m
    BY <1>2, Least
  <2>2. PICK T \in SUBSET S :
          /\ T # {} /\ Cardinality(T) = n
          /\ \A x \in T : \E y \in T \ {x} : <<x, y>> \notin R
    BY <2>1
  <2>3. PICK a \in T : TRUE
    BY <2>2
  <2> DEFINE U == T \ {a}
  <2>4. IsFiniteSet(T) /\ IsFiniteSet(U) /\ Cardinality(U) = n - 1 /\ n \in Nat /\ n - 1 \in Nat
    <3>1. IsFiniteSet(T)
      BY FS_Subset
    <3>2. IsFiniteSet(U) /\ Cardinality(U) = n - 1
      BY <2>2, <2>3, <3>1, FS_RemoveElement
    <3>3. n \in Nat /\ Cardinality(U) \in Nat
      BY <2>2, <3>1, <3>2, FS_CardinalityType
    <3>4. QED
      BY <3>1, <3>2, <3>3
  <2>5. n - 1 \notin Bad
    BY <2>1, <2>4
  <2>6. CASE U = {}
    <3>1. T = {a}
      BY <2>3, <2>6
    <3>2. QED
      BY <2>2, <3>1
  <2>7. CASE U # {}
    <3>1. PICK x \in U : \A y \in U \ {x} : <<x, y>> \in R
      BY <2>4, <2>5, <2>7
    <3>2. CASE <<x, a>> \in R
      <4>1. \A y \in T \ {x} : <<x, y>> \in R
        BY <3>1, <3>2
      <4>2. QED
        BY <2>2, <3>1, <4>1
    <3>3. CASE <<x, a>> \notin R
      <4>1. <<a, x>> \in R
        BY <2>3, <3>1, <3>3 DEF Orders
      <4>2. \A y \in T \ {a} : <<a, y>> \in R
        BY <2>3, <3>1, <4>1 DEF Orders
      <4>3. QED
        BY <2>2, <2>3, <4>2
    <3>4. QED
      BY <3>2, <3>3
  <2>8. QED
    BY <2>6, <2>7
<1>3. QED
  BY <1>1, <1>2

\* Every finite set can be arranged.
LEMMA ArrangementExists ==
    ASSUME NEW S, IsFiniteSet(S), NEW R, Orders(R, S)
    PROVE  \E f : Arrangement(f, S, R)
<1> DEFINE Bad == {n \in Nat : \E T \in SUBSET S :
                     Cardinality(T) = n /\ ~\E f : Arrangement(f, T, R)}
<1>1. CASE Bad = {}
  <2>1. Cardinality(S) \in Nat /\ Cardinality(S) \notin Bad
    BY <1>1, FS_CardinalityType
  <2>2. QED
    BY <2>1
<1>2. CASE Bad # {}
  <2>1. PICK n \in Bad : \A m \in Bad : n <= m
    BY <1>2, Least
  <2>2. PICK T \in SUBSET S : Cardinality(T) = n /\ ~\E f : Arrangement(f, T, R)
    BY <2>1
  <2>3. IsFiniteSet(T) /\ Orders(R, T) /\ n \in Nat
    BY <2>2, FS_Subset DEF Orders
  <2>4. CASE T = {}
    <3>1. n = 0
      BY <2>2, <2>4, FS_EmptySet
    <3>2. Arrangement([i \in 1 .. 0 |-> 0], T, R)
      BY <2>2, <2>4, <3>1 DEF Arrangement
    <3>3. QED
      BY <2>2, <3>2
  <2>5. CASE T # {}
    <3>1. PICK a \in T : \A y \in T \ {a} : <<a, y>> \in R
      BY <2>3, <2>5, First
    <3> DEFINE U == T \ {a}
    <3>2. IsFiniteSet(U) /\ Cardinality(U) = n - 1 /\ n - 1 \in Nat
      <4>1. IsFiniteSet(U) /\ Cardinality(U) = n - 1
        BY <2>2, <2>3, <3>1, FS_RemoveElement
      <4>2. Cardinality(U) \in Nat
        BY <4>1, FS_CardinalityType
      <4>3. QED
        BY <4>1, <4>2
    <3>3. n - 1 \notin Bad
      BY <2>1, <2>3, <3>2
    <3>4. PICK g : Arrangement(g, U, R)
      BY <3>2, <3>3
    <3>5. /\ g \in [1 .. n - 1 -> U]
          /\ \A x \in U : \E i \in 1 .. n - 1 : g[i] = x
          /\ \A i, j \in 1 .. n - 1 : i < j => <<g[i], g[j]>> \in R
      BY <3>2, <3>4 DEF Arrangement
    <3> DEFINE f == [i \in 1 .. n |-> IF i = 1 THEN a ELSE g[i - 1]]
    <3>6. f \in [1 .. n -> T]
      BY <2>3, <3>1, <3>5
    <3>7. \A x \in T : \E i \in 1 .. n : f[i] = x
      <4>1. ASSUME NEW x \in T
            PROVE  \E i \in 1 .. n : f[i] = x
        <5>1. CASE x = a
          <6>1. 1 \in 1 .. n
            BY <3>2
          <6>2. QED
            BY <5>1, <6>1
        <5>2. CASE x # a
          <6>1. PICK i \in 1 .. n - 1 : g[i] = x
            BY <3>5, <5>2
          <6>2. i + 1 \in 1 .. n /\ i + 1 # 1 /\ (i + 1) - 1 = i
            BY <3>2, <6>1
          <6>3. QED
            BY <6>1, <6>2
        <5>3. QED
          BY <5>1, <5>2
      <4>2. QED
        BY <4>1
    <3>8. \A i, j \in 1 .. n : i < j => <<f[i], f[j]>> \in R
      <4>1. ASSUME NEW i \in 1 .. n, NEW j \in 1 .. n, i < j
            PROVE  <<f[i], f[j]>> \in R
        <5>1. j - 1 \in 1 .. n - 1 /\ f[j] = g[j - 1]
          BY <2>3, <4>1
        <5>2. CASE i = 1
          BY <3>1, <3>5, <5>1, <5>2
        <5>3. CASE i # 1
          <6>1. i - 1 \in 1 .. n - 1 /\ f[i] = g[i - 1] /\ i - 1 < j - 1
            BY <2>3, <4>1, <5>3
          <6>2. QED
            BY <3>5, <5>1, <6>1
        <5>4. QED
          BY <5>2, <5>3
      <4>2. QED
        BY <4>1
    <3> HIDE DEF f
    <3>9. Arrangement(f, T, R)
      BY <2>2, <3>6, <3>7, <3>8 DEF Arrangement
    <3>10. QED
      BY <2>2, <3>9
  <2>6. QED
    BY <2>4, <2>5
<1>3. QED
  BY <1>1, <1>2

\* What Arranged returns.
THEOREM ArrangedIsSorted ==
    ASSUME NEW S, IsFiniteSet(S), NEW R, Orders(R, S)
    PROVE  Arrangement(Arranged(S, R), S, R)
<1>1. PICK f : Arrangement(f, S, R)
  BY ArrangementExists
<1>2. /\ f \in [1 .. Cardinality(S) -> S]
      /\ \A x \in S : \E i \in DOMAIN f : f[i] = x
      /\ \A i, j \in DOMAIN f : i < j => <<f[i], f[j]>> \in R
  BY <1>1 DEF Arrangement
<1> DEFINE g == Arranged(S, R)
<1>3. /\ g \in [1 .. Cardinality(S) -> S]
      /\ \A x \in S : \E i \in DOMAIN g : g[i] = x
      /\ \A i, j \in DOMAIN g : i < j => <<g[i], g[j]>> \in R
  BY <1>2 DEF Arranged
<1> HIDE DEF g
<1>4. QED
  BY <1>3 DEF g, Arrangement

-----------------------------------------------------------------------------
(* Positions.                                                               *)

LEMMA IntervalLength == ASSUME NEW n \in Nat PROVE IsFiniteSet(1 .. n) /\ Cardinality(1 .. n) = n
<1>1. IsFiniteSet(1 .. n) /\ Cardinality(1 .. n) = IF 1 > n THEN 0 ELSE n - 1 + 1
  BY FS_Interval
<1>2. QED
  BY <1>1

LEMMA AscendingIsSorted ==
    ASSUME NEW n \in Nat, NEW S \in SUBSET (1 .. n), NEW f, f = Ascending(S)
    PROVE  /\ Cardinality(S) \in Nat /\ Cardinality(S) <= n
           /\ f \in [1 .. Cardinality(S) -> S]
           /\ \A x \in S : \E i \in 1 .. Cardinality(S) : f[i] = x
           /\ \A i, j \in 1 .. Cardinality(S) : i < j => f[i] < f[j]
<1> DEFINE R == {r \in S \X S : r[1] < r[2]}
<1>0. IsFiniteSet(1 .. n) /\ Cardinality(1 .. n) = n
  BY IntervalLength
<1>1. IsFiniteSet(S) /\ Cardinality(S) <= n
  BY <1>0, FS_Subset
<1>2. Cardinality(S) \in Nat
  BY <1>1, FS_CardinalityType
<1>3. \A x, y \in S : <<x, y>> \in R <=> x < y
  OBVIOUS
<1>4. f = Arranged(S, R)
  BY DEF Ascending
<1> HIDE DEF R
<1>5. Orders(R, S)
  BY <1>3 DEF Orders
<1>6. Arrangement(f, S, R)
  BY <1>1, <1>4, <1>5, ArrangedIsSorted
<1>7. /\ f \in [1 .. Cardinality(S) -> S]
      /\ \A x \in S : \E i \in 1 .. Cardinality(S) : f[i] = x
      /\ \A i, j \in 1 .. Cardinality(S) : i < j => <<f[i], f[j]>> \in R
  BY <1>6 DEF Arrangement
<1>8. \A i, j \in 1 .. Cardinality(S) : i < j => f[i] < f[j]
  BY <1>3, <1>7
<1>9. QED
  BY <1>1, <1>2, <1>7, <1>8

\* All positions, in their order, are in their places.
LEMMA AllAscending ==
    ASSUME NEW n \in Nat, NEW f, f = Ascending(1 .. n)
    PROVE  f \in [1 .. n -> 1 .. n] /\ \A i \in 1 .. n : f[i] = i
<1>1. Cardinality(1 .. n) = n
  BY IntervalLength
<1>2. /\ f \in [1 .. n -> 1 .. n]
      /\ \A x \in 1 .. n : \E i \in 1 .. n : f[i] = x
      /\ \A i, j \in 1 .. n : i < j => f[i] < f[j]
  <2>1. PICK S : S = 1 .. n
    OBVIOUS
  <2>2. S \in SUBSET (1 .. n) /\ f = Ascending(S)
    BY <2>1
  <2>3. /\ f \in [1 .. Cardinality(S) -> S]
        /\ \A x \in S : \E i \in 1 .. Cardinality(S) : f[i] = x
        /\ \A i, j \in 1 .. Cardinality(S) : i < j => f[i] < f[j]
    BY <2>2, AscendingIsSorted, SMTT(30)
  <2>4. Cardinality(S) = n
    BY <1>1, <2>1
  <2>5. QED
    BY <2>1, <2>3, <2>4
<1> DEFINE Bad == {i \in 1 .. n : f[i] # i}
<1>3. CASE Bad # {}
  <2>1. PICK k \in Bad : \A m \in Bad : k <= m
    <3>1. Bad \in SUBSET Nat
      OBVIOUS
    <3>2. QED
      BY <1>3, <3>1, Least
  <2>2. k \in 1 .. n /\ f[k] # k /\ f[k] \in 1 .. n
    BY <1>2
  <2>3. \A i \in 1 .. n : i < k => f[i] = i
    BY <2>1
  <2>4. f[k] > k
    <3>1. CASE f[k] < k
      <4>1. f[f[k]] = f[k] /\ f[f[k]] < f[k]
        BY <1>2, <2>2, <2>3, <3>1
      <4>2. QED
        BY <2>2, <4>1
    <3>2. QED
      BY <2>2, <3>1
  <2>5. PICK i \in 1 .. n : f[i] = k
    BY <1>2, <2>2
  <2>6. CASE i < k
    BY <2>3, <2>5, <2>6
  <2>7. CASE i > k
    <3>1. f[k] < f[i]
      BY <1>2, <2>2, <2>7
    <3>2. QED
      BY <2>2, <2>4, <2>5, <3>1
  <2>8. i # k
    BY <2>2, <2>5
  <2>9. QED
    BY <2>2, <2>6, <2>7, <2>8
<1>4. CASE Bad = {}
  BY <1>2, <1>4
<1>5. QED
  BY <1>3, <1>4

-----------------------------------------------------------------------------
(* Folds.                                                                   *)

\* What holds at 0 and is carried on at every step holds at n.
LEMMA Upward ==
    ASSUME NEW n \in Nat, NEW P \in [0 .. n -> BOOLEAN], P[0], \A i \in 1 .. n : P[i - 1] => P[i]
    PROVE  P[n]
<1> DEFINE Bad == {i \in 0 .. n : ~P[i]}
<1>1. CASE Bad = {}
  <2>1. n \in 0 .. n
    OBVIOUS
  <2>2. QED
    BY <1>1, <2>1
<1>2. CASE Bad # {}
  <2>1. PICK k \in Bad : \A m \in Bad : k <= m
    <3>1. Bad \in SUBSET Nat
      OBVIOUS
    <3>2. QED
      BY <1>2, <3>1, Least
  <2>2. k \in 0 .. n /\ ~P[k]
    OBVIOUS
  <2>3. k # 0
    BY <2>2
  <2>4. k \in 1 .. n /\ k - 1 \in 0 .. n /\ ~(k <= k - 1)
    BY <2>2, <2>3
  <2>5. P[k - 1]
    BY <2>1, <2>4
  <2>6. QED
    BY <2>2, <2>4, <2>5
<1>3. QED
  BY <1>1, <1>2

\* f holds what step makes of a, one number at a time.
Folded(f, X, a, n, step) ==
    f \in [0 .. n -> X] /\ f[0] = a /\ \A i \in 1 .. n : f[i] = step[<<i, f[i - 1]>>]

LEMMA FoldExists ==
    ASSUME NEW X, NEW a \in X, NEW n \in Nat, NEW step \in [(1 .. n) \X X -> X]
    PROVE  \E f : Folded(f, X, a, n, step)
<1> DEFINE Good(k) == \E f \in [0 .. k -> X] :
                        f[0] = a /\ \A i \in 1 .. k : f[i] = step[<<i, f[i - 1]>>]
           Bad == {k \in 0 .. n : ~Good(k)}
<1>1. CASE Bad = {}
  <2>1. n \in 0 .. n
    OBVIOUS
  <2>2. Good(n)
    BY <1>1, <2>1
  <2>3. QED
    BY <2>2, Zenon DEF Folded
<1>2. CASE Bad # {}
  <2>1. PICK k \in Bad : \A m \in Bad : k <= m
    <3>1. Bad \in SUBSET Nat
      OBVIOUS
    <3>2. QED
      BY <1>2, <3>1, Least
  <2>2. k \in 0 .. n /\ ~Good(k)
    OBVIOUS
  <2>3. CASE k = 0
    <3> DEFINE f == [i \in 0 .. 0 |-> a]
    <3>1. f \in [0 .. 0 -> X] /\ f[0] = a /\ \A i \in 1 .. 0 : f[i] = step[<<i, f[i - 1]>>]
      OBVIOUS
    <3> HIDE DEF f
    <3>2. QED
      BY <2>2, <2>3, <3>1
  <2>4. CASE k > 0
    <3>1. Good(k - 1)
      BY <2>1, <2>2, <2>4
    <3>2. PICK g \in [0 .. k - 1 -> X] :
            g[0] = a /\ \A i \in 1 .. k - 1 : g[i] = step[<<i, g[i - 1]>>]
      BY <3>1
    <3> DEFINE f == [i \in 0 .. k |-> IF i = k THEN step[<<k, g[k - 1]>>] ELSE g[i]]
    <3>3. k - 1 \in 0 .. k - 1 /\ k \in 1 .. n
      BY <2>2, <2>4
    <3>4. step[<<k, g[k - 1]>>] \in X
      BY <3>2, <3>3
    <3>5. f \in [0 .. k -> X]
      BY <2>2, <2>4, <3>2, <3>4
    <3>6. \A i \in 0 .. k - 1 : f[i] = g[i]
      BY <2>2
    <3>7. f[k] = step[<<k, g[k - 1]>>]
      BY <2>2
    <3> HIDE DEF f
    <3>8. f[0] = a
      BY <2>2, <2>4, <3>2, <3>6
    <3>9. \A i \in 1 .. k : f[i] = step[<<i, f[i - 1]>>]
      <4>1. ASSUME NEW i \in 1 .. k
            PROVE  f[i] = step[<<i, f[i - 1]>>]
        <5>1. i - 1 \in 0 .. k - 1 /\ f[i - 1] = g[i - 1]
          BY <2>2, <3>6
        <5>2. CASE i = k
          BY <3>7, <5>1, <5>2
        <5>3. CASE i # k
          <6>1. i \in 1 .. k - 1 /\ i \in 0 .. k - 1
            BY <2>2, <5>3
          <6>2. QED
            BY <3>2, <3>6, <5>1, <6>1
        <5>4. QED
          BY <5>2, <5>3
      <4>2. QED
        BY <4>1
    <3>10. Good(k)
      BY <3>5, <3>8, <3>9
    <3>11. QED
      BY <2>2, <3>10
  <2>5. QED
    BY <2>2, <2>3, <2>4
<1>3. QED
  BY <1>1, <1>2
=============================================================================
