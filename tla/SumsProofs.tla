----------------------------- MODULE SumsProofs -----------------------------
(***************************************************************************)
(* What Sum does, for every length: changing one term changes the sum by   *)
(* the difference, a sum of zeros is zero, and a sum of naturals is at     *)
(* least each of its terms.  Induction over the length is by the least     *)
(* counterexample (LeastElement), which needs no operator parameter.       *)
(***************************************************************************)
EXTENDS Sums, WellFoundedInduction, TLAPS

\* Every non-empty set of naturals has a least element.
LEMMA LeastElement ==
  ASSUME NEW T \in SUBSET Nat, T # {}
  PROVE  \E x \in T : \A y \in T : x <= y
<1>1. PICK x \in T : \A y \in T : ~(<<y, x>> \in OpToRel(<, Nat))
  BY NatLessThanWellFounded, WFMin
<1>2. \A y \in T : ~(y < x)
  BY <1>1 DEF OpToRel
<1> QED BY <1>2

\* Induction up to n, for a property given as a set.
LEMMA InductionUpTo ==
  ASSUME NEW n \in Nat, NEW S, 0 \in S,
         \A i \in 1..n : i - 1 \in S => i \in S
  PROVE  \A i \in 0..n : i \in S
<1> DEFINE Bad == {i \in 0..n : i \notin S}
<1>1. SUFFICES ASSUME Bad # {} PROVE FALSE
  OBVIOUS
<1>2. Bad \in SUBSET Nat
  OBVIOUS
<1>3. \E m \in Bad : \A k \in Bad : m <= k
  <2> HIDE DEF Bad
  <2> QED BY <1>1, <1>2, LeastElement
<1>4. PICK m \in Bad : \A k \in Bad : m <= k
  BY <1>3
<1>5. m \in 1..n /\ m - 1 \in 0..n /\ m - 1 \notin Bad
  BY <1>4
<1> QED BY <1>4, <1>5

\* The recursion that defines the partial sums has a solution.
LEMMA PartialSumsExist ==
  ASSUME NEW n \in Nat, NEW f \in [1..n -> Int]
  PROVE  \E s \in [0..n -> Int] :
            s = [i \in 0..n |-> IF i = 0 THEN 0 ELSE s[i - 1] + f[i]]
<1> DEFINE Solves(s, m) == s = [i \in 0..m |-> IF i = 0 THEN 0 ELSE s[i - 1] + f[i]]
           Good == {m \in 0..n : \E s \in [0..m -> Int] : Solves(s, m)}
<1>1. 0 \in Good
  <2> DEFINE z == [i \in 0..0 |-> 0]
  <2>1. z \in [0..0 -> Int] /\ Solves(z, 0)
    OBVIOUS
  <2>2. \E s \in [0..0 -> Int] : Solves(s, 0)
    <3> HIDE DEF Solves, z
    <3> QED BY <2>1
  <2> HIDE DEF Solves
  <2> QED BY <2>2
<1>2. ASSUME NEW m \in 1..n, m - 1 \in Good
      PROVE  m \in Good
  <2>1. PICK s \in [0..(m - 1) -> Int] : Solves(s, m - 1)
    BY <1>2
  <2> DEFINE r == [i \in 0..m |-> IF i = m THEN s[m - 1] + f[m] ELSE s[i]]
  <2>2. r \in [0..m -> Int]
    BY SMTT(20), ZenonT(60), <2>1
  <2>3. ASSUME NEW i \in 0..m
        PROVE  r[i] = IF i = 0 THEN 0 ELSE r[i - 1] + f[i]
    <3>1. CASE i = m
      BY <3>1, <2>1
    <3>2. CASE i # m
      <4>1. i \in 0..(m - 1) /\ r[i] = s[i]
        BY <3>2
      <4>2. s[i] = IF i = 0 THEN 0 ELSE s[i - 1] + f[i]
        BY <4>1, <2>1
      <4>3. i # 0 => r[i - 1] = s[i - 1]
        BY <4>1
      <4> QED BY <4>1, <4>2, <4>3
    <3> QED BY <3>1, <3>2
  <2>4. Solves(r, m)
    BY <2>2, <2>3
  <2>5. \E t \in [0..m -> Int] : Solves(t, m)
    <3> HIDE DEF Solves, r
    <3> QED BY <2>2, <2>4
  <2> HIDE DEF Solves
  <2> QED BY <2>5
<1>3. \A m \in 0..n : m \in Good
  <2> HIDE DEF Good
  <2> QED BY <1>1, <1>2, InductionUpTo
<1>4. \E s \in [0..n -> Int] : Solves(s, n)
  <2> HIDE DEF Solves
  <2> QED BY <1>3
<1> QED BY <1>4

\* The partial sums satisfy their recursion.
LEMMA PartialSumsDef ==
  ASSUME NEW n \in Nat, NEW f \in [1..n -> Int]
  PROVE  /\ PartialSums(f, n) \in [0..n -> Int]
         /\ PartialSums(f, n)[0] = 0
         /\ \A i \in 1..n : PartialSums(f, n)[i] = PartialSums(f, n)[i - 1] + f[i]
<1> DEFINE p == PartialSums(f, n)
           Good == {i \in 0..n : p[i] \in Int}
<1>1. PICK s \in [0..n -> Int] :
         s = [i \in 0..n |-> IF i = 0 THEN 0 ELSE s[i - 1] + f[i]]
  BY PartialSumsExist
<1>2. p = [i \in 0..n |-> IF i = 0 THEN 0 ELSE p[i - 1] + f[i]]
  BY <1>1 DEF PartialSums
<1> HIDE DEF p
<1>3. p[0] = 0 /\ \A i \in 1..n : p[i] = p[i - 1] + f[i]
  BY <1>2
<1>4. 0 \in Good /\ \A i \in 1..n : i - 1 \in Good => i \in Good
  BY SMTT(20), ZenonT(60), <1>3
<1>5. \A i \in 0..n : i \in Good
  <2> HIDE DEF Good
  <2> QED BY <1>4, InductionUpTo
<1>6. p \in [0..n -> Int]
  BY <1>2, <1>5
<1> QED BY <1>3, <1>6 DEF p

\* A sum is an integer.
LEMMA SumType ==
  ASSUME NEW n \in Nat, NEW f \in [1..n -> Int]
  PROVE  Sum(f, n) \in Int
BY PartialSumsDef DEF Sum

\* Any solution of the recursion ends in the sum.
LEMMA SumUnique ==
  ASSUME NEW n \in Nat, NEW f \in [1..n -> Int], NEW s \in [0..n -> Int],
         s[0] = 0, \A i \in 1..n : s[i] = s[i - 1] + f[i]
  PROVE  Sum(f, n) = s[n]
<1> DEFINE p == PartialSums(f, n)
           Good == {i \in 0..n : p[i] = s[i]}
<1>1. p \in [0..n -> Int] /\ p[0] = 0 /\ \A i \in 1..n : p[i] = p[i - 1] + f[i]
  BY PartialSumsDef
<1>2. Sum(f, n) = p[n]
  BY DEF Sum
<1> HIDE DEF p
<1>3. 0 \in Good /\ \A i \in 1..n : i - 1 \in Good => i \in Good
  BY <1>1
<1>4. \A i \in 0..n : i \in Good
  <2> HIDE DEF Good
  <2> QED BY <1>3, InductionUpTo
<1> QED BY <1>2, <1>4

\* Changing the k-th term changes the sum by the difference.
LEMMA SumUpdate ==
  ASSUME NEW n \in Nat, NEW f \in [1..n -> Int], NEW g \in [1..n -> Int],
         NEW k \in 1..n, \A i \in 1..n : i # k => g[i] = f[i]
  PROVE  Sum(g, n) = Sum(f, n) - f[k] + g[k]
<1> DEFINE p == PartialSums(f, n)
           s == [i \in 0..n |-> IF i < k THEN p[i] ELSE p[i] - f[k] + g[k]]
<1>1. p \in [0..n -> Int] /\ p[0] = 0 /\ \A i \in 1..n : p[i] = p[i - 1] + f[i]
  BY PartialSumsDef
<1>2. Sum(f, n) = p[n]
  BY DEF Sum
<1> HIDE DEF p
<1>3. k \in Int /\ 0 < k /\ k <= n /\ f[k] \in Int /\ g[k] \in Int
  OBVIOUS
<1>4. \A i \in 0..n : p[i] \in Int
  BY <1>1
<1>5. s \in [0..n -> Int] /\ s[0] = 0
  <2>1. ASSUME NEW i \in 0..n
        PROVE  (IF i < k THEN p[i] ELSE p[i] - f[k] + g[k]) \in Int
    <3>1. p[i] \in Int /\ p[i] - f[k] + g[k] \in Int
      BY <1>3, <1>4
    <3> QED BY <3>1
  <2>2. s \in [0..n -> Int]
    BY <2>1
  <2>3. s[0] = 0
    BY <1>1, <1>3
  <2> QED BY <2>2, <2>3
<1>6. ASSUME NEW i \in 1..n
      PROVE  s[i] = s[i - 1] + g[i]
  <2>1. i \in Int /\ i - 1 \in 0..n /\ i \in 0..n /\ p[i] = p[i - 1] + f[i]
    BY <1>1
  <2>2. CASE i < k
    <3>1. s[i] = p[i] /\ s[i - 1] = p[i - 1] /\ g[i] = f[i]
      BY <2>1, <2>2, <1>3
    <3> QED BY <3>1, <2>1
  <2>3. CASE i = k
    <3>1. s[i] = p[i] - f[k] + g[k] /\ s[i - 1] = p[i - 1]
      BY <2>1, <2>3, <1>3
    <3> QED BY <3>1, <2>1, <2>3, <1>3, <1>4
  <2>4. CASE i > k
    <3>1. s[i] = p[i] - f[k] + g[k] /\ s[i - 1] = p[i - 1] - f[k] + g[k]
      BY <2>1, <2>4, <1>3
    <3>2. g[i] = f[i] /\ f[i] \in Int
      BY <2>4, <1>3
    <3> QED BY SMTT(20), ZenonT(60), <3>1, <3>2, <2>1, <1>3, <1>4
  <2> QED BY <2>1, <2>2, <2>3, <2>4, <1>3
<1>7. Sum(g, n) = s[n]
  <2> HIDE DEF s
  <2> QED BY <1>5, <1>6, SumUnique
<1>8. s[n] = p[n] - f[k] + g[k]
  BY <1>3
<1> QED BY <1>2, <1>7, <1>8

\* Functions that agree on 1..n have the same sum.
LEMMA SumSame ==
  ASSUME NEW n \in Nat, NEW f \in [1..n -> Int], NEW g \in [1..n -> Int],
         \A i \in 1..n : g[i] = f[i]
  PROVE  Sum(g, n) = Sum(f, n)
<1>1. f = g
  OBVIOUS
<1> QED BY <1>1

\* A sum of zeros is zero.
LEMMA SumZero ==
  ASSUME NEW n \in Nat, NEW f \in [1..n -> Int], \A i \in 1..n : f[i] = 0
  PROVE  Sum(f, n) = 0
<1> DEFINE s == [i \in 0..n |-> 0]
<1>1. s \in [0..n -> Int] /\ s[0] = 0 /\ \A i \in 1..n : s[i] = s[i - 1] + f[i]
  OBVIOUS
<1>2. Sum(f, n) = s[n]
  BY <1>1, SumUnique
<1> QED BY <1>2

\* A sum of naturals is a natural.
LEMMA SumNat ==
  ASSUME NEW n \in Nat, NEW f \in [1..n -> Int], \A i \in 1..n : f[i] >= 0
  PROVE  Sum(f, n) >= 0
<1> DEFINE p == PartialSums(f, n)
           Good == {i \in 0..n : p[i] >= 0}
<1>1. p \in [0..n -> Int] /\ p[0] = 0 /\ \A i \in 1..n : p[i] = p[i - 1] + f[i]
  BY PartialSumsDef
<1>2. Sum(f, n) = p[n]
  BY DEF Sum
<1> HIDE DEF p
<1>3. 0 \in Good /\ \A i \in 1..n : i - 1 \in Good => i \in Good
  BY <1>1
<1>4. \A i \in 0..n : i \in Good
  <2> HIDE DEF Good
  <2> QED BY <1>3, InductionUpTo
<1> QED BY <1>2, <1>4

\* A sum of naturals is at least each of its terms.
LEMMA SumAtLeast ==
  ASSUME NEW n \in Nat, NEW f \in [1..n -> Int], \A i \in 1..n : f[i] >= 0,
         NEW k \in 1..n
  PROVE  Sum(f, n) >= f[k]
<1> DEFINE g == [f EXCEPT ![k] = 0]
<1>1. g \in [1..n -> Int] /\ \A i \in 1..n : g[i] >= 0
  OBVIOUS
<1>2. Sum(g, n) = Sum(f, n) - f[k] + g[k]
  BY <1>1, SumUpdate
<1>3. Sum(g, n) >= 0
  BY <1>1, SumNat
<1> QED BY <1>1, <1>2, <1>3, SumType

\* A sum grows with its terms.
LEMMA SumMonotone ==
  ASSUME NEW n \in Nat, NEW f \in [1..n -> Int], NEW g \in [1..n -> Int],
         \A i \in 1..n : f[i] <= g[i]
  PROVE  Sum(f, n) <= Sum(g, n)
<1> DEFINE p == PartialSums(f, n)
           q == PartialSums(g, n)
           Good == {i \in 0..n : p[i] <= q[i]}
<1>1. p \in [0..n -> Int] /\ p[0] = 0 /\ \A i \in 1..n : p[i] = p[i - 1] + f[i]
  BY PartialSumsDef
<1>2. q \in [0..n -> Int] /\ q[0] = 0 /\ \A i \in 1..n : q[i] = q[i - 1] + g[i]
  BY PartialSumsDef
<1>3. Sum(f, n) = p[n] /\ Sum(g, n) = q[n]
  BY DEF Sum
<1> HIDE DEF p, q
<1>4. 0 \in Good
  BY <1>1, <1>2
<1>5. ASSUME NEW i \in 1..n, i - 1 \in Good PROVE i \in Good
  <2>1. /\ p[i - 1] \in Int /\ q[i - 1] \in Int /\ f[i] \in Int /\ g[i] \in Int
        /\ p[i - 1] <= q[i - 1] /\ f[i] <= g[i]
        /\ p[i] = p[i - 1] + f[i] /\ q[i] = q[i - 1] + g[i] /\ i \in 0..n
    BY <1>1, <1>2, <1>5
  <2> QED BY <2>1
<1>6. \A i \in 0..n : i \in Good
  <2> HIDE DEF Good
  <2> QED BY <1>4, <1>5, InductionUpTo
<1> QED BY <1>3, <1>6
=============================================================================
