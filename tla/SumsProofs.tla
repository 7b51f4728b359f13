----------------------------- MODULE SumsProofs -----------------------------
(***************************************************************************)
(* Facts about Sum.  The library's induction theorems take a predicate as  *)
(* an operator parameter, which the installed provers cannot instantiate,  *)
(* so induction is stated here over a set of naturals and derived from the *)
(* well-foundedness of the order on Nat.                                   *)
(***************************************************************************)
EXTENDS Sums, WellFoundedInduction, TLAPS

\* A non-empty set of naturals has a least element; the start of every
\* argument by induction below.
LEMMA LeastNat ==
  ASSUME NEW S, S \subseteq Nat, S # {}
  PROVE  \E m \in S : \A k \in S : m <= k
<1>1. PICK m \in S : \A k \in S : ~(<<k, m>> \in OpToRel(<, Nat))
  BY NatLessThanWellFounded, WFMin, Zenon
<1>2. \A k \in S : ~(k < m)
  BY <1>1 DEF OpToRel
<1> QED BY <1>2

\* Induction over Nat, for a set instead of a predicate.
LEMMA NatSetInduction ==
  ASSUME NEW S, 0 \in S, \A m \in Nat : m \in S => m + 1 \in S
  PROVE  \A n \in Nat : n \in S
<1> DEFINE Bad == {n \in Nat : n \notin S}
<1>1. SUFFICES ASSUME Bad # {} PROVE FALSE
  OBVIOUS
<1>2. PICK m \in Bad : \A k \in Bad : m <= k
  BY <1>1, LeastNat
<1>3. m # 0 /\ m - 1 \in Nat
  BY <1>2
<1>4. m - 1 \in S
  BY <1>2, <1>3
<1>5. (m - 1) + 1 \in S
  BY <1>3, <1>4
<1> QED BY <1>2, <1>3, <1>5

\* The recursive definition of PartialSums has a solution.
LEMMA PartialSumsExist ==
  ASSUME NEW g, NEW n \in Nat
  PROVE  \E P : P = [i \in 0..n |-> IF i = 0 THEN 0 ELSE P[i-1] + g[i]]
<1> DEFINE Good(m) == \E P : P = [i \in 0..m |-> IF i = 0 THEN 0 ELSE P[i-1] + g[i]]
           S == {m \in Nat : Good(m)}
<1>1. Good(0)
  <2> DEFINE Z == [i \in 0..0 |-> 0]
  <2>1. Z = [i \in 0..0 |-> IF i = 0 THEN 0 ELSE Z[i-1] + g[i]]
    OBVIOUS
  <2> QED BY <2>1
<1>2. ASSUME NEW m \in Nat, Good(m) PROVE Good(m+1)
  <2>1. PICK P : P = [i \in 0..m |-> IF i = 0 THEN 0 ELSE P[i-1] + g[i]]
    BY <1>2
  <2> DEFINE Q == [i \in 0..(m+1) |-> IF i = m+1 THEN P[m] + g[m+1] ELSE P[i]]
  <2>2. \A i \in 0..(m+1) : Q[i] = IF i = 0 THEN 0 ELSE Q[i-1] + g[i]
    BY <2>1
  <2>3. Q = [i \in 0..(m+1) |-> IF i = 0 THEN 0 ELSE Q[i-1] + g[i]]
    BY <2>2, Zenon
  <2> QED BY <2>3, Zenon
<1>3. 0 \in S /\ \A m \in Nat : m \in S => m + 1 \in S
  BY <1>1, <1>2
<1> HIDE DEF Good
<1>4. n \in S
  BY <1>3, NatSetInduction
<1> QED BY <1>4 DEF Good

\* PartialSums satisfies its recursive equation.
LEMMA PartialSumsDef ==
  ASSUME NEW g, NEW n \in Nat
  PROVE  PartialSums(g, n) =
           [i \in 0..n |-> IF i = 0 THEN 0 ELSE PartialSums(g, n)[i-1] + g[i]]
BY PartialSumsExist, Zenon DEF PartialSums

\* One step of the sum.
LEMMA PartialSumsStep ==
  ASSUME NEW g, NEW n \in Nat
  PROVE  /\ PartialSums(g, n)[0] = 0
         /\ \A i \in 1..n : PartialSums(g, n)[i] = PartialSums(g, n)[i-1] + g[i]
<1> DEFINE P == PartialSums(g, n)
<1>1. P = [i \in 0..n |-> IF i = 0 THEN 0 ELSE P[i-1] + g[i]]
  BY PartialSumsDef
<1> HIDE DEF P
<1>2. P[0] = 0 /\ \A i \in 1..n : P[i] = P[i-1] + g[i]
  BY <1>1
<1> QED BY <1>2 DEF P

\* A sum of integers is an integer.
LEMMA PartialSumsInt ==
  ASSUME NEW n \in Nat, NEW g, \A i \in 1..n : g[i] \in Int
  PROVE  \A i \in 0..n : PartialSums(g, n)[i] \in Int
<1> DEFINE P == PartialSums(g, n)
           S == {i \in Nat : i <= n => P[i] \in Int}
<1>1. P[0] = 0 /\ \A i \in 1..n : P[i] = P[i-1] + g[i]
  BY PartialSumsStep
<1> HIDE DEF P
<1>2. 0 \in S
  BY <1>1
<1>3. ASSUME NEW m \in Nat, m \in S PROVE m + 1 \in S
  <2> SUFFICES ASSUME m + 1 <= n PROVE P[m+1] \in Int
    OBVIOUS
  <2>1. P[m] \in Int /\ m + 1 \in 1..n
    BY <1>3
  <2>2. P[m+1] = P[m] + g[m+1]
    BY <1>1, <2>1
  <2> QED BY <2>1, <2>2
<1>4. \A i \in Nat : i \in S
  BY <1>2, <1>3, NatSetInduction
<1> QED BY <1>4 DEF P

\* The sum of all n terms is an integer.
LEMMA SumInt ==
  ASSUME NEW n \in Nat, NEW g, \A i \in 1..n : g[i] \in Int
  PROVE  Sum(g, n) \in Int
BY PartialSumsInt DEF Sum

\* Sums are additive: what a combination of functions adds up to.
LEMMA SumAdd ==
  ASSUME NEW n \in Nat, NEW a, NEW b, NEW c,
         \A i \in 1..n : a[i] \in Int /\ b[i] \in Int /\ c[i] = a[i] + b[i]
  PROVE  Sum(c, n) = Sum(a, n) + Sum(b, n)
<1> DEFINE A == PartialSums(a, n)
           B == PartialSums(b, n)
           C == PartialSums(c, n)
           S == {i \in Nat : i <= n => C[i] = A[i] + B[i]}
<1>1. /\ A[0] = 0 /\ \A i \in 1..n : A[i] = A[i-1] + a[i]
      /\ B[0] = 0 /\ \A i \in 1..n : B[i] = B[i-1] + b[i]
      /\ C[0] = 0 /\ \A i \in 1..n : C[i] = C[i-1] + c[i]
  BY PartialSumsStep
<1>2. \A i \in 0..n : A[i] \in Int /\ B[i] \in Int
  BY PartialSumsInt
<1> HIDE DEF A, B, C
<1>3. 0 \in S
  BY <1>1
<1>4. ASSUME NEW m \in Nat, m \in S PROVE m + 1 \in S
  <2> SUFFICES ASSUME m + 1 <= n PROVE C[m+1] = A[m+1] + B[m+1]
    OBVIOUS
  <2>1. m + 1 \in 1..n /\ m \in 0..n /\ C[m] = A[m] + B[m]
    BY <1>4
  <2>2. A[m+1] = A[m] + a[m+1] /\ B[m+1] = B[m] + b[m+1] /\ C[m+1] = C[m] + c[m+1]
    BY <1>1, <2>1
  <2>3. A[m] \in Int /\ B[m] \in Int /\ a[m+1] \in Int /\ b[m+1] \in Int
        /\ c[m+1] = a[m+1] + b[m+1]
    BY <1>2, <2>1
  <2> QED BY <2>1, <2>2, <2>3
<1>5. \A i \in Nat : i \in S
  BY <1>3, <1>4, NatSetInduction
<1>6. C[n] = A[n] + B[n]
  BY <1>5
<1> QED BY <1>6 DEF Sum, A, B, C

\* Sums are monotone.
LEMMA SumMonotone ==
  ASSUME NEW n \in Nat, NEW a, NEW b,
         \A i \in 1..n : a[i] \in Int /\ b[i] \in Int /\ a[i] <= b[i]
  PROVE  Sum(a, n) <= Sum(b, n)
<1> DEFINE A == PartialSums(a, n)
           B == PartialSums(b, n)
           S == {i \in Nat : i <= n => A[i] <= B[i]}
<1>1. /\ A[0] = 0 /\ \A i \in 1..n : A[i] = A[i-1] + a[i]
      /\ B[0] = 0 /\ \A i \in 1..n : B[i] = B[i-1] + b[i]
  BY PartialSumsStep
<1>2. \A i \in 0..n : A[i] \in Int /\ B[i] \in Int
  BY PartialSumsInt
<1> HIDE DEF A, B
<1>3. 0 \in S
  BY <1>1
<1>4. ASSUME NEW m \in Nat, m \in S PROVE m + 1 \in S
  <2> SUFFICES ASSUME m + 1 <= n PROVE A[m+1] <= B[m+1]
    OBVIOUS
  <2>1. m + 1 \in 1..n /\ m \in 0..n /\ A[m] <= B[m]
    BY <1>4
  <2>2. A[m+1] = A[m] + a[m+1] /\ B[m+1] = B[m] + b[m+1]
    BY <1>1, <2>1
  <2>3. A[m] \in Int /\ B[m] \in Int /\ a[m+1] \in Int /\ b[m+1] \in Int
        /\ a[m+1] <= b[m+1]
    BY <1>2, <2>1
  <2> QED BY <2>1, <2>2, <2>3
<1>5. \A i \in Nat : i \in S
  BY <1>3, <1>4, NatSetInduction
<1>6. A[n] <= B[n]
  BY <1>5
<1> QED BY <1>6 DEF Sum, A, B

\* The sum of the zero function.
LEMMA SumZero ==
  ASSUME NEW n \in Nat, NEW z, \A i \in 1..n : z[i] = 0
  PROVE  Sum(z, n) = 0
<1>1. Sum(z, n) = Sum(z, n) + Sum(z, n)
  BY SumAdd
<1>2. Sum(z, n) \in Int
  BY SumInt
<1>3. \A x \in Int : x = x + x => x = 0
  OBVIOUS
<1> QED BY <1>1, <1>2, <1>3

\* A sum of naturals is a natural, and no less than any of its terms.
LEMMA SumNat ==
  ASSUME NEW n \in Nat, NEW g, \A i \in 1..n : g[i] \in Nat
  PROVE  Sum(g, n) \in Nat
<1> DEFINE z == [i \in 1..n |-> 0]
<1>1. Sum(z, n) = 0
  BY SumZero
<1>2. Sum(z, n) <= Sum(g, n)
  BY SumMonotone
<1>3. Sum(g, n) \in Int
  BY SumInt
<1> QED BY <1>1, <1>2, <1>3

\* The function that is d at r and zero elsewhere sums to d.
LEMMA SumSingle ==
  ASSUME NEW n \in Nat, NEW r \in 1..n, NEW d \in Int, NEW g,
         \A i \in 1..n : g[i] = IF i = r THEN d ELSE 0
  PROVE  Sum(g, n) = d
<1> DEFINE P == PartialSums(g, n)
           S == {i \in Nat : i <= n => P[i] = IF i < r THEN 0 ELSE d}
<1>1. P[0] = 0 /\ \A i \in 1..n : P[i] = P[i-1] + g[i]
  BY PartialSumsStep
<1> HIDE DEF P
<1>2. 0 \in S
  BY <1>1
<1>3. ASSUME NEW m \in Nat, m \in S PROVE m + 1 \in S
  <2> SUFFICES ASSUME m + 1 <= n PROVE P[m+1] = IF m + 1 < r THEN 0 ELSE d
    OBVIOUS
  <2>1. m + 1 \in 1..n /\ P[m] = IF m < r THEN 0 ELSE d
    BY <1>3
  <2>2. P[m+1] = P[m] + g[m+1]
    BY <1>1, <2>1
  <2>3. g[m+1] = IF m + 1 = r THEN d ELSE 0
    BY <2>1
  <2> QED BY <2>1, <2>2, <2>3
<1>4. \A i \in Nat : i \in S
  BY <1>2, <1>3, NatSetInduction
<1>5. P[n] = d
  BY <1>4
<1> QED BY <1>5 DEF Sum, P

\* Changing a function at one index changes its sum by as much.
LEMMA SumChange ==
  ASSUME NEW n \in Nat, NEW r \in 1..n, NEW a, NEW b,
         \A i \in 1..n : a[i] \in Int /\ b[i] \in Int,
         \A i \in 1..n : i # r => b[i] = a[i]
  PROVE  Sum(b, n) = Sum(a, n) + (b[r] - a[r])
<1> DEFINE d == b[r] - a[r]
           s == [i \in 1..n |-> IF i = r THEN d ELSE 0]
<1>1. d \in Int /\ \A i \in 1..n : s[i] = IF i = r THEN d ELSE 0
  OBVIOUS
<1>2. \A i \in 1..n : a[i] \in Int /\ s[i] \in Int /\ b[i] = a[i] + s[i]
  OBVIOUS
<1> HIDE DEF s
<1>3. Sum(s, n) = d
  <2> HIDE DEF d
  <2> QED BY <1>1, SumSingle
<1>4. Sum(b, n) = Sum(a, n) + Sum(s, n)
  BY <1>2, SumAdd
<1> QED BY <1>3, <1>4

\* One term of a sum of naturals is no more than the sum.
LEMMA TermAtMostSum ==
  ASSUME NEW n \in Nat, NEW r \in 1..n, NEW g, \A i \in 1..n : g[i] \in Nat
  PROVE  g[r] <= Sum(g, n)
<1> DEFINE s == [i \in 1..n |-> IF i = r THEN g[r] ELSE 0]
<1>1. Sum(s, n) = g[r]
  <2>1. g[r] \in Int /\ \A i \in 1..n : s[i] = IF i = r THEN g[r] ELSE 0
    OBVIOUS
  <2> HIDE DEF s
  <2> QED BY <2>1, SumSingle
<1>2. Sum(s, n) <= Sum(g, n)
  BY SumMonotone
<1> QED BY <1>1, <1>2

\* Functions that agree on 1..n have the same sum.
LEMMA SumEqual ==
  ASSUME NEW n \in Nat, NEW a, NEW b,
         \A i \in 1..n : a[i] \in Int /\ a[i] = b[i]
  PROVE  Sum(a, n) = Sum(b, n)
<1>1. Sum(a, n) <= Sum(b, n) /\ Sum(b, n) <= Sum(a, n)
  BY SumMonotone
<1>2. Sum(a, n) \in Int /\ Sum(b, n) \in Int
  BY SumInt
<1> QED BY <1>1, <1>2

\* A sum over one more index.
LEMMA SumMore ==
  ASSUME NEW n \in Nat, NEW a, NEW b, \A i \in 1..n : b[i] = a[i] /\ a[i] \in Int,
         b[n + 1] \in Int
  PROVE  Sum(b, n + 1) = Sum(a, n) + b[n + 1]
<1> DEFINE A == PartialSums(a, n)
           B == PartialSums(b, n + 1)
           S == {i \in Nat : i <= n => B[i] = A[i]}
<1>1. A[0] = 0 /\ \A i \in 1..n : A[i] = A[i-1] + a[i]
  BY PartialSumsStep
<1>2. B[0] = 0 /\ \A i \in 1..n + 1 : B[i] = B[i-1] + b[i]
  BY PartialSumsStep
<1> HIDE DEF A, B
<1>3. 0 \in S
  BY <1>1, <1>2
<1>4. ASSUME NEW m \in Nat, m \in S PROVE m + 1 \in S
  <2> SUFFICES ASSUME m + 1 <= n PROVE B[m+1] = A[m+1]
    OBVIOUS
  <2>1. m + 1 \in 1..n /\ m + 1 \in 1..n + 1 /\ B[m] = A[m] /\ (m + 1) - 1 = m
    BY <1>4
  <2> QED BY <1>1, <1>2, <2>1
<1>5. \A i \in Nat : i \in S
  BY <1>3, <1>4, NatSetInduction
<1>6. B[n] = A[n] /\ B[n + 1] = B[n] + b[n + 1]
  BY <1>2, <1>5
<1> QED BY <1>6 DEF Sum, A, B

\* A sum without its first index.
LEMMA SumLess ==
  ASSUME NEW n \in Nat, NEW a, NEW b, \A i \in 1..n : b[i] = a[i + 1],
         \A i \in 1..n + 1 : a[i] \in Int
  PROVE  Sum(a, n + 1) = a[1] + Sum(b, n)
<1> DEFINE A == PartialSums(a, n + 1)
           B == PartialSums(b, n)
           S == {i \in Nat : i <= n => A[i + 1] = a[1] + B[i]}
<1>1. A[0] = 0 /\ \A i \in 1..n + 1 : A[i] = A[i-1] + a[i]
  BY PartialSumsStep
<1>2. B[0] = 0 /\ \A i \in 1..n : B[i] = B[i-1] + b[i]
  BY PartialSumsStep
<1>3. \A i \in 0..n : B[i] \in Int
  <2>1. \A i \in 1..n : b[i] \in Int
    OBVIOUS
  <2> QED BY <2>1, PartialSumsInt
<1> HIDE DEF A, B
<1>4. 0 \in S
  <2>1. 1 \in 1..n + 1 /\ 1 - 1 = 0
    OBVIOUS
  <2> QED BY <1>1, <1>2, <2>1
<1>5. ASSUME NEW m \in Nat, m \in S PROVE m + 1 \in S
  <2> SUFFICES ASSUME m + 1 <= n PROVE A[(m + 1) + 1] = a[1] + B[m + 1]
    OBVIOUS
  <2>1. /\ (m + 1) + 1 \in 1..n + 1 /\ ((m + 1) + 1) - 1 = m + 1
        /\ m + 1 \in 1..n /\ (m + 1) - 1 = m /\ m \in 0..n
    OBVIOUS
  <2>2. A[(m + 1) + 1] = A[m + 1] + a[(m + 1) + 1] /\ A[m + 1] = a[1] + B[m]
    BY <1>1, <1>5, <2>1
  <2>3. B[m + 1] = B[m] + a[(m + 1) + 1]
    BY <1>2, <2>1
  <2>4. a[1] \in Int /\ B[m] \in Int /\ a[(m + 1) + 1] \in Int
    BY <1>3, <2>1
  <2> QED BY <2>2, <2>3, <2>4
<1>6. \A i \in Nat : i \in S
  BY <1>4, <1>5, NatSetInduction
<1>7. A[n + 1] = a[1] + B[n]
  BY <1>6
<1> QED BY <1>7 DEF Sum, A, B
=============================================================================
