--------------------------- MODULE ApportionProofs ---------------------------
(***************************************************************************)
(* Proofs about weighted_caps, for any number of slots and any weights of  *)
(* any items: every split it may return gives out each slot once and by    *)
(* weight.                                                                 *)
(*                                                                         *)
(* Whole shares and remainders add up to the slots (WholeTotal).  If the   *)
(* shares with their raises to one are too many, each payment takes one    *)
(* from the largest, and there is always somebody to pay (OnePaid); if they*)
(* are too few, the largest remainders get one more, and there are never   *)
(* more slots left than items (CapsAre).                                   *)
(***************************************************************************)
EXTENDS Apportion, SumsProofs, FiniteSetTheorems

\* The larger of two integers.
LEMMA MaxPair ==
  ASSUME NEW a \in Int, NEW b \in Int
  PROVE  Max({a, b}) = IF a >= b THEN a ELSE b
<1> DEFINE m == IF a >= b THEN a ELSE b
<1>1. m \in {a, b} /\ \A y \in {a, b} : m >= y
  OBVIOUS
<1>2. \A x \in {a, b} : (\A y \in {a, b} : x >= y) => x = m
  OBVIOUS
<1> QED BY <1>1, <1>2 DEF Max

\* A finite set of integers that is not empty has a largest and a smallest element.
LEMMA HasMax ==
  ASSUME NEW S, IsFiniteSet(S), S # {}, S \subseteq Int
  PROVE  Max(S) \in S /\ \A y \in S : y <= Max(S)
<1> DEFINE Good(n) == \A T : /\ IsFiniteSet(T) /\ T \subseteq Int
                             /\ Cardinality(T) = n + 1
                             => \E x \in T : \A y \in T : y <= x
           N == {n \in Nat : Good(n)}
<1>1. 0 \in N
  <2> SUFFICES ASSUME NEW T, IsFiniteSet(T), T \subseteq Int, Cardinality(T) = 0 + 1
               PROVE  \E x \in T : \A y \in T : y <= x
    OBVIOUS
  <2>1. Cardinality(T) = 1
    OBVIOUS
  <2>2. PICK x : T = {x}
    BY <2>1, FS_Singleton
  <2> QED BY <2>2
<1>2. ASSUME NEW n \in Nat, n \in N PROVE n + 1 \in N
  <2> SUFFICES ASSUME NEW T, IsFiniteSet(T), T \subseteq Int, Cardinality(T) = (n + 1) + 1
               PROVE  \E x \in T : \A y \in T : y <= x
    OBVIOUS
  <2>1. T # {}
    BY FS_EmptySet
  <2>2. PICK z \in T : TRUE
    BY <2>1
  <2>3. IsFiniteSet(T \ {z}) /\ Cardinality(T \ {z}) = n + 1
    BY FS_RemoveElement
  <2>4. PICK x \in T \ {z} : \A y \in T \ {z} : y <= x
    BY <1>2, <2>3
  <2>5. CASE z <= x
    BY <2>4, <2>5
  <2>6. CASE ~(z <= x)
    <3>1. \A y \in T : y <= z
      BY <2>4, <2>6
    <3> QED BY <3>1
  <2> QED BY <2>5, <2>6
<1>3. \A n \in Nat : n \in N
  <2> HIDE DEF N
  <2> QED BY <1>1, <1>2, NatSetInduction
<1>4. Cardinality(S) \in Nat /\ Cardinality(S) # 0
  BY FS_CardinalityType, FS_EmptySet
<1>5. PICK n \in Nat : Cardinality(S) = n + 1
  <2>1. Cardinality(S) - 1 \in Nat /\ Cardinality(S) = (Cardinality(S) - 1) + 1
    BY <1>4
  <2> QED BY <2>1
<1>6. PICK x \in S : \A y \in S : y <= x
  <2>1. n \in N
    BY <1>3
  <2>2. Good(n)
    BY <2>1
  <2> QED BY <2>2, <1>5
<1>7. \E z \in S : \A y \in S : z >= y
  BY <1>6
<1>8. Max(S) \in S /\ \A y \in S : Max(S) >= y
  BY <1>7, Zenon DEF Max
<1> QED BY <1>8

\* A set of naturals that is not empty has a smallest element.
LEMMA HasMin ==
  ASSUME NEW S, S # {}, S \subseteq Nat
  PROVE  Min(S) \in S /\ \A y \in S : Min(S) <= y
<1>1. \E m \in S : \A k \in S : m <= k
  BY LeastNat
<1> QED BY <1>1, Zenon DEF Min

\* Fractions are compared by cross-multiplication.
LEMMA ProductMonotone ==
  ASSUME NEW a \in Nat, NEW b \in Nat, NEW c \in Nat, a <= b
  PROVE  a * c <= b * c
<1>1. PICK d \in Nat : b = a + d
  <2>1. b - a \in Nat /\ b = a + (b - a)
    OBVIOUS
  <2> QED BY <2>1
<1>2. b * c = a * c + d * c
  BY <1>1
<1>3. d * c \in Nat /\ a * c \in Nat
  OBVIOUS
<1> QED BY <1>2, <1>3

\* A product by the same positive number keeps no other order.
LEMMA ProductCancels ==
  ASSUME NEW a \in Nat, NEW b \in Nat, NEW c \in Nat \ {0}, a * c <= b * c
  PROVE  a <= b
<1> SUFFICES ASSUME b < a PROVE FALSE
  OBVIOUS
<1>1. PICK d \in Nat : a = b + 1 + d
  <2>1. a - b - 1 \in Nat /\ a = b + 1 + (a - b - 1)
    OBVIOUS
  <2> QED BY <2>1
<1>2. a * c = b * c + c + d * c
  BY <1>1
<1>3. d * c \in Nat /\ b * c \in Nat
  OBVIOUS
<1> QED BY <1>2, <1>3

-----------------------------------------------------------------------------
(* Totals over a finite set of items.                                      *)

\* What an item set is: finite, its items numbers above zero.
Items(D) == IsFiniteSet(D) /\ D \subseteq Nat \ {0}

\* A function on items, continued with zero.
Padded(f, n) == [i \in 1..n |-> IF i \in DOMAIN f THEN f[i] ELSE 0]

\* The total is a sum up to the largest item.
LEMMA TotalIs ==
  ASSUME NEW D, Items(D)
  PROVE  \E n \in Nat : D \subseteq 1..n /\ \A f : DOMAIN f = D => Total(f) = Sum(Padded(f, n), n)
<1> DEFINE M == {0} \union D
           n == Max(M)
<1>1. IsFiniteSet(M) /\ M # {} /\ M \subseteq Int
  BY FS_AddElement DEF Items
<1>2. n \in M /\ \A y \in M : y <= n
  BY <1>1, HasMax
<1>5. ASSUME NEW f, DOMAIN f = D PROVE Total(f) = Sum(Padded(f, n), n)
  BY <1>5 DEF Total, Padded
<1> HIDE DEF n
<1>3. n \in Nat
  BY <1>2 DEF Items
<1>4. D \subseteq 1..n
  BY <1>2, <1>3 DEF Items
<1> QED BY <1>3, <1>4, <1>5

\* A total of integers is one.
LEMMA TotalInt ==
  ASSUME NEW D, Items(D), NEW f \in [D -> Int]
  PROVE  Total(f) \in Int
<1>1. PICK n \in Nat : D \subseteq 1..n /\ \A g : DOMAIN g = D => Total(g) = Sum(Padded(g, n), n)
  BY TotalIs
<1>2. \A i \in 1..n : Padded(f, n)[i] \in Int
  BY DEF Padded
<1>3. Sum(Padded(f, n), n) \in Int
  BY <1>2, SumInt
<1> QED BY <1>1, <1>3

\* Totals are additive.
LEMMA TotalAdd ==
  ASSUME NEW D, Items(D), NEW a \in [D -> Int], NEW b \in [D -> Int], NEW c \in [D -> Int],
         \A i \in D : c[i] = a[i] + b[i]
  PROVE  Total(c) = Total(a) + Total(b)
<1>1. PICK n \in Nat : D \subseteq 1..n /\ \A g : DOMAIN g = D => Total(g) = Sum(Padded(g, n), n)
  BY TotalIs
<1> DEFINE A == Padded(a, n)
           B == Padded(b, n)
           C == Padded(c, n)
<1>2. \A i \in 1..n : A[i] \in Int /\ B[i] \in Int /\ C[i] = A[i] + B[i]
  BY DEF Padded
<1> HIDE DEF A, B, C
<1>3. Sum(C, n) = Sum(A, n) + Sum(B, n)
  BY <1>2, SumAdd
<1> QED BY <1>1, <1>3 DEF A, B, C

\* The total of zeroes.
LEMMA TotalZero ==
  ASSUME NEW D, Items(D), NEW g \in [D -> Int], \A i \in D : g[i] = 0
  PROVE  Total(g) = 0
<1>1. \A i \in D : g[i] = g[i] + g[i]
  OBVIOUS
<1>2. Total(g) = Total(g) + Total(g)
  BY <1>1, TotalAdd
<1>3. Total(g) \in Int
  BY TotalInt
<1>4. \A x \in Int : x = x + x => x = 0
  OBVIOUS
<1> QED BY <1>2, <1>3, <1>4

\* Totals are monotone.
LEMMA TotalMonotone ==
  ASSUME NEW D, Items(D), NEW a \in [D -> Int], NEW b \in [D -> Int], \A i \in D : a[i] <= b[i]
  PROVE  Total(a) <= Total(b)
<1>1. PICK n \in Nat : D \subseteq 1..n /\ \A g : DOMAIN g = D => Total(g) = Sum(Padded(g, n), n)
  BY TotalIs
<1> DEFINE A == Padded(a, n)
           B == Padded(b, n)
<1>2. \A i \in 1..n : A[i] \in Int /\ B[i] \in Int /\ A[i] <= B[i]
  BY DEF Padded
<1> HIDE DEF A, B
<1>3. Sum(A, n) <= Sum(B, n)
  BY <1>2, SumMonotone
<1> QED BY <1>1, <1>3 DEF A, B

\* What a change at one item does to the total.
LEMMA TotalChange ==
  ASSUME NEW D, Items(D), NEW r \in D, NEW a \in [D -> Int], NEW b \in [D -> Int],
         \A i \in D : i # r => b[i] = a[i]
  PROVE  Total(b) = Total(a) + (b[r] - a[r])
<1>1. PICK n \in Nat : D \subseteq 1..n /\ \A g : DOMAIN g = D => Total(g) = Sum(Padded(g, n), n)
  BY TotalIs
<1> DEFINE A == Padded(a, n)
           B == Padded(b, n)
<1>2. \A i \in 1..n : A[i] \in Int /\ B[i] \in Int /\ (i # r => B[i] = A[i])
  BY DEF Padded
<1>3. r \in 1..n /\ A[r] = a[r] /\ B[r] = b[r]
  BY <1>1 DEF Padded
<1> HIDE DEF A, B
<1>4. Sum(B, n) = Sum(A, n) + (B[r] - A[r])
  BY <1>2, <1>3, SumChange
<1> QED BY <1>1, <1>3, <1>4 DEF A, B

\* A total of naturals is one.
LEMMA TotalNat ==
  ASSUME NEW D, Items(D), NEW f \in [D -> Nat]
  PROVE  Total(f) \in Nat
<1>1. PICK n \in Nat : D \subseteq 1..n /\ \A g : DOMAIN g = D => Total(g) = Sum(Padded(g, n), n)
  BY TotalIs
<1>2. \A i \in 1..n : Padded(f, n)[i] \in Nat
  BY DEF Padded
<1>3. Sum(Padded(f, n), n) \in Nat
  BY <1>2, SumNat
<1> QED BY <1>1, <1>3

\* The total of what gives c to each of some items.
LEMMA TotalOn ==
  ASSUME NEW D, Items(D), NEW c \in Nat, NEW S, S \subseteq D
  PROVE  Total([i \in D |-> IF i \in S THEN c ELSE 0]) = c * Cardinality(S)
<1> DEFINE F(T) == [i \in D |-> IF i \in T THEN c ELSE 0]
           Upto(m) == \A T : T \subseteq D /\ Cardinality(T) = m => Total(F(T)) = c * m
           N == {m \in Nat : Upto(m)}
<1>0. \A T : T \subseteq D => IsFiniteSet(T) /\ Cardinality(T) \in Nat
  BY FS_Subset, FS_CardinalityType DEF Items
<1>1. Upto(0)
  <2> SUFFICES ASSUME NEW T, T \subseteq D, Cardinality(T) = 0 PROVE Total(F(T)) = 0
    OBVIOUS
  <2>1. T = {}
    BY <1>0, FS_EmptySet
  <2> DEFINE g == F(T)
  <2>2. g \in [D -> Int] /\ \A i \in D : g[i] = 0
    BY <2>1
  <2> HIDE DEF g
  <2>4. Total(g) = 0
    BY <2>2, TotalZero
  <2> QED BY <2>4 DEF g
<1>2. ASSUME NEW m \in Nat, Upto(m) PROVE Upto(m + 1)
  <2> SUFFICES ASSUME NEW T, T \subseteq D, Cardinality(T) = m + 1 PROVE Total(F(T)) = c * (m + 1)
    OBVIOUS
  <2>1. PICK x : x \in T
    BY <1>0, FS_EmptySet
  <2>2. Cardinality(T \ {x}) = m /\ T \ {x} \subseteq D
    <3>1. Cardinality(T \ {x}) = Cardinality(T) - 1
      BY <1>0, <2>1, FS_RemoveElement
    <3> QED BY <3>1
  <2>3. Total(F(T \ {x})) = c * m
    BY <1>2, <2>2
  <2> DEFINE a == F(T \ {x})
             b == F(T)
  <2>4. a \in [D -> Int] /\ b \in [D -> Int] /\ x \in D /\ a[x] = 0 /\ b[x] = c /\ \A i \in D : i # x => b[i] = a[i]
    BY <2>1
  <2>5. Total(a) = c * m
    BY <2>3
  <2> HIDE DEF a, b
  <2>6. Total(b) = Total(a) + (b[x] - a[x])
    BY <2>4, TotalChange
  <2>7. Total(b) = c * m + c
    BY <2>4, <2>5, <2>6
  <2>8. c * (m + 1) = c * m + c
    OBVIOUS
  <2> QED BY <2>7, <2>8 DEF b
<1> HIDE DEF Upto
<1>3. 0 \in N /\ \A m \in Nat : m \in N => m + 1 \in N
  BY <1>1, <1>2
<1>4. \A m \in Nat : m \in N
  BY <1>3, NatSetInduction
<1>5. Upto(Cardinality(S))
  BY <1>0, <1>4
<1> QED BY <1>5 DEF Upto

\* The total of a multiple.
LEMMA TotalTimes ==
  ASSUME NEW D, Items(D), NEW c \in Nat, NEW a \in [D -> Int], NEW b \in [D -> Int],
         \A i \in D : b[i] = c * a[i]
  PROVE  Total(b) = c * Total(a)
<1> DEFINE F(m) == [i \in D |-> m * a[i]]
           N == {m \in Nat : Total(F(m)) = m * Total(a)}
<1>8. Total(a) \in Int
  BY TotalInt
<1>9. \A m \in Nat : F(m) \in [D -> Int]
  OBVIOUS
<1>1. Total(F(0)) = 0 * Total(a)
  <2> DEFINE g == F(0)
  <2>1. \A i \in D : g[i] = 0
    OBVIOUS
  <2>2. g \in [D -> Int]
    BY <2>1
  <2> HIDE DEF g
  <2>3. Total(g) = 0
    BY <2>1, <2>2, TotalZero
  <2>4. Total(g) = 0 /\ 0 * Total(a) = 0
    <3>1. PICK x \in Int : x = Total(a)
      BY <1>8
    <3>2. 0 * x = 0
      OBVIOUS
    <3> QED BY <2>3, <3>1, <3>2
  <2> QED BY <2>4 DEF g
<1>2. ASSUME NEW m \in Nat, Total(F(m)) = m * Total(a) PROVE Total(F(m + 1)) = (m + 1) * Total(a)
  <2> DEFINE g == F(m)
             h == F(m + 1)
  <2>1. g \in [D -> Int] /\ h \in [D -> Int] /\ \A i \in D : h[i] = g[i] + a[i]
    OBVIOUS
  <2>2. Total(g) = m * Total(a)
    BY <1>2
  <2> HIDE DEF g, h
  <2>3. Total(h) = Total(g) + Total(a)
    BY <2>1, TotalAdd
  <2>4. (m + 1) * Total(a) = m * Total(a) + Total(a)
    BY <1>8
  <2>5. Total(h) = (m + 1) * Total(a)
    BY <2>2, <2>3, <2>4
  <2> QED BY <2>5 DEF h
<1>3. 0 \in N /\ \A m \in Nat : m \in N => m + 1 \in N
  BY <1>1, <1>2
<1>4. c \in N
  BY <1>3, NatSetInduction
<1>5. b = F(c)
  <2>1. \A i \in D : b[i] = F(c)[i]
    OBVIOUS
  <2> QED BY <2>1
<1> QED BY <1>4, <1>5

-----------------------------------------------------------------------------
(* Shares by weight.                                                       *)

\* Slots to split and the items' weights.
Divisible(max, w, D) ==
  Items(D) /\ D # {} /\ max \in Nat \ {0} /\ w \in [D -> Int]

\* The whole shares, what they leave over, and the shares with one at least.
Whole(max, w) == [i \in DOMAIN w |-> whole_share(max, w, i)]

\* What each item's whole share leaves over.
Rest(max, w) == [i \in DOMAIN w |-> remainder(max, w, i)]

\* Each item's share to begin with.
Floor(max, w) == [i \in DOMAIN w |-> floor_share(max, w, i)]

\* Division with remainder.
LEMMA DivMod ==
  ASSUME NEW a \in Nat, NEW b \in Nat \ {0}
  PROVE  a \div b \in Nat /\ a % b \in 0..(b - 1) /\ a = (a \div b) * b + (a % b)
OBVIOUS

\* A set of items with a member counts at least one.
LEMMA ItemCount ==
  ASSUME NEW D, Items(D), NEW S, S \subseteq D
  PROVE  /\ IsFiniteSet(S) /\ Cardinality(S) \in Nat
         /\ Cardinality(S) <= Cardinality(D)
         /\ (S # {} => Cardinality(S) > 0)
         /\ (Cardinality(S) = Cardinality(D) => S = D)
<1>1. IsFiniteSet(S) /\ Cardinality(S) \in Nat /\ Cardinality(S) <= Cardinality(D)
  BY FS_Subset, FS_CardinalityType DEF Items
<1>2. S # {} => Cardinality(S) # 0
  BY <1>1, FS_EmptySet
<1>3. Cardinality(S) = Cardinality(D) => S = D
  BY FS_Subset DEF Items
<1> QED BY <1>1, <1>2, <1>3

\* Weights count at least one.
LEMMA WeightsCount ==
  ASSUME NEW max, NEW w, NEW D, Divisible(max, w, D)
  PROVE  /\ \A i \in D : item_weight(w, i) \in Nat \ {0}
         /\ [i \in D |-> item_weight(w, i)] \in [D -> Nat]
         /\ total_weight(w) = Total([i \in D |-> item_weight(w, i)])
         /\ total_weight(w) \in Nat \ {0}
<1>1. \A i \in D : item_weight(w, i) \in Nat \ {0}
  <2> TAKE i \in D
  <2>1. PICK x \in Int : x = w[i]
    BY DEF Divisible
  <2>2. Max({1, x}) = IF 1 >= x THEN 1 ELSE x
    BY MaxPair
  <2>3. Max({1, x}) \in Nat \ {0}
    BY <2>2
  <2> QED BY <2>1, <2>3 DEF item_weight
<1> DEFINE W == [i \in D |-> item_weight(w, i)]
<1>2. W \in [D -> Nat] /\ W \in [D -> Int]
  BY <1>1
<1>3. total_weight(w) = Total(W)
  BY DEF total_weight, Divisible
<1>4. Items(D)
  BY DEF Divisible
<1>5. \A i \in D : W[i] >= 1
  BY <1>1
<1> HIDE DEF W
<1> DEFINE U == [i \in D |-> IF i \in D THEN 1 ELSE 0]
<1>6. Total(U) = 1 * Cardinality(D)
  BY <1>4, TotalOn
<1>7. U \in [D -> Int] /\ \A i \in D : U[i] <= W[i]
  BY <1>2, <1>5
<1> HIDE DEF U
<1>8. Total(U) <= Total(W) /\ Total(W) \in Nat
  BY <1>2, <1>4, <1>7, TotalMonotone, TotalNat
<1>9. Cardinality(D) \in Nat /\ Cardinality(D) > 0
  BY <1>4, ItemCount DEF Divisible
<1>10. Total(W) \in Nat \ {0}
  BY <1>6, <1>8, <1>9
<1> QED BY <1>1, <1>2, <1>3, <1>10 DEF W

\* An item's weight is its whole share and a remainder below the total.
LEMMA ShareOf ==
  ASSUME NEW max, NEW w, NEW D, Divisible(max, w, D), NEW i \in D
  PROVE  /\ Whole(max, w)[i] = whole_share(max, w, i) /\ Rest(max, w)[i] = remainder(max, w, i)
         /\ Whole(max, w)[i] \in Nat
         /\ Rest(max, w)[i] \in 0..(total_weight(w) - 1)
         /\ max * item_weight(w, i) = Whole(max, w)[i] * total_weight(w) + Rest(max, w)[i]
<1>1. PICK T \in Nat \ {0} : T = total_weight(w)
  BY WeightsCount
<1>2. PICK v \in Nat \ {0} : v = item_weight(w, i)
  BY WeightsCount
<1>3. max * v \in Nat
  BY DEF Divisible
<1>4. (max * v) \div T \in Nat /\ (max * v) % T \in 0..(T - 1) /\ max * v = ((max * v) \div T) * T + ((max * v) % T)
  BY <1>3, DivMod
<1>5. Whole(max, w)[i] = (max * v) \div T /\ Rest(max, w)[i] = (max * v) % T
  BY <1>1, <1>2 DEF Whole, Rest, whole_share, remainder, Divisible
<1>6. Whole(max, w)[i] = whole_share(max, w, i) /\ Rest(max, w)[i] = remainder(max, w, i)
  BY DEF Whole, Rest, Divisible
<1> HIDE DEF Whole, Rest
<1> QED BY <1>1, <1>2, <1>4, <1>5, <1>6

\* The whole shares leave fewer slots than there are items.
LEMMA WholeTotal ==
  ASSUME NEW max, NEW w, NEW D, Divisible(max, w, D)
  PROVE  /\ Whole(max, w) \in [D -> Nat] /\ Rest(max, w) \in [D -> Nat]
         /\ Total(Whole(max, w)) \in Nat /\ Total(Rest(max, w)) \in Nat
         /\ Total(Whole(max, w)) * total_weight(w) + Total(Rest(max, w)) = max * total_weight(w)
         /\ Total(Whole(max, w)) <= max
         /\ max - Total(Whole(max, w)) < Cardinality(D)
<1>0. Items(D) /\ max \in Nat /\ DOMAIN w = D
  BY DEF Divisible
<1> DEFINE s == Whole(max, w)
           r == Rest(max, w)
           W == [i \in D |-> item_weight(w, i)]
<1>1. PICK T \in Nat \ {0} : T = total_weight(w) /\ T = Total(W)
  BY WeightsCount
<1>2. W \in [D -> Nat]
  BY WeightsCount
<1>3. \A i \in D : s[i] \in Nat /\ r[i] \in Nat /\ r[i] < T /\ max * W[i] = s[i] * T + r[i]
  <2> TAKE i \in D
  <2>1. W[i] = item_weight(w, i)
    OBVIOUS
  <2> HIDE DEF s, r, W
  <2>2. s[i] \in Nat /\ r[i] \in 0..(T - 1) /\ max * item_weight(w, i) = s[i] * T + r[i]
    BY <1>1, ShareOf DEF s, r
  <2> QED BY <2>1, <2>2
<1>4. s \in [D -> Nat] /\ r \in [D -> Nat]
  <2>1. s = [i \in D |-> whole_share(max, w, i)] /\ r = [i \in D |-> remainder(max, w, i)]
    BY <1>0 DEF Whole, Rest
  <2>2. DOMAIN s = D /\ DOMAIN r = D /\ s = [i \in D |-> s[i]] /\ r = [i \in D |-> r[i]]
    BY <2>1
  <2> HIDE DEF s, r
  <2> QED BY <1>3, <2>2
<1> HIDE DEF s, r, W
<1> DEFINE a == [i \in D |-> max * W[i]]
           b == [i \in D |-> T * s[i]]
<1>5. a \in [D -> Int] /\ b \in [D -> Int] /\ \A i \in D : b[i] = T * s[i] /\ a[i] = max * W[i]
  BY <1>0, <1>2, <1>4
<1>6. \A i \in D : a[i] = b[i] + r[i]
  <2> TAKE i \in D
  <2>1. a[i] = max * W[i] /\ b[i] = T * s[i]
    BY <1>5
  <2>2. s[i] \in Nat /\ max * W[i] = s[i] * T + r[i]
    BY <1>3
  <2>3. s[i] * T = T * s[i]
    BY <2>2
  <2> QED BY <2>1, <2>2, <2>3
<1> HIDE DEF a, b
<1>7. PICK A \in Nat, R \in Nat : A = Total(s) /\ R = Total(r)
  BY <1>0, <1>4, TotalNat
<1>8. Total(a) = max * T
  <2>1. Total(a) = max * Total(W)
    <3>1. W \in [D -> Int]
      BY <1>2
    <3> QED BY <1>0, <1>5, <3>1, TotalTimes
  <2> QED BY <1>1, <2>1
<1>9. Total(b) = T * A
  <2>1. s \in [D -> Int]
    BY <1>4
  <2>2. Total(b) = T * Total(s)
    BY <1>0, <1>5, <2>1, TotalTimes
  <2> QED BY <1>7, <2>2
<1>10. Total(a) = Total(b) + Total(r)
  <2>1. r \in [D -> Int]
    BY <1>4
  <2> QED BY <1>0, <1>5, <1>6, <2>1, TotalAdd
<1>11. max * T = A * T + R
  <2>1. T * A = A * T
    OBVIOUS
  <2> QED BY <1>7, <1>8, <1>9, <1>10, <2>1
<1>12. PICK n \in Nat \ {0} : n = Cardinality(D)
  BY <1>0, ItemCount DEF Divisible
<1>13. R < n * T
  <2> DEFINE one == [i \in D |-> IF i \in D THEN 1 ELSE 0]
             top == [i \in D |-> IF i \in D THEN T ELSE 0]
  <2>1. Total(top) = T * n
    BY <1>0, <1>12, TotalOn
  <2>2. Total(one) = 1 * n
    BY <1>0, <1>12, TotalOn
  <2> DEFINE up == [i \in D |-> r[i] + one[i]]
  <2>3. /\ r \in [D -> Int] /\ one \in [D -> Int] /\ top \in [D -> Int] /\ up \in [D -> Int]
        /\ \A i \in D : up[i] = r[i] + one[i] /\ up[i] <= top[i]
    BY <1>3, <1>4
  <2> HIDE DEF one, top, up
  <2>4. Total(up) = Total(r) + Total(one)
    <3>1. \A i \in D : up[i] = r[i] + one[i]
      BY <2>3
    <3>2. r \in [D -> Int] /\ one \in [D -> Int] /\ up \in [D -> Int]
      BY <2>3
    <3> QED BY <1>0, <3>1, <3>2, TotalAdd
  <2>5. Total(up) <= Total(top)
    BY <1>0, <2>3, TotalMonotone
  <2>6. T * n = n * T /\ 1 * n = n
    OBVIOUS
  <2>7. R + n <= n * T
    BY <1>7, <2>1, <2>2, <2>4, <2>5, <2>6
  <2>8. n * T \in Nat
    OBVIOUS
  <2> QED BY <2>7, <2>8
<1>14. A <= max
  <2>1. A * T <= max * T
    <3>1. A * T \in Nat /\ max * T \in Nat
      BY <1>0
    <3> QED BY <1>11, <3>1
  <2> QED BY <1>0, <2>1, ProductCancels
<1>15. max - A < n
  <2> SUFFICES ASSUME n <= max - A PROVE FALSE
    BY <1>0
  <2>1. PICK d \in Nat : max = A + n + d
    <3>1. max - A - n \in Nat /\ max = A + n + (max - A - n)
      BY <1>0
    <3> QED BY <3>1
  <2>2. max * T = A * T + n * T + d * T
    BY <2>1
  <2>3. A * T \in Nat /\ n * T \in Nat /\ d * T \in Nat
    OBVIOUS
  <2> QED BY <1>11, <1>13, <2>2, <2>3
<1> QED BY <1>1, <1>4, <1>7, <1>11, <1>12, <1>14, <1>15 DEF s, r

\* A raise to one makes shares exceed the slots only where each item can have one.
LEMMA FloorTotal ==
  ASSUME NEW max, NEW w, NEW D, Divisible(max, w, D)
  PROVE  /\ Floor(max, w) \in [D -> Nat] /\ Total(Floor(max, w)) \in Nat
         /\ \A i \in D : /\ Floor(max, w)[i] = floor_share(max, w, i)
                         /\ Floor(max, w)[i] =
                              IF max >= Cardinality(D) /\ Whole(max, w)[i] = 0 THEN 1 ELSE Whole(max, w)[i]
         /\ Total(Whole(max, w)) <= Total(Floor(max, w))
         /\ Total(Floor(max, w)) > max => max >= Cardinality(D)
         /\ max - Total(Floor(max, w)) < Cardinality(D)
<1>0. Items(D) /\ max \in Nat /\ DOMAIN w = D
  BY DEF Divisible
<1> DEFINE s == Whole(max, w)
           f == Floor(max, w)
<1>1. s \in [D -> Nat] /\ Total(s) \in Nat /\ Total(s) <= max /\ max - Total(s) < Cardinality(D)
  BY WholeTotal
<1>2. PICK n \in Nat : n = Cardinality(D)
  BY <1>0, ItemCount
<1>3. \A i \in D : f[i] = floor_share(max, w, i) /\ f[i] = IF max >= n /\ s[i] = 0 THEN 1 ELSE s[i]
  <2> TAKE i \in D
  <2>1. f[i] = floor_share(max, w, i)
    BY <1>0 DEF Floor
  <2>2. s[i] = whole_share(max, w, i)
    BY <1>0 DEF Whole
  <2> HIDE DEF s, f
  <2>3. PICK x \in Nat : x = s[i]
    BY <1>1
  <2>4. Max({1, x}) = IF 1 >= x THEN 1 ELSE x
    BY MaxPair
  <2>5. floor_share(max, w, i) = IF max >= n THEN Max({1, x}) ELSE x
    BY <1>0, <1>2, <2>2, <2>3 DEF floor_share
  <2> QED BY <2>1, <2>3, <2>4, <2>5
<1>4. f = [i \in D |-> f[i]]
  BY <1>0 DEF Floor
<1> HIDE DEF s, f
<1>5. f \in [D -> Nat] /\ f \in [D -> Int] /\ s \in [D -> Int] /\ \A i \in D : s[i] <= f[i]
  <2>1. \A i \in D : f[i] \in Nat /\ s[i] \in Nat /\ s[i] <= f[i]
    BY <1>1, <1>3
  <2> QED BY <1>1, <1>4, <2>1
<1>6. Total(s) <= Total(f) /\ Total(f) \in Nat
  BY <1>0, <1>5, TotalMonotone, TotalNat
<1>7. ASSUME ~(max >= n) PROVE Total(f) <= Total(s)
  <2>1. \A i \in D : f[i] <= s[i]
    BY <1>1, <1>3, <1>7
  <2> QED BY <1>0, <1>5, <2>1, TotalMonotone
<1>8. Total(f) > max => max >= n
  BY <1>0, <1>1, <1>2, <1>6, <1>7
<1> QED BY <1>0, <1>1, <1>2, <1>3, <1>5, <1>6, <1>8 DEF s, f

-----------------------------------------------------------------------------
(* Paying for the raises.                                                  *)

\* The heavier item has the larger whole share, or the same and more left over.
LEMMA WholeOrdered ==
  ASSUME NEW max, NEW w, NEW D, Divisible(max, w, D), NEW i \in D, NEW j \in D,
         item_weight(w, i) > item_weight(w, j)
  PROVE  \/ Whole(max, w)[i] > Whole(max, w)[j]
         \/ Whole(max, w)[i] = Whole(max, w)[j] /\ Rest(max, w)[i] > Rest(max, w)[j]
<1>1. PICK T \in Nat \ {0}, u \in Nat \ {0}, v \in Nat \ {0} :
        T = total_weight(w) /\ u = item_weight(w, i) /\ v = item_weight(w, j)
  BY WeightsCount
<1>2. PICK a \in Nat, b \in Nat, x \in Nat, y \in Nat :
        /\ a = Whole(max, w)[i] /\ b = Whole(max, w)[j] /\ x = Rest(max, w)[i] /\ y = Rest(max, w)[j]
        /\ x < T /\ y < T /\ max * u = a * T + x /\ max * v = b * T + y
  <2>1. /\ Whole(max, w)[i] \in Nat /\ Rest(max, w)[i] \in 0..(T - 1)
        /\ max * u = Whole(max, w)[i] * T + Rest(max, w)[i]
    BY <1>1, ShareOf
  <2>2. /\ Whole(max, w)[j] \in Nat /\ Rest(max, w)[j] \in 0..(T - 1)
        /\ max * v = Whole(max, w)[j] * T + Rest(max, w)[j]
    BY <1>1, ShareOf
  <2> QED BY <2>1, <2>2
<1>3. PICK m \in Nat \ {0} : m = max
  BY DEF Divisible
<1>4. PICK d \in Nat : u = v + 1 + d
  <2>1. u - v - 1 \in Nat /\ u = v + 1 + (u - v - 1)
    BY <1>1
  <2> QED BY <2>1
<1>5. m * u = m * v + m + m * d
  BY <1>4
<1>6. m * v \in Nat /\ m * d \in Nat
  OBVIOUS
<1>7. a * T + x > b * T + y
  BY <1>2, <1>3, <1>5, <1>6
<1>8. a >= b
  <2> SUFFICES ASSUME a < b PROVE FALSE
    OBVIOUS
  <2>1. PICK e \in Nat : b = a + 1 + e
    <3>1. b - a - 1 \in Nat /\ b = a + 1 + (b - a - 1)
      OBVIOUS
    <3> QED BY <3>1
  <2>2. b * T = a * T + T + e * T
    BY <2>1
  <2>3. a * T \in Nat /\ e * T \in Nat
    OBVIOUS
  <2> QED BY <1>2, <1>7, <2>2, <2>3
<1>9. a = b => x > y
  <2>1. a * T \in Nat
    OBVIOUS
  <2> QED BY <1>7, <2>1
<1>10. a > b \/ (a = b /\ x > y)
  BY <1>8, <1>9
<1> QED BY <1>2, <1>10, Zenon

\* While more slots are given out than there are items, somebody can pay.
LEMMA HasPayer ==
  ASSUME NEW max, NEW w, NEW D, Divisible(max, w, D), NEW a \in [D -> Nat], Total(a) > Cardinality(D)
  PROVE  payers(max, w, a) # {}
<1>0. Items(D) /\ DOMAIN w = D
  BY DEF Divisible
<1> DEFINE E == {i \in D : a[i] > 1}
<1>1. E # {}
  <2> SUFFICES ASSUME E = {} PROVE FALSE
    OBVIOUS
  <2> DEFINE one == [i \in D |-> IF i \in D THEN 1 ELSE 0]
  <2>1. Total(one) = 1 * Cardinality(D)
    BY <1>0, TotalOn
  <2>2. a \in [D -> Int] /\ one \in [D -> Int] /\ \A i \in D : a[i] <= one[i]
    OBVIOUS
  <2> HIDE DEF one
  <2>3. Total(a) <= Total(one)
    BY <1>0, <2>2, TotalMonotone
  <2>4. Cardinality(D) \in Nat /\ Total(a) \in Nat
    BY <1>0, ItemCount, TotalNat
  <2> QED BY <2>1, <2>3, <2>4
<1> DEFINE V == {a[i] : i \in E}
<1>2. PICK m \in V : \A y \in V : y <= m
  <2>1. IsFiniteSet(E)
    BY <1>0, ItemCount
  <2>2. IsFiniteSet(V)
    <3> DEFINE v == [i \in E |-> a[i]]
    <3>1. v \in Surjection(E, V)
      BY DEF Surjection
    <3> HIDE DEF v, E, V
    <3> QED BY <2>1, <3>1, FS_Surjection
  <2>3. V # {} /\ V \subseteq Int
    BY <1>1
  <2> HIDE DEF V
  <2> QED BY <2>2, <2>3, HasMax
<1> DEFINE r == Rest(max, w)
           B == {i \in E : a[i] = m}
           R == {r[i] : i \in B}
<1>3. \A i \in D : r[i] \in Nat /\ r[i] = remainder(max, w, i)
  <2> TAKE i \in D
  <2>1. r[i] \in 0..(total_weight(w) - 1) /\ total_weight(w) \in Nat /\ r[i] = remainder(max, w, i)
    BY ShareOf, WeightsCount
  <2> HIDE DEF r
  <2> QED BY <2>1
<1> HIDE DEF r
<1>4. PICK l \in R : \A y \in R : l <= y
  <2>1. B # {}
    BY <1>2
  <2>2. R # {} /\ R \subseteq Nat
    BY <1>3, <2>1
  <2> HIDE DEF R
  <2> QED BY <2>2, HasMin
<1>5. PICK i \in B : l = r[i]
  BY <1>4
<1>6. i \in D /\ a[i] > 1 /\ a[i] = m
  BY <1>5
<1>7. ASSUME NEW j \in D, a[j] > 1
      PROVE  a[j] < a[i] \/ (a[j] = a[i] /\ remainder(max, w, j) >= remainder(max, w, i))
  <2>1. a[j] <= m /\ m \in Nat /\ a[j] \in Nat
    BY <1>2, <1>6, <1>7
  <2>2. a[j] = m => r[i] <= r[j]
    BY <1>4, <1>5, <1>7
  <2> QED BY <1>3, <1>6, <2>1, <2>2
<1>8. i \in payers(max, w, a)
  BY <1>0, <1>6, <1>7 DEF payers
<1> QED BY <1>8

\* Slots paid back until n are.
PaidStep(max, w, Q) ==
  UNION {{[a EXCEPT ![i] = @ - 1] : i \in payers(max, w, a)} : a \in Q}

\* The splits after each number of payments.
AfterPaid(max, w) ==
  LET paid[n \in 0..Total(Floor(max, w))] ==
        IF n = 0 THEN {Floor(max, w)}
        ELSE UNION {{[a EXCEPT ![i] = @ - 1] : i \in payers(max, w, a)} : a \in paid[n - 1]}
  IN  paid

\* The equation that defines them.
PaidBy(max, w, f) ==
  [n \in 0..Total(Floor(max, w)) |-> IF n = 0 THEN {Floor(max, w)} ELSE PaidStep(max, w, f[n - 1])]

\* The recursive definition of weighted_caps' payments has a solution.
LEMMA PaidExists ==
  ASSUME NEW max, NEW w, Total(Floor(max, w)) \in Nat
  PROVE  \E f : f = PaidBy(max, w, f)
<1> DEFINE A == {Floor(max, w)}
           Step(Q) == PaidStep(max, w, Q)
           Upto(l) == \E f : f = [n \in 0..l |-> IF n = 0 THEN A ELSE Step(f[n - 1])]
           S == {l \in Nat : Upto(l)}
<1> HIDE DEF A, Step
<1>1. Upto(0)
  <2> DEFINE Z == [n \in 0..0 |-> A]
  <2>1. Z = [n \in 0..0 |-> IF n = 0 THEN A ELSE Step(Z[n - 1])]
    OBVIOUS
  <2> QED BY <2>1
<1>2. ASSUME NEW l \in Nat, Upto(l) PROVE Upto(l + 1)
  <2>1. PICK f : f = [n \in 0..l |-> IF n = 0 THEN A ELSE Step(f[n - 1])]
    BY <1>2
  <2> DEFINE g == [n \in 0..(l + 1) |-> IF n = l + 1 THEN Step(f[l]) ELSE f[n]]
  <2>2. \A n \in 0..(l + 1) : g[n] = IF n = 0 THEN A ELSE Step(g[n - 1])
    <3> TAKE n \in 0..(l + 1)
    <3>1. CASE n = l + 1
      <4>1. g[n] = Step(f[l]) /\ g[n - 1] = f[l] /\ n # 0
        BY <3>1
      <4> QED BY <4>1
    <3>2. CASE n = 0
      BY <3>2, <2>1
    <3>3. CASE n # l + 1 /\ n # 0
      <4>1. n \in 0..l /\ n - 1 \in 0..l
        BY <3>3
      <4>2. g[n] = f[n] /\ g[n - 1] = f[n - 1]
        BY <3>3, <4>1
      <4> QED BY <2>1, <3>3, <4>1, <4>2
    <3> QED BY <3>1, <3>2, <3>3
  <2>3. g = [n \in 0..(l + 1) |-> IF n = 0 THEN A ELSE Step(g[n - 1])]
    BY <2>2, Zenon
  <2> QED BY <2>3, Zenon
<1> HIDE DEF Upto
<1>3. 0 \in S /\ \A l \in Nat : l \in S => l + 1 \in S
  BY <1>1, <1>2
<1>4. Total(Floor(max, w)) \in S
  BY <1>3, NatSetInduction
<1>5. Upto(Total(Floor(max, w)))
  BY <1>4
<1> QED BY <1>5, Zenon DEF Upto, Step, A, PaidBy

\* One slot paid back.
LEMMA PaidSteps ==
  ASSUME NEW max, NEW w, NEW c \in Nat, c = Total(Floor(max, w))
  PROVE  /\ AfterPaid(max, w)[0] = {Floor(max, w)}
         /\ \A n \in 1..c : AfterPaid(max, w)[n] = PaidStep(max, w, AfterPaid(max, w)[n - 1])
<1> DEFINE f == AfterPaid(max, w)
<1>1. f = PaidBy(max, w, f)
  <2>1. \E g : g = PaidBy(max, w, g)
    BY PaidExists
  <2> QED BY <2>1, Zenon DEF AfterPaid, PaidBy, PaidStep
<1> HIDE DEF f
<1>2. \A n \in 0..c : f[n] = IF n = 0 THEN {Floor(max, w)} ELSE PaidStep(max, w, f[n - 1])
  BY <1>1, Zenon DEF PaidBy
<1>3. f[0] = {Floor(max, w)}
  BY <1>2
<1>4. \A n \in 1..c : f[n] = PaidStep(max, w, f[n - 1])
  <2> TAKE n \in 1..c
  <2>1. n \in 0..c /\ n # 0
    OBVIOUS
  <2> QED BY <1>2, <2>1, Zenon
<1> QED BY <1>3, <1>4 DEF f

\* After n slots were paid back everybody has one left, and nobody is two below a
\* lighter one.
PaidTo(max, w, D, a, n) ==
  /\ a \in [D -> Nat]
  /\ Total(a) = Total(Floor(max, w)) - n
  /\ \A i \in D : 1 <= a[i] /\ a[i] <= Floor(max, w)[i]
  /\ \A i, j \in D : item_weight(w, i) > item_weight(w, j) => a[j] <= a[i] + 1

\* The raised shares, none paid back.
LEMMA NonePaid ==
  ASSUME NEW max, NEW w, NEW D, Divisible(max, w, D), max >= Cardinality(D)
  PROVE  PaidTo(max, w, D, Floor(max, w), 0)
<1> DEFINE s == Whole(max, w)
           f == Floor(max, w)
<1>1. f \in [D -> Nat] /\ Total(f) \in Nat /\ s \in [D -> Nat]
  BY FloorTotal, WholeTotal
<1>2. \A i \in D : f[i] = IF s[i] = 0 THEN 1 ELSE s[i]
  BY FloorTotal
<1>3. \A i, j \in D : item_weight(w, i) > item_weight(w, j) => s[i] >= s[j]
  <2> SUFFICES ASSUME NEW i \in D, NEW j \in D, item_weight(w, i) > item_weight(w, j)
               PROVE  s[i] >= s[j]
    OBVIOUS
  <2>1. s[i] > s[j] \/ s[i] = s[j]
    BY WholeOrdered
  <2> HIDE DEF s
  <2> QED BY <1>1, <2>1
<1> HIDE DEF s, f
<1>4. \A i \in D : 1 <= f[i] /\ f[i] <= f[i] /\ f[i] \in Nat
  BY <1>1, <1>2
<1>5. \A i, j \in D : item_weight(w, i) > item_weight(w, j) => f[j] <= f[i] + 1
  BY <1>1, <1>2, <1>3
<1>6. Total(f) = Total(f) - 0
  BY <1>1
<1> QED BY <1>1, <1>4, <1>5, <1>6 DEF PaidTo, f

\* Paying one back keeps that.
LEMMA OnePaid ==
  ASSUME NEW max, NEW w, NEW D, Divisible(max, w, D), NEW a, NEW n \in Nat, PaidTo(max, w, D, a, n),
         NEW i \in payers(max, w, a)
  PROVE  PaidTo(max, w, D, [a EXCEPT ![i] = @ - 1], n + 1)
<1>0. Items(D) /\ DOMAIN w = D
  BY DEF Divisible
<1>1. a \in [D -> Nat] /\ \A x \in D : 1 <= a[x] /\ a[x] <= Floor(max, w)[x]
  BY DEF PaidTo
<1>2. i \in D /\ a[i] > 1 /\ \A j \in D : a[j] > 1 => a[j] < a[i] \/ a[j] = a[i]
  BY <1>0 DEF payers
<1> DEFINE b == [a EXCEPT ![i] = @ - 1]
<1>3. b \in [D -> Nat] /\ b[i] = a[i] - 1 /\ \A x \in D : x # i => b[x] = a[x]
  BY <1>1, <1>2
<1> HIDE DEF b
<1>4. Floor(max, w) \in [D -> Nat] /\ Total(Floor(max, w)) \in Nat
  BY FloorTotal
<1>5. \A x \in D : 1 <= b[x] /\ b[x] <= Floor(max, w)[x]
  BY <1>1, <1>2, <1>3, <1>4
<1>6. Total(b) = Total(a) + (b[i] - a[i])
  <2>1. a \in [D -> Int] /\ b \in [D -> Int]
    BY <1>1, <1>3
  <2> QED BY <1>0, <1>2, <1>3, <2>1, TotalChange
<1>7. Total(b) = Total(Floor(max, w)) - (n + 1)
  <2>1. PICK u \in Nat, v \in Nat : u = Total(Floor(max, w)) /\ v = a[i]
    BY <1>1, <1>2, <1>4
  <2>2. Total(a) = u - n
    BY <2>1 DEF PaidTo
  <2>3. b[i] = v - 1
    BY <1>3, <2>1
  <2> QED BY <1>6, <2>1, <2>2, <2>3
<1>8. ASSUME NEW x \in D, NEW y \in D, item_weight(w, x) > item_weight(w, y) PROVE b[y] <= b[x] + 1
  <2>1. a[y] <= a[x] + 1
    BY <1>8 DEF PaidTo
  <2>2. a[y] <= a[i] /\ a[x] \in Nat /\ a[y] \in Nat /\ b[y] <= a[y]
    BY <1>1, <1>2, <1>3
  <2>3. CASE x = i
    BY <1>1, <1>2, <1>3, <2>2, <2>3
  <2>4. CASE x # i
    <3>1. b[x] = a[x]
      BY <1>3, <2>4
    <3>2. b[y] \in Nat
      BY <1>3
    <3> QED BY <2>1, <2>2, <3>1, <3>2
  <2> QED BY <2>3, <2>4
<1> QED BY <1>3, <1>5, <1>7, <1>8 DEF PaidTo, b

\* As many slots can be paid back as were given out too many.
LEMMA AllPaid ==
  ASSUME NEW max, NEW w, NEW D, Divisible(max, w, D), max >= Cardinality(D), NEW c \in Nat,
         c = Total(Floor(max, w)), NEW m \in Nat, m <= c - max
  PROVE  AfterPaid(max, w)[m] # {} /\ \A a \in AfterPaid(max, w)[m] : PaidTo(max, w, D, a, m)
<1> DEFINE Q(n) == AfterPaid(max, w)[n]
           Upto(n) == n <= c - max => Q(n) # {} /\ \A a \in Q(n) : PaidTo(max, w, D, a, n)
           N == {n \in Nat : Upto(n)}
<1>0. max \in Nat /\ Cardinality(D) \in Nat
  BY ItemCount DEF Divisible
<1>1. Upto(0)
  <2>1. Q(0) = {Floor(max, w)}
    BY PaidSteps
  <2>2. PaidTo(max, w, D, Floor(max, w), 0)
    BY NonePaid
  <2> QED BY <2>1, <2>2
<1>2. ASSUME NEW n \in Nat, Upto(n) PROVE Upto(n + 1)
  <2> SUFFICES ASSUME n + 1 <= c - max
               PROVE  Q(n + 1) # {} /\ \A a \in Q(n + 1) : PaidTo(max, w, D, a, n + 1)
    OBVIOUS
  <2>1. Q(n) # {} /\ \A a \in Q(n) : PaidTo(max, w, D, a, n)
    BY <1>0, <1>2
  <2>2. Q(n + 1) = PaidStep(max, w, Q(n))
    <3>1. n + 1 \in 1..c /\ (n + 1) - 1 = n
      BY <1>0
    <3> QED BY <3>1, PaidSteps
  <2> HIDE DEF Q
  <2>3. Q(n + 1) # {}
    <3>1. PICK a \in Q(n) : PaidTo(max, w, D, a, n)
      BY <2>1
    <3>2. a \in [D -> Nat] /\ Total(a) = c - n
      BY <3>1 DEF PaidTo
    <3>3. Total(a) > Cardinality(D)
      BY <1>0, <3>2
    <3>4. PICK i : i \in payers(max, w, a)
      BY <3>2, <3>3, HasPayer
    <3>6. [a EXCEPT ![i] = @ - 1] \in {[a EXCEPT ![j] = @ - 1] : j \in payers(max, w, a)}
      BY <3>4, Zenon
    <3>5. [a EXCEPT ![i] = @ - 1] \in Q(n + 1)
      <4> DEFINE F(x) == {[x EXCEPT ![j] = @ - 1] : j \in payers(max, w, x)}
      <4>1. Q(n + 1) = UNION {F(x) : x \in Q(n)}
        BY <2>2 DEF PaidStep
      <4>2. [a EXCEPT ![i] = @ - 1] \in F(a)
        BY <3>6
      <4> HIDE DEF F
      <4> QED BY <4>1, <4>2
    <3> QED BY <3>5
  <2>4. ASSUME NEW b \in Q(n + 1) PROVE PaidTo(max, w, D, b, n + 1)
    <3>0. PICK a \in Q(n) : b \in {[a EXCEPT ![i] = @ - 1] : i \in payers(max, w, a)}
      BY <2>2, <2>4, Zenon DEF PaidStep
    <3>1. PICK i \in payers(max, w, a) : b = [a EXCEPT ![i] = @ - 1]
      BY <3>0, Zenon
    <3>2. PaidTo(max, w, D, a, n)
      BY <2>1
    <3>3. PaidTo(max, w, D, [a EXCEPT ![i] = @ - 1], n + 1)
      BY <3>1, <3>2, OnePaid
    <3> QED BY <3>1, <3>3
  <2> QED BY <2>3, <2>4
<1> HIDE DEF Upto
<1>3. 0 \in N /\ \A n \in Nat : n \in N => n + 1 \in N
  BY <1>1, <1>2
<1>4. m \in N
  BY <1>3, NatSetInduction
<1> QED BY <1>4 DEF Upto

-----------------------------------------------------------------------------
(* What weighted_caps returns.                                             *)

\* Items with the most left over, as many as wanted.
Tops(r, D, S) == \A i \in S, j \in D \ S : r[i] >= r[j]

\* There are such items, as many as are wanted.
LEMMA TopItems ==
  ASSUME NEW D, Items(D), NEW r \in [D -> Nat], NEW m \in Nat, m <= Cardinality(D)
  PROVE  \E S \in SUBSET D : Cardinality(S) = m /\ Tops(r, D, S)
<1> DEFINE Upto(n) == n <= Cardinality(D) => \E S \in SUBSET D : Cardinality(S) = n /\ Tops(r, D, S)
           N == {n \in Nat : Upto(n)}
<1>0. IsFiniteSet(D) /\ Cardinality(D) \in Nat
  BY ItemCount DEF Items
<1>1. Upto(0)
  <2>1. Cardinality({}) = 0 /\ {} \in SUBSET D /\ Tops(r, D, {})
    BY FS_EmptySet DEF Tops
  <2> QED BY <2>1
<1>2. ASSUME NEW n \in Nat, Upto(n) PROVE Upto(n + 1)
  <2> SUFFICES ASSUME n + 1 <= Cardinality(D)
               PROVE  \E S \in SUBSET D : Cardinality(S) = n + 1 /\ Tops(r, D, S)
    OBVIOUS
  <2>1. PICK S \in SUBSET D : Cardinality(S) = n /\ Tops(r, D, S)
    BY <1>0, <1>2
  <2>2. IsFiniteSet(S) /\ S # D
    BY <1>0, <2>1, ItemCount
  <2> DEFINE E == D \ S
             V == {r[i] : i \in E}
             v == [i \in E |-> r[i]]
  <2>3. PICK x \in E : \A y \in E : r[y] <= r[x]
    <3>1. IsFiniteSet(E)
      BY <1>0, FS_Subset
    <3>2. v \in Surjection(E, V)
      BY DEF Surjection
    <3>3. V # {} /\ V \subseteq Int
      BY <2>2
    <3>4. IsFiniteSet(V)
      <4> HIDE DEF v, E, V
      <4> QED BY <3>1, <3>2, FS_Surjection
    <3>5. Max(V) \in V /\ \A y \in V : y <= Max(V)
      <4> HIDE DEF V
      <4> QED BY <3>3, <3>4, HasMax
    <3> QED BY <3>5
  <2> DEFINE U == S \union {x}
  <2>4. Cardinality(U) = n + 1
    BY <2>1, <2>2, <2>3, FS_AddElement
  <2>5. Tops(r, D, U)
    <3> SUFFICES ASSUME NEW i \in U, NEW j \in D \ U PROVE r[i] >= r[j]
      BY DEF Tops
    <3>1. CASE i \in S
      BY <2>1, <3>1 DEF Tops
    <3>2. CASE i = x
      <4>1. r[j] <= r[x] /\ r[j] \in Nat /\ r[x] \in Nat
        BY <2>3
      <4> QED BY <3>2, <4>1
    <3> QED BY <3>1, <3>2
  <2>6. U \in SUBSET D
    BY <2>1, <2>3
  <2> QED BY <2>4, <2>5, <2>6
<1> HIDE DEF Upto
<1>3. 0 \in N /\ \A n \in Nat : n \in N => n + 1 \in N
  BY <1>1, <1>2
<1>4. m \in N
  BY <1>3, NatSetInduction
<1> QED BY <1>4 DEF Upto

\* The shares with one more for some.
Raised(max, w, D, S) == [i \in D |-> IF i \in S THEN Floor(max, w)[i] + 1 ELSE Floor(max, w)[i]]

\* The two ways a split comes about.
LEMMA CapsAre ==
  ASSUME NEW max, NEW w, NEW D, Divisible(max, w, D), NEW c \in Nat, c = Total(Floor(max, w))
  PROVE  /\ c > max => weighted_caps(max, w) = AfterPaid(max, w)[c - max]
         /\ ~(c > max) =>
              \A caps : caps \in weighted_caps(max, w) <=>
                \E S \in SUBSET D : /\ Cardinality(S) = max - c
                                    /\ Tops(Rest(max, w), D, S)
                                    /\ caps = Raised(max, w, D, S)
<1>0. max # 0 /\ DOMAIN w = D /\ D # {}
  BY DEF Divisible
<1>1. ASSUME c > max PROVE weighted_caps(max, w) = AfterPaid(max, w)[c - max]
  BY <1>0, <1>1 DEF weighted_caps, AfterPaid, Floor
<1>2. ASSUME ~(c > max) PROVE
        weighted_caps(max, w) =
          {[i \in D |-> IF i \in S THEN Floor(max, w)[i] + 1 ELSE Floor(max, w)[i]] :
              S \in {S \in kSubset(max - c, D) :
                       \A i \in S, j \in D \ S : remainder(max, w, i) >= remainder(max, w, j)}}
  BY <1>0, <1>2 DEF weighted_caps, Floor
<1>3. \A S \in SUBSET D :
        (\A i \in S, j \in D \ S : remainder(max, w, i) >= remainder(max, w, j)) <=> Tops(Rest(max, w), D, S)
  <2>1. \A i \in D : Rest(max, w)[i] = remainder(max, w, i)
    BY ShareOf
  <2> QED BY <2>1 DEF Tops
<1>4. \A S : S \in kSubset(max - c, D) <=> S \in SUBSET D /\ Cardinality(S) = max - c
  BY DEF kSubset
<1>5. ASSUME ~(c > max), NEW caps PROVE
        caps \in weighted_caps(max, w) <=>
          \E S \in SUBSET D : /\ Cardinality(S) = max - c
                              /\ Tops(Rest(max, w), D, S)
                              /\ caps = Raised(max, w, D, S)
  <2> DEFINE K == {S \in kSubset(max - c, D) :
                       \A i \in S, j \in D \ S : remainder(max, w, i) >= remainder(max, w, j)}
  <2>1. weighted_caps(max, w) = {Raised(max, w, D, S) : S \in K}
    BY <1>2, <1>5 DEF Raised
  <2>2. \A S : S \in K <=> S \in SUBSET D /\ Cardinality(S) = max - c /\ Tops(Rest(max, w), D, S)
    BY <1>3, <1>4
  <2> HIDE DEF K
  <2> QED BY <2>1, <2>2, Zenon
<1> QED BY <1>1, <1>5

\* A split where there are slots and items: it exists, and gives to all of them.
LEMMA CapsFound ==
  ASSUME NEW max, NEW w, NEW D, Divisible(max, w, D)
  PROVE  weighted_caps(max, w) # {} /\ \A caps \in weighted_caps(max, w) : caps \in [D -> Nat]
<1>1. PICK c \in Nat : c = Total(Floor(max, w))
  BY FloorTotal
<1>2. max \in Nat /\ Items(D) /\ Cardinality(D) \in Nat
  BY ItemCount DEF Divisible
<1>3. CASE c > max
  <2>1. max >= Cardinality(D)
    BY <1>1, <1>3, FloorTotal
  <2>2. c - max \in Nat /\ c - max <= c - max
    BY <1>2, <1>3
  <2>3. AfterPaid(max, w)[c - max] # {} /\ \A a \in AfterPaid(max, w)[c - max] : PaidTo(max, w, D, a, c - max)
    BY <1>1, <2>1, <2>2, AllPaid
  <2>4. weighted_caps(max, w) = AfterPaid(max, w)[c - max]
    BY <1>1, <1>3, CapsAre
  <2> QED BY <2>3, <2>4 DEF PaidTo
<1>4. CASE ~(c > max)
  <2>1. \A caps : caps \in weighted_caps(max, w) <=>
          \E S \in SUBSET D : /\ Cardinality(S) = max - c
                              /\ Tops(Rest(max, w), D, S)
                              /\ caps = Raised(max, w, D, S)
    BY <1>1, <1>4, CapsAre
  <2>2. max - c \in Nat /\ max - c <= Cardinality(D)
    <3>1. max - c < Cardinality(D)
      BY <1>1, FloorTotal
    <3> QED BY <1>2, <1>4, <3>1
  <2>3. \E S \in SUBSET D : Cardinality(S) = max - c /\ Tops(Rest(max, w), D, S)
    BY <1>2, <2>2, TopItems, WholeTotal
  <2>4. \A S : Raised(max, w, D, S) \in [D -> Nat]
    <3>1. Floor(max, w) \in [D -> Nat]
      BY FloorTotal
    <3> QED BY <3>1 DEF Raised
  <2>5. weighted_caps(max, w) # {}
    <3>1. PICK S \in SUBSET D : Cardinality(S) = max - c /\ Tops(Rest(max, w), D, S)
      BY <2>3
    <3>2. Raised(max, w, D, S) \in weighted_caps(max, w)
      BY <2>1, <3>1, Zenon
    <3> QED BY <3>2, Zenon
  <2>6. ASSUME NEW caps \in weighted_caps(max, w) PROVE caps \in [D -> Nat]
    <3>1. PICK S \in SUBSET D : caps = Raised(max, w, D, S)
      BY <2>1, Zenon
    <3> QED BY <2>4, <3>1, Zenon
  <2> QED BY <2>5, <2>6, Zenon
<1> QED BY <1>3, <1>4

\* There is always a split, of slots or of nothing.
LEMMA CapsExist ==
  ASSUME NEW max \in Nat, NEW D, Items(D), NEW w \in [D -> Int]
  PROVE  /\ weighted_caps(max, w) # {}
         /\ \A caps \in weighted_caps(max, w) :
              DOMAIN caps \subseteq D /\ \A i \in DOMAIN caps : caps[i] \in Nat
<1>1. CASE max = 0 \/ D = {}
  <2>1. weighted_caps(max, w) = {[i \in {} |-> 0]}
    BY <1>1 DEF weighted_caps
  <2>2. DOMAIN [i \in {} |-> 0] = {}
    OBVIOUS
  <2> QED BY <2>1, <2>2
<1>2. CASE max # 0 /\ D # {}
  <2>1. Divisible(max, w, D)
    BY <1>2 DEF Divisible
  <2>2. weighted_caps(max, w) # {} /\ \A caps \in weighted_caps(max, w) : caps \in [D -> Nat]
    BY <2>1, CapsFound
  <2> HIDE DEF Items
  <2> QED BY <2>2
<1> QED BY <1>1, <1>2

-----------------------------------------------------------------------------
(* Splits are by weight.                                                   *)

\* What Splits says of one split.
Split(max, w, D, caps, short) ==
  /\ Total(caps) = max
  /\ max >= Cardinality(D) => \A i \in D : caps[i] >= 1
  /\ \A i \in D : whole_share(max, w, i) # 0 =>
       (caps[i] - 1) * total_weight(w) < max * item_weight(w, i)
  /\ \A i, j \in D : whole_share(max, w, j) # 0 /\ item_weight(w, i) > item_weight(w, j) =>
       caps[i] >= caps[j] - short

\* An item at or below its whole share is below its exact one plus a slot.
LEMMA WithinWhole ==
  ASSUME NEW max, NEW w, NEW D, Divisible(max, w, D), NEW i \in D, NEW n \in Nat \ {0},
         n <= Whole(max, w)[i]
  PROVE  (n - 1) * total_weight(w) < max * item_weight(w, i)
<1>1. PICK T \in Nat \ {0} : T = total_weight(w)
  BY WeightsCount
<1>2. PICK a \in Nat, x \in Nat : a = Whole(max, w)[i] /\ max * item_weight(w, i) = a * T + x
  <2>1. /\ Whole(max, w)[i] \in Nat /\ Rest(max, w)[i] \in 0..(T - 1)
        /\ max * item_weight(w, i) = Whole(max, w)[i] * T + Rest(max, w)[i]
    BY <1>1, ShareOf
  <2> QED BY <2>1
<1>3. PICK d \in Nat : a = n + d
  <2>1. a - n \in Nat /\ a = n + (a - n)
    BY <1>2
  <2> QED BY <2>1
<1>4. PICK m \in Nat : n = m + 1
  <2>1. n - 1 \in Nat /\ n = (n - 1) + 1
    OBVIOUS
  <2> QED BY <2>1
<1>5. a * T = m * T + T + d * T
  BY <1>3, <1>4
<1>6. m * T \in Nat /\ d * T \in Nat
  OBVIOUS
<1>7. m * T < max * item_weight(w, i)
  BY <1>2, <1>5, <1>6
<1>8. n - 1 = m
  BY <1>4
<1> QED BY <1>1, <1>7, <1>8

\* A split whose raises were paid for.
LEMMA PaidSplits ==
  ASSUME NEW max, NEW w, NEW D, Divisible(max, w, D), NEW c \in Nat, c = Total(Floor(max, w)), c > max,
         NEW a, PaidTo(max, w, D, a, c - max)
  PROVE  Split(max, w, D, a, 1)
<1>0. max \in Nat
  BY DEF Divisible
<1>1. a \in [D -> Nat] /\ \A i \in D : 1 <= a[i] /\ a[i] <= Floor(max, w)[i]
  BY DEF PaidTo
<1>2. Total(a) = max
  <2>1. Total(a) = c - (c - max)
    BY DEF PaidTo
  <2> QED BY <1>0, <2>1
<1>3. \A i \in D : a[i] >= 1 /\ a[i] \in Nat
  BY <1>1
<1>4. ASSUME NEW i \in D, whole_share(max, w, i) # 0
      PROVE  (a[i] - 1) * total_weight(w) < max * item_weight(w, i)
  <2>1. Whole(max, w)[i] # 0
    BY <1>4, ShareOf
  <2>2. Floor(max, w)[i] = Whole(max, w)[i]
    BY <2>1, FloorTotal
  <2>3. PICK n \in Nat \ {0} : n = a[i]
    BY <1>3
  <2>4. n <= Whole(max, w)[i]
    BY <1>1, <2>2, <2>3
  <2> QED BY <2>3, <2>4, WithinWhole
<1>5. ASSUME NEW i \in D, NEW j \in D, item_weight(w, i) > item_weight(w, j)
      PROVE  a[i] >= a[j] - 1
  <2>1. a[j] <= a[i] + 1
    BY <1>5 DEF PaidTo
  <2>2. a[i] \in Nat /\ a[j] \in Nat
    BY <1>3
  <2> QED BY <2>1, <2>2
<1> QED BY <1>2, <1>3, <1>4, <1>5 DEF Split

\* The slots left over go to items whose share left something over.
LEMMA TopsLeft ==
  ASSUME NEW max, NEW w, NEW D, Divisible(max, w, D), NEW c \in Nat, c = Total(Floor(max, w)), ~(c > max),
         NEW S \in SUBSET D, Cardinality(S) = max - c, Tops(Rest(max, w), D, S), NEW i \in S
  PROVE  Rest(max, w)[i] > 0
<1> DEFINE r == Rest(max, w)
<1>0. Items(D) /\ max \in Nat /\ i \in D
  BY DEF Divisible
<1>1. r \in [D -> Nat]
  BY WholeTotal
<1>2. PICK T \in Nat \ {0} : T = total_weight(w)
  BY WeightsCount
<1>3. PICK A \in Nat, R \in Nat : A = Total(Whole(max, w)) /\ R = Total(r) /\ A * T + R = max * T
  BY <1>2, WholeTotal
<1>4. A <= c
  BY <1>3, FloorTotal
<1>5. \A j \in D : r[j] <= T
  <2> TAKE j \in D
  <2>1. r[j] \in 0..(T - 1)
    BY <1>2, ShareOf
  <2> HIDE DEF r
  <2> QED BY <2>1
<1> HIDE DEF r
<1> SUFFICES ASSUME r[i] = 0 PROVE FALSE
  BY <1>0, <1>1 DEF r
<1>6. \A j \in D : j \notin S => r[j] = 0
  <2> SUFFICES ASSUME NEW j \in D, j \notin S PROVE r[j] = 0
    OBVIOUS
  <2>1. r[i] >= r[j]
    BY DEF Tops, r
  <2> QED BY <1>1, <2>1
<1> DEFINE top == [j \in D |-> IF j \in S \ {i} THEN T ELSE 0]
<1>7. Total(top) = T * Cardinality(S \ {i})
  <2>1. S \ {i} \subseteq D
    OBVIOUS
  <2> QED BY <1>0, <2>1, TotalOn
<1>8. top \in [D -> Int] /\ r \in [D -> Int] /\ \A j \in D : r[j] <= top[j]
  BY <1>1, <1>5, <1>6
<1> HIDE DEF top
<1>9. Total(r) <= Total(top)
  BY <1>0, <1>8, TotalMonotone
<1>10. PICK k \in Nat : Cardinality(S \ {i}) = k /\ max - c = k + 1
  <2>1. IsFiniteSet(S) /\ Cardinality(S) \in Nat
    BY <1>0, ItemCount
  <2>2. Cardinality(S \ {i}) = Cardinality(S) - 1
    BY <2>1, FS_RemoveElement
  <2>3. IsFiniteSet(S \ {i}) /\ Cardinality(S \ {i}) \in Nat
    BY <1>0, ItemCount
  <2> QED BY <2>1, <2>2, <2>3
<1>11. PICK d \in Nat : max = A + k + 1 + d
  <2>1. max - A - k - 1 \in Nat /\ max = A + k + 1 + (max - A - k - 1)
    BY <1>0, <1>4, <1>10
  <2> QED BY <2>1
<1>12. max * T = A * T + k * T + T + d * T
  BY <1>11
<1>13. R <= k * T
  <2>1. T * k = k * T
    OBVIOUS
  <2> QED BY <1>3, <1>7, <1>9, <1>10, <2>1
<1>14. A * T \in Nat /\ k * T \in Nat /\ d * T \in Nat
  OBVIOUS
<1> QED BY <1>3, <1>12, <1>13, <1>14

\* A split whose leftover slots went to the largest remainders.
LEMMA RaisedSplits ==
  ASSUME NEW max, NEW w, NEW D, Divisible(max, w, D), NEW c \in Nat, c = Total(Floor(max, w)), ~(c > max),
         NEW S \in SUBSET D, Cardinality(S) = max - c, Tops(Rest(max, w), D, S)
  PROVE  Split(max, w, D, Raised(max, w, D, S), 0)
<1> DEFINE f == Floor(max, w)
           s == Whole(max, w)
           r == Rest(max, w)
           a == Raised(max, w, D, S)
<1>0. Items(D) /\ max \in Nat
  BY DEF Divisible
<1>1. f \in [D -> Nat] /\ s \in [D -> Nat] /\ r \in [D -> Nat] /\ c = Total(f)
  BY FloorTotal, WholeTotal
<1>2. \A i \in D : f[i] = IF max >= Cardinality(D) /\ s[i] = 0 THEN 1 ELSE s[i]
  BY FloorTotal
<1>3. \A i \in D : s[i] = whole_share(max, w, i)
  BY ShareOf
<1>4. \A i \in D : a[i] = IF i \in S THEN f[i] + 1 ELSE f[i]
  BY DEF Raised
<1>5. a \in [D -> Nat]
  BY <1>1 DEF Raised
<1>6. Tops(r, D, S)
  OBVIOUS
<1> HIDE DEF f, s, a, r
<1>7. Total(a) = max
  <2> DEFINE one == [i \in D |-> IF i \in S THEN 1 ELSE 0]
  <2>1. Total(one) = 1 * Cardinality(S)
    BY <1>0, TotalOn
  <2>2. f \in [D -> Int] /\ one \in [D -> Int] /\ a \in [D -> Int] /\ \A i \in D : a[i] = f[i] + one[i]
    BY <1>1, <1>4, <1>5
  <2> HIDE DEF one
  <2>3. Total(a) = Total(f) + Total(one)
    <3>1. \A i \in D : a[i] = f[i] + one[i]
      BY <2>2
    <3>2. f \in [D -> Int] /\ one \in [D -> Int] /\ a \in [D -> Int]
      BY <2>2
    <3> QED BY <1>0, <3>1, <3>2, TotalAdd
  <2>4. Total(one) = max - c
    BY <1>0, <2>1
  <2>5. Total(a) = c + (max - c)
    BY <1>1, <2>3, <2>4
  <2> QED BY <1>0, <2>5
<1>8. max >= Cardinality(D) => \A i \in D : a[i] >= 1
  BY <1>1, <1>2, <1>4
<1>9. ASSUME NEW i \in D, whole_share(max, w, i) # 0
      PROVE  (a[i] - 1) * total_weight(w) < max * item_weight(w, i)
  <2>1. s[i] # 0 /\ f[i] = s[i] /\ s[i] \in Nat
    BY <1>1, <1>2, <1>3, <1>9
  <2>2. CASE i \notin S
    <3>1. PICK n \in Nat \ {0} : n = a[i] /\ n <= s[i]
      BY <1>4, <2>1, <2>2
    <3> QED BY <3>1, WithinWhole DEF s
  <2>3. CASE i \in S
    <3>1. PICK n \in Nat : n = s[i] /\ a[i] = n + 1
      BY <1>4, <2>1, <2>3
    <3>2. PICK T \in Nat \ {0} : T = total_weight(w)
      BY WeightsCount
    <3>3. PICK x \in Nat : x > 0 /\ max * item_weight(w, i) = n * T + x
      <4>1. Rest(max, w)[i] > 0
        BY <1>6, <2>3, TopsLeft DEF r
      <4>2. /\ Rest(max, w)[i] \in 0..(T - 1)
            /\ max * item_weight(w, i) = Whole(max, w)[i] * T + Rest(max, w)[i]
        BY <3>2, ShareOf
      <4> QED BY <3>1, <4>1, <4>2 DEF s
    <3>4. n * T \in Nat
      OBVIOUS
    <3>5. n * T < max * item_weight(w, i)
      BY <3>3, <3>4
    <3>6. a[i] - 1 = n
      BY <3>1
    <3> QED BY <3>2, <3>5, <3>6
  <2> QED BY <2>2, <2>3
<1>10. ASSUME NEW i \in D, NEW j \in D, whole_share(max, w, j) # 0, item_weight(w, i) > item_weight(w, j)
       PROVE  a[i] >= a[j] - 0
  <2>1. s[i] > s[j] \/ (s[i] = s[j] /\ r[i] > r[j])
    BY <1>10, WholeOrdered DEF s, r
  <2>2. s[i] \in Nat /\ s[j] \in Nat /\ s[j] # 0 /\ r[i] \in Nat /\ r[j] \in Nat
    BY <1>1, <1>3, <1>10
  <2>3. s[i] # 0 /\ f[i] = s[i] /\ f[j] = s[j]
    BY <1>2, <2>1, <2>2
  <2>4. s[i] = s[j] /\ j \in S => i \in S
    <3> SUFFICES ASSUME s[i] = s[j], j \in S, i \notin S PROVE FALSE
      OBVIOUS
    <3>1. r[j] >= r[i]
      BY <1>6 DEF Tops
    <3> QED BY <2>1, <2>2, <3>1
  <2>5. a[i] = (IF i \in S THEN s[i] + 1 ELSE s[i]) /\ a[j] = (IF j \in S THEN s[j] + 1 ELSE s[j])
    BY <1>4, <2>3
  <2> QED BY <2>1, <2>2, <2>4, <2>5
<1> QED BY <1>7, <1>8, <1>9, <1>10 DEF Split, a

\* weighted_caps gives out every slot by weight, whichever way it breaks ties, for any
\* number of slots, any groups or tenants and any weights.
THEOREM SplitsByWeight ==
  ASSUME NEW max \in Nat, NEW D, Items(D), D # {}, NEW w \in [D -> Int]
  PROVE  Splits(max, w)
<1>0. DOMAIN w = D
  OBVIOUS
<1>1. CASE max = 0
  <2>1. weighted_caps(max, w) = {[i \in {} |-> 0]}
    BY <1>1 DEF weighted_caps
  <2> DEFINE e == [i \in {} |-> 0]
  <2>2. Total(e) = 0
    <3>1. Items({}) /\ e \in [{} -> Int] /\ \A i \in {} : e[i] = 0
      BY FS_EmptySet DEF Items
    <3> HIDE DEF e
    <3> QED BY <3>1, TotalZero
  <2> HIDE DEF e
  <2>3. \A i \in D : whole_share(max, w, i) = 0
    <3> TAKE i \in D
    <3>1. Divisible(1, w, D)
      BY DEF Divisible
    <3>2. PICK T \in Nat \ {0}, v \in Nat : T = total_weight(w) /\ v = item_weight(w, i)
      BY <3>1, WeightsCount
    <3>3. max * v = 0
      BY <1>1
    <3>4. 0 \div T = 0
      OBVIOUS
    <3> QED BY <3>2, <3>3, <3>4 DEF whole_share
  <2>4. ~(max >= Cardinality(D))
    <3>1. Cardinality(D) \in Nat /\ Cardinality(D) > 0
      BY ItemCount
    <3> QED BY <1>1, <3>1
  <2>5. \A caps \in weighted_caps(max, w) : caps = e
    BY <2>1 DEF e
  <2> QED BY <1>0, <1>1, <2>2, <2>3, <2>4, <2>5 DEF Splits
<1>2. CASE max # 0
  <2>1. Divisible(max, w, D)
    BY <1>2 DEF Divisible
  <2>2. PICK c \in Nat : c = Total(Floor(max, w))
    BY <2>1, FloorTotal
  <2> DEFINE short == IF c > max THEN 1 ELSE 0
  <2>3. ASSUME NEW caps \in weighted_caps(max, w) PROVE Split(max, w, D, caps, short)
    <3>1. CASE c > max
      <4>1. max >= Cardinality(D)
        BY <2>1, <2>2, <3>1, FloorTotal
      <4>2. c - max \in Nat /\ c - max <= c - max
        BY <3>1
      <4>3. \A a \in AfterPaid(max, w)[c - max] : PaidTo(max, w, D, a, c - max)
        BY <2>1, <2>2, <4>1, <4>2, AllPaid
      <4>4. weighted_caps(max, w) = AfterPaid(max, w)[c - max]
        BY <2>1, <2>2, <3>1, CapsAre
      <4>5. PaidTo(max, w, D, caps, c - max)
        BY <2>3, <4>3, <4>4
      <4> QED BY <2>1, <2>2, <3>1, <4>5, PaidSplits
    <3>2. CASE ~(c > max)
      <4>1. PICK S \in SUBSET D : /\ Cardinality(S) = max - c
                                  /\ Tops(Rest(max, w), D, S)
                                  /\ caps = Raised(max, w, D, S)
        BY <2>1, <2>2, <2>3, <3>2, CapsAre
      <4>2. Split(max, w, D, Raised(max, w, D, S), 0)
        BY <2>1, <2>2, <3>2, <4>1, RaisedSplits
      <4> QED BY <3>2, <4>1, <4>2
    <3> QED BY <3>1, <3>2
  <2>4. c = Total([i \in DOMAIN w |-> floor_share(max, w, i)])
    BY <2>2 DEF Floor
  <2> QED BY <1>0, <2>3, <2>4 DEF Splits, Split
<1> QED BY <1>1, <1>2
=============================================================================
