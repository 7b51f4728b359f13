--------------------------- MODULE FairPoolProofs ----------------------------
(***************************************************************************)
(* Proofs about one pool, for any requests, keys, tenants and groups, any  *)
(* weights, caps and settings, and any number of events.                   *)
(*                                                                         *)
(* A handler is a composition of small steps on the pool.  For each step a *)
(* predicate on the pool before and after says what it changes (Charged,   *)
(* Sent, Took...), a lemma ...Does that the operator does that, and a lemma*)
(* ...Sound, then ...Good, that it keeps the invariant, with the slots and *)
(* charges that are in hand between two steps as parameters.  The loops of *)
(* dispatch_all are proved by induction over their turns.                  *)
(***************************************************************************)
EXTENDS FairPool, ApportionProofs, SequenceTheorems

-----------------------------------------------------------------------------
(* Sets and numbers.                                                       *)

\* Any set of requests is finite.
LEMMA RequestSet ==
  ASSUME NEW S, S \subseteq Requests
  PROVE  IsFiniteSet(S) /\ Cardinality(S) \in Nat
<1>1. IsFiniteSet(Requests)
  BY PoolAssumption DEF PoolAssumption
<1>2. IsFiniteSet(S)
  BY <1>1, FS_Subset, Zenon
<1> QED BY <1>2, FS_CardinalityType, Zenon

\* Keys, tenants and groups are intervals; where a request belongs.
LEMMA Belongs ==
  /\ Len(Key) \in Nat /\ Len(Tenant) \in Nat /\ Len(GroupWeight) \in Nat
  /\ \A r \in Requests : KeyOf(r) \in Keys /\ TenantOf(r) \in Tenants /\ Req[r].cost \in Nat \ {0}
  /\ \A k \in Keys : Key[k].tenant \in Tenants
  /\ \A r \in Requests : TenantOf(r) = Key[KeyOf(r)].tenant
BY PoolAssumption DEF PoolAssumption, KeyOf, TenantOf

\* The values of a function on the requests.
LEMMA FiniteValues ==
  ASSUME NEW v \in [Requests -> Nat], NEW D, D \subseteq Requests
  PROVE  LET S == {v[x] : x \in D}
         IN  IsFiniteSet(S) /\ S \subseteq Nat /\ (D # {} => S # {})
<1> DEFINE S == {v[x] : x \in D}
           f == [x \in D |-> v[x]]
<1>1. f \in Surjection(D, S)
  BY DEF Surjection
<1>2. IsFiniteSet(D)
  BY RequestSet
<1>3. IsFiniteSet(S)
  <2> HIDE DEF f, S
  <2> QED BY <1>1, <1>2, FS_Surjection
<1>4. S \subseteq Nat /\ (D # {} => S # {})
  OBVIOUS
<1> QED BY <1>3, <1>4

-----------------------------------------------------------------------------
(* retain.                                                                 *)

\* The queue retain builds, after each of q's places.
Kept(q, D) ==
  LET kept[n \in 0..Len(q)] ==
        IF n = 0 THEN <<>> ELSE IF q[n] \in D THEN kept[n - 1] ELSE Append(kept[n - 1], q[n])
  IN  kept

\* The equation that defines it.
KeptBy(q, D, f) ==
  [n \in 0..Len(q) |-> IF n = 0 THEN <<>>
                       ELSE IF q[n] \in D THEN f[n - 1] ELSE Append(f[n - 1], q[n])]

\* The recursive definition of retain has a solution.
LEMMA KeptExists ==
  ASSUME NEW q, NEW D, Len(q) \in Nat
  PROVE  \E f : f = KeptBy(q, D, f)
<1> DEFINE Step(f, n) == IF q[n] \in D THEN f[n - 1] ELSE Append(f[n - 1], q[n])
           Good(l) == \E f : f = [n \in 0..l |-> IF n = 0 THEN <<>> ELSE Step(f, n)]
           S == {l \in Nat : Good(l)}
<1>1. Good(0)
  <2> DEFINE Z == [n \in 0..0 |-> <<>>]
  <2>1. Z = [n \in 0..0 |-> IF n = 0 THEN <<>> ELSE Step(Z, n)]
    OBVIOUS
  <2> QED BY <2>1
<1>2. ASSUME NEW l \in Nat, Good(l) PROVE Good(l + 1)
  <2>1. PICK f : f = [n \in 0..l |-> IF n = 0 THEN <<>> ELSE Step(f, n)]
    BY <1>2
  <2> DEFINE last == IF q[l + 1] \in D THEN f[l] ELSE Append(f[l], q[l + 1])
             g == [n \in 0..(l + 1) |-> IF n = l + 1 THEN last ELSE f[n]]
  <2>2. \A n \in 0..(l + 1) : g[n] = IF n = 0 THEN <<>> ELSE Step(g, n)
    <3> TAKE n \in 0..(l + 1)
    <3> HIDE DEF last
    <3>1. CASE n = l + 1
      <4>1. g[n] = last /\ g[n - 1] = f[l] /\ n # 0
        BY <3>1
      <4> QED BY <3>1, <4>1 DEF last
    <3>2. CASE n = 0
      BY <3>2, <2>1
    <3>3. CASE n # l + 1 /\ n # 0
      <4>1. n \in 0..l /\ n - 1 \in 0..l
        BY <3>3
      <4>2. g[n] = f[n] /\ g[n - 1] = f[n - 1]
        BY <3>3, <4>1
      <4> QED BY <2>1, <3>3, <4>1, <4>2
    <3> QED BY <3>1, <3>2, <3>3
  <2>3. g = [n \in 0..(l + 1) |-> IF n = 0 THEN <<>> ELSE Step(g, n)]
    BY <2>2, Zenon
  <2> QED BY <2>3, Zenon
<1> HIDE DEF Good
<1>3. 0 \in S /\ \A l \in Nat : l \in S => l + 1 \in S
  BY <1>1, <1>2
<1>4. Len(q) \in S
  BY <1>3, NatSetInduction
<1>5. Good(Len(q))
  BY <1>4
<1> QED BY <1>5, Zenon DEF Good, KeptBy

\* retain satisfies its recursive equation.
LEMMA KeptDef ==
  ASSUME NEW q, NEW D, Len(q) \in Nat
  PROVE  Kept(q, D) = KeptBy(q, D, Kept(q, D))
<1>1. \E f : f = KeptBy(q, D, f)
  BY KeptExists
<1> QED BY <1>1, Zenon DEF Kept, KeptBy

\* One step of retain.
LEMMA KeptStep ==
  ASSUME NEW q, NEW D, NEW m \in Nat, m = Len(q)
  PROVE  /\ retain(q, D) = Kept(q, D)[m] /\ Kept(q, D)[0] = <<>>
         /\ \A n \in 1..m : Kept(q, D)[n] = IF q[n] \in D THEN Kept(q, D)[n - 1]
                                            ELSE Append(Kept(q, D)[n - 1], q[n])
<1> DEFINE f == Kept(q, D)
<1>1. f = KeptBy(q, D, f)
  <2>1. Len(q) \in Nat
    OBVIOUS
  <2> QED BY <2>1, KeptDef
<1>2. retain(q, D) = f[m]
  BY DEF retain, Kept
<1> HIDE DEF f
<1>3. f[0] = <<>>
  <2>1. 0 \in 0..Len(q)
    OBVIOUS
  <2> QED BY <1>1, <2>1 DEF KeptBy
<1>4. ASSUME NEW n \in 1..m
      PROVE  f[n] = IF q[n] \in D THEN f[n - 1] ELSE Append(f[n - 1], q[n])
  <2>1. n \in 0..Len(q) /\ n # 0
    OBVIOUS
  <2> QED BY <1>1, <2>1, Zenon DEF KeptBy
<1> QED BY <1>2, <1>3, <1>4 DEF f

\* e places the members of s in q, in their order.
Embeds(s, q, e, n, D) ==
  /\ e \in [1..Len(s) -> 1..n]
  /\ \A i \in 1..Len(s) : s[i] = q[e[i]] /\ s[i] \notin D
  /\ \A i, j \in 1..Len(s) : i < j => e[i] < e[j]
  /\ \A x \in 1..n : q[x] \notin D => \E i \in 1..Len(s) : e[i] = x

\* What is kept are the members of the queue outside D, in their order.
LEMMA RetainEmbeds ==
  ASSUME NEW R, NEW q \in Seq(R), NEW D
  PROVE  /\ retain(q, D) \in Seq(R)
         /\ \E e : Embeds(retain(q, D), q, e, Len(q), D)
<1>1. PICK m \in Nat : m = Len(q)
  OBVIOUS
<1> DEFINE f == Kept(q, D)
<1>2. retain(q, D) = f[m] /\ f[0] = <<>>
  BY <1>1, KeptStep
<1>3. \A n \in 1..m : f[n] = IF q[n] \in D THEN f[n - 1] ELSE Append(f[n - 1], q[n])
  BY <1>1, KeptStep
<1> HIDE DEF f
<1> DEFINE Good(n) == f[n] \in Seq(R) /\ \E e : Embeds(f[n], q, e, n, D)
           S == {n \in Nat : n <= m => Good(n)}
<1>4. 0 \in S
  <2>1. Embeds(<<>>, q, [i \in 1..0 |-> 0], 0, D)
    BY DEF Embeds
  <2>2. <<>> \in Seq(R)
    OBVIOUS
  <2>3. Good(0)
    BY <1>2, <2>1, <2>2, Zenon
  <2> QED BY <2>3
<1>5. ASSUME NEW n \in Nat, n \in S PROVE n + 1 \in S
  <2> SUFFICES ASSUME n + 1 <= m PROVE Good(n + 1)
    OBVIOUS
  <2>0. n + 1 \in 1..m /\ n <= m
    OBVIOUS
  <2>1. PICK s \in Seq(R) : s = f[n]
    BY <1>5, <2>0
  <2>2. PICK e : Embeds(s, q, e, n, D)
    BY <1>5, <2>0, <2>1
  <2>3. PICK l \in Nat : l = Len(s)
    BY <2>1
  <2>4. PICK z \in R : z = q[n + 1]
    BY <1>1, <2>0
  <2>5. CASE z \in D
    <3>1. f[n + 1] = s
      BY <1>3, <2>0, <2>1, <2>4, <2>5
    <3>2. Embeds(s, q, e, n + 1, D)
      BY <2>2, <2>3, <2>4, <2>5 DEF Embeds
    <3> QED BY <3>1, <3>2
  <2>6. CASE z \notin D
    <3>0. Append(s, z) \in Seq(R)
      BY AppendProperties, Zenon
    <3>1. PICK u \in Seq(R) : u = Append(s, z)
      BY <3>0, Zenon
    <3>2. f[n + 1] = u
      <4>1. (n + 1) - 1 = n
        OBVIOUS
      <4>2. f[n + 1] = IF q[n + 1] \in D THEN f[n] ELSE Append(f[n], q[n + 1])
        BY <1>3, <2>0, <4>1
      <4> QED BY <4>2, <2>1, <2>4, <2>6, <3>1
    <3>3. Len(u) = l + 1 /\ u[l + 1] = z /\ \A i \in 1..l : u[i] = s[i]
      BY <2>1, <2>3, <3>1, AppendProperties
    <3> DEFINE g == [i \in 1..(l + 1) |-> IF i = l + 1 THEN n + 1 ELSE e[i]]
    <3>4. e \in [1..l -> 1..n] /\ \A i \in 1..l : e[i] \in 1..n
      BY <2>2, <2>3 DEF Embeds
    <3>5. g \in [1..(l + 1) -> 1..(n + 1)]
      BY <3>4
    <3>6. \A i \in 1..(l + 1) : u[i] = q[g[i]] /\ u[i] \notin D
      BY <2>2, <2>3, <2>4, <2>6, <3>3, <3>4 DEF Embeds
    <3>7. \A i, j \in 1..(l + 1) : i < j => g[i] < g[j]
      <4>1. \A i, j \in 1..l : i < j => e[i] < e[j]
        BY <2>2, <2>3 DEF Embeds
      <4>2. TAKE i, j \in 1..(l + 1)
      <4>3. CASE i < j /\ j = l + 1
        BY <3>4, <4>3
      <4>4. CASE i < j /\ j # l + 1
        <5>1. i \in 1..l /\ j \in 1..l /\ g[i] = e[i] /\ g[j] = e[j]
          BY <4>4
        <5> QED BY <4>1, <4>4, <5>1
      <4> QED BY <4>3, <4>4
    <3>8. ASSUME NEW x \in 1..(n + 1), q[x] \notin D PROVE \E i \in 1..(l + 1) : g[i] = x
      <4>1. CASE x = n + 1
        BY <4>1
      <4>2. CASE x \in 1..n
        <5>1. PICK i \in 1..l : e[i] = x
          BY <2>2, <2>3, <3>8, <4>2 DEF Embeds
        <5>2. i \in 1..(l + 1) /\ g[i] = x
          BY <5>1
        <5> QED BY <5>2
      <4> QED BY <4>1, <4>2
    <3>9. Embeds(u, q, g, n + 1, D)
      <4> HIDE DEF g
      <4> QED BY <3>3, <3>5, <3>6, <3>7, <3>8 DEF Embeds
    <3> QED BY <3>2, <3>9
  <2> QED BY <2>5, <2>6
<1>6. \A n \in Nat : n \in S
  <2> HIDE DEF S
  <2> QED BY <1>4, <1>5, NatSetInduction
<1>7. Good(m)
  BY <1>6
<1> QED BY <1>1, <1>2, <1>7

\* The members of what is kept, and a relation between earlier and later members
\* that is handed down to it.
LEMMA Retained ==
  ASSUME NEW R, NEW q \in Seq(R), NEW D
  PROVE  /\ retain(q, D) \in Seq(R)
         /\ ToSet(retain(q, D)) = ToSet(q) \ D
         /\ \A i \in DOMAIN retain(q, D) : \E x \in DOMAIN q : retain(q, D)[i] = q[x]
         /\ \A i, j \in DOMAIN retain(q, D) : i < j =>
              \E x, y \in DOMAIN q : x < y /\ retain(q, D)[i] = q[x] /\ retain(q, D)[j] = q[y]
<1>1. PICK s \in Seq(R) : s = retain(q, D)
  BY RetainEmbeds
<1>2. PICK e : Embeds(s, q, e, Len(q), D)
  BY <1>1, RetainEmbeds
<1>3. DOMAIN s = 1..Len(s) /\ DOMAIN q = 1..Len(q) /\ Len(s) \in Nat /\ Len(q) \in Nat
  OBVIOUS
<1>4. \A i \in DOMAIN s : e[i] \in DOMAIN q /\ s[i] = q[e[i]] /\ s[i] \notin D
  BY <1>2, <1>3 DEF Embeds
<1>5. \A i, j \in DOMAIN s : i < j => e[i] < e[j]
  BY <1>2, <1>3 DEF Embeds
<1>6. ASSUME NEW x \in DOMAIN q, q[x] \notin D PROVE \E i \in DOMAIN s : s[i] = q[x]
  <2>1. PICK i \in 1..Len(s) : e[i] = x
    BY <1>2, <1>3, <1>6 DEF Embeds
  <2> QED BY <2>1, <1>3, <1>4
<1>7. ToSet(s) = ToSet(q) \ D
  <2>1. ASSUME NEW y \in ToSet(s) PROVE y \in ToSet(q) \ D
    BY <1>4 DEF ToSet
  <2>2. ASSUME NEW y \in ToSet(q) \ D PROVE y \in ToSet(s)
    <3>1. PICK x \in DOMAIN q : q[x] = y
      BY DEF ToSet
    <3>2. PICK i \in DOMAIN s : s[i] = q[x]
      BY <1>6, <3>1
    <3> QED BY <3>1, <3>2 DEF ToSet
  <2> QED BY <2>1, <2>2
<1>8. \A i, j \in DOMAIN s : i < j =>
              \E x, y \in DOMAIN q : x < y /\ s[i] = q[x] /\ s[j] = q[y]
  BY <1>4, <1>5
<1> QED BY <1>1, <1>4, <1>7, <1>8

\* u is q with r put at place i.
WithAt(u, R, q, i, r) ==
  /\ u \in Seq(R) /\ Len(u) = Len(q) + 1
  /\ \A j \in 1..Len(q) + 1 : u[j] = IF j < i THEN q[j] ELSE IF j = i THEN r ELSE q[j - 1]

\* A sequence with a member inserted.
LEMMA Inserted ==
  ASSUME NEW R, NEW q \in Seq(R), NEW r \in R, NEW i \in Nat, i \in 1..Len(q)
  PROVE  WithAt(InsertAt(q, i, r), R, q, i, r)
<1>1. PICK n \in Nat : n = Len(q) /\ DOMAIN q = 1..n /\ i \in 1..n
  OBVIOUS
<1>2. PICK a : a = SubSeq(q, 1, i - 1)
  OBVIOUS
<1>3. PICK b : b = SubSeq(q, i, Len(q))
  OBVIOUS
<1>4. a \in Seq(R) /\ Len(a) = i - 1 /\ \A j \in 1..i - 1 : a[j] = q[j]
  <2>1. \A j \in 1..i - 1 : q[j] \in R
    BY <1>1
  <2> QED BY <1>2, <2>1, SubSeqProperties
<1>5. b \in Seq(R) /\ Len(b) = n - i + 1 /\ \A j \in 1..n - i + 1 : b[j] = q[i + j - 1]
  <2>1. \A j \in i..n : q[j] \in R
    BY <1>1
  <2> QED BY <1>1, <1>3, <2>1, SubSeqProperties
<1>6. <<r>> \in Seq(R) /\ Len(<<r>>) = 1 /\ <<r>>[1] = r
  OBVIOUS
<1>7. PICK c : c = a \o <<r>>
  OBVIOUS
<1>8. /\ c \in Seq(R) /\ Len(c) = i
      /\ \A j \in 1..i : c[j] = IF j < i THEN q[j] ELSE r
  BY <1>4, <1>6, <1>7, ConcatProperties
<1>9. PICK u : u = c \o b
  OBVIOUS
<1>10. /\ u \in Seq(R) /\ Len(u) = n + 1
       /\ \A j \in 1..n + 1 : u[j] = IF j <= i THEN c[j] ELSE b[j - i]
  <2>1. Len(c) + Len(b) = n + 1
    BY <1>1, <1>5, <1>8
  <2>2. /\ u \in Seq(R) /\ Len(u) = Len(c) + Len(b)
        /\ \A j \in 1..Len(c) + Len(b) : u[j] = IF j <= Len(c) THEN c[j] ELSE b[j - Len(c)]
    BY <1>5, <1>8, <1>9, ConcatProperties, Zenon
  <2> QED BY <1>8, <2>1, <2>2
<1>11. \A j \in 1..n + 1 : u[j] = IF j < i THEN q[j] ELSE IF j = i THEN r ELSE q[j - 1]
  <2>1. TAKE j \in 1..n + 1
  <2>2. CASE j <= i
    BY <1>8, <1>10, <2>2
  <2>3. CASE j > i
    <3>1. j - i \in 1..n - i + 1 /\ i + (j - i) - 1 = j - 1
      BY <1>1, <2>3
    <3>2. u[j] = b[j - i]
      BY <1>1, <1>10, <2>3
    <3>3. b[j - i] = q[j - 1]
      BY <1>5, <3>1
    <3> QED BY <1>1, <2>3, <3>2, <3>3
  <2> QED BY <2>2, <2>3
<1>12. u = InsertAt(q, i, r)
  BY <1>2, <1>3, <1>7, <1>9 DEF InsertAt
<1> QED BY <1>1, <1>10, <1>11, <1>12 DEF WithAt

\* In order of v, strictly.
Ascending(q, v) == \A i, j \in DOMAIN q : i < j => v[q[i]] < v[q[j]]

\* A refused request is put back where its arrival places it.
LEMMA Reinserted ==
  ASSUME NEW p, NEW k, NEW r \in Requests, p.queues[k] \in Seq(Requests),
         p.arrived \in [Requests -> Nat], Ascending(p.queues[k], p.arrived),
         \A x \in ToSet(p.queues[k]) : p.arrived[x] # p.arrived[r]
  PROVE  /\ reinsert(p, k, r) \in Seq(Requests)
         /\ ToSet(reinsert(p, k, r)) = ToSet(p.queues[k]) \union {r}
         /\ Ascending(reinsert(p, k, r), p.arrived)
<1>1. PICK q \in Seq(Requests) : q = p.queues[k]
  OBVIOUS
<1>2. PICK v \in [Requests -> Nat] : v = p.arrived
  OBVIOUS
<1>3. PICK n \in Nat : n = Len(q) /\ DOMAIN q = 1..n
  OBVIOUS
<1>4. /\ \A i \in 1..n : q[i] \in Requests /\ v[q[i]] \in Nat /\ v[q[i]] # v[r]
      /\ v[r] \in Nat
  BY <1>1, <1>2, <1>3 DEF ToSet
<1>5. \A i, j \in 1..n : i < j => v[q[i]] < v[q[j]]
  BY <1>1, <1>2, <1>3 DEF Ascending
<1> DEFINE later == {i \in 1..n : v[q[i]] > v[r]}
<1>6. reinsert(p, k, r) = IF later = {} THEN Append(q, r) ELSE InsertAt(q, Min(later), r)
  BY <1>1, <1>2, <1>3 DEF reinsert
<1>7. CASE later = {}
  <2>1. PICK u \in Seq(Requests) : u = Append(q, r)
    BY AppendProperties, Zenon
  <2>2. Len(u) = n + 1 /\ u[n + 1] = r /\ \A i \in 1..n : u[i] = q[i]
    BY <1>3, <2>1, AppendProperties
  <2>3. DOMAIN u = 1..n + 1
    BY <2>2
  <2>4. ASSUME NEW i \in 1..n PROVE v[q[i]] < v[r]
    <3>1. ~(v[q[i]] > v[r])
      BY <1>7
    <3> QED BY <1>4, <3>1
  <2>5. \A i, j \in 1..n + 1 : i < j => v[u[i]] < v[u[j]]
    <3>1. TAKE i, j \in 1..n + 1
    <3>2. CASE i < j /\ j = n + 1
      <4>1. i \in 1..n
        BY <3>2
      <4> QED BY <2>2, <2>4, <3>2, <4>1
    <3>3. CASE i < j /\ j # n + 1
      <4>1. i \in 1..n /\ j \in 1..n
        BY <3>3
      <4> QED BY <1>5, <2>2, <3>3, <4>1
    <3> QED BY <3>2, <3>3
  <2>6. ToSet(u) = ToSet(q) \union {r}
    <3>1. ASSUME NEW x \in ToSet(q) \union {r} PROVE x \in ToSet(u)
      <4>1. CASE x = r
        <5>1. n + 1 \in DOMAIN u
          BY <2>3
        <5> QED BY <2>2, <4>1, <5>1 DEF ToSet
      <4>2. CASE x # r
        <5>1. PICK i \in 1..n : q[i] = x
          BY <1>3, <4>2 DEF ToSet
        <5>2. i \in DOMAIN u /\ u[i] = x
          BY <2>2, <2>3, <5>1
        <5> QED BY <5>2 DEF ToSet
      <4> QED BY <4>1, <4>2
    <3>2. ASSUME NEW x \in ToSet(u) PROVE x \in ToSet(q) \union {r}
      <4>1. PICK i \in 1..n + 1 : u[i] = x
        BY <2>3 DEF ToSet
      <4>2. CASE i = n + 1
        BY <2>2, <4>1, <4>2
      <4>3. CASE i \in 1..n
        BY <1>3, <2>2, <4>1, <4>3 DEF ToSet
      <4> QED BY <4>2, <4>3
    <3> QED BY <3>1, <3>2
  <2>7. u = reinsert(p, k, r)
    BY <1>6, <1>7, <2>1
  <2> QED BY <1>1, <1>2, <2>3, <2>5, <2>6, <2>7 DEF Ascending
<1>8. CASE later # {}
  <2>1. PICK m \in 1..n : m = Min(later) /\ v[q[m]] > v[r] /\ \A i \in later : m <= i
    <3>1. later \subseteq Nat
      OBVIOUS
    <3>2. Min(later) \in later /\ \A i \in later : Min(later) <= i
      <4> HIDE DEF later
      <4> QED BY <1>8, <3>1, HasMin
    <3> QED BY <3>2
  <2>2. PICK u : u = InsertAt(q, m, r)
    OBVIOUS
  <2>3. /\ u \in Seq(Requests) /\ Len(u) = n + 1
        /\ \A j \in 1..n + 1 : u[j] = IF j < m THEN q[j] ELSE IF j = m THEN r ELSE q[j - 1]
    <3>1. m \in 1..Len(q)
      BY <1>3
    <3>2. WithAt(u, Requests, q, m, r)
      <4>1. q \in Seq(Requests) /\ r \in Requests /\ m \in Nat
        OBVIOUS
      <4>2. WithAt(InsertAt(q, m, r), Requests, q, m, r)
        BY <3>1, <4>1, Inserted
      <4> QED BY <2>2, <4>2
    <3> QED BY <1>3, <3>2 DEF WithAt
  <2>4. DOMAIN u = 1..n + 1
    BY <2>3
  <2>5. ASSUME NEW i \in 1..n, i < m PROVE v[q[i]] < v[r]
    <3>1. i \notin later
      <4> HIDE DEF later
      <4> QED BY <2>1, <2>5
    <3>2. ~(v[q[i]] > v[r])
      BY <3>1
    <3> QED BY <1>4, <3>2
  <2>6. ASSUME NEW i \in 1..n, i >= m PROVE v[r] < v[q[i]]
    <3>1. v[q[m]] <= v[q[i]] /\ v[q[m]] \in Nat /\ v[q[i]] \in Nat
      <4>1. i = m \/ m < i
        BY <2>6
      <4> QED BY <1>4, <1>5, <4>1
    <3> QED BY <1>4, <2>1, <3>1
  <2>7. \A i, j \in 1..n + 1 : i < j => v[u[i]] < v[u[j]]
    <3>1. SUFFICES ASSUME NEW i \in 1..n + 1, NEW j \in 1..n + 1, i < j PROVE v[u[i]] < v[u[j]]
      OBVIOUS
    <3>2. CASE j < m
      <4>1. i \in 1..n /\ j \in 1..n /\ u[i] = q[i] /\ u[j] = q[j]
        BY <2>3, <3>1, <3>2, SMTT(30)
      <4> QED BY <1>5, <3>1, <4>1
    <3>3. CASE j = m
      <4>1. i \in 1..n /\ i < m /\ u[i] = q[i] /\ u[j] = r
        BY <2>3, <3>1, <3>3, SMTT(30)
      <4> QED BY <2>5, <4>1
    <3>4. CASE j > m /\ i < m
      <4>1. i \in 1..n /\ j - 1 \in 1..n /\ j - 1 >= m /\ u[i] = q[i] /\ u[j] = q[j - 1]
        BY <2>3, <3>1, <3>4, SMTT(30)
      <4>2. v[q[i]] < v[r] /\ v[r] < v[q[j - 1]]
        BY <2>5, <2>6, <3>4, <4>1
      <4>3. v[q[i]] \in Nat /\ v[r] \in Nat /\ v[q[j - 1]] \in Nat
        BY <1>4, <4>1
      <4>4. v[q[i]] < v[q[j - 1]]
        BY <4>2, <4>3
      <4> QED BY <4>1, <4>4
    <3>5. CASE j > m /\ i = m
      <4>1. j - 1 \in 1..n /\ j - 1 >= m /\ u[i] = r /\ u[j] = q[j - 1]
        BY <2>3, <3>1, <3>5, SMTT(30)
      <4> QED BY <2>6, <4>1
    <3>6. CASE j > m /\ i > m
      <4>1. /\ i - 1 \in 1..n /\ j - 1 \in 1..n /\ i - 1 < j - 1
            /\ u[i] = q[i - 1] /\ u[j] = q[j - 1]
        <5>1. ~(i < m) /\ i # m /\ ~(j < m) /\ j # m
          BY <3>6
        <5>2. u[i] = q[i - 1] /\ u[j] = q[j - 1]
          BY <2>3, <5>1
        <5>3. i \in Nat /\ j \in Nat /\ m \in Nat /\ n \in Nat /\ 1 <= m /\ j <= n + 1
          BY <3>1
        <5>4. i - 1 \in 1..n /\ j - 1 \in 1..n /\ i - 1 < j - 1
          BY <3>1, <3>6, <5>3
        <5> QED BY <5>2, <5>4
      <4> QED BY <1>5, <4>1
    <3> QED BY <3>2, <3>3, <3>4, <3>5, <3>6
  <2>8. ToSet(u) = ToSet(q) \union {r}
    <3>1. ASSUME NEW x \in ToSet(q) \union {r} PROVE x \in ToSet(u)
      <4>1. CASE x = r
        <5>1. m \in DOMAIN u /\ u[m] = r
          BY <2>3, <2>4
        <5> QED BY <4>1, <5>1 DEF ToSet
      <4>2. CASE x # r
        <5>1. PICK i \in 1..n : q[i] = x
          BY <1>3, <4>2 DEF ToSet
        <5>2. CASE i < m
          <6>1. i \in DOMAIN u /\ u[i] = x
            BY <2>3, <2>4, <5>1, <5>2
          <6> QED BY <6>1 DEF ToSet
        <5>3. CASE i >= m
          <6>1. i + 1 \in 1..n + 1 /\ i + 1 > m /\ (i + 1) - 1 = i
            BY <5>3
          <6>2. u[i + 1] = x /\ i + 1 \in DOMAIN u
            BY <2>3, <2>4, <5>1, <6>1
          <6> QED BY <6>1, <6>2 DEF ToSet
        <5> QED BY <5>2, <5>3
      <4> QED BY <4>1, <4>2
    <3>2. ASSUME NEW x \in ToSet(u) PROVE x \in ToSet(q) \union {r}
      <4>1. PICK i \in 1..n + 1 : u[i] = x
        BY <2>4 DEF ToSet
      <4>2. CASE i < m
        <5>1. i \in DOMAIN q /\ q[i] = x
          <6>1. i \in 1..n
            BY <4>2
          <6> QED BY <1>3, <2>3, <4>1, <4>2, <6>1
        <5> QED BY <5>1 DEF ToSet
      <4>3. CASE i = m
        BY <2>3, <4>1, <4>3
      <4>4. CASE i > m
        <5>1. i - 1 \in 1..n /\ ~(i < m) /\ i # m
          BY <4>4
        <5>2. q[i - 1] = x
          BY <2>3, <4>1, <5>1
        <5> QED BY <1>3, <5>1, <5>2 DEF ToSet
      <4> QED BY <4>2, <4>3, <4>4
    <3> QED BY <3>1, <3>2
  <2>9. u = reinsert(p, k, r)
    BY <1>6, <1>8, <2>1, <2>2
  <2> QED BY <1>1, <1>2, <2>3, <2>4, <2>7, <2>8, <2>9 DEF Ascending
<1> QED BY <1>7, <1>8

-----------------------------------------------------------------------------
(* Costs.                                                                  *)

\* RequestList lists every request once.
LEMMA ListsRequests ==
  /\ Cardinality(Requests) \in Nat
  /\ RequestList \in [1..Cardinality(Requests) -> Requests]
  /\ \A i, j \in 1..Cardinality(Requests) : RequestList[i] = RequestList[j] => i = j
  /\ \A r \in Requests : \E i \in 1..Cardinality(Requests) : RequestList[i] = r
<1>0. IsFiniteSet(Requests)
  BY PoolAssumption DEF PoolAssumption
<1>1. PICK n \in Nat : n = Cardinality(Requests)
  BY <1>0, FS_CardinalityType, Zenon
<1>2. ExistsBijection(1..n, Requests)
  BY <1>0, <1>1, FS_CardinalityType
<1>3. PICK b \in [1..n -> Requests] : IsInjective(b)
  BY <1>2 DEF ExistsBijection, Bijection, Injection
<1>4. RequestList = CHOOSE f \in [1..n -> Requests] : IsInjective(f)
  BY <1>1 DEF RequestList, SetToSeq
<1>5. RequestList \in [1..n -> Requests] /\ IsInjective(RequestList)
  BY <1>3, <1>4, Zenon
<1>6. PICK g \in [1..n -> Requests] : g = RequestList /\ IsInjective(g)
  BY <1>5, Zenon
<1>7. g \in Injection(1..n, Requests)
  BY <1>6 DEF Injection
<1>8. IsFiniteSet(1..n) /\ Cardinality(1..n) = n
  BY FS_Interval
<1>9. g \in Surjection(1..n, Requests)
  BY <1>0, <1>1, <1>7, <1>8, FS_Injection
<1> QED BY <1>1, <1>6, <1>9 DEF Surjection, IsInjective

\* The cost of a set grows by the cost of what is added to it.
LEMMA CostAdds ==
  ASSUME NEW R, NEW r \in Requests, r \notin R
  PROVE  CostOf(R \union {r}) = CostOf(R) + Req[r].cost
<1>1. PICK n \in Nat : n = Cardinality(Requests)
  BY ListsRequests
<1>2. PICK l \in [1..n -> Requests] : l = RequestList
  BY <1>1, ListsRequests
<1>3. PICK i \in 1..n : l[i] = r
  BY <1>1, <1>2, ListsRequests
<1>4. \A j \in 1..n : l[j] = r => j = i
  BY <1>1, <1>2, <1>3, ListsRequests
<1> DEFINE a == [j \in 1..n |-> IF l[j] \in R THEN Req[l[j]].cost ELSE 0]
           b == [j \in 1..n |-> IF l[j] \in R \union {r} THEN Req[l[j]].cost ELSE 0]
<1>5. \A j \in 1..n : Req[l[j]].cost \in Nat
  BY Belongs
<1>6. (\A j \in 1..n : a[j] \in Int /\ b[j] \in Int) /\ a[i] = 0 /\ b[i] = Req[r].cost
  BY <1>3, <1>5
<1>7. \A j \in 1..n : j # i => b[j] = a[j]
  BY <1>4
<1>8. CostOf(R) = Sum(a, n) /\ CostOf(R \union {r}) = Sum(b, n)
  BY <1>1, <1>2 DEF CostOf
<1> HIDE DEF a, b
<1>9. Sum(b, n) = Sum(a, n) + (b[i] - a[i])
  BY <1>6, <1>7, SumChange
<1>10. Sum(a, n) \in Int /\ Req[r].cost \in Int
  BY <1>6, SumInt, Belongs
<1> QED BY <1>6, <1>8, <1>9, <1>10

\* Costs are naturals; nothing costs nothing.
LEMMA CostNat ==
  /\ \A R : CostOf(R) \in Nat
  /\ CostOf({}) = 0
<1>1. PICK n \in Nat : n = Cardinality(Requests)
  BY ListsRequests
<1>2. PICK l \in [1..n -> Requests] : l = RequestList
  BY <1>1, ListsRequests
<1>5. \A j \in 1..n : Req[l[j]].cost \in Nat
  BY Belongs
<1>6. ASSUME NEW R PROVE CostOf(R) \in Nat
  <2> DEFINE a == [j \in 1..n |-> IF l[j] \in R THEN Req[l[j]].cost ELSE 0]
  <2>1. CostOf(R) = Sum(a, n)
    BY <1>1, <1>2 DEF CostOf
  <2>2. \A j \in 1..n : a[j] \in Nat
    BY <1>5
  <2> HIDE DEF a
  <2> QED BY <2>1, <2>2, SumNat
<1>7. CostOf({}) = 0
  <2> DEFINE a == [j \in 1..n |-> IF l[j] \in {} THEN Req[l[j]].cost ELSE 0]
  <2>1. CostOf({}) = Sum(a, n)
    BY <1>1, <1>2 DEF CostOf
  <2>2. \A j \in 1..n : a[j] = 0
    OBVIOUS
  <2> HIDE DEF a
  <2> QED BY <2>1, <2>2, SumZero
<1> QED BY <1>6, <1>7

-----------------------------------------------------------------------------
(* What each operator changes.                                             *)

\* The fields of a pool.
Fields ==
  {"algorithm", "mode", "cap", "max_jumps", "queues", "arrived", "passed", "in_flight",
   "tenant_in_flight", "key_in_flight", "running", "held", "pending", "jumped", "probing",
   "blocked", "blocked_tenants", "blocked_keys", "served", "base", "key_served",
   "virtual_time", "session", "sessions", "granted", "left", "joined", "over", "refused"}

\* A pool is a record of these fields.
IsPool(p) == p = [f \in Fields |-> p[f]]

\* The same settings, refusals and blocks.
SameSettings(p, q) ==
  /\ q.algorithm = p.algorithm /\ q.mode = p.mode /\ q.cap = p.cap /\ q.max_jumps = p.max_jumps
  /\ q.refused = p.refused /\ q.probing = p.probing /\ q.blocked = p.blocked
  /\ q.blocked_tenants = p.blocked_tenants /\ q.blocked_keys = p.blocked_keys

\* The same requests hold slots.
SameHolders(p, q) == q.running = p.running /\ q.pending = p.pending /\ q.held = p.held

\* The same slots are counted.
SameCounts(p, q) ==
  /\ q.in_flight = p.in_flight
  /\ q.tenant_in_flight = p.tenant_in_flight /\ q.key_in_flight = p.key_in_flight

\* The same marks on the requests.
SameMarks(p, q) ==
  q.arrived = p.arrived /\ q.passed = p.passed /\ q.session = p.session /\ q.jumped = p.jumped

\* The same service accounts.
SameAccounts(p, q) == q.served = p.served /\ q.base = p.base /\ q.key_served = p.key_served

\* The same service, virtual time and history of it.
SameService(p, q) ==
  SameAccounts(p, q) /\ q.virtual_time = p.virtual_time /\ q.granted = p.granted /\ q.left = p.left

\* The same newcomers.
SameHistory(p, q) == q.joined = p.joined /\ q.over = p.over

\* r's tenant and key are charged for it.
Charged(p, q, r) ==
  LET t == TenantOf(r)
      k == KeyOf(r)
  IN  /\ IsPool(q)
      /\ SameSettings(p, q) /\ SameHolders(p, q) /\ SameCounts(p, q) /\ SameMarks(p, q)
      /\ q.queues = p.queues
      /\ q.virtual_time = p.virtual_time /\ q.granted = p.granted /\ q.left = p.left
      /\ q.served = [p.served EXCEPT ![t] = (IF p.served[t] = None THEN p.virtual_time ELSE p.served[t]) + Req[r].cost]
      /\ q.base = [p.base EXCEPT ![t] = IF p.served[t] = None THEN p.virtual_time ELSE p.base[t]]
      /\ q.key_served = [p.key_served EXCEPT ![k] = (IF p.key_served[k] = None THEN p.virtual_time ELSE p.key_served[k]) + Req[r].cost]
      /\ q.joined = p.joined \ {t} /\ q.over = p.over

\* charge.
LEMMA ChargeDoes ==
  ASSUME NEW p, NEW r, IsPool(p)
  PROVE  Charged(p, charge(p, r), r)
BY ZenonT(60) DEF Charged, charge, IsPool, Fields, SameSettings, SameHolders, SameCounts, SameMarks

\* A slot is counted for r.
Counted(p, q, r) ==
  /\ IsPool(q)
  /\ SameSettings(p, q) /\ SameHolders(p, q) /\ SameMarks(p, q) /\ q.queues = p.queues
  /\ SameService(p, q) /\ SameHistory(p, q)
  /\ q.in_flight = p.in_flight + 1
  /\ q.tenant_in_flight = [p.tenant_in_flight EXCEPT ![TenantOf(r)] = p.tenant_in_flight[TenantOf(r)] + 1]
  /\ q.key_in_flight = [p.key_in_flight EXCEPT ![KeyOf(r)] = p.key_in_flight[KeyOf(r)] + 1]

\* occupy: a slot is counted and charged.
LEMMA OccupyDoes ==
  ASSUME NEW p, NEW r, IsPool(p)
  PROVE  \E c : Counted(p, c, r) /\ Charged(c, occupy(p, r), r)
<1> DEFINE c == [p EXCEPT !.in_flight = @ + 1, !.tenant_in_flight[TenantOf(r)] = @ + 1,
                          !.key_in_flight[KeyOf(r)] = @ + 1]
<1>1. Counted(p, c, r)
  BY ZenonT(60) DEF Counted, IsPool, Fields, SameSettings, SameHolders, SameMarks, SameService, SameAccounts, SameHistory
<1>2. occupy(p, r) = charge(c, r)
  BY DEF occupy
<1> HIDE DEF c
<1>3. Charged(c, occupy(p, r), r)
  BY <1>1, <1>2, ChargeDoes DEF Counted
<1> QED BY <1>1, <1>3

\* Virtual time is brought up to date.
Advanced(p, q) ==
  /\ IsPool(q)
  /\ SameSettings(p, q) /\ SameHolders(p, q) /\ SameCounts(p, q) /\ SameMarks(p, q)
  /\ q.queues = p.queues /\ SameAccounts(p, q) /\ q.granted = p.granted /\ q.left = p.left
  /\ SameHistory(p, q)
  /\ LET waiting == {p.served[t] : t \in {t \in Tenants : tenant_queued(p, t) /\ p.served[t] # None}}
     IN  q.virtual_time = IF waiting = {} THEN p.virtual_time ELSE Min(waiting)

\* advance_virtual_time.
LEMMA AdvanceDoes ==
  ASSUME NEW p, IsPool(p)
  PROVE  Advanced(p, advance_virtual_time(p))
<1> DEFINE waiting == {p.served[t] : t \in {t \in Tenants : tenant_queued(p, t) /\ p.served[t] # None}}
<1>1. PICK W : W = waiting
  OBVIOUS
<1>2. PICK m : m = Min(W)
  OBVIOUS
<1>3. advance_virtual_time(p) = IF W = {} THEN p ELSE [p EXCEPT !.virtual_time = m]
  BY <1>1, <1>2, Zenon DEF advance_virtual_time
<1>4. PICK q : q = advance_virtual_time(p)
  OBVIOUS
<1>5. /\ IsPool(q)
      /\ SameSettings(p, q) /\ SameHolders(p, q) /\ SameCounts(p, q) /\ SameMarks(p, q)
      /\ q.queues = p.queues /\ SameAccounts(p, q) /\ q.granted = p.granted /\ q.left = p.left
      /\ SameHistory(p, q)
      /\ q.virtual_time = IF W = {} THEN p.virtual_time ELSE m
  BY <1>3, <1>4 DEF IsPool, Fields, SameSettings, SameHolders, SameCounts, SameMarks, SameAccounts, SameHistory
<1> QED BY <1>1, <1>2, <1>4, <1>5 DEF Advanced

\* The accounts of the keys and tenants are dropped.
Forgot(p, q, keys, tenants) ==
  /\ IsPool(q)
  /\ SameSettings(p, q) /\ SameHolders(p, q) /\ SameCounts(p, q) /\ SameMarks(p, q)
  /\ q.queues = p.queues /\ q.virtual_time = p.virtual_time /\ SameHistory(p, q)
  /\ q.key_served = [k \in Keys |-> IF k \in keys THEN None ELSE p.key_served[k]]
  /\ q.served = [t \in Tenants |-> IF t \in tenants THEN None ELSE p.served[t]]
  /\ q.base = [t \in Tenants |-> IF t \in tenants THEN 0 ELSE p.base[t]]
  /\ q.left = [t \in Tenants |-> IF t \in tenants THEN Max({p.left[t], p.served[t]}) ELSE p.left[t]]
  /\ q.granted = [t \in Tenants |-> IF t \in tenants THEN 0 ELSE p.granted[t]]

\* forgotten.
LEMMA ForgetDoes ==
  ASSUME NEW p, NEW keys, NEW tenants, IsPool(p)
  PROVE  Forgot(p, forgotten(p, keys, tenants), keys, tenants)
BY ZenonT(60) DEF Forgot, forgotten, IsPool, Fields, SameSettings, SameHolders, SameCounts, SameMarks, SameHistory

\* All accounts are dropped.
Reset(p, q) ==
  /\ IsPool(q)
  /\ SameSettings(p, q) /\ SameHolders(p, q) /\ SameCounts(p, q) /\ SameMarks(p, q)
  /\ q.queues = p.queues /\ SameHistory(p, q)
  /\ q.key_served = [k \in Keys |-> None] /\ q.served = [t \in Tenants |-> None]
  /\ q.base = [t \in Tenants |-> 0] /\ q.left = [t \in Tenants |-> 0]
  /\ q.granted = [t \in Tenants |-> 0] /\ q.virtual_time = 0

\* settle_idle.
LEMMA SettleDoes ==
  ASSUME NEW p, IsPool(p)
  PROVE  IF p.in_flight > 0 \/ Queued(p) # {} THEN settle_idle(p) = p ELSE Reset(p, settle_idle(p))
<1>1. CASE p.in_flight > 0 \/ Queued(p) # {}
  BY <1>1 DEF settle_idle
<1>2. CASE ~(p.in_flight > 0 \/ Queued(p) # {})
  <2>1. PICK q : q = settle_idle(p)
    OBVIOUS
  <2>2. q = [p EXCEPT !.served = [t \in Tenants |-> None], !.base = [t \in Tenants |-> 0],
                 !.key_served = [k \in Keys |-> None], !.virtual_time = 0,
                 !.granted = [t \in Tenants |-> 0], !.left = [t \in Tenants |-> 0]]
    BY <1>2, <2>1 DEF settle_idle
  <2>3. Reset(p, q)
    BY <2>2, ZenonT(60) DEF Reset, IsPool, Fields, SameSettings, SameHolders, SameCounts, SameMarks, SameHistory
  <2> QED BY <1>2, <2>1, <2>3
<1> QED BY <1>1, <1>2

\* The slots of R are no longer counted.
Vacated(p, q, R) ==
  /\ IsPool(q)
  /\ SameSettings(p, q) /\ SameHolders(p, q) /\ SameMarks(p, q) /\ q.queues = p.queues
  /\ SameService(p, q) /\ SameHistory(p, q)
  /\ q.in_flight = p.in_flight - Cardinality(R)
  /\ q.tenant_in_flight =
       [t \in Tenants |-> p.tenant_in_flight[t] - Cardinality({r \in R : TenantOf(r) = t})]
  /\ q.key_in_flight =
       [k \in Keys |-> p.key_in_flight[k] - Cardinality({r \in R : KeyOf(r) = k})]

\* vacate.
LEMMA VacateDoes ==
  ASSUME NEW p, NEW R, IsPool(p)
  PROVE  Vacated(p, vacate(p, R), R)
BY DEF Vacated, vacate, IsPool, Fields, SameSettings, SameHolders, SameMarks, SameService, SameAccounts, SameHistory

\* The requests D are in no queue.
Shortened(p, q, D) ==
  /\ IsPool(q)
  /\ SameSettings(p, q) /\ SameHolders(p, q) /\ SameCounts(p, q) /\ SameMarks(p, q)
  /\ SameService(p, q) /\ SameHistory(p, q)
  /\ q.queues = [k \in Keys |-> retain(p.queues[k], D)]

\* without.
LEMMA WithoutDoes ==
  ASSUME NEW p, NEW D, IsPool(p)
  PROVE  Shortened(p, without(p, D), D)
BY DEF Shortened, without, IsPool, Fields, SameSettings, SameHolders, SameCounts, SameMarks,
       SameService, SameAccounts, SameHistory

\* The requests R take their marks with them.
CastOff(p, q, R) ==
  /\ IsPool(q)
  /\ SameSettings(p, q) /\ SameHolders(p, q) /\ SameCounts(p, q)
  /\ SameService(p, q) /\ SameHistory(p, q) /\ q.queues = p.queues /\ q.jumped = p.jumped
  /\ q.arrived = [r \in Requests |-> IF r \in R THEN 0 ELSE p.arrived[r]]
  /\ q.passed = [r \in Requests |-> IF r \in R THEN 0 ELSE p.passed[r]]
  /\ q.session = [r \in Requests |-> IF r \in R THEN NoSession ELSE p.session[r]]

\* cast_off.
LEMMA CastOffDoes ==
  ASSUME NEW p, NEW R, IsPool(p)
  PROVE  CastOff(p, cast_off(p, R), R)
BY ZenonT(60) DEF CastOff, cast_off, served_out, IsPool, Fields, SameSettings, SameHolders, SameCounts,
       SameService, SameAccounts, SameHistory

\* The requests of r's key that r goes ahead of.
Earlier(p, r) == {x \in ToSet(p.queues[KeyOf(r)]) : p.arrived[r] = 0 \/ p.arrived[x] < p.arrived[r]}

\* r has its permit; those it went ahead of are passed.
Sent(p, q, r, ahead) ==
  /\ IsPool(q)
  /\ SameSettings(p, q) /\ SameCounts(p, q) /\ SameHistory(p, q)
  /\ q.running = p.running \union {r} /\ q.pending = p.pending /\ q.held = p.held
  /\ q.queues = p.queues /\ q.jumped = p.jumped /\ q.session = p.session
  /\ SameAccounts(p, q) /\ q.virtual_time = p.virtual_time /\ q.left = p.left
  /\ q.granted = [p.granted EXCEPT ![TenantOf(r)] = p.granted[TenantOf(r)] + Req[r].cost]
  /\ q.arrived = [x \in Requests |-> IF x \in {r} THEN 0 ELSE p.arrived[x]]
  /\ q.passed = [x \in Requests |-> IF x \in {r} THEN 0
                   ELSE IF affinity_on(p) /\ ahead /\ x \in Earlier(p, r) THEN p.passed[x] + 1
                   ELSE p.passed[x]]

\* send, whatever it notes of the session.
LEMMA SendDoes ==
  ASSUME NEW p, NEW r, NEW ahead, IsPool(p), NEW q \in send(p, r, ahead)
  PROVE  Sent(p, q, r, ahead)
<1>1. PICK E : E = Earlier(p, r)
  OBVIOUS
<1> DEFINE sent == [p EXCEPT !.running = @ \union {r},
                        !.granted[TenantOf(r)] = @ + Req[r].cost,
                        !.passed = [x \in Requests |->
                           IF affinity_on(p) /\ ahead /\ x \in E THEN @[x] + 1 ELSE @[x]]]
<1>2. \/ q = served_out(sent, {r})
      \/ \E v : q = served_out([sent EXCEPT !.sessions = v], {r})
  <2>1. E = {x \in ToSet(p.queues[KeyOf(r)]) : p.arrived[r] = 0 \/ p.arrived[x] < p.arrived[r]}
    BY <1>1 DEF Earlier
  <2>2. CASE ~affinity_on(p) \/ p.session[r] = NoSession
    BY <2>1, <2>2 DEF send
  <2>3. CASE ~(~affinity_on(p) \/ p.session[r] = NoSession)
    BY <2>1, <2>3 DEF send
  <2> QED BY <2>2, <2>3
<1>3. CASE q = served_out(sent, {r})
  BY <1>1, <1>3, ZenonT(60) DEF served_out, Sent, IsPool, Fields, SameSettings, SameCounts, SameHistory, SameAccounts
<1>4. ASSUME NEW v, q = served_out([sent EXCEPT !.sessions = v], {r})
      PROVE  Sent(p, q, r, ahead)
  BY <1>1, <1>4, ZenonT(60) DEF served_out, Sent, IsPool, Fields, SameSettings, SameCounts, SameHistory, SameAccounts
<1> QED BY <1>2, <1>3, <1>4

\* r waits at the end of its key's queue.
Queues(p, q, r) ==
  LET t == TenantOf(r)
      k == KeyOf(r)
      was == p.served[t]
      now == IF tenant_queued(p, t) THEN was ELSE Max({p.virtual_time, was})
      clear == ~tenant_queued(p, t) /\ now = p.virtual_time
  IN  /\ IsPool(q)
      /\ SameSettings(p, q) /\ SameCounts(p, q) /\ SameHolders(p, q)
      /\ q.passed = p.passed /\ q.session = p.session /\ q.jumped = p.jumped
      /\ q.virtual_time = p.virtual_time /\ q.granted = p.granted /\ q.left = p.left
      /\ q.queues = [p.queues EXCEPT ![k] = Append(p.queues[k], r)]
      /\ q.arrived = [p.arrived EXCEPT ![r] = 1 + Max({p.arrived[x] : x \in Requests})]
      /\ q.served = [p.served EXCEPT ![t] = now]
      /\ q.base = [p.base EXCEPT ![t] = IF was = None THEN now ELSE p.base[t] + (now - was)]
      /\ q.key_served = [p.key_served EXCEPT ![k] =
           IF p.queues[k] = <<>> THEN Max({p.virtual_time, p.key_served[k]}) ELSE p.key_served[k]]
      /\ q.joined = IF clear THEN p.joined \union {t}
                    ELSE IF tenant_queued(p, t) THEN p.joined ELSE p.joined \ {t}
      /\ q.over = [p.over EXCEPT ![t] = IF clear THEN [u \in Tenants |-> 0] ELSE p.over[t]]

\* enqueue.
LEMMA EnqueueDoes ==
  ASSUME NEW p, NEW r, IsPool(p)
  PROVE  Queues(p, enqueue(p, r), r)
<1> DEFINE t == TenantOf(r)
           k == KeyOf(r)
           was == p.served[t]
           now == IF tenant_queued(p, t) THEN was ELSE Max({p.virtual_time, was})
           clear == ~tenant_queued(p, t) /\ now = p.virtual_time
<1>1. PICK s : s = now
  OBVIOUS
<1>2. PICK b : b = IF was = None THEN s ELSE p.base[t] + (s - was)
  OBVIOUS
<1>3. PICK v : v = IF p.queues[k] = <<>> THEN Max({p.virtual_time, p.key_served[k]}) ELSE p.key_served[k]
  OBVIOUS
<1>4. PICK j : j = IF clear THEN p.joined \union {t}
                   ELSE IF tenant_queued(p, t) THEN p.joined ELSE p.joined \ {t}
  OBVIOUS
<1>5. PICK o : o = IF clear THEN [u \in Tenants |-> 0] ELSE p.over[t]
  OBVIOUS
<1>6. PICK n : n = 1 + Max({p.arrived[x] : x \in Requests})
  OBVIOUS
<1>7. PICK q : q = enqueue(p, r)
  OBVIOUS
<1>8. q = [p EXCEPT !.served[t] = s, !.base[t] = b, !.key_served[k] = v,
                    !.queues[k] = Append(@, r), !.arrived[r] = n, !.joined = j, !.over[t] = o]
  BY <1>1, <1>2, <1>3, <1>4, <1>5, <1>6, <1>7, Zenon DEF enqueue, join_at
<1>9. /\ IsPool(q)
      /\ SameSettings(p, q) /\ SameCounts(p, q) /\ SameHolders(p, q)
      /\ q.passed = p.passed /\ q.session = p.session /\ q.jumped = p.jumped
      /\ q.virtual_time = p.virtual_time /\ q.granted = p.granted /\ q.left = p.left
      /\ q.queues = [p.queues EXCEPT ![k] = Append(p.queues[k], r)]
      /\ q.arrived = [p.arrived EXCEPT ![r] = n]
      /\ q.served = [p.served EXCEPT ![t] = s]
      /\ q.base = [p.base EXCEPT ![t] = b]
      /\ q.key_served = [p.key_served EXCEPT ![k] = v]
      /\ q.joined = j /\ q.over = [p.over EXCEPT ![t] = o]
  <2> HIDE DEF t, k
  <2> QED BY <1>8, ZenonT(60) DEF IsPool, Fields, SameSettings, SameHolders, SameCounts
<1> QED BY <1>1, <1>2, <1>3, <1>4, <1>5, <1>6, <1>7, <1>9, Zenon DEF Queues

-----------------------------------------------------------------------------
(* The invariant, of a pool p and the requests F that have not come.       *)

\* A pool's fields have their types.
Shape(p) ==
  /\ IsPool(p)
  /\ p.algorithm \in {"weighted", "hierarchical"} /\ p.mode \in {"local", "shared"}
  /\ p.cap \in Nat \ {0} /\ p.max_jumps \in Affinities
  /\ p.queues \in [Keys -> Seq(Requests)]
  /\ p.arrived \in [Requests -> Nat] /\ p.passed \in [Requests -> Nat]
  /\ p.session \in [Requests -> Sessions \union {NoSession}]
  /\ p.running \subseteq Requests /\ p.pending \subseteq Requests /\ p.held \subseteq Requests
  /\ p.in_flight \in Int
  /\ p.tenant_in_flight \in [Tenants -> Int] /\ p.key_in_flight \in [Keys -> Int]
  /\ p.served \in [Tenants -> Int] /\ p.base \in [Tenants -> Int]
  /\ p.key_served \in [Keys -> Int] /\ p.virtual_time \in Int
  /\ p.granted \in [Tenants -> Int] /\ p.left \in [Tenants -> Int]
  /\ p.joined \subseteq Tenants /\ p.over \in [Tenants -> [Tenants -> Nat]]

\* The requests with a place in the order of arrival.
Waiters(p) == Queued(p) \union p.pending

\* Every request is in at most one place and in its key's queue; who waits has
\* arrived, in an order of its own.
Places(p, F) ==
  /\ F \subseteq Requests
  /\ F \cap Queued(p) = {} /\ F \cap Occupied(p) = {} /\ Queued(p) \cap Occupied(p) = {}
  /\ p.running \cap p.pending = {} /\ p.running \cap p.held = {} /\ p.pending \cap p.held = {}
  /\ \A k \in Keys : \A i \in DOMAIN p.queues[k] : KeyOf(p.queues[k][i]) = k

\* Waiters are numbered apart, each queue is in that order, and a request that has
\* not come has no mark.
Marks(p, F) ==
  /\ \A r \in F : p.arrived[r] = 0 /\ p.passed[r] = 0
  /\ \A r \in Waiters(p) : p.arrived[r] > 0
  /\ \A x, y \in Waiters(p) : x # y => p.arrived[x] # p.arrived[y]
  /\ \A k \in Keys : Ascending(p.queues[k], p.arrived)

\* Sessions, and what the modes exclude.
Modal(p) ==
  /\ \A r \in Requests : p.session[r] \in {Req[r].session, NoSession}
  /\ \A r \in p.held : Req[r].session # NoSession
  /\ p.mode = "shared" => p.held = {}
  /\ p.mode = "local" => p.pending = {} /\ ~p.refused

\* No tenant or key is past its cap.
Caps(p) ==
  /\ \A k \in Keys : Key[k].cap > 0 => p.key_in_flight[k] <= Key[k].cap
  /\ \A t \in Tenants : Tenant[t].cap > 0 => p.tenant_in_flight[t] <= Tenant[t].cap

\* Neither r's tenant nor its key is at its cap.
Room(p, r) ==
  /\ has_slot(p.tenant_in_flight[TenantOf(r)], Tenant[TenantOf(r)].cap)
  /\ has_slot(p.key_in_flight[KeyOf(r)], Key[KeyOf(r)].cap)

\* How many of S are the tenant's.
TenantCount(S, t) == Cardinality({r \in S : TenantOf(r) = t})

\* How many of S are the key's.
KeyCount(S, k) == Cardinality({r \in S : KeyOf(r) = k})

\* Slots are counted once; the requests O hold one outside the pool's books.
Slots(p, O) ==
  /\ O \subseteq Requests /\ O \cap Occupied(p) = {}
  /\ p.in_flight = Cardinality(Occupied(p) \union O)
  /\ \A t \in Tenants : p.tenant_in_flight[t] = TenantCount(Occupied(p) \union O, t)
  /\ \A k \in Keys : p.key_in_flight[k] = KeyCount(Occupied(p) \union O, k)
  /\ Caps(p)

\* What those of S that are the tenant's cost.
TenantCost(S, t) == CostOf({r \in S : TenantOf(r) = t})

\* What those of S that are the key's cost.
KeyCost(S, k) == CostOf({r \in S : KeyOf(r) = k})

\* What a tenant and a key were charged, with the requests C charged and neither
\* granted nor claimed yet.
TenantAccount(p, C, t) ==
  /\ p.served[t] >= None /\ p.base[t] >= 0 /\ p.granted[t] >= 0
  /\ p.served[t] = None => p.granted[t] = 0
  /\ p.served[t] # None =>
       p.served[t] = p.base[t] + p.granted[t] + TenantCost(p.pending \union C, t)

\* A key was served at least what its claims cost.
KeyAccount(p, C, k) ==
  /\ p.key_served[k] >= None
  /\ p.key_served[k] # None => p.key_served[k] >= KeyCost(p.pending \union C, k)

\* The accounts with C charged beside the claims.  Who waits or has a claim out has
\* an account.
Accounts(p, C) ==
  /\ C \subseteq Requests
  /\ \A t \in Tenants : TenantAccount(p, C, t)
  /\ \A k \in Keys : KeyAccount(p, C, k)
  /\ \A r \in p.pending \union C : p.served[TenantOf(r)] # None /\ p.key_served[KeyOf(r)] # None
  /\ \A r \in Queued(p) : p.served[TenantOf(r)] # None
  /\ p.virtual_time >= 0

\* The invariant but for time, passes, newcomers and idle slots.
Sound(p, F, O, C) ==
  Shape(p) /\ Places(p, F) /\ Marks(p, F) /\ Modal(p) /\ Slots(p, O) /\ Accounts(p, C)

-----------------------------------------------------------------------------
(* Who is queued.                                                          *)

\* Queued requests are the members of the queues.
LEMMA QueuedIs ==
  ASSUME NEW p, p.queues \in [Keys -> Seq(Requests)]
  PROVE  /\ Queued(p) \subseteq Requests
         /\ \A k \in Keys : \A i \in DOMAIN p.queues[k] : p.queues[k][i] \in Queued(p)
         /\ \A r \in Queued(p) : \E k \in Keys : \E i \in DOMAIN p.queues[k] : p.queues[k][i] = r
<1>1. \A k \in Keys : p.queues[k] \in Seq(Requests)
  OBVIOUS
<1>2. \A k \in Keys : \A i \in DOMAIN p.queues[k] : p.queues[k][i] \in Requests
  BY <1>1
<1>3. \A k \in Keys : \A i \in DOMAIN p.queues[k] : p.queues[k][i] \in Queued(p)
  BY DEF Queued, ToSet
<1>4. \A r \in Queued(p) : \E k \in Keys : \E i \in DOMAIN p.queues[k] : p.queues[k][i] = r
  BY Zenon DEF Queued, ToSet
<1> QED BY <1>2, <1>3, <1>4

\* It depends on the queues alone.
LEMMA SameQueues ==
  ASSUME NEW p, NEW q, q.queues = p.queues
  PROVE  Queued(q) = Queued(p) /\ \A t : tenant_queued(q, t) <=> tenant_queued(p, t)
BY DEF Queued, tenant_queued

\* A tenant waits when a request of its waits.
LEMMA TenantQueuedIs ==
  ASSUME NEW p, p.queues \in [Keys -> Seq(Requests)],
         \A k \in Keys : \A i \in DOMAIN p.queues[k] : KeyOf(p.queues[k][i]) = k
  PROVE  /\ \A t \in Tenants : tenant_queued(p, t) <=> \E r \in Queued(p) : TenantOf(r) = t
         /\ \A r \in Queued(p) : r \in ToSet(p.queues[KeyOf(r)])
<1>1. \A k \in Keys : p.queues[k] # <<>> <=> \E i \in DOMAIN p.queues[k] : TRUE
  <2> SUFFICES ASSUME NEW k \in Keys PROVE p.queues[k] # <<>> <=> \E i \in DOMAIN p.queues[k] : TRUE
    OBVIOUS
  <2>1. PICK s \in Seq(Requests) : s = p.queues[k]
    OBVIOUS
  <2>2. CASE s = <<>>
    BY <2>1, <2>2
  <2>3. CASE s # <<>>
    <3>1. Len(s) \in Nat \ {0} /\ DOMAIN s = 1..Len(s)
      BY <2>3, EmptySeq
    <3>2. 1 \in DOMAIN s
      BY <3>1
    <3> QED BY <2>1, <2>3, <3>2
  <2> QED BY <2>2, <2>3
<1>2. ASSUME NEW t \in Tenants, tenant_queued(p, t) PROVE \E r \in Queued(p) : TenantOf(r) = t
  <2>1. PICK k \in Keys : Key[k].tenant = t /\ p.queues[k] # <<>>
    BY <1>2 DEF tenant_queued, KeysOf
  <2>2. PICK i \in DOMAIN p.queues[k] : TRUE
    BY <1>1, <2>1
  <2>3. p.queues[k][i] \in Queued(p) /\ KeyOf(p.queues[k][i]) = k
    BY QueuedIs
  <2>4. TenantOf(p.queues[k][i]) = t
    BY <2>1, <2>3 DEF TenantOf, KeyOf
  <2> QED BY <2>3, <2>4
<1>3. ASSUME NEW r \in Queued(p)
      PROVE  KeyOf(r) \in Keys /\ \E i \in DOMAIN p.queues[KeyOf(r)] : p.queues[KeyOf(r)][i] = r
  <2>1. PICK k \in Keys : \E i \in DOMAIN p.queues[k] : p.queues[k][i] = r
    BY QueuedIs
  <2>2. KeyOf(r) = k
    BY <2>1
  <2> QED BY <2>1, <2>2
<1>4. ASSUME NEW r \in Queued(p) PROVE tenant_queued(p, TenantOf(r))
  <2>1. p.queues[KeyOf(r)] # <<>> /\ KeyOf(r) \in Keys
    BY <1>1, <1>3
  <2>2. KeyOf(r) \in KeysOf(TenantOf(r))
    BY <2>1 DEF KeysOf, TenantOf, KeyOf
  <2> QED BY <2>1, <2>2 DEF tenant_queued
<1> QED BY <1>2, <1>3, <1>4 DEF ToSet

-----------------------------------------------------------------------------
(* Steps that leave the line, the slots or the accounts as they are.       *)

\* The line, its marks and who holds slots are the same.
SameLine(p, q) ==
  /\ SameHolders(p, q) /\ q.queues = p.queues
  /\ q.arrived = p.arrived /\ q.passed = p.passed /\ q.session = p.session
  /\ q.mode = p.mode /\ q.refused = p.refused

\* Then places and marks are kept.
LEMMA LineKept ==
  ASSUME NEW p, NEW q, NEW F, SameLine(p, q), Places(p, F), Marks(p, F), Modal(p)
  PROVE  Places(q, F) /\ Marks(q, F) /\ Modal(q)
<1>1. Queued(q) = Queued(p) /\ Occupied(q) = Occupied(p) /\ Waiters(q) = Waiters(p)
  BY SameQueues DEF SameLine, SameHolders, Occupied, Waiters
<1>2. Places(q, F)
  BY <1>1 DEF Places, SameLine, SameHolders
<1>3. Marks(q, F)
  BY <1>1 DEF Marks, SameLine, SameHolders
<1>4. Modal(q)
  BY <1>1 DEF Modal, SameLine, SameHolders
<1> QED BY <1>2, <1>3, <1>4

\* Holders and counters together keep the slots right.
LEMMA SlotsKept ==
  ASSUME NEW p, NEW q, NEW O, SameHolders(p, q), SameCounts(p, q), Slots(p, O)
  PROVE  Slots(q, O)
<1>1. Occupied(q) = Occupied(p)
  BY DEF SameHolders, Occupied
<1> QED BY <1>1 DEF Slots, SameCounts, Caps

\* The accounts stay right when fewer wait.
LEMMA AccountsKept ==
  ASSUME NEW p, NEW q, NEW C, SameAccounts(p, q), q.granted = p.granted, q.pending = p.pending,
         q.virtual_time = p.virtual_time, Queued(q) \subseteq Queued(p), Accounts(p, C)
  PROVE  Accounts(q, C)
BY DEF Accounts, TenantAccount, KeyAccount, SameAccounts

-----------------------------------------------------------------------------
(* Counting requests.                                                      *)

\* One more request.
LEMMA CountAdd ==
  ASSUME NEW S, S \subseteq Requests, NEW r \in Requests, r \notin S
  PROVE  Cardinality(S \union {r}) = Cardinality(S) + 1
BY RequestSet, FS_AddElement

\* One more for its tenant.
LEMMA TenantCountAdd ==
  ASSUME NEW S, S \subseteq Requests, NEW r \in Requests, r \notin S, NEW t
  PROVE  TenantCount(S \union {r}, t) = TenantCount(S, t) + (IF TenantOf(r) = t THEN 1 ELSE 0)
<1> DEFINE A == {x \in S : TenantOf(x) = t}
           B == {x \in S \union {r} : TenantOf(x) = t}
<1>1. A \subseteq Requests /\ r \notin A /\ B = IF TenantOf(r) = t THEN A \union {r} ELSE A
  OBVIOUS
<1>2. TenantCount(S, t) = Cardinality(A) /\ TenantCount(S \union {r}, t) = Cardinality(B)
  BY DEF TenantCount
<1> HIDE DEF A, B
<1>3. IsFiniteSet(A) /\ Cardinality(A) \in Nat
  BY <1>1, RequestSet
<1>4. Cardinality(A \union {r}) = Cardinality(A) + 1
  BY <1>1, <1>3, FS_AddElement
<1> QED BY <1>1, <1>2, <1>3, <1>4

\* One more for its key.
LEMMA KeyCountAdd ==
  ASSUME NEW S, S \subseteq Requests, NEW r \in Requests, r \notin S, NEW k
  PROVE  KeyCount(S \union {r}, k) = KeyCount(S, k) + (IF KeyOf(r) = k THEN 1 ELSE 0)
<1> DEFINE A == {x \in S : KeyOf(x) = k}
           B == {x \in S \union {r} : KeyOf(x) = k}
<1>1. A \subseteq Requests /\ r \notin A /\ B = IF KeyOf(r) = k THEN A \union {r} ELSE A
  OBVIOUS
<1>2. KeyCount(S, k) = Cardinality(A) /\ KeyCount(S \union {r}, k) = Cardinality(B)
  BY DEF KeyCount
<1> HIDE DEF A, B
<1>3. IsFiniteSet(A) /\ Cardinality(A) \in Nat
  BY <1>1, RequestSet
<1>4. Cardinality(A \union {r}) = Cardinality(A) + 1
  BY <1>1, <1>3, FS_AddElement
<1> QED BY <1>1, <1>2, <1>3, <1>4

\* Two sets apart.
LEMMA CountDisjoint ==
  ASSUME NEW A, A \subseteq Requests, NEW B, B \subseteq Requests, A \cap B = {}
  PROVE  Cardinality(A \union B) = Cardinality(A) + Cardinality(B)
<1>1. IsFiniteSet(A) /\ IsFiniteSet(B) /\ Cardinality(A) \in Nat /\ Cardinality(B) \in Nat
  BY RequestSet
<1>2. Cardinality(A \union B) = Cardinality(A) + Cardinality(B) - Cardinality(A \cap B)
  BY <1>1, FS_Union
<1>3. Cardinality(A \cap B) = 0
  BY FS_EmptySet
<1> QED BY <1>1, <1>2, <1>3

\* Some fewer.
LEMMA CountMinus ==
  ASSUME NEW S, S \subseteq Requests, NEW R, R \subseteq S
  PROVE  Cardinality(S \ R) = Cardinality(S) - Cardinality(R)
<1>0. PICK D : D = S \ R
  OBVIOUS
<1>1. D \subseteq Requests /\ R \subseteq Requests /\ D \cap R = {} /\ S = D \union R
  BY <1>0
<1>2. Cardinality(S) = Cardinality(D) + Cardinality(R)
  BY <1>1, CountDisjoint
<1>3. Cardinality(D) \in Nat /\ Cardinality(R) \in Nat
  BY <1>1, RequestSet
<1> QED BY <1>0, <1>2, <1>3

\* Some fewer for a tenant.
LEMMA TenantCountMinus ==
  ASSUME NEW S, S \subseteq Requests, NEW R, R \subseteq S, NEW t
  PROVE  TenantCount(S \ R, t) = TenantCount(S, t) - TenantCount(R, t) /\ TenantCount(R, t) \in Nat
<1> DEFINE A == {x \in S : TenantOf(x) = t}
           B == {x \in R : TenantOf(x) = t}
<1>1. A \subseteq Requests /\ B \subseteq A /\ A \ B = {x \in S \ R : TenantOf(x) = t}
  OBVIOUS
<1>2. TenantCount(S, t) = Cardinality(A) /\ TenantCount(R, t) = Cardinality(B) /\ TenantCount(S \ R, t) = Cardinality(A \ B)
  BY <1>1 DEF TenantCount
<1> HIDE DEF A, B
<1>3. Cardinality(B) \in Nat
  BY <1>1, RequestSet
<1>4. Cardinality(A \ B) = Cardinality(A) - Cardinality(B)
  BY <1>1, CountMinus
<1> QED BY <1>2, <1>3, <1>4

\* Some fewer for a key.
LEMMA KeyCountMinus ==
  ASSUME NEW S, S \subseteq Requests, NEW R, R \subseteq S, NEW k
  PROVE  KeyCount(S \ R, k) = KeyCount(S, k) - KeyCount(R, k) /\ KeyCount(R, k) \in Nat
<1> DEFINE A == {x \in S : KeyOf(x) = k}
           B == {x \in R : KeyOf(x) = k}
<1>1. A \subseteq Requests /\ B \subseteq A /\ A \ B = {x \in S \ R : KeyOf(x) = k}
  OBVIOUS
<1>2. KeyCount(S, k) = Cardinality(A) /\ KeyCount(R, k) = Cardinality(B) /\ KeyCount(S \ R, k) = Cardinality(A \ B)
  BY <1>1 DEF KeyCount
<1> HIDE DEF A, B
<1>3. Cardinality(B) \in Nat
  BY <1>1, RequestSet
<1>4. Cardinality(A \ B) = Cardinality(A) - Cardinality(B)
  BY <1>1, CountMinus
<1> QED BY <1>2, <1>3, <1>4

\* The cost of a tenant's and of a key's requests, with one more.
LEMMA TenantCostAdds ==
  ASSUME NEW S, NEW r \in Requests, r \notin S, NEW t
  PROVE  TenantCost(S \union {r}, t) = TenantCost(S, t) + (IF TenantOf(r) = t THEN Req[r].cost ELSE 0)
<1>0. Req[r].cost \in Nat
  BY Belongs
<1> DEFINE A == {x \in S : TenantOf(x) = t}
           B == {x \in S \union {r} : TenantOf(x) = t}
<1>1. r \notin A /\ B = IF TenantOf(r) = t THEN A \union {r} ELSE A
  OBVIOUS
<1>2. TenantCost(S, t) = CostOf(A) /\ TenantCost(S \union {r}, t) = CostOf(B)
  BY DEF TenantCost
<1> HIDE DEF A, B
<1>3. CostOf(A) \in Nat /\ CostOf(A \union {r}) = CostOf(A) + Req[r].cost
  BY <1>1, CostNat, CostAdds
<1> QED BY <1>0, <1>1, <1>2, <1>3

\* The same for a key.
LEMMA KeyCostAdds ==
  ASSUME NEW S, NEW r \in Requests, r \notin S, NEW k
  PROVE  KeyCost(S \union {r}, k) = KeyCost(S, k) + (IF KeyOf(r) = k THEN Req[r].cost ELSE 0)
<1>0. Req[r].cost \in Nat
  BY Belongs
<1> DEFINE A == {x \in S : KeyOf(x) = k}
           B == {x \in S \union {r} : KeyOf(x) = k}
<1>1. r \notin A /\ B = IF KeyOf(r) = k THEN A \union {r} ELSE A
  OBVIOUS
<1>2. KeyCost(S, k) = CostOf(A) /\ KeyCost(S \union {r}, k) = CostOf(B)
  BY DEF KeyCost
<1> HIDE DEF A, B
<1>3. CostOf(A) \in Nat /\ CostOf(A \union {r}) = CostOf(A) + Req[r].cost
  BY <1>1, CostNat, CostAdds
<1> QED BY <1>0, <1>1, <1>2, <1>3

-----------------------------------------------------------------------------
(* What each step does to the invariant.                                   *)

\* Requests leave their queues.
LEMMA ShortenedSound ==
  ASSUME NEW p, NEW q, NEW D, NEW F, NEW O, NEW C, Shortened(p, q, D), Sound(p, F, O, C)
  PROVE  Sound(q, F, O, C) /\ Queued(q) = Queued(p) \ D
<1>0. p.queues \in [Keys -> Seq(Requests)] /\ IsPool(q)
  BY DEF Sound, Shape, Shortened
<1>1. \A k \in Keys : q.queues[k] = retain(p.queues[k], D) /\ p.queues[k] \in Seq(Requests)
  BY <1>0 DEF Shortened
<1>2. \A k \in Keys : /\ q.queues[k] \in Seq(Requests) /\ ToSet(q.queues[k]) = ToSet(p.queues[k]) \ D
                      /\ \A i \in DOMAIN q.queues[k] : \E x \in DOMAIN p.queues[k] :
                           q.queues[k][i] = p.queues[k][x]
                      /\ \A i, j \in DOMAIN q.queues[k] : i < j =>
                           \E x, y \in DOMAIN p.queues[k] :
                             x < y /\ q.queues[k][i] = p.queues[k][x] /\ q.queues[k][j] = p.queues[k][y]
  BY <1>1, Retained
<1>3. q.queues \in [Keys -> Seq(Requests)]
  BY <1>2 DEF Shortened
<1>4. Queued(q) = Queued(p) \ D
  BY <1>2 DEF Queued
<1>5. Occupied(q) = Occupied(p) /\ Waiters(q) \subseteq Waiters(p)
  BY <1>4 DEF Shortened, SameHolders, Occupied, Waiters
<1>6. Shape(q)
  BY <1>3 DEF Sound, Shape, Shortened, SameSettings, SameHolders, SameCounts, SameMarks, SameService, SameAccounts, SameHistory
<1>7. Places(q, F)
  <2>1. \A k \in Keys : \A i \in DOMAIN q.queues[k] : KeyOf(q.queues[k][i]) = k
    BY <1>2 DEF Sound, Places
  <2> QED BY <2>1, <1>4, <1>5 DEF Sound, Places, Shortened, SameHolders
<1>8. Marks(q, F)
  <2>1. \A k \in Keys : Ascending(q.queues[k], q.arrived)
    BY <1>2 DEF Sound, Marks, Ascending, Shortened, SameMarks
  <2> QED BY <2>1, <1>5 DEF Sound, Marks, Shortened, SameMarks
<1>9. Modal(q)
  BY DEF Sound, Modal, Shortened, SameMarks, SameHolders, SameSettings
<1>10. Slots(q, O)
  BY SlotsKept DEF Sound, Shortened
<1>11. Accounts(q, C)
  BY <1>4, AccountsKept DEF Sound, Shortened, SameService, SameHolders
<1> QED BY <1>4, <1>6, <1>7, <1>8, <1>9, <1>10, <1>11 DEF Sound

\* A slot is counted for r.
LEMMA CountedSound ==
  ASSUME NEW p, NEW q, NEW r \in Requests, NEW F, NEW O, NEW C, Counted(p, q, r), Sound(p, F, O, C),
         r \notin O, r \notin Occupied(p), Room(p, r)
  PROVE  Sound(q, F, O \union {r}, C)
<1>0. /\ TenantOf(r) \in Tenants /\ KeyOf(r) \in Keys
      /\ p.in_flight \in Int /\ p.tenant_in_flight \in [Tenants -> Int] /\ p.key_in_flight \in [Keys -> Int]
  BY Belongs DEF Sound, Shape
<1>c. /\ \A t \in Tenants : q.tenant_in_flight[t] = p.tenant_in_flight[t] + (IF TenantOf(r) = t THEN 1 ELSE 0)
      /\ \A k \in Keys : q.key_in_flight[k] = p.key_in_flight[k] + (IF KeyOf(r) = k THEN 1 ELSE 0)
  <2>1. PICK f \in [Tenants -> Int] : f = p.tenant_in_flight
    BY <1>0
  <2>2. PICK g \in [Keys -> Int] : g = p.key_in_flight
    BY <1>0
  <2>3. /\ q.tenant_in_flight = [f EXCEPT ![TenantOf(r)] = f[TenantOf(r)] + 1]
        /\ q.key_in_flight = [g EXCEPT ![KeyOf(r)] = g[KeyOf(r)] + 1]
    BY <2>1, <2>2 DEF Counted
  <2>4. /\ \A t \in Tenants : q.tenant_in_flight[t] = f[t] + (IF TenantOf(r) = t THEN 1 ELSE 0)
        /\ \A k \in Keys : q.key_in_flight[k] = g[k] + (IF KeyOf(r) = k THEN 1 ELSE 0)
    BY <2>3
  <2> QED BY <2>1, <2>2, <2>4
<1>t. /\ q.in_flight \in Int /\ q.tenant_in_flight \in [Tenants -> Int] /\ q.key_in_flight \in [Keys -> Int]
  BY <1>0 DEF Counted
<1>1. Shape(q)
  BY <1>t DEF Sound, Shape, Counted, SameSettings, SameHolders, SameMarks, SameService, SameAccounts, SameHistory
<1>2. Places(q, F) /\ Marks(q, F) /\ Modal(q)
  BY LineKept DEF Sound, SameLine, Counted, SameSettings, SameMarks
<1>3. Accounts(q, C)
  BY AccountsKept, SameQueues DEF Sound, Counted, SameService, SameHolders
<1>4. Slots(q, O \union {r})
  <2>1. PICK S : S = Occupied(p) \union O
    OBVIOUS
  <2>2. S \subseteq Requests /\ r \notin S
    BY <2>1 DEF Sound, Slots, Shape, Occupied
  <2>3. Occupied(q) \union (O \union {r}) = S \union {r} /\ Occupied(q) = Occupied(p)
    BY <2>1 DEF Counted, SameHolders, Occupied
  <2>4. q.in_flight = Cardinality(S \union {r})
    BY <2>1, <2>2, CountAdd DEF Sound, Slots, Counted
  <2>5. ASSUME NEW t \in Tenants
        PROVE  q.tenant_in_flight[t] = TenantCount(S \union {r}, t)
    <3>1. p.tenant_in_flight[t] = TenantCount(S, t)
      BY <2>1 DEF Sound, Slots
    <3>2. TenantCount(S \union {r}, t) =
            TenantCount(S, t) + (IF TenantOf(r) = t THEN 1 ELSE 0)
      BY <2>2, TenantCountAdd
    <3> QED BY <1>c, <3>1, <3>2
  <2>6. ASSUME NEW k \in Keys
        PROVE  q.key_in_flight[k] = KeyCount(S \union {r}, k)
    <3>1. p.key_in_flight[k] = KeyCount(S, k)
      BY <2>1 DEF Sound, Slots
    <3>2. KeyCount(S \union {r}, k) =
            KeyCount(S, k) + (IF KeyOf(r) = k THEN 1 ELSE 0)
      BY <2>2, KeyCountAdd
    <3> QED BY <1>c, <3>1, <3>2
  <2>7. O \union {r} \subseteq Requests /\ (O \union {r}) \cap Occupied(q) = {}
    BY <2>3 DEF Sound, Slots
  <2>8. Caps(q)
    <3>1. \A k \in Keys : Key[k].cap \in Nat
      BY PoolAssumption DEF PoolAssumption
    <3>2. \A t \in Tenants : Tenant[t].cap \in Nat
      BY PoolAssumption DEF PoolAssumption
    <3>3. Caps(p) /\ Room(p, r)
      BY DEF Sound, Slots
    <3>4. /\ \A k \in Keys : p.key_in_flight[k] \in Int
          /\ \A t \in Tenants : p.tenant_in_flight[t] \in Int
      BY <1>0
    <3> QED BY <1>0, <1>c, <3>1, <3>2, <3>3, <3>4 DEF Caps, Room, has_slot
  <2> QED BY <2>3, <2>4, <2>5, <2>6, <2>7, <2>8 DEF Slots
<1> QED BY <1>1, <1>2, <1>3, <1>4 DEF Sound

\* Slots of the requests R are given back.
LEMMA VacatedSound ==
  ASSUME NEW p, NEW q, NEW R, NEW F, NEW O, NEW C, Vacated(p, q, R), Sound(p, F, O, C), R \subseteq O
  PROVE  Sound(q, F, O \ R, C)
<1>0. O \subseteq Requests
  BY DEF Sound, Slots
<1>1. Shape(q)
  <2>1. Cardinality(R) \in Nat
    BY <1>0, RequestSet
  <2>2. \A t \in Tenants : Cardinality({r \in R : TenantOf(r) = t}) \in Nat
    <3> TAKE t \in Tenants
    <3>1. {r \in R : TenantOf(r) = t} \subseteq Requests
      BY <1>0
    <3> QED BY <3>1, RequestSet
  <2>3. \A k \in Keys : Cardinality({r \in R : KeyOf(r) = k}) \in Nat
    <3> TAKE k \in Keys
    <3>1. {r \in R : KeyOf(r) = k} \subseteq Requests
      BY <1>0
    <3> QED BY <3>1, RequestSet
  <2>4. /\ q.in_flight \in Int /\ q.tenant_in_flight \in [Tenants -> Int] /\ q.key_in_flight \in [Keys -> Int]
    <3>1. PICK f \in [Tenants -> Int] : f = p.tenant_in_flight
      BY DEF Sound, Shape
    <3>2. PICK g \in [Keys -> Int] : g = p.key_in_flight
      BY DEF Sound, Shape
    <3>3. p.in_flight \in Int
      BY DEF Sound, Shape
    <3> QED BY <2>1, <2>2, <2>3, <3>1, <3>2, <3>3 DEF Vacated
  <2> QED BY <2>4 DEF Sound, Shape, Vacated, SameSettings, SameHolders, SameMarks,
                                  SameService, SameAccounts, SameHistory
<1>2. Places(q, F) /\ Marks(q, F) /\ Modal(q)
  BY LineKept DEF Sound, SameLine, Vacated, SameSettings, SameMarks
<1>3. Accounts(q, C)
  BY AccountsKept, SameQueues DEF Sound, Vacated, SameService, SameHolders
<1>4. Slots(q, O \ R)
  <2>1. PICK S : S = Occupied(p) \union O
    OBVIOUS
  <2>2. S \subseteq Requests /\ R \subseteq S
    BY <2>1 DEF Sound, Slots, Shape, Occupied
  <2>3. Occupied(q) \union (O \ R) = S \ R /\ Occupied(q) = Occupied(p)
    BY <2>1 DEF Sound, Slots, Vacated, SameHolders, Occupied
  <2>4. q.in_flight = Cardinality(S \ R)
    <3>1. Cardinality(S \ R) = Cardinality(S) - Cardinality(R)
      BY <2>2, CountMinus
    <3> QED BY <2>1, <3>1 DEF Sound, Slots, Vacated
  <2>5. ASSUME NEW t \in Tenants
        PROVE  /\ q.tenant_in_flight[t] = TenantCount(S \ R, t)
               /\ q.tenant_in_flight[t] <= p.tenant_in_flight[t]
    <3>1. p.tenant_in_flight[t] = TenantCount(S, t)
      BY <2>1 DEF Sound, Slots
    <3>2. TenantCount(S \ R, t) =
            TenantCount(S, t) - TenantCount(R, t)
      BY <2>2, TenantCountMinus
    <3>3. q.tenant_in_flight[t] = p.tenant_in_flight[t] - TenantCount(R, t)
      BY DEF Vacated, TenantCount
    <3>4. TenantCount(R, t) \in Nat
      BY <2>2, TenantCountMinus
    <3>6. p.tenant_in_flight[t] \in Int
      BY DEF Sound, Shape
    <3> QED BY <3>1, <3>2, <3>3, <3>4, <3>6
  <2>6. ASSUME NEW k \in Keys
        PROVE  /\ q.key_in_flight[k] = KeyCount(S \ R, k)
               /\ q.key_in_flight[k] <= p.key_in_flight[k]
    <3>1. p.key_in_flight[k] = KeyCount(S, k)
      BY <2>1 DEF Sound, Slots
    <3>2. KeyCount(S \ R, k) =
            KeyCount(S, k) - KeyCount(R, k)
      BY <2>2, KeyCountMinus
    <3>3. q.key_in_flight[k] = p.key_in_flight[k] - KeyCount(R, k)
      BY DEF Vacated, KeyCount
    <3>4. KeyCount(R, k) \in Nat
      BY <2>2, KeyCountMinus
    <3>6. p.key_in_flight[k] \in Int
      BY DEF Sound, Shape
    <3> QED BY <3>1, <3>2, <3>3, <3>4, <3>6
  <2>7. O \ R \subseteq Requests /\ (O \ R) \cap Occupied(q) = {}
    BY <1>0, <2>3 DEF Sound, Slots
  <2>8. Caps(q)
    <3>1. Caps(p)
      BY DEF Sound, Slots
    <3>2. /\ \A k \in Keys : p.key_in_flight[k] \in Int /\ q.key_in_flight[k] \in Int /\ Key[k].cap \in Nat
          /\ \A t \in Tenants : p.tenant_in_flight[t] \in Int /\ q.tenant_in_flight[t] \in Int /\ Tenant[t].cap \in Nat
      BY <1>1, PoolAssumption DEF Sound, Shape, PoolAssumption
    <3>3. /\ \A k \in Keys : q.key_in_flight[k] <= p.key_in_flight[k]
          /\ \A t \in Tenants : q.tenant_in_flight[t] <= p.tenant_in_flight[t]
      BY <2>5, <2>6
    <3> QED BY <3>1, <3>2, <3>3 DEF Caps
  <2> QED BY <2>3, <2>4, <2>5, <2>6, <2>7, <2>8 DEF Slots
<1> QED BY <1>1, <1>2, <1>3, <1>4 DEF Sound

\* A held slot passes from h to a request of its key.
LEMMA SlotPasses ==
  ASSUME NEW p, NEW h, NEW r \in Requests, NEW F, NEW O, NEW C, Sound(p, F, O \union {h}, C), h \notin O,
         KeyOf(h) = KeyOf(r), r \notin Occupied(p), r \notin O
  PROVE  Sound(p, F, O \union {r}, C)
<1> DEFINE S == Occupied(p) \union O
<1>1. S \subseteq Requests /\ h \in Requests /\ h \notin S /\ r \notin S
  BY DEF Sound, Slots, Shape, Occupied
<1>2. TenantOf(h) = TenantOf(r)
  BY <1>1, Belongs
<1>a. Occupied(p) \union (O \union {h}) = S \union {h} /\ Occupied(p) \union (O \union {r}) = S \union {r}
  OBVIOUS
<1>b. O \union {r} \subseteq Requests /\ (O \union {r}) \cap Occupied(p) = {}
  BY DEF Sound, Slots
<1> HIDE DEF S
<1>3. Cardinality(S \union {h}) = Cardinality(S \union {r})
  <2>1. Cardinality(S \union {h}) = Cardinality(S) + 1
    BY <1>1, CountAdd
  <2>2. Cardinality(S \union {r}) = Cardinality(S) + 1
    BY <1>1, CountAdd
  <2> QED BY <2>1, <2>2
<1>4. ASSUME NEW t PROVE  TenantCount(S \union {h}, t) =
                          TenantCount(S \union {r}, t)
  <2>1. TenantCount(S \union {h}, t) =
          TenantCount(S, t) + (IF TenantOf(h) = t THEN 1 ELSE 0)
    BY <1>1, TenantCountAdd
  <2>2. TenantCount(S \union {r}, t) =
          TenantCount(S, t) + (IF TenantOf(r) = t THEN 1 ELSE 0)
    BY <1>1, TenantCountAdd
  <2> QED BY <1>2, <2>1, <2>2
<1>5. ASSUME NEW k PROVE  KeyCount(S \union {h}, k) =
                          KeyCount(S \union {r}, k)
  <2>1. KeyCount(S \union {h}, k) =
          KeyCount(S, k) + (IF KeyOf(h) = k THEN 1 ELSE 0)
    BY <1>1, KeyCountAdd
  <2>2. KeyCount(S \union {r}, k) =
          KeyCount(S, k) + (IF KeyOf(r) = k THEN 1 ELSE 0)
    BY <1>1, KeyCountAdd
  <2> QED BY <2>1, <2>2
<1>6. Slots(p, O \union {r})
  BY <1>3, <1>4, <1>5, <1>a, <1>b DEF Sound, Slots
<1> QED BY <1>6 DEF Sound

\* Nobody in an account without an entry.
LEMMA NoEntryNoCost ==
  ASSUME NEW p, NEW C, Accounts(p, C), p.pending \subseteq Requests
  PROVE  /\ \A t \in Tenants : p.served[t] = None => TenantCost(p.pending \union C, t) = 0
         /\ \A k \in Keys : p.key_served[k] = None => KeyCost(p.pending \union C, k) = 0
<1>1. ASSUME NEW t \in Tenants, p.served[t] = None
      PROVE  TenantCost(p.pending \union C, t) = 0
  <2>1. {x \in p.pending \union C : TenantOf(x) = t} = {}
    BY <1>1 DEF Accounts
  <2> QED BY <2>1, CostNat DEF TenantCost
<1>2. ASSUME NEW k \in Keys, p.key_served[k] = None
      PROVE  KeyCost(p.pending \union C, k) = 0
  <2>1. {x \in p.pending \union C : KeyOf(x) = k} = {}
    BY <1>2 DEF Accounts
  <2> QED BY <2>1, CostNat DEF KeyCost
<1> QED BY <1>1, <1>2

\* A request is charged.
LEMMA ChargedSound ==
  ASSUME NEW p, NEW q, NEW r \in Requests, NEW F, NEW O, NEW C, Charged(p, q, r), Sound(p, F, O, C),
         r \notin p.pending, r \notin C
  PROVE  Sound(q, F, O, C \union {r})
<1>0. PICK t \in Tenants, k \in Keys, c \in Nat \ {0} : t = TenantOf(r) /\ k = KeyOf(r) /\ c = Req[r].cost
  BY Belongs
<1>1. PICK s \in [Tenants -> Int] : s = p.served
  BY DEF Sound, Shape
<1>2. PICK b \in [Tenants -> Int] : b = p.base
  BY DEF Sound, Shape
<1>3. PICK y \in [Keys -> Int] : y = p.key_served
  BY DEF Sound, Shape
<1>4. PICK v \in Int : v = p.virtual_time /\ v >= 0
  BY DEF Sound, Shape, Accounts
<1>5. PICK g \in [Tenants -> Int] : g = p.granted
  BY DEF Sound, Shape
<1>6. /\ q.served = [s EXCEPT ![t] = (IF s[t] = None THEN v ELSE s[t]) + c]
      /\ q.base = [b EXCEPT ![t] = IF s[t] = None THEN v ELSE b[t]]
      /\ q.key_served = [y EXCEPT ![k] = (IF y[k] = None THEN v ELSE y[k]) + c]
      /\ q.virtual_time = v /\ q.granted = g /\ q.pending = p.pending /\ q.queues = p.queues
  BY <1>0, <1>1, <1>2, <1>3, <1>4, <1>5 DEF Charged, SameHolders
<1>7. q.served \in [Tenants -> Int] /\ q.base \in [Tenants -> Int] /\ q.key_served \in [Keys -> Int]
  BY <1>6
<1>8. Shape(q)
  BY <1>7 DEF Sound, Shape, Charged, SameSettings, SameHolders, SameMarks, SameCounts
<1>9. Places(q, F) /\ Marks(q, F) /\ Modal(q)
  BY LineKept DEF Sound, SameLine, Charged, SameSettings, SameMarks
<1>10. Slots(q, O)
  BY SlotsKept DEF Sound, Charged
<1>11. Accounts(q, C \union {r})
  <2>0. PICK S : S = p.pending \union C
    OBVIOUS
  <2>1. r \notin S /\ q.pending \union (C \union {r}) = S \union {r}
    BY <1>6, <2>0
  <2>2. Accounts(p, C) /\ p.pending \subseteq Requests
    BY DEF Sound, Shape
  <2>3. ASSUME NEW u \in Tenants PROVE TenantAccount(q, C \union {r}, u)
    <3>1. PICK m \in Nat : m = TenantCost(S, u)
      BY CostNat DEF TenantCost
    <3>2. TenantCost(S \union {r}, u) = m + (IF t = u THEN c ELSE 0)
      BY <1>0, <2>1, <3>1, TenantCostAdds
    <3>3. /\ s[u] >= None /\ b[u] >= 0 /\ g[u] >= 0 /\ (s[u] = None => g[u] = 0)
          /\ s[u] # None => s[u] = b[u] + g[u] + m
      BY <1>1, <1>2, <1>5, <2>0, <2>2, <3>1 DEF Accounts, TenantAccount
    <3>4. s[u] = None => m = 0
      BY <1>1, <2>0, <2>2, <3>1, NoEntryNoCost
    <3>5. CASE u = t
      <4>1. q.served[u] = (IF s[t] = None THEN v ELSE s[t]) + c /\ q.base[u] = (IF s[t] = None THEN v ELSE b[t])
            /\ q.granted[u] = g[u]
        BY <1>6, <3>5
      <4>2. /\ q.served[u] >= None /\ q.base[u] >= 0 /\ q.granted[u] >= 0 /\ q.served[u] # None
            /\ q.served[u] = q.base[u] + q.granted[u] + (m + (IF t = u THEN c ELSE 0))
        BY <1>4, <3>3, <3>4, <3>5, <4>1 DEF None
      <4> QED BY <2>1, <3>2, <4>2 DEF TenantAccount
    <3>6. CASE u # t
      <4>1. q.served[u] = s[u] /\ q.base[u] = b[u] /\ q.granted[u] = g[u]
        BY <1>6, <3>6
      <4>2. TenantCost(S \union {r}, u) = m
        BY <3>2, <3>6
      <4> QED BY <2>1, <3>3, <4>1, <4>2 DEF TenantAccount
    <3> QED BY <3>5, <3>6
  <2>4. ASSUME NEW u \in Keys PROVE KeyAccount(q, C \union {r}, u)
    <3>1. PICK m \in Nat : m = KeyCost(S, u)
      BY CostNat DEF KeyCost
    <3>2. KeyCost(S \union {r}, u) = m + (IF k = u THEN c ELSE 0)
      BY <1>0, <2>1, <3>1, KeyCostAdds
    <3>3. y[u] >= None /\ (y[u] # None => y[u] >= m)
      BY <1>3, <2>0, <2>2, <3>1 DEF Accounts, KeyAccount
    <3>4. y[u] = None => m = 0
      BY <1>3, <2>0, <2>2, <3>1, NoEntryNoCost
    <3>5. CASE u = k
      <4>1. q.key_served[u] = (IF y[k] = None THEN v ELSE y[k]) + c
        BY <1>6, <3>5
      <4>2. q.key_served[u] >= None /\ q.key_served[u] >= m + (IF k = u THEN c ELSE 0)
        BY <1>4, <3>3, <3>4, <3>5, <4>1 DEF None
      <4> QED BY <2>1, <3>2, <4>2 DEF KeyAccount
    <3>6. CASE u # k
      <4>1. q.key_served[u] = y[u]
        BY <1>6, <3>6
      <4>2. KeyCost(S \union {r}, u) = m
        BY <3>2, <3>6
      <4> QED BY <2>1, <3>3, <4>1, <4>2 DEF KeyAccount
    <3> QED BY <3>5, <3>6
  <2>5. /\ \A u \in Tenants : s[u] # None => q.served[u] # None
        /\ \A u \in Keys : y[u] # None => q.key_served[u] # None
        /\ q.served[t] # None /\ q.key_served[k] # None
    <3>1. /\ \A u \in Tenants : s[u] >= None
          /\ \A u \in Keys : y[u] >= None
      BY <1>1, <1>3, <2>2 DEF Accounts, TenantAccount, KeyAccount
    <3> QED BY <1>4, <1>6, <3>1 DEF None
  <2>6. C \union {r} \subseteq Requests /\ S \subseteq Requests
    BY <2>0, <2>2 DEF Accounts
  <2>7. ASSUME NEW x \in S \union {r} PROVE q.served[TenantOf(x)] # None /\ q.key_served[KeyOf(x)] # None
    <3>1. TenantOf(x) \in Tenants /\ KeyOf(x) \in Keys
      BY <2>6, Belongs
    <3> QED BY <1>0, <1>1, <1>3, <2>0, <2>2, <2>5, <3>1 DEF Accounts
  <2>8. ASSUME NEW x \in Queued(q) PROVE q.served[TenantOf(x)] # None
    <3>1. x \in Queued(p) /\ x \in Requests
      BY <1>6, SameQueues, QueuedIs DEF Sound, Shape
    <3> QED BY <1>1, <2>2, <2>5, <3>1, Belongs DEF Accounts
  <2> QED BY <1>4, <1>6, <2>1, <2>3, <2>4, <2>6, <2>7, <2>8 DEF Accounts
<1> QED BY <1>8, <1>9, <1>10, <1>11 DEF Sound

\* Virtual time moves on.
LEMMA AdvancedSound ==
  ASSUME NEW p, NEW q, NEW F, NEW O, NEW C, Advanced(p, q), Sound(p, F, O, C)
  PROVE  Sound(q, F, O, C)
<1>1. q.virtual_time \in Int /\ q.virtual_time >= 0
  <2> DEFINE W == {p.served[t] : t \in {t \in Tenants : tenant_queued(p, t) /\ p.served[t] # None}}
  <2>1. W \subseteq Nat
    <3>1. \A t \in Tenants : p.served[t] \in Int /\ p.served[t] >= None
      BY DEF Sound, Shape, Accounts, TenantAccount
    <3>2. \A t \in Tenants : p.served[t] # None => p.served[t] \in Nat
      BY <3>1 DEF None
    <3> QED BY <3>2
  <2>2. q.virtual_time = IF W = {} THEN p.virtual_time ELSE Min(W)
    BY DEF Advanced
  <2>3. p.virtual_time \in Int /\ p.virtual_time >= 0
    BY DEF Sound, Shape, Accounts
  <2> HIDE DEF W
  <2>4. W # {} => Min(W) \in Nat
    BY <2>1, HasMin
  <2> QED BY <2>2, <2>3, <2>4
<1>2. Shape(q)
  BY <1>1 DEF Sound, Shape, Advanced, SameSettings, SameHolders, SameMarks, SameCounts, SameAccounts, SameHistory
<1>3. Places(q, F) /\ Marks(q, F) /\ Modal(q)
  BY LineKept DEF Sound, SameLine, Advanced, SameSettings, SameMarks
<1>4. Slots(q, O)
  BY SlotsKept DEF Sound, Advanced
<1>5. Accounts(q, C)
  <2>1. Queued(q) = Queued(p)
    BY SameQueues DEF Advanced
  <2> QED BY <1>1, <2>1 DEF Sound, Accounts, TenantAccount, KeyAccount, Advanced, SameAccounts, SameHolders
<1> QED BY <1>2, <1>3, <1>4, <1>5 DEF Sound

\* Keys and tenants with nothing queued or claimed are forgotten.
LEMMA ForgotSound ==
  ASSUME NEW p, NEW q, NEW keys, NEW tenants, NEW F, NEW O, NEW C, Forgot(p, q, keys, tenants), Sound(p, F, O, C),
         \A r \in p.pending \union C : KeyOf(r) \notin keys /\ TenantOf(r) \notin tenants,
         \A r \in Queued(p) : TenantOf(r) \notin tenants
  PROVE  Sound(q, F, O, C)
<1>1. Shape(q)
  <2>1. \A t \in Tenants : Max({p.left[t], p.served[t]}) \in Int
    <3> TAKE t \in Tenants
    <3>1. p.left[t] \in Int /\ p.served[t] \in Int
      BY DEF Sound, Shape
    <3> QED BY <3>1, MaxPair
  <2>2. /\ q.served \in [Tenants -> Int] /\ q.base \in [Tenants -> Int] /\ q.key_served \in [Keys -> Int]
        /\ q.left \in [Tenants -> Int] /\ q.granted \in [Tenants -> Int]
    BY <2>1 DEF Forgot, Sound, Shape, None
  <2> QED BY <2>2 DEF Sound, Shape, Forgot, SameSettings, SameHolders, SameMarks, SameCounts, SameHistory
<1>2. Places(q, F) /\ Marks(q, F) /\ Modal(q)
  BY LineKept DEF Sound, SameLine, Forgot, SameSettings, SameMarks
<1>3. Slots(q, O)
  BY SlotsKept DEF Sound, Forgot
<1>4. Accounts(q, C)
  <2>0. Accounts(p, C) /\ q.pending = p.pending /\ q.virtual_time = p.virtual_time /\ p.pending \union C \subseteq Requests
    BY DEF Sound, Forgot, SameHolders, Accounts, Shape
  <2>1. ASSUME NEW t \in Tenants PROVE TenantAccount(q, C, t)
    <3>1. CASE t \in tenants
      BY <3>1 DEF Forgot, TenantAccount, None
    <3>2. CASE t \notin tenants
      BY <2>0, <3>2, ZenonT(60) DEF Forgot, TenantAccount, Accounts
    <3> QED BY <3>1, <3>2
  <2>2. ASSUME NEW k \in Keys PROVE KeyAccount(q, C, k)
    <3>1. CASE k \in keys
      BY <3>1 DEF Forgot, KeyAccount, None
    <3>2. CASE k \notin keys
      BY <2>0, <3>2 DEF Forgot, KeyAccount, Accounts
    <3> QED BY <3>1, <3>2
  <2>3. ASSUME NEW r \in p.pending \union C PROVE q.served[TenantOf(r)] # None /\ q.key_served[KeyOf(r)] # None
    <3>1. TenantOf(r) \in Tenants /\ KeyOf(r) \in Keys
      BY <2>0, Belongs
    <3> QED BY <2>0, <3>1 DEF Forgot, Accounts
  <2>4. ASSUME NEW r \in Queued(q) PROVE q.served[TenantOf(r)] # None
    <3>1. r \in Queued(p) /\ r \in Requests
      BY SameQueues, QueuedIs DEF Sound, Shape, Forgot
    <3>2. TenantOf(r) \in Tenants
      BY <3>1, Belongs
    <3> QED BY <2>0, <3>1, <3>2 DEF Forgot, Accounts
  <2> QED BY <2>0, <2>1, <2>2, <2>3, <2>4 DEF Accounts
<1> QED BY <1>1, <1>2, <1>3, <1>4 DEF Sound

\* An idle pool forgets everybody.
LEMMA ResetSound ==
  ASSUME NEW p, NEW q, NEW F, NEW O, Reset(p, q), Sound(p, F, O, {}), p.pending = {}, Queued(p) = {}
  PROVE  Sound(q, F, O, {})
<1>1. Shape(q)
  BY DEF Sound, Shape, Reset, SameSettings, SameHolders, SameMarks, SameCounts, SameHistory, None
<1>2. Places(q, F) /\ Marks(q, F) /\ Modal(q)
  BY LineKept DEF Sound, SameLine, Reset, SameSettings, SameMarks
<1>3. Slots(q, O)
  BY SlotsKept DEF Sound, Reset
<1>4. Accounts(q, {})
  <2>1. Queued(q) = {} /\ q.pending = {}
    BY SameQueues DEF Reset, SameHolders
  <2> QED BY <2>1 DEF Reset, Accounts, TenantAccount, KeyAccount, None
<1> QED BY <1>1, <1>2, <1>3, <1>4 DEF Sound

\* Requests that are nowhere lose their marks.
LEMMA CastOffSound ==
  ASSUME NEW p, NEW q, NEW R, NEW F, NEW O, NEW C, CastOff(p, q, R), Sound(p, F, O, C), R \cap Waiters(p) = {}
  PROVE  Sound(q, F, O, C)
<1>0. Queued(q) = Queued(p) /\ Waiters(q) = Waiters(p) /\ Occupied(q) = Occupied(p)
  BY SameQueues DEF CastOff, SameHolders, Waiters, Occupied
<1>1. q.arrived \in [Requests -> Nat] /\ q.passed \in [Requests -> Nat] /\ q.session \in [Requests -> Sessions \union {NoSession}]
  BY DEF CastOff, Sound, Shape
<1>2. Shape(q)
  BY <1>1 DEF Sound, Shape, CastOff, SameSettings, SameHolders, SameCounts, SameService, SameAccounts, SameHistory
<1>3. Places(q, F)
  BY <1>0 DEF Sound, Places, CastOff, SameHolders
<1>4. Marks(q, F)
  <2>0. Waiters(p) \subseteq Requests /\ F \subseteq Requests
    BY QueuedIs DEF Waiters, Sound, Shape, Places
  <2>1. \A x \in Waiters(p) : q.arrived[x] = p.arrived[x]
    BY <2>0 DEF CastOff
  <2>2. \A k \in Keys : \A i \in DOMAIN q.queues[k] : q.queues[k][i] \in Waiters(p) /\ q.queues[k] = p.queues[k]
    BY QueuedIs DEF Sound, Shape, CastOff, Waiters
  <2>3. \A k \in Keys : Ascending(q.queues[k], q.arrived)
    BY <2>1, <2>2 DEF Sound, Marks, Ascending
  <2>4. \A r \in F : q.arrived[r] = 0 /\ q.passed[r] = 0
    BY <2>0 DEF CastOff, Sound, Marks
  <2> QED BY <1>0, <2>1, <2>3, <2>4 DEF Sound, Marks
<1>5. Modal(q)
  BY <1>0 DEF Sound, Modal, CastOff, SameHolders, SameSettings
<1>6. Slots(q, O)
  BY SlotsKept DEF Sound, CastOff
<1>7. Accounts(q, C)
  BY <1>0, AccountsKept DEF Sound, CastOff, SameService, SameHolders
<1> QED BY <1>2, <1>3, <1>4, <1>5, <1>6, <1>7 DEF Sound

\* A request that holds a slot and was charged gets its permit.
LEMMA SentSound ==
  ASSUME NEW p, NEW q, NEW r \in Requests, NEW ahead, NEW F, NEW O, NEW C, Sent(p, q, r, ahead),
         Sound(p, F, O, C), r \in O, r \in C, r \notin p.pending, r \notin Queued(p), r \notin F
  PROVE  Sound(q, F, O \ {r}, C \ {r})
<1>0. PICK t \in Tenants, c \in Nat \ {0} : t = TenantOf(r) /\ c = Req[r].cost
  BY Belongs
<1>1. /\ Queued(q) = Queued(p) /\ Waiters(q) = Waiters(p) /\ Occupied(q) = Occupied(p) \union {r}
      /\ r \notin Waiters(p) /\ r \notin Occupied(p)
  BY SameQueues DEF Sent, Waiters, Occupied, Sound, Slots
<1>2. PICK g \in [Tenants -> Int] : g = p.granted
  BY DEF Sound, Shape
<1>3. q.granted = [g EXCEPT ![t] = g[t] + c] /\ q.granted \in [Tenants -> Int]
  BY <1>0, <1>2 DEF Sent
<1>4. q.arrived \in [Requests -> Nat] /\ q.passed \in [Requests -> Nat]
  <2>1. PICK a \in [Requests -> Nat], b \in [Requests -> Nat] : a = p.arrived /\ b = p.passed
    BY DEF Sound, Shape
  <2>2. PICK late : late = (affinity_on(p) /\ ahead)
    OBVIOUS
  <2>3. PICK E : E = Earlier(p, r)
    OBVIOUS
  <2>4. q.arrived = [x \in Requests |-> IF x \in {r} THEN 0 ELSE a[x]]
    BY <2>1 DEF Sent
  <2>5. q.passed = [x \in Requests |-> IF x \in {r} THEN 0
                     ELSE IF late /\ x \in E THEN b[x] + 1 ELSE b[x]]
    BY <2>1, <2>2, <2>3 DEF Sent
  <2> QED BY <2>4, <2>5
<1>5. Shape(q)
  BY <1>3, <1>4 DEF Sound, Shape, Sent, SameSettings, SameCounts, SameAccounts, SameHistory
<1>6. Places(q, F)
  BY <1>1 DEF Sound, Places, Sent, Occupied
<1>7. Marks(q, F)
  <2>0. Waiters(p) \subseteq Requests /\ F \subseteq Requests
    BY QueuedIs DEF Waiters, Sound, Shape, Places
  <2>1. \A x \in Waiters(p) : q.arrived[x] = p.arrived[x]
    BY <1>1, <2>0 DEF Sent
  <2>2. \A k \in Keys : \A i \in DOMAIN q.queues[k] : q.queues[k][i] \in Waiters(p) /\ q.queues[k] = p.queues[k]
    BY QueuedIs DEF Sound, Shape, Sent, Waiters
  <2>3. \A k \in Keys : Ascending(q.queues[k], q.arrived)
    BY <2>1, <2>2 DEF Sound, Marks, Ascending
  <2>4. ASSUME NEW x \in F PROVE q.arrived[x] = 0 /\ q.passed[x] = 0
    <3>1. x \notin Earlier(p, r)
      <4>1. ToSet(p.queues[KeyOf(r)]) \subseteq Queued(p)
        BY Belongs DEF Queued
      <4> QED BY <4>1 DEF Earlier, Sound, Places
    <3> QED BY <2>0, <3>1 DEF Sent, Sound, Marks
  <2> QED BY <1>1, <2>1, <2>3, <2>4 DEF Sound, Marks
<1>8. Modal(q)
  BY <1>1 DEF Sound, Modal, Sent, SameSettings
<1>9. Slots(q, O \ {r})
  <2>1. Occupied(q) \union (O \ {r}) = Occupied(p) \union O
    BY <1>1
  <2> QED BY <1>1, <2>1 DEF Sound, Slots, Caps, Sent, SameCounts
<1>10. Accounts(q, C \ {r})
  <2>0. PICK S : S = q.pending \union (C \ {r})
    OBVIOUS
  <2>1. r \notin S /\ p.pending \union C = S \union {r} /\ q.pending = p.pending
    BY <2>0 DEF Sent
  <2>2. Accounts(p, C) /\ SameAccounts(p, q) /\ q.virtual_time = p.virtual_time
    BY DEF Sound, Sent
  <2>3. ASSUME NEW u \in Tenants PROVE TenantAccount(q, C \ {r}, u)
    <3>1. PICK m \in Nat : m = TenantCost(S, u)
      BY CostNat DEF TenantCost
    <3>2. TenantCost(p.pending \union C, u) = m + (IF t = u THEN c ELSE 0)
      BY <1>0, <2>1, <3>1, TenantCostAdds
    <3>3. TenantAccount(p, C, u) /\ p.served[u] \in Int /\ p.base[u] \in Int /\ q.served[u] = p.served[u] /\ q.base[u] = p.base[u]
      BY <2>2 DEF Accounts, SameAccounts, Sound, Shape
    <3>4. q.granted[u] = g[u] + (IF t = u THEN c ELSE 0)
      BY <1>3
    <3>5. t = u => p.served[u] # None
      BY <1>0, <2>2 DEF Accounts
    <3> QED BY <1>2, <2>0, <3>1, <3>2, <3>3, <3>4, <3>5 DEF TenantAccount
  <2>4. ASSUME NEW k \in Keys PROVE KeyAccount(q, C \ {r}, k)
    <3>1. PICK m \in Nat : m = KeyCost(S, k)
      BY CostNat DEF KeyCost
    <3>2. KeyCost(p.pending \union C, k) = m + (IF KeyOf(r) = k THEN c ELSE 0)
      <4>1. KeyCost(S \union {r}, k) = KeyCost(S, k) + (IF KeyOf(r) = k THEN Req[r].cost ELSE 0)
        BY <2>1, KeyCostAdds
      <4> QED BY <1>0, <2>1, <3>1, <4>1
    <3>3. KeyAccount(p, C, k) /\ p.key_served[k] \in Int /\ q.key_served[k] = p.key_served[k]
      BY <2>2 DEF Accounts, SameAccounts, Sound, Shape
    <3> QED BY <2>0, <3>1, <3>2, <3>3 DEF KeyAccount
  <2> QED BY <1>1, <2>0, <2>1, <2>2, <2>3, <2>4 DEF Accounts, SameAccounts
<1> QED BY <1>5, <1>6, <1>7, <1>8, <1>9, <1>10 DEF Sound

\* A new request joins the end of its key's queue.
LEMMA QueuesSound ==
  ASSUME NEW p, NEW q, NEW r \in Requests, NEW F, Queues(p, q, r), Sound(p, F, {}, {}), r \in F
  PROVE  Sound(q, F \ {r}, {}, {}) /\ Queued(q) = Queued(p) \union {r}
<1>0. PICK t \in Tenants, k \in Keys : t = TenantOf(r) /\ k = KeyOf(r)
  BY Belongs
<1>1. PICK s \in Seq(Requests) : s = p.queues[k]
  BY DEF Sound, Shape
<1>2. PICK u \in Seq(Requests) : u = Append(s, r)
  BY AppendProperties
<1>3. p.queues \in [Keys -> Seq(Requests)] /\ q.queues = [p.queues EXCEPT ![k] = u]
  BY <1>0, <1>1, <1>2 DEF Sound, Shape, Queues
<1>4. q.queues \in [Keys -> Seq(Requests)] /\ q.queues[k] = u /\ \A j \in Keys : j # k => q.queues[j] = p.queues[j]
  BY <1>3
<1>5. PICK l \in Nat : l = Len(s) /\ DOMAIN s = 1..l
  BY <1>1
<1>6. Len(u) = l + 1 /\ DOMAIN u = 1..(l + 1) /\ u[l + 1] = r /\ \A i \in 1..l : u[i] = s[i]
  BY <1>1, <1>2, <1>5, AppendProperties
<1>7. ToSet(u) = ToSet(s) \union {r}
  BY <1>5, <1>6 DEF ToSet
<1>8. Queued(q) = Queued(p) \union {r}
  BY <1>1, <1>4, <1>7 DEF Queued
<1>9. q.pending = p.pending /\ q.running = p.running /\ q.held = p.held /\ Occupied(q) = Occupied(p)
  BY DEF Queues, SameHolders, Occupied
<1>10. PICK v \in [Requests -> Nat] : v = p.arrived
  BY DEF Sound, Shape
<1>11. PICK n \in Nat \ {0} : n = 1 + Max({v[x] : x \in Requests}) /\ \A x \in Requests : v[x] < n
  <2>1. PICK S : S = {v[x] : x \in Requests}
    OBVIOUS
  <2>2. IsFiniteSet(S) /\ S \subseteq Nat /\ S # {}
    BY <2>1, FiniteValues
  <2>3. S \subseteq Int
    BY <2>2
  <2>4. PICK m : m = Max(S)
    OBVIOUS
  <2>5. m \in S /\ \A y \in S : y <= m
    BY <2>2, <2>3, <2>4, HasMax
  <2>6. m \in Nat /\ \A x \in Requests : v[x] <= m
    BY <2>1, <2>2, <2>5
  <2>7. 1 + m \in Nat \ {0} /\ \A x \in Requests : v[x] < 1 + m
    BY <2>6
  <2> QED BY <2>1, <2>4, <2>7
<1>12. q.arrived = [v EXCEPT ![r] = n] /\ q.arrived \in [Requests -> Nat]
  BY <1>10, <1>11 DEF Queues
<1>13. \A x \in Requests : q.arrived[x] = IF x = r THEN n ELSE v[x]
  BY <1>12
<1>14. r \notin Queued(p) /\ r \notin Occupied(p) /\ r \notin Waiters(p) /\ Waiters(p) \subseteq Requests /\ F \subseteq Requests
  BY QueuedIs DEF Sound, Places, Waiters, Occupied, Shape
<1>14a. \A j \in Keys : \A i \in DOMAIN p.queues[j] : p.queues[j][i] \in Queued(p)
  BY <1>3, QueuedIs
<1>14b. Queued(p) \subseteq Requests
  BY <1>3, QueuedIs
<1>15. Places(q, F \ {r})
  <2>1. \A j \in Keys : \A i \in DOMAIN q.queues[j] : KeyOf(q.queues[j][i]) = j
    <3> TAKE j \in Keys
    <3> TAKE i \in DOMAIN q.queues[j]
    <3>1. CASE j = k
      <4>1. i \in 1..(l + 1) /\ q.queues[j][i] = u[i]
        BY <1>4, <1>6, <3>1
      <4>2. CASE i = l + 1
        BY <1>0, <1>6, <3>1, <4>1, <4>2
      <4>3. CASE i # l + 1
        <5>0. i \in 1..l
          BY <4>1, <4>3
        <5>1. i \in DOMAIN p.queues[j] /\ u[i] = p.queues[j][i]
          BY <1>1, <1>5, <1>6, <3>1, <5>0
        <5> QED BY <4>1, <5>1 DEF Sound, Places
      <4> QED BY <4>2, <4>3
    <3>2. CASE j # k
      BY <1>4, <3>2 DEF Sound, Places
    <3> QED BY <3>1, <3>2
  <2> QED BY <1>8, <1>9, <1>14, <2>1 DEF Sound, Places
<1>16. Marks(q, F \ {r})
  <2>1. Waiters(q) = Waiters(p) \union {r}
    BY <1>8, <1>9 DEF Waiters
  <2>2. \A x \in F \ {r} : q.arrived[x] = 0 /\ q.passed[x] = 0
    BY <1>10, <1>13, <1>14 DEF Sound, Marks, Queues
  <2>3. \A x \in Waiters(q) : q.arrived[x] > 0
    BY <1>10, <1>13, <1>14, <2>1 DEF Sound, Marks
  <2>4. \A x, y \in Waiters(q) : x # y => q.arrived[x] # q.arrived[y]
    <3>1. \A x, y \in Waiters(p) : x # y => v[x] # v[y]
      BY <1>10 DEF Sound, Marks
    <3>2. \A x \in Waiters(p) : q.arrived[x] = v[x] /\ v[x] < n /\ v[x] \in Nat
      BY <1>11, <1>13, <1>14
    <3>3. q.arrived[r] = n
      BY <1>13
    <3> QED BY <2>1, <3>1, <3>2, <3>3, SMTT(30)
  <2>5. ASSUME NEW j \in Keys PROVE Ascending(q.queues[j], q.arrived)
    <3>0. Ascending(p.queues[j], v)
      BY <1>10 DEF Sound, Marks
    <3>1. CASE j # k
      <4>1. \A i \in DOMAIN p.queues[j] : p.queues[j][i] \in Requests /\ p.queues[j][i] # r
        BY <1>14, <1>14a, <1>14b
      <4> QED BY <1>4, <1>13, <3>0, <3>1, <4>1, ZenonT(60) DEF Ascending
    <3>2. CASE j = k
      <4>1. \A i \in 1..l : s[i] \in Requests /\ s[i] # r
        BY <1>1, <1>5, <1>14, <1>14a, <1>14b
      <4>2. \A i \in 1..l : q.arrived[u[i]] = v[s[i]] /\ v[s[i]] < n
        BY <1>6, <1>11, <1>13, <4>1
      <4>3. q.arrived[u[l + 1]] = n
        BY <1>6, <1>13
      <4>4. \A a, b \in 1..l : a < b => v[s[a]] < v[s[b]]
        BY <1>1, <1>5, <3>0, <3>2 DEF Ascending
      <4>5. \A a, b \in 1..(l + 1) : a < b => q.arrived[u[a]] < q.arrived[u[b]]
        <5> SUFFICES ASSUME NEW a \in 1..(l + 1), NEW b \in 1..(l + 1), a < b PROVE q.arrived[u[a]] < q.arrived[u[b]]
          OBVIOUS
        <5>1. a \in 1..l
          OBVIOUS
        <5>2. CASE b = l + 1
          BY <4>2, <4>3, <5>1, <5>2
        <5>3. CASE b # l + 1
          <6>1. b \in 1..l
            BY <5>3
          <6> QED BY <4>2, <4>4, <5>1, <6>1
        <5> QED BY <5>2, <5>3
      <4> QED BY <1>4, <1>6, <3>2, <4>5 DEF Ascending
    <3> QED BY <3>1, <3>2
  <2> QED BY <2>2, <2>3, <2>4, <2>5 DEF Marks
<1>17. Modal(q)
  BY <1>9 DEF Sound, Modal, Queues, SameSettings
<1>18. Slots(q, {})
  BY SlotsKept DEF Sound, Queues
<1>20. PICK a \in [Tenants -> Int] : a = p.served
  BY DEF Sound, Shape
<1>21. PICK b \in [Tenants -> Int] : b = p.base
  BY DEF Sound, Shape
<1>22. PICK y \in [Keys -> Int] : y = p.key_served
  BY DEF Sound, Shape
<1>23. PICK w \in Int : w = p.virtual_time /\ w >= 0
  BY DEF Sound, Shape, Accounts
<1>24. PICK now \in Int : now = IF tenant_queued(p, t) THEN a[t] ELSE IF w >= a[t] THEN w ELSE a[t]
  BY <1>20, <1>23
<1>25. PICK z \in Int : z = IF p.queues[k] = <<>> THEN (IF w >= y[k] THEN w ELSE y[k]) ELSE y[k]
  BY <1>22, <1>23
<1>26. /\ q.served = [a EXCEPT ![t] = now]
       /\ q.base = [b EXCEPT ![t] = IF a[t] = None THEN now ELSE b[t] + (now - a[t])]
       /\ q.key_served = [y EXCEPT ![k] = z]
  <2>1. Max({w, a[t]}) = (IF w >= a[t] THEN w ELSE a[t]) /\ Max({w, y[k]}) = (IF w >= y[k] THEN w ELSE y[k])
    BY MaxPair
  <2> QED BY <1>0, <1>20, <1>21, <1>22, <1>23, <1>24, <1>25, <2>1, Zenon DEF Queues
<1>27. /\ \A x \in Tenants : q.served[x] = IF x = t THEN now ELSE a[x]
       /\ \A x \in Tenants : q.base[x] = IF x = t THEN (IF a[t] = None THEN now ELSE b[t] + (now - a[t])) ELSE b[x]
       /\ \A x \in Keys : q.key_served[x] = IF x = k THEN z ELSE y[x]
       /\ q.served \in [Tenants -> Int] /\ q.base \in [Tenants -> Int] /\ q.key_served \in [Keys -> Int]
  BY <1>26
<1>28. Shape(q)
  <2>0. p.joined \subseteq Tenants /\ p.over \in [Tenants -> [Tenants -> Nat]]
    BY DEF Sound, Shape
  <2>1. q.joined \subseteq Tenants
    <3>1. q.joined \in {p.joined \union {t}, p.joined, p.joined \ {t}}
      BY <1>0, Zenon DEF Queues
    <3> QED BY <2>0, <3>1
  <2>2. q.over \in [Tenants -> [Tenants -> Nat]]
    <3>1. \E o \in {[x \in Tenants |-> 0], p.over[t]} : q.over = [p.over EXCEPT ![t] = o]
      BY <1>0, Zenon DEF Queues
    <3>2. \A o \in {[x \in Tenants |-> 0], p.over[t]} : o \in [Tenants -> Nat]
      BY <2>0
    <3>3. PICK o \in [Tenants -> Nat] : q.over = [p.over EXCEPT ![t] = o]
      BY <3>1, <3>2, Zenon
    <3> QED BY <2>0, <3>3
  <2> QED BY <1>4, <1>12, <1>27, <2>1, <2>2 DEF Sound, Shape, Queues, SameSettings, SameHolders, SameCounts
<1>29. a[t] >= None /\ b[t] >= 0 /\ (tenant_queued(p, t) => a[t] # None) /\ y[k] >= None
  <2>1. tenant_queued(p, t) => \E x \in Queued(p) : TenantOf(x) = t
    BY TenantQueuedIs DEF Sound, Shape, Places
  <2> QED BY <1>20, <1>21, <1>22, <2>1 DEF Sound, Accounts, TenantAccount, KeyAccount
<1>30. now >= 0 /\ now >= a[t] /\ z >= y[k]
  BY <1>23, <1>24, <1>25, <1>29 DEF None
<1>31. Accounts(q, {})
  <2>0. Accounts(p, {}) /\ q.granted = p.granted /\ q.virtual_time = p.virtual_time /\ p.pending \subseteq Requests
    BY DEF Sound, Queues, Shape
  <2>1. ASSUME NEW x \in Tenants PROVE TenantAccount(q, {}, x)
    <3>1. PICK m \in Nat : m = TenantCost(p.pending \union {}, x)
      BY CostNat DEF TenantCost
    <3>2. TenantAccount(p, {}, x)
      BY <2>0 DEF Accounts
    <3>3. CASE x # t
      BY <1>9, <1>20, <1>21, <1>27, <2>0, <3>2, <3>3 DEF TenantAccount
    <3>4. CASE x = t
      <4>1. q.served[x] = now /\ q.base[x] = IF a[t] = None THEN now ELSE b[t] + (now - a[t])
        BY <1>27, <3>4
      <4>2. a[t] = None => m = 0
        BY <1>20, <2>0, <3>1, <3>4, NoEntryNoCost
      <4>3. PICK g \in Int : g = p.granted[x]
        BY DEF Sound, Shape
      <4>4. g >= 0 /\ (a[t] = None => g = 0) /\ (a[t] # None => a[t] = b[t] + g + m)
        BY <1>20, <1>21, <3>1, <3>2, <3>4, <4>3 DEF TenantAccount
      <4>5. PICK d \in Int : d = q.base[x]
        BY <1>27
      <4>6. d >= 0 /\ now = d + g + m
        <5>1. CASE a[t] = None
          BY <1>30, <4>1, <4>2, <4>4, <4>5, <5>1
        <5>2. CASE a[t] # None
          <6>0. PICK c \in Int, e \in Int : c = a[t] /\ e = b[t]
            OBVIOUS
          <6>1. d = e + (now - c) /\ e >= 0 /\ now >= c /\ c = e + g + m
            BY <1>29, <1>30, <4>1, <4>4, <4>5, <5>2, <6>0
          <6> QED BY <6>1
        <5> QED BY <5>1, <5>2
      <4> QED BY <1>9, <1>30, <2>0, <3>1, <4>1, <4>3, <4>4, <4>5, <4>6, SMTT(30) DEF TenantAccount, None
    <3> QED BY <3>3, <3>4
  <2>2. ASSUME NEW x \in Keys PROVE KeyAccount(q, {}, x)
    <3>1. PICK m \in Nat : m = KeyCost(p.pending \union {}, x)
      BY CostNat DEF KeyCost
    <3>2. y[x] >= None /\ (y[x] # None => y[x] >= m) /\ (y[x] = None => m = 0)
      BY <1>22, <2>0, <3>1, NoEntryNoCost DEF Accounts, KeyAccount
    <3>3. q.key_served[x] >= y[x] /\ q.key_served[x] \in Int
      <4>1. y[x] \in Int /\ q.key_served[x] = IF x = k THEN z ELSE y[x]
        BY <1>27
      <4> QED BY <1>30, <4>1
    <3>4. q.key_served[x] >= None /\ (q.key_served[x] # None => q.key_served[x] >= m)
      BY <3>2, <3>3 DEF None
    <3> QED BY <1>9, <3>1, <3>4 DEF KeyAccount
  <2>3. ASSUME NEW x \in Requests, p.served[TenantOf(x)] # None PROVE q.served[TenantOf(x)] # None
    <3>1. PICK e \in Tenants : e = TenantOf(x)
      BY Belongs
    <3>2. q.served[e] = IF e = t THEN now ELSE a[e]
      BY <1>27
    <3> QED BY <1>20, <1>30, <2>3, <3>1, <3>2 DEF None
  <2>4. ASSUME NEW x \in Requests, p.key_served[KeyOf(x)] # None PROVE q.key_served[KeyOf(x)] # None
    <3>1. y[KeyOf(x)] >= None /\ y[KeyOf(x)] # None /\ KeyOf(x) \in Keys
      BY <1>22, <2>0, <2>4, Belongs DEF Accounts, KeyAccount
    <3> QED BY <1>27, <1>30, <3>1 DEF None
  <2>5. \A x \in Queued(q) : q.served[TenantOf(x)] # None
    <3>1. q.served[TenantOf(r)] # None
      BY <1>0, <1>27, <1>30 DEF None
    <3>2. Queued(p) \subseteq Requests
      BY QueuedIs DEF Sound, Shape
    <3> QED BY <1>8, <2>0, <2>3, <3>1, <3>2 DEF Accounts
  <2> QED BY <1>9, <2>0, <2>1, <2>2, <2>3, <2>4, <2>5 DEF Accounts
<1> QED BY <1>8, <1>15, <1>16, <1>17, <1>18, <1>28, <1>31 DEF Sound

\* r has arrived, at a time of its own.
Arrived(p, r) == p.arrived[r] > 0 /\ \A x \in Waiters(p) : x # r => p.arrived[x] # p.arrived[r]

\* Only who holds the slots changes, or settings, sessions and history.
Around(p, q) ==
  /\ SameCounts(p, q) /\ SameService(p, q) /\ q.queues = p.queues
  /\ q.arrived = p.arrived /\ q.passed = p.passed

\* Slots and claims change hands.
Handed(p, q, F, O, C, N, B, r) ==
  /\ Occupied(q) \union N = Occupied(p) \union O /\ N \subseteq Requests /\ N \cap Occupied(q) = {}
  /\ q.pending \union B = p.pending \union C
  /\ q.running \cap q.pending = {} /\ q.running \cap q.held = {} /\ q.pending \cap q.held = {}
  /\ F \cap Occupied(q) = {} /\ Queued(p) \cap Occupied(q) = {}
  /\ \A x \in q.pending : x \in p.pending \/ (x = r /\ Arrived(p, r))

\* Handing a slot from one kind of holder to another keeps the rest.
LEMMA HandedSound ==
  ASSUME NEW p, NEW q, NEW F, NEW O, NEW C, NEW N, NEW B, NEW r, Around(p, q), Sound(p, F, O, C),
         Handed(p, q, F, O, C, N, B, r), Shape(q), Modal(q)
  PROVE  Sound(q, F, N, B)
<1>1. Queued(q) = Queued(p)
  BY SameQueues DEF Around
<1>2. Places(q, F)
  BY <1>1 DEF Sound, Places, Handed, Around
<1>3. Marks(q, F)
  <2>1. \A x \in Waiters(q) : x \in Waiters(p) \/ (x = r /\ Arrived(p, r))
    BY <1>1 DEF Waiters, Handed
  <2>2. q.arrived = p.arrived /\ q.passed = p.passed /\ q.queues = p.queues
    BY DEF Around
  <2>3. \A x \in Waiters(q) : q.arrived[x] > 0
    BY <2>1, <2>2 DEF Sound, Marks, Arrived
  <2>4. \A x, y \in Waiters(q) : x # y => q.arrived[x] # q.arrived[y]
    BY <2>1, <2>2 DEF Sound, Marks, Arrived
  <2> QED BY <2>2, <2>3, <2>4 DEF Sound, Marks
<1>4. Slots(q, N)
  BY DEF Sound, Slots, Caps, Handed, Around, SameCounts
<1>5. Accounts(q, B)
  <2>1. B \subseteq Requests
    BY DEF Handed, Sound, Shape, Accounts
  <2> QED BY <1>1, <2>1 DEF Sound, Accounts, TenantAccount, KeyAccount, Handed, Around, SameService, SameAccounts
<1> QED BY <1>2, <1>3, <1>4, <1>5 DEF Sound

\* Nothing but settings, sessions, jumped and history changes.
LEMMA AroundSound ==
  ASSUME NEW p, NEW q, NEW F, NEW O, NEW C, Around(p, q), SameHolders(p, q), Sound(p, F, O, C), Shape(q), Modal(q)
  PROVE  Sound(q, F, O, C)
<1>1. Handed(p, q, F, O, C, O, C, {})
  BY DEF Handed, SameHolders, Occupied, Sound, Places, Slots
<1> QED BY <1>1, HandedSound

\* r is back in its place in the queue and its charge is taken back.
Requeued(p, q, r) ==
  /\ IsPool(q)
  /\ SameSettings(p, q) /\ SameHolders(p, q) /\ SameCounts(p, q) /\ SameHistory(p, q)
  /\ q.arrived = p.arrived /\ q.passed = p.passed /\ q.session = p.session /\ q.jumped = p.jumped \ {r}
  /\ q.queues = [p.queues EXCEPT ![KeyOf(r)] = reinsert(p, KeyOf(r), r)]
  /\ q.served = [p.served EXCEPT ![TenantOf(r)] = p.served[TenantOf(r)] - Req[r].cost]
  /\ q.key_served = [p.key_served EXCEPT ![KeyOf(r)] = p.key_served[KeyOf(r)] - Req[r].cost]
  /\ q.base = p.base /\ q.virtual_time = p.virtual_time /\ q.granted = p.granted /\ q.left = p.left

\* requeue: a slot is vacated, then the request put back and refunded.
LEMMA RequeueDoes ==
  ASSUME NEW p, NEW r, IsPool(p)
  PROVE  Vacated(p, vacate(p, {r}), {r}) /\ Requeued(vacate(p, {r}), requeue(p, r), r)
<1>1. PICK v : v = vacate(p, {r})
  OBVIOUS
<1>2. Vacated(p, v, {r})
  BY <1>1, VacateDoes
<1>3. reinsert(v, KeyOf(r), r) = reinsert(p, KeyOf(r), r)
  BY <1>2 DEF Vacated, SameMarks, reinsert
<1>4. PICK s : s = reinsert(p, KeyOf(r), r)
  OBVIOUS
<1>5. requeue(p, r) = refund([v EXCEPT !.queues[KeyOf(r)] = s, !.jumped = @ \ {r}], r)
  BY <1>1, <1>4, Zenon DEF requeue
<1>6. Requeued(v, requeue(p, r), r)
  <2>1. PICK k, t, c : k = KeyOf(r) /\ t = TenantOf(r) /\ c = Req[r].cost
    OBVIOUS
  <2>2. IsPool(v)
    BY <1>2 DEF Vacated
  <2>3. PICK q : q = requeue(p, r)
    OBVIOUS
  <2>4. PICK a : a = [v EXCEPT !.queues[k] = s, !.jumped = @ \ {r}]
    OBVIOUS
  <2>5. q = [a EXCEPT !.served[t] = @ - c, !.key_served[k] = @ - c]
    BY <1>5, <2>1, <2>3, <2>4 DEF refund
  <2>6. q = [v EXCEPT !.queues[k] = s, !.jumped = @ \ {r}, !.served[t] = @ - c, !.key_served[k] = @ - c]
    BY <2>2, <2>4, <2>5 DEF IsPool, Fields
  <2>7. /\ IsPool(q)
        /\ SameSettings(v, q) /\ SameHolders(v, q) /\ SameCounts(v, q) /\ SameHistory(v, q)
        /\ q.arrived = v.arrived /\ q.passed = v.passed /\ q.session = v.session /\ q.jumped = v.jumped \ {r}
        /\ q.queues = [v.queues EXCEPT ![k] = s]
        /\ q.served = [v.served EXCEPT ![t] = v.served[t] - c]
        /\ q.key_served = [v.key_served EXCEPT ![k] = v.key_served[k] - c]
        /\ q.base = v.base /\ q.virtual_time = v.virtual_time /\ q.granted = v.granted /\ q.left = v.left
    BY <2>2, <2>6, ZenonT(60) DEF IsPool, Fields, SameSettings, SameHolders, SameCounts, SameHistory
  <2> QED BY <1>3, <1>4, <2>1, <2>3, <2>7 DEF Requeued
<1> QED BY <1>1, <1>2, <1>6

\* A refused request that was given up waits as before.
LEMMA RequeuedSound ==
  ASSUME NEW p, NEW q, NEW r \in Requests, NEW F, Requeued(p, q, r), Sound(p, F, {}, {r}),
         r \notin p.pending, r \notin Queued(p), r \notin Occupied(p), r \notin F, Arrived(p, r)
  PROVE  Sound(q, F, {}, {}) /\ Queued(q) = Queued(p) \union {r}
<1>0. PICK t \in Tenants, k \in Keys, c \in Nat \ {0} : t = TenantOf(r) /\ k = KeyOf(r) /\ c = Req[r].cost
  BY Belongs
<1>1. PICK s \in Seq(Requests) : s = p.queues[k]
  BY DEF Sound, Shape
<1>a. p.queues \in [Keys -> Seq(Requests)] /\ p.arrived \in [Requests -> Nat]
  BY DEF Sound, Shape
<1>b. Queued(p) \subseteq Requests /\ \A j \in Keys : ToSet(p.queues[j]) \subseteq Queued(p)
  <2>1. Queued(p) \subseteq Requests
    BY <1>a, QueuedIs
  <2>2. \A j \in Keys : ToSet(p.queues[j]) \subseteq Queued(p)
    BY DEF Queued
  <2> QED BY <2>1, <2>2
<1>c. ToSet(s) \subseteq Queued(p)
  BY <1>1, <1>b
<1>2. PICK u \in Seq(Requests) : /\ u = reinsert(p, k, r)
                                 /\ ToSet(u) = ToSet(s) \union {r} /\ Ascending(u, p.arrived)
  <2>1. \A x \in ToSet(p.queues[k]) : p.arrived[x] # p.arrived[r]
    BY <1>1, <1>c DEF Arrived, Waiters
  <2>2. Ascending(p.queues[k], p.arrived)
    BY DEF Sound, Marks
  <2> QED BY <1>1, <1>a, <2>1, <2>2, Reinserted
<1>3. q.queues = [p.queues EXCEPT ![k] = u]
  BY <1>0, <1>2 DEF Requeued
<1>4. q.queues \in [Keys -> Seq(Requests)] /\ q.queues[k] = u /\ \A j \in Keys : j # k => q.queues[j] = p.queues[j]
  BY <1>3, <1>a
<1>5. Queued(q) = Queued(p) \union {r}
  BY <1>1, <1>2, <1>4 DEF Queued
<1>6. q.pending = p.pending /\ q.running = p.running /\ q.held = p.held /\ Occupied(q) = Occupied(p)
  BY DEF Requeued, SameHolders, Occupied
<1>7. Places(q, F)
  <2>1. ASSUME NEW j \in Keys, NEW i \in DOMAIN q.queues[j] PROVE KeyOf(q.queues[j][i]) = j
    <3>1. CASE j = k
      <4>1. q.queues[j][i] \in ToSet(s) \union {r}
        BY <1>2, <1>4, <3>1 DEF ToSet
      <4>2. \A x \in ToSet(s) : KeyOf(x) = k
        BY <1>1 DEF ToSet, Sound, Places
      <4> QED BY <1>0, <3>1, <4>1, <4>2
    <3>2. CASE j # k
      BY <1>4, <3>2 DEF Sound, Places
    <3> QED BY <3>1, <3>2
  <2> QED BY <1>5, <1>6, <2>1 DEF Sound, Places
<1>8. Marks(q, F)
  <2>1. Waiters(q) = Waiters(p) \union {r} /\ q.arrived = p.arrived /\ q.passed = p.passed
    BY <1>5, <1>6 DEF Waiters, Requeued
  <2>2. \A j \in Keys : Ascending(q.queues[j], q.arrived)
    BY <1>2, <1>4, <2>1 DEF Sound, Marks
  <2> QED BY <2>1, <2>2 DEF Sound, Marks, Arrived
<1>9. Modal(q)
  BY <1>6 DEF Sound, Modal, Requeued, SameSettings
<1>10. Slots(q, {})
  BY SlotsKept DEF Sound, Requeued
<1>11. PICK a \in [Tenants -> Int] : a = p.served
  BY DEF Sound, Shape
<1>12. PICK y \in [Keys -> Int] : y = p.key_served
  BY DEF Sound, Shape
<1>13. q.served = [a EXCEPT ![t] = a[t] - c] /\ q.key_served = [y EXCEPT ![k] = y[k] - c]
  BY <1>0, <1>11, <1>12 DEF Requeued
<1>14. q.served \in [Tenants -> Int] /\ q.key_served \in [Keys -> Int]
  BY <1>13
<1>15. Shape(q)
  BY <1>4, <1>14 DEF Sound, Shape, Requeued, SameSettings, SameHolders, SameCounts, SameHistory
<1>16. Accounts(q, {})
  <2>0. PICK S : S = p.pending
    OBVIOUS
  <2>1. r \notin S /\ p.pending \union {r} = S \union {r} /\ q.pending \union {} = S
    BY <1>6, <2>0
  <2>2. Accounts(p, {r}) /\ q.base = p.base /\ q.granted = p.granted /\ q.virtual_time = p.virtual_time /\ S \subseteq Requests
    BY <2>0 DEF Sound, Requeued, Shape
  <2>3. ASSUME NEW x \in Tenants PROVE TenantAccount(q, {}, x) /\ (a[x] # None => q.served[x] # None)
    <3>1. PICK m \in Nat : m = TenantCost(S, x)
      BY CostNat DEF TenantCost
    <3>2. TenantCost(S \union {r}, x) = m + (IF t = x THEN c ELSE 0)
      BY <1>0, <2>1, <3>1, TenantCostAdds
    <3>3. PICK b \in Int, g \in Int, e \in Int : b = p.base[x] /\ g = p.granted[x] /\ e = a[x]
      BY DEF Sound, Shape
    <3>4. /\ e >= None /\ b >= 0 /\ g >= 0 /\ (e = None => g = 0)
          /\ e # None => e = b + g + (m + (IF t = x THEN c ELSE 0))
      BY <1>11, <2>1, <2>2, <3>2, <3>3 DEF Accounts, TenantAccount
    <3>5. t = x => e # None
      BY <1>0, <1>11, <2>2, <3>3 DEF Accounts
    <3>6. q.served[x] = IF t = x THEN e - c ELSE e
      BY <1>13, <3>3
    <3>7. /\ q.served[x] >= None /\ (q.served[x] = None => g = 0)
          /\ q.served[x] # None => q.served[x] = b + g + m
          /\ e # None => q.served[x] # None
      BY <3>4, <3>5, <3>6 DEF None
    <3> QED BY <2>1, <2>2, <3>1, <3>3, <3>4, <3>7 DEF TenantAccount
  <2>4. ASSUME NEW x \in Keys PROVE KeyAccount(q, {}, x) /\ (y[x] # None => q.key_served[x] # None)
    <3>1. PICK m \in Nat : m = KeyCost(S, x)
      BY CostNat DEF KeyCost
    <3>2. KeyCost(S \union {r}, x) = m + (IF k = x THEN c ELSE 0)
      BY <1>0, <2>1, <3>1, KeyCostAdds
    <3>3. PICK e \in Int : e = y[x]
      OBVIOUS
    <3>4. e >= None /\ (e # None => e >= m + (IF k = x THEN c ELSE 0))
      BY <1>12, <2>1, <2>2, <3>2, <3>3 DEF Accounts, KeyAccount
    <3>5. k = x => e # None
      BY <1>0, <1>12, <2>2, <3>3 DEF Accounts
    <3>6. q.key_served[x] = IF k = x THEN e - c ELSE e
      BY <1>13, <3>3
    <3>7. /\ q.key_served[x] >= None
          /\ q.key_served[x] # None => q.key_served[x] >= m
          /\ e # None => q.key_served[x] # None
      BY <3>4, <3>5, <3>6 DEF None
    <3> QED BY <2>1, <3>1, <3>3, <3>7 DEF KeyAccount
  <2>5. ASSUME NEW x \in Requests, a[TenantOf(x)] # None PROVE q.served[TenantOf(x)] # None
    BY <2>3, <2>5, Belongs
  <2>6. ASSUME NEW x \in Requests, y[KeyOf(x)] # None PROVE q.key_served[KeyOf(x)] # None
    BY <2>4, <2>6, Belongs
  <2>7. a[TenantOf(r)] # None
    BY <1>11, <2>2 DEF Accounts
  <2> QED BY <1>5, <1>11, <1>12, <1>b, <2>1, <2>2, <2>3, <2>4, <2>5, <2>6, <2>7 DEF Accounts
<1> QED BY <1>5, <1>7, <1>8, <1>9, <1>10, <1>15, <1>16 DEF Sound

\* Arrivals numbered anew keep their order.
LEMMA Ranks ==
  ASSUME NEW v \in [Requests -> Nat], NEW w, w = [r \in Requests |-> Cardinality({x \in Requests : 0 < v[x] /\ v[x] <= v[r]})]
  PROVE  /\ w \in [Requests -> Nat]
         /\ \A r \in Requests : v[r] = 0 => w[r] = 0
         /\ \A r \in Requests : v[r] > 0 => w[r] > 0
         /\ \A r, x \in Requests : v[r] < v[x] => w[r] < w[x]
         /\ \A r, x \in Requests : v[r] = v[x] => w[r] = w[x]
<1> DEFINE S(n) == {x \in Requests : 0 < v[x] /\ v[x] <= n}
<1>0. \A r \in Requests : w[r] = Cardinality(S(v[r]))
  OBVIOUS
<1>1. \A n : S(n) \subseteq Requests
  OBVIOUS
<1>2. \A r \in Requests : v[r] = 0 => S(v[r]) = {}
  OBVIOUS
<1>3. \A r \in Requests : v[r] > 0 => r \in S(v[r])
  OBVIOUS
<1>4. \A r, x \in Requests : v[r] < v[x] => S(v[r]) \subseteq S(v[x]) /\ x \in S(v[x]) /\ x \notin S(v[r])
  OBVIOUS
<1>a. \A n : IsFiniteSet(S(n)) /\ Cardinality(S(n)) \in Nat
  <2> TAKE n
  <2>1. S(n) \subseteq Requests
    BY <1>1
  <2> HIDE DEF S
  <2> QED BY <2>1, RequestSet
<1> HIDE DEF S
<1>5. w \in [Requests -> Nat]
  <2>1. \A r \in Requests : w[r] \in Nat
    BY <1>0, <1>a
  <2> QED BY <2>1
<1>6. ASSUME NEW r \in Requests, v[r] = 0 PROVE w[r] = 0
  BY <1>0, <1>2, <1>6, FS_EmptySet
<1>7. ASSUME NEW r \in Requests, v[r] > 0 PROVE w[r] > 0
  <2>1. S(v[r]) # {}
    BY <1>3, <1>7
  <2>2. Cardinality(S(v[r])) # 0
    BY <1>a, <2>1, FS_EmptySet
  <2> QED BY <1>0, <1>a, <2>2
<1>8. ASSUME NEW r \in Requests, NEW x \in Requests, v[r] < v[x] PROVE w[r] < w[x]
  <2>1. PICK A, B : A = S(v[r]) /\ B = S(v[x])
    OBVIOUS
  <2>2. A \subseteq B /\ A # B /\ IsFiniteSet(B)
    BY <1>4, <1>8, <1>a, <2>1
  <2>3. Cardinality(A) \in Nat /\ Cardinality(B) \in Nat
    BY <1>a, <2>1
  <2>4. Cardinality(A) <= Cardinality(B) /\ (Cardinality(A) = Cardinality(B) => A = B)
    BY <2>2, FS_Subset
  <2>5. Cardinality(A) < Cardinality(B)
    BY <2>2, <2>3, <2>4
  <2>6. w[r] = Cardinality(A) /\ w[x] = Cardinality(B)
    BY <1>0, <2>1, Zenon
  <2> QED BY <2>5, <2>6
<1>9. ASSUME NEW r \in Requests, NEW x \in Requests, v[r] = v[x] PROVE w[r] = w[x]
  BY <1>0, <1>9
<1> QED BY <1>5, <1>6, <1>7, <1>8, <1>9

\* Arrivals are numbered anew.
Numbered(p, q) ==
  /\ IsPool(q)
  /\ SameSettings(p, q) /\ SameHolders(p, q) /\ SameCounts(p, q) /\ SameService(p, q) /\ SameHistory(p, q)
  /\ q.queues = p.queues /\ q.passed = p.passed /\ q.session = p.session /\ q.jumped = p.jumped
  /\ q.arrived = [r \in Requests |-> Cardinality({x \in Requests : 0 < p.arrived[x] /\ p.arrived[x] <= p.arrived[r]})]

\* Renumbered does so.
LEMMA RenumberDoes ==
  ASSUME NEW p, IsPool(p)
  PROVE  Numbered(p, Renumbered(p))
<1>1. PICK w : w = [r \in Requests |-> Cardinality({x \in Requests : 0 < p.arrived[x] /\ p.arrived[x] <= p.arrived[r]})]
  OBVIOUS
<1>2. Renumbered(p) = [p EXCEPT !.arrived = w]
  BY <1>1, Zenon DEF Renumbered
<1>3. PICK q : q = Renumbered(p)
  OBVIOUS
<1>4. /\ IsPool(q)
      /\ SameSettings(p, q) /\ SameHolders(p, q) /\ SameCounts(p, q) /\ SameService(p, q) /\ SameHistory(p, q)
      /\ q.queues = p.queues /\ q.passed = p.passed /\ q.session = p.session /\ q.jumped = p.jumped
      /\ q.arrived = w
  BY <1>2, <1>3 DEF IsPool, Fields, SameSettings, SameHolders, SameCounts, SameService, SameAccounts, SameHistory
<1> QED BY <1>1, <1>3, <1>4, Zenon DEF Numbered

\* The new numbers are in the order of the old.
LEMMA NumberedSound ==
  ASSUME NEW p, NEW q, NEW F, NEW O, NEW C, Numbered(p, q), Sound(p, F, O, C)
  PROVE  Sound(q, F, O, C) /\ \A r \in Requests : q.arrived[r] > 0 <=> p.arrived[r] > 0
<1>0. PICK v \in [Requests -> Nat] : v = p.arrived
  BY DEF Sound, Shape
<1>w. PICK w : w = [r \in Requests |-> Cardinality({x \in Requests : 0 < v[x] /\ v[x] <= v[r]})]
  OBVIOUS
<1>r. /\ w \in [Requests -> Nat]
      /\ \A r \in Requests : v[r] = 0 => w[r] = 0
      /\ \A r \in Requests : v[r] > 0 => w[r] > 0
      /\ \A r, x \in Requests : v[r] < v[x] => w[r] < w[x]
      /\ \A r, x \in Requests : v[r] = v[x] => w[r] = w[x]
  BY <1>w, Ranks
<1>1. q.arrived = w
  BY <1>0, <1>w DEF Numbered
<1>2. Queued(q) = Queued(p) /\ Occupied(q) = Occupied(p) /\ Waiters(q) = Waiters(p) /\ Waiters(p) \subseteq Requests
  BY SameQueues, QueuedIs DEF Numbered, SameHolders, Occupied, Waiters, Sound, Shape
<1>3. Shape(q)
  BY <1>1, <1>r DEF Sound, Shape, Numbered, SameSettings, SameHolders, SameCounts, SameService, SameAccounts, SameHistory
<1>4. Places(q, F)
  BY <1>2 DEF Sound, Places, Numbered, SameHolders
<1>5. Marks(q, F)
  <2>1. \A r \in F : q.arrived[r] = 0 /\ q.passed[r] = 0
    BY <1>0, <1>1, <1>r DEF Sound, Marks, Places, Numbered
  <2>2. \A r \in Waiters(q) : q.arrived[r] > 0
    BY <1>0, <1>1, <1>2, <1>r DEF Sound, Marks
  <2>3. ASSUME NEW x \in Waiters(q), NEW y \in Waiters(q), x # y PROVE q.arrived[x] # q.arrived[y]
    <3>1. v[x] # v[y] /\ x \in Requests /\ y \in Requests
      BY <1>0, <1>2, <2>3 DEF Sound, Marks
    <3>2. v[x] < v[y] \/ v[y] < v[x]
      BY <3>1
    <3> QED BY <1>1, <1>r, <3>1, <3>2
  <2>4. ASSUME NEW k \in Keys PROVE Ascending(q.queues[k], q.arrived)
    <3>1. \A i \in DOMAIN p.queues[k] : p.queues[k][i] \in Requests
      BY QueuedIs DEF Sound, Shape
    <3>2. Ascending(p.queues[k], v) /\ q.queues = p.queues
      BY <1>0 DEF Sound, Marks, Numbered
    <3> QED BY <1>1, <1>r, <3>1, <3>2 DEF Ascending
  <2> QED BY <2>1, <2>2, <2>3, <2>4 DEF Marks
<1>6. Modal(q)
  BY <1>2 DEF Sound, Modal, Numbered, SameHolders, SameSettings
<1>7. Slots(q, O)
  BY SlotsKept DEF Sound, Numbered
<1>8. Accounts(q, C)
  BY <1>2, AccountsKept DEF Sound, Numbered, SameService, SameHolders
<1>9. \A r \in Requests : q.arrived[r] > 0 <=> p.arrived[r] > 0
  BY <1>0, <1>1, <1>r
<1> QED BY <1>3, <1>4, <1>5, <1>6, <1>7, <1>8, <1>9 DEF Sound

\* The order of fractions is transitive.
LEMMA FractionsOrdered ==
  ASSUME NEW a \in Nat, NEW b \in Nat, NEW c \in Nat, NEW u \in Nat \ {0}, NEW v \in Nat \ {0}, NEW w \in Nat \ {0},
         a * v <= b * u, b * w <= c * v
  PROVE  a * w <= c * u
<1>1. (a * v) * w <= (b * u) * w
  <2>1. a * v \in Nat /\ b * u \in Nat
    OBVIOUS
  <2> QED BY <2>1, ProductMonotone
<1>2. (b * w) * u <= (c * v) * u
  <2>1. b * w \in Nat /\ c * v \in Nat
    OBVIOUS
  <2> QED BY <2>1, ProductMonotone
<1>3. (a * v) * w = (a * w) * v /\ (b * u) * w = (b * w) * u /\ (c * v) * u = (c * u) * v
  OBVIOUS
<1>4. a * w \in Nat /\ c * u \in Nat
  OBVIOUS
<1>5. (a * w) * v <= (c * u) * v
  <2>1. (a * w) * v \in Nat /\ (b * w) * u \in Nat /\ (c * u) * v \in Nat
    OBVIOUS
  <2> QED BY <1>1, <1>2, <1>3, <2>1
<1> QED BY <1>4, <1>5, ProductCancels

\* Some member of a finite set has the least share.
LEMMA HasLowest ==
  ASSUME NEW I, IsFiniteSet(I), NEW s \in [I -> Nat], NEW w \in [I -> Nat \ {0}],
         NEW S, S \subseteq I, S # {}
  PROVE  \E x \in S : \A y \in S : s[x] * w[y] <= s[y] * w[x]
<1> DEFINE Good(n) == \A T : T \subseteq I /\ Cardinality(T) = n + 1 =>
                        \E x \in T : \A y \in T : s[x] * w[y] <= s[y] * w[x]
           N == {n \in Nat : Good(n)}
<1>0. \A T : T \subseteq I => IsFiniteSet(T)
  BY FS_Subset
<1>1. 0 \in N
  <2> SUFFICES ASSUME NEW T, T \subseteq I, Cardinality(T) = 0 + 1
               PROVE  \E x \in T : \A y \in T : s[x] * w[y] <= s[y] * w[x]
    OBVIOUS
  <2>1. Cardinality(T) = 1 /\ IsFiniteSet(T)
    BY <1>0
  <2>2. PICK x : T = {x}
    BY <2>1, FS_Singleton
  <2>3. s[x] \in Nat /\ w[x] \in Nat
    BY <2>2
  <2>4. s[x] * w[x] <= s[x] * w[x]
    BY <2>3
  <2> QED BY <2>2, <2>4
<1>2. ASSUME NEW n \in Nat, n \in N PROVE n + 1 \in N
  <2> SUFFICES ASSUME NEW T, T \subseteq I, Cardinality(T) = (n + 1) + 1
               PROVE  \E x \in T : \A y \in T : s[x] * w[y] <= s[y] * w[x]
    OBVIOUS
  <2>0. IsFiniteSet(T)
    BY <1>0
  <2>9. Cardinality(T) # 0 /\ Cardinality(T) - 1 = n + 1
    OBVIOUS
  <2>1. T # {}
    BY <2>9, FS_EmptySet, Zenon
  <2>2. PICK z \in T : TRUE
    BY <2>1
  <2>a. Cardinality(T \ {z}) = Cardinality(T) - 1
    BY <2>0, FS_RemoveElement, Zenon
  <2>3. Cardinality(T \ {z}) = n + 1 /\ T \ {z} \subseteq I
    BY <2>9, <2>a
  <2>4. PICK x \in T \ {z} : \A y \in T \ {z} : s[x] * w[y] <= s[y] * w[x]
    BY <1>2, <2>3
  <2>5. \A y \in T : s[y] \in Nat /\ w[y] \in Nat \ {0}
    OBVIOUS
  <2>6. CASE s[x] * w[z] <= s[z] * w[x]
    BY <2>4, <2>6
  <2>7. CASE ~(s[x] * w[z] <= s[z] * w[x])
    <3>1. s[x] * w[z] \in Nat /\ s[z] * w[x] \in Nat
      BY <2>5
    <3>2. s[z] * w[x] <= s[x] * w[z]
      BY <2>7, <3>1
    <3>3. ASSUME NEW y \in T \ {z} PROVE s[z] * w[y] <= s[y] * w[z]
      <4>1. s[x] * w[y] <= s[y] * w[x]
        BY <2>4
      <4> QED BY <2>5, <3>2, <4>1, FractionsOrdered
    <3>4. s[z] * w[z] <= s[z] * w[z]
      <4>1. s[z] * w[z] \in Nat
        BY <2>5
      <4> QED BY <4>1
    <3> QED BY <3>3, <3>4
  <2> QED BY <2>6, <2>7
<1>3. \A n \in Nat : n \in N
  <2> HIDE DEF N
  <2> QED BY <1>1, <1>2, NatSetInduction
<1>4. Cardinality(S) \in Nat /\ Cardinality(S) # 0
  BY <1>0, FS_CardinalityType, FS_EmptySet
<1>5. PICK n \in Nat : Cardinality(S) = n + 1
  <2>1. Cardinality(S) - 1 \in Nat /\ Cardinality(S) = (Cardinality(S) - 1) + 1
    BY <1>4
  <2> QED BY <2>1
<1>6. Good(n)
  BY <1>3
<1> QED BY <1>5, <1>6

-----------------------------------------------------------------------------
(* Who is picked.                                                          *)

\* What orZero is.
LEMMA OrZeroNat ==
  ASSUME NEW n \in Int
  PROVE  orZero(n) \in Nat /\ orZero(n) = IF n > 0 THEN n ELSE 0
<1>1. Max({0, n}) = IF 0 >= n THEN 0 ELSE n
  BY MaxPair
<1> QED BY <1>1 DEF orZero

\* The keys of t that a slot could go to.
OpenKeys(p, t) == {k \in KeysOf(t) : p.queues[k] # <<>> /\ key_open(p, k)}

\* Those of them with the least served for their weight.
BestKeys(p, t) ==
  {x \in OpenKeys(p, t) : \A y \in OpenKeys(p, t) :
     orZero(p.key_served[x]) * Key[y].weight <= orZero(p.key_served[y]) * Key[x].weight}

\* pick_key's key is one of the tenant's with somebody waiting and room.
LEMMA PickKeyIs ==
  ASSUME NEW p, Shape(p), NEW t, tenant_is_eligible(p, t)
  PROVE  pick_key(p, t) \in OpenKeys(p, t)
<1>1. OpenKeys(p, t) # {} /\ OpenKeys(p, t) \subseteq Keys
  BY DEF tenant_is_eligible, OpenKeys, KeysOf
<1>2. BestKeys(p, t) # {}
  <2> DEFINE s == [k \in Keys |-> orZero(p.key_served[k])]
             w == [k \in Keys |-> Key[k].weight]
  <2>1. s \in [Keys -> Nat]
    BY OrZeroNat DEF Shape
  <2>2. w \in [Keys -> Nat \ {0}]
    BY PoolAssumption DEF PoolAssumption
  <2>3. IsFiniteSet(Keys)
    BY Belongs, FS_Interval DEF Keys
  <2>4. PICK S : S = OpenKeys(p, t)
    OBVIOUS
  <2>5. S \subseteq Keys /\ S # {}
    BY <1>1, <2>4
  <2>6. \A x \in Keys : s[x] = orZero(p.key_served[x]) /\ w[x] = Key[x].weight
    OBVIOUS
  <2> HIDE DEF s, w
  <2>7. PICK x \in S : \A y \in S : s[x] * w[y] <= s[y] * w[x]
    BY <2>1, <2>2, <2>3, <2>5, HasLowest
  <2>8. x \in BestKeys(p, t)
    BY <2>4, <2>5, <2>6, <2>7 DEF BestKeys
  <2> QED BY <2>8
<1>3. PICK B : B = BestKeys(p, t)
  OBVIOUS
<1>4. B \subseteq OpenKeys(p, t) /\ B # {}
  BY <1>2, <1>3 DEF BestKeys
<1> DEFINE head(k) == p.arrived[Head(p.queues[k])]
<1>5. \A k \in B : head(k) \in Nat
  <2> TAKE k \in B
  <2>1. PICK q \in Seq(Requests) : q = p.queues[k] /\ q # <<>>
    BY <1>1, <1>4 DEF OpenKeys, Shape
  <2>2. Head(q) \in Requests
    BY <2>1
  <2> QED BY <2>1, <2>2 DEF Shape
<1>6. \E k \in B : \A j \in B : head(k) <= head(j)
  <2>1. PICK S : S = {head(k) : k \in B}
    OBVIOUS
  <2>2. S # {} /\ S \subseteq Nat
    BY <1>4, <1>5, <2>1
  <2>3. Min(S) \in S /\ \A y \in S : Min(S) <= y
    BY <2>2, HasMin
  <2>4. PICK k \in B : head(k) = Min(S)
    BY <2>1, <2>3
  <2>5. \A j \in B : head(j) \in S
    BY <2>1
  <2> QED BY <2>3, <2>4, <2>5
<1>7. pick_key(p, t) = CHOOSE k \in B : \A j \in B : head(k) <= head(j)
  BY <1>3, Zenon DEF pick_key, BestKeys, OpenKeys, lowest
<1>8. pick_key(p, t) \in B
  <2> HIDE DEF head
  <2> QED BY <1>6, <1>7, Zenon
<1> QED BY <1>4, <1>8

\* pick is a place in the queue; it is not the first one only for a session whose
\* step goes ahead of a head that may still be passed.
LEMMA PickIs ==
  ASSUME NEW p, NEW q \in Seq(Requests), q # <<>>
  PROVE  pick(p, q) \in DOMAIN q /\ (pick(p, q) > 1 => affinity_on(p) /\ ~passed_out(p, q[1]))
<1>1. 1 \in DOMAIN q /\ DOMAIN q \subseteq Nat
  <2>1. Len(q) \in Nat \ {0} /\ DOMAIN q = 1..Len(q)
    BY EmptySeq
  <2> QED BY <2>1
<1>2. PICK S : S = {i \in DOMAIN q : favoured(p, q[i])}
  OBVIOUS
<1>3. pick(p, q) = IF is_aged(p, q[1]) \/ passed_out(p, q[1]) \/ S = {} THEN 1 ELSE Min(S)
  BY <1>2, Zenon DEF pick
<1>4. S # {} => Min(S) \in S
  BY <1>1, <1>2, HasMin
<1>5. S # {} => affinity_on(p)
  BY <1>2 DEF favoured
<1> QED BY <1>1, <1>2, <1>3, <1>4, <1>5

\* Whoever is picked is eligible.
LEMMA PickTenantIs ==
  ASSUME NEW p, NEW t \in pick_tenant(p)
  PROVE  t \in Tenants /\ tenant_is_eligible(p, t)
<1> DEFINE T == {u \in Tenants : tenant_is_eligible(p, u)}
<1>1. CASE p.algorithm = "weighted"
  BY <1>1 DEF pick_tenant, pick_tenant_weighted, lowest_tenants, lowest
<1>2. CASE p.algorithm # "weighted"
  <2> DEFINE served(u) == group_service(p, Tenant[u].group)
             weight(u) == GroupWeight[Tenant[u].group]
             best(pot) == lowest_tenants(p, lowest(pot, served, weight))
             splits(caps) == {f \in [DOMAIN caps -> UNION {tenant_slot_caps(p, g, caps[g]) : g \in DOMAIN caps}] :
                                \A g \in DOMAIN caps : f[g] \in tenant_slot_caps(p, g, caps[g])}
  <2>1. pick_tenant(p) = UNION {UNION {best(lend(T, within_caps(p, T, caps, f))) : f \in splits(caps)} :
               caps \in group_caps(p)}
    BY <1>2, Zenon DEF pick_tenant, pick_tenant_hierarchical
  <2>2. \A S : S \subseteq T => best(S) \subseteq T
    BY DEF lowest_tenants, lowest
  <2>3. \A caps, f : lend(T, within_caps(p, T, caps, f)) \subseteq T
    BY DEF lend, within_caps
  <2> HIDE DEF best, splits, T
  <2>4. PICK caps \in group_caps(p) : t \in UNION {best(lend(T, within_caps(p, T, caps, f))) : f \in splits(caps)}
    BY <2>1
  <2>5. PICK f \in splits(caps) : t \in best(lend(T, within_caps(p, T, caps, f)))
    BY <2>4
  <2>6. t \in T
    BY <2>2, <2>3, <2>5
  <2> QED BY <2>6 DEF T
<1> QED BY <1>1, <1>2

-----------------------------------------------------------------------------
(* A turn of the dispatch loop, step by step.                              *)

\* The newcomers but t that could have been picked.
StillWait(p, t) == {j \in p.joined \ {t} : tenant_is_eligible(p, j)}

\* Request r of tenant t has left its queue.
Took(p, a, t, r) ==
  /\ t \in pick_tenant(p) /\ t \in Tenants /\ tenant_is_eligible(p, t)
  /\ r \in Requests /\ TenantOf(r) = t /\ KeyOf(r) \in Keys /\ key_open(p, KeyOf(r))
  /\ r \in ToSet(p.queues[KeyOf(r)])
  /\ IsPool(a)
  /\ SameSettings(p, a) /\ SameHolders(p, a) /\ SameCounts(p, a) /\ SameService(p, a)
  /\ a.arrived = p.arrived /\ a.passed = p.passed /\ a.session = p.session
  /\ a.queues = [k \in Keys |-> retain(p.queues[k], {r})]
  /\ a.joined = IF r \in gone THEN p.joined ELSE StillWait(p, t)
  /\ a.over = [j \in Tenants |-> IF r \notin gone /\ j \in StillWait(p, t)
                                 THEN [p.over[j] EXCEPT ![t] = p.over[j][t] + 1] ELSE p.over[j]]
  /\ a.jumped \in {p.jumped \union {r}, p.jumped \ {r}}
  /\ r \in a.jumped => affinity_on(p) /\ ~passed_out(p, p.queues[KeyOf(r)][1])

\* picked.
LEMMA TakeDoes ==
  ASSUME NEW p, NEW F, Shape(p), Places(p, F), NEW x \in picked(p)
  PROVE  \E t : Took(p, x.p, t, x.r)
<1>1. PICK t \in pick_tenant(p) :
        LET k == pick_key(p, t)
            at == pick(p, p.queues[k])
            joined == {j \in p.joined \ {t} : tenant_is_eligible(p, j)}
            r == p.queues[k][at]
        IN  x = [r |-> r,
                 p |-> [without(p, {r}) EXCEPT
                        !.jumped = IF at > 1 THEN p.jumped \union {r} ELSE p.jumped \ {r},
                        !.joined = IF r \in gone THEN p.joined ELSE joined,
                        !.over = [j \in Tenants |->
                           IF r \notin gone /\ j \in joined THEN [p.over[j] EXCEPT ![t] = @ + 1]
                           ELSE p.over[j]]]]
  BY Zenon DEF picked
<1>2. t \in Tenants /\ tenant_is_eligible(p, t)
  BY PickTenantIs
<1>3. PICK k : k = pick_key(p, t)
  OBVIOUS
<1>4. k \in OpenKeys(p, t)
  BY <1>2, <1>3, PickKeyIs
<1>5. k \in Keys /\ Key[k].tenant = t /\ p.queues[k] # <<>> /\ key_open(p, k)
  BY <1>4 DEF OpenKeys, KeysOf
<1>6. PICK q \in Seq(Requests) : q = p.queues[k]
  BY <1>5 DEF Shape
<1>7. PICK at : at = pick(p, q)
  OBVIOUS
<1>8. at \in DOMAIN q /\ (at > 1 => affinity_on(p) /\ ~passed_out(p, q[1]))
  BY <1>5, <1>6, <1>7, PickIs
<1>9. PICK r : r = q[at]
  OBVIOUS
<1>10. r \in Requests /\ KeyOf(r) = k /\ r \in ToSet(q)
  BY <1>5, <1>6, <1>8, <1>9 DEF Places, ToSet
<1>11. TenantOf(r) = t
  BY <1>5, <1>10 DEF TenantOf, KeyOf
<1>12. PICK J : J = StillWait(p, t)
  OBVIOUS
<1>13. PICK w : w = without(p, {r})
  OBVIOUS
<1>14. IsPool(p)
  BY DEF Shape
<1>15. Shortened(p, w, {r})
  BY <1>13, <1>14, WithoutDoes
<1>16. x.r = r /\ x.p = [w EXCEPT
                        !.jumped = IF at > 1 THEN p.jumped \union {r} ELSE p.jumped \ {r},
                        !.joined = IF r \in gone THEN p.joined ELSE J,
                        !.over = [j \in Tenants |->
                           IF r \notin gone /\ j \in J THEN [p.over[j] EXCEPT ![t] = @ + 1]
                           ELSE p.over[j]]]
  BY <1>1, <1>3, <1>6, <1>7, <1>9, <1>12, <1>13 DEF StillWait
<1>17. PICK a : a = x.p
  OBVIOUS
<1>18. /\ IsPool(a)
       /\ SameSettings(w, a) /\ SameHolders(w, a) /\ SameCounts(w, a) /\ SameService(w, a)
       /\ a.arrived = w.arrived /\ a.passed = w.passed /\ a.session = w.session /\ a.queues = w.queues
       /\ a.joined = IF r \in gone THEN p.joined ELSE J
       /\ a.over = [j \in Tenants |-> IF r \notin gone /\ j \in J
                                      THEN [p.over[j] EXCEPT ![t] = p.over[j][t] + 1] ELSE p.over[j]]
       /\ a.jumped = IF at > 1 THEN p.jumped \union {r} ELSE p.jumped \ {r}
  <2>1. PICK m : m = IF at > 1 THEN p.jumped \union {r} ELSE p.jumped \ {r}
    OBVIOUS
  <2>2. PICK n : n = IF r \in gone THEN p.joined ELSE J
    OBVIOUS
  <2>3. PICK o : o = [j \in Tenants |-> IF r \notin gone /\ j \in J
                                      THEN [p.over[j] EXCEPT ![t] = p.over[j][t] + 1] ELSE p.over[j]]
    OBVIOUS
  <2>5. IsPool(w)
    BY <1>15 DEF Shortened
  <2>4. a = [w EXCEPT !.jumped = m, !.joined = n, !.over = o]
    BY <1>16, <1>17, <2>1, <2>2, <2>3, Zenon
  <2>6. /\ IsPool(a)
        /\ SameSettings(w, a) /\ SameHolders(w, a) /\ SameCounts(w, a) /\ SameService(w, a)
        /\ a.arrived = w.arrived /\ a.passed = w.passed /\ a.session = w.session /\ a.queues = w.queues
        /\ a.joined = n /\ a.over = o /\ a.jumped = m
    BY <2>4, <2>5 DEF IsPool, Fields, SameSettings, SameHolders, SameCounts, SameService, SameAccounts
  <2> QED BY <2>1, <2>2, <2>3, <2>6
<1>19. /\ SameSettings(p, a) /\ SameHolders(p, a) /\ SameCounts(p, a) /\ SameService(p, a)
       /\ a.arrived = p.arrived /\ a.passed = p.passed /\ a.session = p.session
       /\ a.queues = [j \in Keys |-> retain(p.queues[j], {r})]
  BY <1>15, <1>18 DEF Shortened, SameSettings, SameHolders, SameCounts, SameService, SameAccounts, SameMarks
<1>20. /\ a.joined = IF r \in gone THEN p.joined ELSE J
       /\ a.over = [j \in Tenants |-> IF r \notin gone /\ j \in J
                                      THEN [p.over[j] EXCEPT ![t] = p.over[j][t] + 1] ELSE p.over[j]]
       /\ a.jumped = IF at > 1 THEN p.jumped \union {r} ELSE p.jumped \ {r}
  BY <1>18
<1>21. Took(p, a, t, r)
  <2>1. a.jumped \in {p.jumped \union {r}, p.jumped \ {r}} /\ (r \in a.jumped => affinity_on(p) /\ ~passed_out(p, p.queues[KeyOf(r)][1]))
    BY <1>6, <1>8, <1>10, <1>20
  <2> QED BY <1>2, <1>5, <1>6, <1>10, <1>11, <1>12, <1>18, <1>19, <1>20, <2>1 DEF Took
<1> QED BY <1>16, <1>17, <1>21

\* Idle keys and tenants, at or below virtual time.
Quiet(p, keys, tenants) ==
  /\ keys \subseteq Keys /\ tenants \subseteq Tenants
  /\ \A k \in keys : p.queues[k] = <<>> /\ p.key_in_flight[k] = 0
  /\ \A t \in tenants : ~is_active(p, t) /\ p.served[t] <= p.virtual_time

\* forget_if_quiet drops the accounts of idle keys and tenants.
Quieted(p, q) == \E keys, tenants : Quiet(p, keys, tenants) /\ Forgot(p, q, keys, tenants)

\* forget_if_quiet.
LEMMA QuietDoes ==
  ASSUME NEW p, NEW K, K \subseteq Keys, IsPool(p)
  PROVE  Quieted(p, forget_if_quiet(p, K))
<1>1. PICK keys : keys = {k \in K : p.queues[k] = <<>> /\ p.key_in_flight[k] = 0 /\ p.key_served[k] <= p.virtual_time}
  OBVIOUS
<1>2. PICK tenants : tenants = {t \in Tenants : K \cap KeysOf(t) # {} /\ ~is_active(p, t) /\ p.served[t] <= p.virtual_time}
  OBVIOUS
<1>3. Quiet(p, keys, tenants)
  BY <1>1, <1>2 DEF Quiet
<1>4. forget_if_quiet(p, K) = forgotten(p, keys, tenants)
  BY <1>1, <1>2, Zenon DEF forget_if_quiet
<1>5. Forgot(p, forgotten(p, keys, tenants), keys, tenants)
  BY ForgetDoes
<1> QED BY <1>3, <1>4, <1>5 DEF Quieted

\* settle_idle drops all accounts of an idle pool.
Settled(p, q) == IF p.in_flight > 0 \/ Queued(p) # {} THEN q = p ELSE Reset(p, q)

\* release counts the slots of R back, then forgets whoever is quiet.
Released(p, q, R) == \E v, w : Vacated(p, v, R) /\ Quieted(v, w) /\ Settled(w, q)

\* release.
LEMMA ReleaseDoes ==
  ASSUME NEW p, NEW R, R \subseteq Requests, IsPool(p)
  PROVE  Released(p, release(p, R), R)
<1>1. PICK v : v = vacate(p, R)
  OBVIOUS
<1>2. Vacated(p, v, R) /\ IsPool(v)
  BY <1>1, VacateDoes DEF Vacated
<1>3. PICK w : w = forget_if_quiet(v, {KeyOf(r) : r \in R})
  OBVIOUS
<1>4. {KeyOf(r) : r \in R} \subseteq Keys
  BY Belongs
<1>5. Quieted(v, w)
  BY <1>2, <1>3, <1>4, QuietDoes
<1>6. IsPool(w)
  BY <1>5 DEF Quieted, Forgot
<1>7. Settled(w, settle_idle(w))
  BY <1>6, SettleDoes DEF Settled
<1>8. release(p, R) = settle_idle(w)
  BY <1>1, <1>3 DEF release
<1> QED BY <1>2, <1>5, <1>7, <1>8, Zenon DEF Released

\* The claim goes out.
Claimed(p, q, r) ==
  /\ IsPool(q) /\ Around(p, q) /\ SameSettings(p, q) /\ SameHistory(p, q)
  /\ q.session = p.session /\ q.jumped = p.jumped
  /\ q.running = p.running /\ q.held = p.held /\ q.pending = p.pending \union {r}

\* A grant forgets whether it went ahead.
Unmarked(p, q, r) ==
  /\ IsPool(q) /\ Around(p, q) /\ SameSettings(p, q) /\ SameHistory(p, q) /\ SameHolders(p, q)
  /\ q.session = p.session /\ q.jumped = p.jumped \ {r}

\* A claim goes out.
LEMMA ClaimDoes ==
  ASSUME NEW p, NEW r, IsPool(p)
  PROVE  Claimed(p, [p EXCEPT !.pending = @ \union {r}], r)
BY DEF Claimed, IsPool, Fields, Around, SameSettings, SameHistory, SameCounts, SameService, SameAccounts

\* A grant ends with the permit.
LEMMA GrantDoes ==
  ASSUME NEW p, NEW r, IsPool(p), NEW q \in granted(p, r)
  PROVE  \E u : Unmarked(p, u, r) /\ Sent(u, q, r, r \in p.jumped)
<1>1. PICK u : u = [p EXCEPT !.jumped = @ \ {r}]
  OBVIOUS
<1>2. Unmarked(p, u, r)
  BY <1>1 DEF Unmarked, IsPool, Fields, Around, SameSettings, SameHistory, SameHolders, SameCounts, SameService, SameAccounts
<1>3. q \in send(u, r, r \in p.jumped)
  BY <1>1 DEF granted
<1>4. Sent(u, q, r, r \in p.jumped)
  BY <1>2, <1>3, SendDoes DEF Unmarked
<1> QED BY <1>2, <1>4

\* A slot is counted, charged and virtual time moves on.
Taken(a, c, d, e, r) == Counted(a, c, r) /\ Charged(c, d, r) /\ Advanced(d, e)

\* What a turn that is not the last does.
Turned(p, q) ==
  \E a, t, r :
    /\ may_take(p) /\ Took(p, a, t, r)
    /\ \/ r \in gone /\ \E b : CastOff(a, b, {r}) /\ Quieted(b, q)
       \/ /\ r \notin gone
          /\ \E c, d, e : /\ Taken(a, c, d, e, r)
                          /\ \/ p.mode = "shared" /\ Claimed(e, q, r)
                             \/ p.mode # "shared" /\ \E u : Unmarked(e, u, r) /\ Sent(u, q, r, r \in e.jumped)

\* There is no turn left.
Stuck(p) == ~may_take(p) \/ pick_tenant(p) = {}

\* turn.
LEMMA TurnDoes ==
  ASSUME NEW p, NEW F, Shape(p), Places(p, F), NEW q \in turn(p)
  PROVE  IF Stuck(p) THEN q = p ELSE Turned(p, q)
<1>1. CASE Stuck(p)
  BY <1>1 DEF turn, Stuck
<1>2. CASE ~Stuck(p)
  <2>1. PICK x \in picked(p) : q \in IF x.r \in gone THEN {dropped(x)}
              ELSE IF p.mode = "shared"
                   THEN {[taken(x) EXCEPT !.pending = @ \union {x.r}]}
                   ELSE granted(taken(x), x.r)
    BY <1>2 DEF turn, Stuck
  <2>2. PICK t : Took(p, x.p, t, x.r)
    BY TakeDoes
  <2>3. PICK a, r : a = x.p /\ r = x.r
    OBVIOUS
  <2>4. Took(p, a, t, r) /\ IsPool(a) /\ r \in Requests
    BY <2>2, <2>3 DEF Took
  <2>5. CASE r \in gone
    <3>1. PICK b : b = cast_off(a, {r})
      OBVIOUS
    <3>2. CastOff(a, b, {r}) /\ IsPool(b)
      BY <2>4, <3>1, CastOffDoes DEF CastOff
    <3>3. q = forget_if_quiet(b, {KeyOf(r)})
      BY <2>1, <2>3, <2>5, <3>1 DEF dropped
    <3>4. {KeyOf(r)} \subseteq Keys
      BY <2>4, Belongs
    <3>5. Quieted(b, q)
      BY <3>2, <3>3, <3>4, QuietDoes
    <3> QED BY <1>2, <2>4, <2>5, <3>2, <3>5 DEF Turned, Stuck
  <2>6. CASE r \notin gone
    <3>1. PICK o : o = occupy(a, r)
      OBVIOUS
    <3>2. PICK c : Counted(a, c, r) /\ Charged(c, o, r)
      BY <2>4, <3>1, OccupyDoes
    <3>3. IsPool(o)
      BY <3>2 DEF Charged
    <3>4. PICK e : e = advance_virtual_time(o)
      OBVIOUS
    <3>5. Advanced(o, e) /\ IsPool(e)
      BY <3>3, <3>4, AdvanceDoes DEF Advanced
    <3>6. taken(x) = e
      BY <2>3, <3>1, <3>4 DEF taken
    <3>7. Taken(a, c, o, e, r)
      BY <3>2, <3>5 DEF Taken
    <3>8. \/ p.mode = "shared" /\ Claimed(e, q, r)
          \/ p.mode # "shared" /\ \E u : Unmarked(e, u, r) /\ Sent(u, q, r, r \in e.jumped)
      <4>1. CASE p.mode = "shared"
        <5>1. q = [e EXCEPT !.pending = @ \union {r}]
          BY <2>1, <2>3, <2>6, <3>6, <4>1
        <5> QED BY <3>5, <4>1, <5>1, ClaimDoes
      <4>2. CASE p.mode # "shared"
        <5>1. q \in granted(e, r)
          BY <2>1, <2>3, <2>6, <3>6, <4>2
        <5>2. \E u : Unmarked(e, u, r) /\ Sent(u, q, r, r \in e.jumped)
          BY <3>5, <5>1, GrantDoes
        <5> QED BY <4>2, <5>2
      <4> QED BY <4>1, <4>2
    <3> QED BY <1>2, <2>4, <2>6, <3>7, <3>8, Zenon DEF Turned, Stuck
  <2> QED BY <1>2, <2>5, <2>6
<1> QED BY <1>1, <1>2

\* A holder is counted.
LEMMA CountPositive ==
  ASSUME NEW S, S \subseteq Requests, NEW r \in S
  PROVE  Cardinality(S) > 0 /\ TenantCount(S, TenantOf(r)) > 0 /\ KeyCount(S, KeyOf(r)) > 0
<1>1. ASSUME NEW A, A \subseteq Requests, A # {} PROVE Cardinality(A) > 0
  <2>1. IsFiniteSet(A) /\ Cardinality(A) \in Nat
    BY <1>1, RequestSet
  <2>2. Cardinality(A) # 0
    BY <1>1, <2>1, FS_EmptySet
  <2> QED BY <2>1, <2>2
<1>2. {x \in S : TenantOf(x) = TenantOf(r)} # {} /\ {x \in S : TenantOf(x) = TenantOf(r)} \subseteq Requests
  OBVIOUS
<1>3. {x \in S : KeyOf(x) = KeyOf(r)} # {} /\ {x \in S : KeyOf(x) = KeyOf(r)} \subseteq Requests
  OBVIOUS
<1> QED BY <1>1, <1>2, <1>3 DEF TenantCount, KeyCount

\* Forgetting the quiet keeps the pool sound.
LEMMA QuietedSound ==
  ASSUME NEW p, NEW q, NEW F, NEW O, Quieted(p, q), Sound(p, F, O, {})
  PROVE  Sound(q, F, O, {}) /\ Queued(q) = Queued(p)
<1>1. PICK keys, tenants : Quiet(p, keys, tenants) /\ Forgot(p, q, keys, tenants)
  BY DEF Quieted
<1>2. ASSUME NEW r \in p.pending \union {} PROVE KeyOf(r) \notin keys /\ TenantOf(r) \notin tenants
  <2>1. PICK S : S = Occupied(p) \union O
    OBVIOUS
  <2>2. r \in S /\ S \subseteq Requests
    BY <2>1 DEF Occupied, Sound, Shape, Slots
  <2>3. TenantCount(S, TenantOf(r)) > 0 /\ KeyCount(S, KeyOf(r)) > 0
    BY <2>2, CountPositive
  <2>4. r \in Requests
    BY <2>2
  <2>5. KeyOf(r) \in Keys /\ TenantOf(r) \in Tenants
    BY <2>4, Belongs
  <2>6. p.tenant_in_flight[TenantOf(r)] > 0 /\ p.key_in_flight[KeyOf(r)] > 0
    BY <2>1, <2>3, <2>5 DEF Sound, Slots
  <2> QED BY <1>1, <2>6 DEF Quiet, is_active
<1>3. ASSUME NEW r \in Queued(p) PROVE TenantOf(r) \notin tenants
  <2>1. r \in Requests
    BY QueuedIs DEF Sound, Shape
  <2>2. tenant_queued(p, TenantOf(r))
    BY <2>1, Belongs, TenantQueuedIs DEF Sound, Shape, Places
  <2> QED BY <1>1, <2>2 DEF Quiet, is_active
<1>4. Sound(q, F, O, {})
  BY <1>1, <1>2, <1>3, ForgotSound
<1>5. Queued(q) = Queued(p)
  BY <1>1, SameQueues DEF Forgot
<1> QED BY <1>4, <1>5

\* Settling does.
LEMMA SettledSound ==
  ASSUME NEW p, NEW q, NEW F, Settled(p, q), Sound(p, F, {}, {})
  PROVE  Sound(q, F, {}, {}) /\ Queued(q) = Queued(p)
<1>1. CASE p.in_flight > 0 \/ Queued(p) # {}
  BY <1>1 DEF Settled
<1>2. CASE ~(p.in_flight > 0 \/ Queued(p) # {})
  <2>1. Reset(p, q)
    BY <1>2 DEF Settled
  <2>2. PICK S : S = Occupied(p)
    OBVIOUS
  <2>3. S \subseteq Requests /\ p.in_flight = Cardinality(S)
    BY <2>2 DEF Sound, Shape, Slots, Occupied
  <2>4. S = {}
    BY <1>2, <2>3, CountPositive
  <2>5. p.pending = {} /\ Queued(p) = {}
    BY <1>2, <2>2, <2>4 DEF Occupied
  <2>6. Sound(q, F, {}, {})
    BY <2>1, <2>5, ResetSound
  <2> QED BY <2>1, <2>6, SameQueues DEF Reset
<1> QED BY <1>1, <1>2

\* Giving slots back does.
LEMMA ReleasedSound ==
  ASSUME NEW p, NEW q, NEW F, NEW R, Released(p, q, R), Sound(p, F, R, {})
  PROVE  Sound(q, F, {}, {}) /\ Queued(q) = Queued(p)
<1>1. PICK v, w : Vacated(p, v, R) /\ Quieted(v, w) /\ Settled(w, q)
  BY DEF Released
<1>2. Sound(v, F, R \ R, {})
  BY <1>1, VacatedSound
<1>3. Sound(v, F, {}, {})
  <2>1. R \ R = {}
    OBVIOUS
  <2> QED BY <1>2, <2>1
<1>4. Queued(v) = Queued(p)
  BY <1>1, SameQueues DEF Vacated
<1>5. Sound(w, F, {}, {}) /\ Queued(w) = Queued(v)
  BY <1>1, <1>3, QuietedSound
<1> QED BY <1>1, <1>4, <1>5, SettledSound

\* A request taken from its queue is nowhere, with room for it.
LEMMA TookSound ==
  ASSUME NEW p, NEW a, NEW t, NEW r, NEW F, Took(p, a, t, r), Sound(p, F, {}, {})
  PROVE  /\ Sound(a, F, {}, {}) /\ Queued(a) = Queued(p) \ {r} /\ r \in Queued(p) /\ r \in Requests
         /\ r \notin Occupied(a) /\ r \notin Waiters(a) /\ r \notin F /\ Arrived(a, r) /\ Room(a, r)
<1>1. PICK w : w = without(p, {r})
  OBVIOUS
<1>2. Shortened(p, w, {r})
  BY <1>1, WithoutDoes DEF Sound, Shape
<1>3. Sound(w, F, {}, {}) /\ Queued(w) = Queued(p) \ {r}
  BY <1>2, ShortenedSound
<1>4. Around(w, a) /\ SameHolders(w, a)
  BY <1>2 DEF Shortened, Took, Around, SameHolders, SameCounts, SameService, SameAccounts, SameMarks
<1>5. a.joined \subseteq Tenants /\ a.over \in [Tenants -> [Tenants -> Nat]]
  <2>1. p.joined \subseteq Tenants /\ p.over \in [Tenants -> [Tenants -> Nat]] /\ t \in Tenants
    BY DEF Sound, Shape, Took
  <2>2. a.joined \subseteq Tenants
    BY <2>1 DEF Took, StillWait
  <2>3. \A j \in Tenants : p.over[j] \in [Tenants -> Nat]
    BY <2>1
  <2>4. \A j \in Tenants : [p.over[j] EXCEPT ![t] = p.over[j][t] + 1] \in [Tenants -> Nat]
    <3> TAKE j \in Tenants
    <3>1. PICK f \in [Tenants -> Nat] : f = p.over[j]
      BY <2>3
    <3> QED BY <2>1, <3>1
  <2>5. PICK W : W = StillWait(p, t)
    OBVIOUS
  <2>6. a.over = [j \in Tenants |-> IF r \notin gone /\ j \in W
                                 THEN [p.over[j] EXCEPT ![t] = p.over[j][t] + 1] ELSE p.over[j]]
    BY <2>5 DEF Took
  <2> QED BY <2>2, <2>3, <2>4, <2>6
<1>6. Shape(a)
  BY <1>3, <1>4, <1>5 DEF Took, Sound, Shape, Around, SameSettings, SameHolders, SameCounts, SameService, SameAccounts
<1>7. Modal(a)
  BY DEF Took, Sound, Modal, SameSettings, SameHolders
<1>8. Sound(a, F, {}, {})
  BY <1>3, <1>4, <1>6, <1>7, AroundSound
<1>9. Queued(a) = Queued(p) \ {r}
  BY <1>3, <1>4, SameQueues DEF Around
<1>10. r \in Queued(p) /\ r \in Requests
  BY DEF Took, Queued
<1>11. Occupied(a) = Occupied(p) /\ a.pending = p.pending
  BY DEF Took, SameHolders, Occupied
<1>12. r \notin Occupied(a) /\ r \notin F
  BY <1>10, <1>11 DEF Sound, Places
<1>13. r \notin Waiters(a) /\ r \in Waiters(p) /\ Waiters(a) \subseteq Waiters(p)
  BY <1>9, <1>10, <1>11, <1>12 DEF Waiters, Occupied
<1>14. Arrived(a, r)
  BY <1>13 DEF Arrived, Took, Sound, Marks
<1>15. Room(a, r)
  BY DEF Room, Took, SameCounts, tenant_is_eligible, tenant_open, key_open
<1> QED BY <1>8, <1>9, <1>10, <1>12, <1>13, <1>14, <1>15

\* Then a slot is counted and charged for it.
LEMMA TakenSound ==
  ASSUME NEW a, NEW c, NEW d, NEW e, NEW r \in Requests, NEW F, Taken(a, c, d, e, r), Sound(a, F, {}, {}),
         r \notin Occupied(a), r \notin Waiters(a), Arrived(a, r), Room(a, r)
  PROVE  /\ Sound(e, F, {r}, {r}) /\ Queued(e) = Queued(a) /\ r \notin Occupied(e) /\ r \notin Waiters(e)
         /\ Arrived(e, r)
<1>1. Sound(c, F, {} \union {r}, {})
  BY CountedSound DEF Taken
<1>2. {} \union {r} = {r}
  OBVIOUS
<1>3. Sound(c, F, {r}, {})
  BY <1>1, <1>2
<1>4. r \notin c.pending
  BY DEF Taken, Counted, SameHolders, Occupied
<1>5. Sound(d, F, {r}, {} \union {r})
  BY <1>3, <1>4, ChargedSound DEF Taken
<1>6. Sound(d, F, {r}, {r})
  BY <1>2, <1>5
<1>7. Sound(e, F, {r}, {r})
  BY <1>6, AdvancedSound DEF Taken
<1>8. e.queues = a.queues /\ SameHolders(a, e) /\ e.arrived = a.arrived
  BY DEF Taken, Counted, Charged, Advanced, SameHolders, SameMarks
<1>9. Queued(e) = Queued(a) /\ Occupied(e) = Occupied(a) /\ Waiters(e) = Waiters(a)
  BY <1>8, SameQueues DEF SameHolders, Occupied, Waiters
<1> QED BY <1>7, <1>8, <1>9 DEF Arrived

\* The claim holds that slot.
LEMMA ClaimedSound ==
  ASSUME NEW p, NEW q, NEW r \in Requests, NEW F, Claimed(p, q, r), Sound(p, F, {r}, {r}), p.mode = "shared",
         r \notin Queued(p), r \notin F, Arrived(p, r)
  PROVE  Sound(q, F, {}, {}) /\ Queued(q) = Queued(p)
<1>1. Handed(p, q, F, {r}, {r}, {}, {}, r)
  BY DEF Handed, Claimed, Occupied, Sound, Places, Slots
<1>2. Shape(q)
  BY DEF Claimed, Sound, Shape, Around, SameSettings, SameHistory, SameCounts, SameService, SameAccounts
<1>3. Modal(q)
  BY DEF Claimed, Sound, Modal, SameSettings
<1>4. Sound(q, F, {}, {})
  BY <1>1, <1>2, <1>3, HandedSound DEF Claimed
<1> QED BY <1>4, SameQueues DEF Claimed, Around

\* Or the permit does.
LEMMA GrantedSound ==
  ASSUME NEW p, NEW q, NEW u, NEW r \in Requests, NEW F, NEW ahead, Unmarked(p, u, r), Sent(u, q, r, ahead),
         Sound(p, F, {r}, {r}), r \notin Waiters(p), r \notin F
  PROVE  Sound(q, F, {}, {}) /\ Queued(q) = Queued(p)
<1>1. Shape(u) /\ Modal(u)
  BY DEF Unmarked, Sound, Shape, Modal, Around, SameSettings, SameHistory, SameCounts, SameService, SameAccounts, SameHolders
<1>2. Sound(u, F, {r}, {r})
  BY <1>1, AroundSound DEF Unmarked
<1>3. Queued(u) = Queued(p) /\ u.pending = p.pending
  BY SameQueues DEF Unmarked, Around, SameHolders
<1>4. r \notin u.pending /\ r \notin Queued(u)
  BY <1>3 DEF Waiters
<1>5. Sound(q, F, {r} \ {r}, {r} \ {r})
  BY <1>2, <1>4, SentSound
<1>6. {r} \ {r} = {}
  OBVIOUS
<1>7. Sound(q, F, {}, {})
  BY <1>5, <1>6
<1> QED BY <1>3, <1>7, SameQueues DEF Sent

\* A turn.
LEMMA TurnedSound ==
  ASSUME NEW p, NEW q, NEW F, Turned(p, q), Sound(p, F, {}, {})
  PROVE  Sound(q, F, {}, {}) /\ \E r \in Queued(p) : Queued(q) = Queued(p) \ {r}
<1>1. PICK a, t, r :
    /\ may_take(p) /\ Took(p, a, t, r)
    /\ \/ r \in gone /\ \E b : CastOff(a, b, {r}) /\ Quieted(b, q)
       \/ /\ r \notin gone
          /\ \E c, d, e : /\ Taken(a, c, d, e, r)
                          /\ \/ p.mode = "shared" /\ Claimed(e, q, r)
                             \/ p.mode # "shared" /\ \E u : Unmarked(e, u, r) /\ Sent(u, q, r, r \in e.jumped)
  BY Zenon DEF Turned
<1>2. /\ Sound(a, F, {}, {}) /\ Queued(a) = Queued(p) \ {r} /\ r \in Queued(p) /\ r \in Requests
      /\ r \notin Occupied(a) /\ r \notin Waiters(a) /\ r \notin F /\ Arrived(a, r) /\ Room(a, r)
  BY <1>1, TookSound
<1>3. ASSUME NEW b, CastOff(a, b, {r}), Quieted(b, q) PROVE Sound(q, F, {}, {}) /\ Queued(q) = Queued(a)
  <2>1. {r} \cap Waiters(a) = {}
    BY <1>2
  <2>2. Sound(b, F, {}, {})
    BY <1>2, <1>3, <2>1, CastOffSound
  <2>3. Queued(b) = Queued(a)
    BY <1>3, SameQueues DEF CastOff
  <2> QED BY <1>3, <2>2, <2>3, QuietedSound
<1>4. ASSUME NEW c, NEW d, NEW e, Taken(a, c, d, e, r),
             \/ p.mode = "shared" /\ Claimed(e, q, r)
             \/ p.mode # "shared" /\ \E u : Unmarked(e, u, r) /\ Sent(u, q, r, r \in e.jumped)
      PROVE  Sound(q, F, {}, {}) /\ Queued(q) = Queued(a)
  <2>1. /\ Sound(e, F, {r}, {r}) /\ Queued(e) = Queued(a) /\ r \notin Occupied(e) /\ r \notin Waiters(e)
        /\ Arrived(e, r)
    BY <1>2, <1>4, TakenSound
  <2>2. e.mode = p.mode
    <3>1. a.mode = p.mode
      BY <1>1 DEF Took, SameSettings
    <3>2. c.mode = a.mode /\ d.mode = c.mode /\ e.mode = d.mode
      <4>1. SameSettings(a, c) /\ SameSettings(c, d) /\ SameSettings(d, e)
        BY <1>4, Zenon DEF Taken, Counted, Charged, Advanced
      <4> QED BY <4>1, Zenon DEF SameSettings
    <3> QED BY <3>1, <3>2
  <2>3. CASE p.mode = "shared" /\ Claimed(e, q, r)
    <3>1. r \notin Queued(e)
      BY <2>1 DEF Waiters
    <3> QED BY <1>2, <2>1, <2>2, <2>3, <3>1, ClaimedSound
  <2>4. ASSUME NEW u, Unmarked(e, u, r), Sent(u, q, r, r \in e.jumped)
        PROVE  Sound(q, F, {}, {}) /\ Queued(q) = Queued(a)
    BY <1>2, <2>1, <2>4, GrantedSound
  <2> QED BY <1>4, <2>3, <2>4
<1>5. Sound(q, F, {}, {}) /\ Queued(q) = Queued(a)
  BY <1>1, <1>3, <1>4, Zenon
<1> QED BY <1>2, <1>5

-----------------------------------------------------------------------------
(* Held slots.                                                             *)

\* The slot held after h is no longer held.
Freed(p, q, h) ==
  /\ IsPool(q) /\ Around(p, q) /\ SameSettings(p, q) /\ SameHistory(p, q)
  /\ q.session = p.session /\ q.jumped = p.jumped
  /\ q.running = p.running /\ q.pending = p.pending /\ q.held = p.held \ {h}

\* Waiters whose caller is gone have left for good.
Pruned(p, q, D) == \E w : D \subseteq gone /\ Shortened(p, w, D) /\ CastOff(w, q, D)

\* A waiting request r takes over the slot held after h.
TookOver(p, q, h, r) ==
  /\ KeyOf(r) = KeyOf(h) /\ r \in Queued(p) /\ r \in Requests
  /\ \E s, f, c, e, ahead : /\ Shortened(p, s, {r}) /\ Freed(s, f, h) /\ Charged(f, c, r) /\ Advanced(c, e)
                            /\ Sent(e, q, r, ahead)

\* What a held slot's turn in redeem_queued may do.
Redeemed(p, q, h) ==
  \/ q = p
  \/ \E D, m : /\ ~key_passed_out(p, KeyOf(h)) /\ Pruned(p, m, D)
               /\ q = m \/ \E r : TookOver(m, q, h, r)

\* redeem.
LEMMA RedeemDoes ==
  ASSUME NEW p, NEW F, NEW h \in Requests, Shape(p), Places(p, F), Marks(p, F), NEW q \in redeem(p, h)
  PROVE  Redeemed(p, q, h)
<1> DEFINE xs == Req[h].session
           xk == KeyOf(h)
           xmine == {i \in DOMAIN p.queues[xk] : p.session[p.queues[xk][i]] = xs}
           xlive == {i \in xmine : p.queues[xk][i] \notin gone}
           xat == Min(xlive)
           xr == p.queues[xk][xat]
           xdead == {p.queues[xk][i] : i \in {i \in xmine : xlive = {} \/ i < xat}}
           xrest == cast_off(without(p, xdead), xdead)
           xfree == [without(xrest, {xr}) EXCEPT !.held = @ \ {h}]
           xahead == \/ xrest.queues[xk][1] # xr
                     \/ \E x \in oldest_eligible(xfree) : p.arrived[x] < p.arrived[xr]
<1>0. redeem(p, h) = IF key_passed_out(p, xk) \/ xmine = {} THEN {p}
                     ELSE IF xlive = {} THEN {xrest}
                     ELSE send(advance_virtual_time(charge(xfree, xr)), xr, xahead)
  BY Zenon DEF redeem
<1> HIDE DEF xahead, xfree, xrest, xdead, xr, xat, xlive, xmine, xk
<1>1. PICK k \in Keys : k = KeyOf(h) /\ k = xk
  BY Belongs DEF xk
<1>2. PICK l \in Seq(Requests) : l = p.queues[k]
  BY DEF Shape
<1>3. PICK mine : mine = {i \in DOMAIN l : p.session[l[i]] = Req[h].session} /\ mine = xmine
  BY <1>1, <1>2 DEF xmine
<1>4. PICK live : live = {i \in mine : l[i] \notin gone} /\ live = xlive
  BY <1>1, <1>2, <1>3 DEF xlive
<1>5. PICK at : at = Min(live) /\ at = xat
  BY <1>4 DEF xat
<1>6. PICK r : r = l[at] /\ r = xr
  BY <1>1, <1>2, <1>5 DEF xr
<1>7. PICK dead : dead = {l[i] : i \in {i \in mine : live = {} \/ i < at}} /\ dead = xdead
  <2>1. PICK M : M = {i \in mine : live = {} \/ i < at}
    OBVIOUS
  <2>2. M = {i \in xmine : xlive = {} \/ i < xat}
    BY <1>3, <1>4, <1>5, <2>1
  <2>3. xdead = {p.queues[xk][i] : i \in M}
    BY <2>2, Zenon DEF xdead
  <2>4. xdead = {l[i] : i \in M}
    BY <1>1, <1>2, <2>3
  <2> QED BY <2>1, <2>4
<1>8. PICK w : w = without(p, dead)
  OBVIOUS
<1>9. PICK rest : rest = cast_off(w, dead) /\ rest = xrest
  BY <1>7, <1>8 DEF xrest
<1>10. PICK s : s = without(rest, {r})
  OBVIOUS
<1>11. PICK f : f = [s EXCEPT !.held = @ \ {h}] /\ f = xfree
  BY <1>6, <1>9, <1>10 DEF xfree
<1>12. PICK ahead : ahead = xahead
  OBVIOUS
<1>13. redeem(p, h) = IF key_passed_out(p, k) \/ mine = {} THEN {p}
                      ELSE IF live = {} THEN {rest}
                      ELSE send(advance_virtual_time(charge(f, r)), r, ahead)
  BY <1>0, <1>1, <1>3, <1>4, <1>6, <1>9, <1>11, <1>12
<1>14. CASE key_passed_out(p, k) \/ mine = {}
  BY <1>13, <1>14 DEF Redeemed
<1>15. CASE ~(key_passed_out(p, k) \/ mine = {})
  <2>0. DOMAIN l \subseteq Nat /\ mine \subseteq DOMAIN l /\ live \subseteq mine
    BY <1>2, <1>3, <1>4
  <2>1. live # {} => at \in live /\ \A i \in live : at <= i
    BY <1>5, <2>0, HasMin
  <2>2. dead \subseteq gone
    <3>1. ASSUME NEW i \in mine, live = {} \/ i < at PROVE l[i] \in gone
      <4>1. i \notin live
        <5>1. CASE live = {}
          BY <5>1
        <5>2. CASE live # {} /\ i < at
          <6>1. at \in Nat /\ i \in Nat
            BY <2>0, <2>1, <5>2
          <6> QED BY <2>1, <5>2, <6>1
        <5> QED BY <3>1, <5>1, <5>2
      <4> QED BY <1>4, <3>1, <4>1
    <3> QED BY <1>7, <3>1
  <2>3. Shortened(p, w, dead) /\ IsPool(w)
    BY <1>8, WithoutDoes DEF Shape, Shortened
  <2>b. rest = cast_off(w, dead) /\ f = [s EXCEPT !.held = @ \ {h}] /\ r = l[at]
    BY <1>6, <1>9, <1>11
  <2>c. CastOff(w, rest, dead)
    BY <2>3, <2>b, CastOffDoes
  <2>4. CastOff(w, rest, dead) /\ IsPool(rest)
    BY <2>c DEF CastOff
  <2>5. Pruned(p, rest, dead)
    BY <2>2, <2>3, <2>4 DEF Pruned
  <2>6. CASE live = {}
    <3>1. q = rest
      BY <1>13, <1>15, <2>6
    <3> QED BY <1>1, <1>15, <2>5, <3>1 DEF Redeemed
  <2>7. CASE live # {}
    <3>1. q \in send(advance_virtual_time(charge(f, r)), r, ahead)
      BY <1>13, <1>15, <2>7
    <3>b. at \in DOMAIN l
      BY <2>0, <2>1, <2>7
    <3>2. at \in DOMAIN l /\ r \in Requests /\ KeyOf(r) = k
      BY <1>2, <2>b, <3>b DEF Places
    <3>3. r \notin dead
      <4>1. \A i \in DOMAIN l : i < at => l[i] # l[at]
        <5>1. Ascending(l, p.arrived)
          BY <1>2 DEF Marks
        <5>2. \A i \in DOMAIN l : p.arrived[l[i]] \in Nat
          BY <1>2 DEF Shape
        <5> QED BY <3>2, <5>1, <5>2 DEF Ascending
      <4> QED BY <1>6, <1>7, <2>0, <2>7, <4>1
    <3>4. r \in Queued(rest)
      <4>1. rest.queues[k] = retain(l, dead)
        BY <1>2, <2>3, <2>4 DEF Shortened, CastOff
      <4>2. ToSet(retain(l, dead)) = ToSet(l) \ dead
        BY <1>2, Retained
      <4>3. r \in ToSet(l)
        BY <1>6, <3>2 DEF ToSet
      <4> QED BY <3>3, <4>1, <4>2, <4>3 DEF Queued
    <3>a. Shortened(rest, s, {r})
      BY <1>10, <2>4, WithoutDoes
    <3>5. Shortened(rest, s, {r}) /\ IsPool(s)
      BY <3>a DEF Shortened
    <3>6. Freed(s, f, h) /\ IsPool(f)
      BY <2>b, <3>5 DEF Freed, IsPool, Fields, Around, SameSettings, SameHistory, SameCounts, SameService, SameAccounts
    <3>7. PICK c : c = charge(f, r)
      OBVIOUS
    <3>8. Charged(f, c, r) /\ IsPool(c)
      <4>1. Charged(f, charge(f, r), r)
        BY <3>6, ChargeDoes
      <4>2. Charged(f, c, r)
        BY <3>7, <4>1
      <4> QED BY <4>2 DEF Charged
    <3>9. PICK e : e = advance_virtual_time(c)
      OBVIOUS
    <3>10. Advanced(c, e) /\ IsPool(e)
      BY <3>8, <3>9, AdvanceDoes DEF Advanced
    <3>11. Sent(e, q, r, ahead)
      BY <3>1, <3>7, <3>9, <3>10, SendDoes
    <3>12. TookOver(rest, q, h, r)
      BY <1>1, <3>2, <3>4, <3>5, <3>6, <3>8, <3>10, <3>11, Zenon DEF TookOver
    <3> QED BY <1>1, <1>15, <2>5, <3>12, Zenon DEF Redeemed
  <2> QED BY <2>6, <2>7
<1> QED BY <1>14, <1>15

\* Dropping waiters whose caller is gone keeps the pool sound.
LEMMA PrunedSound ==
  ASSUME NEW p, NEW q, NEW D, NEW F, NEW O, NEW C, Pruned(p, q, D), Sound(p, F, O, C), D \cap p.pending = {}
  PROVE  Sound(q, F, O, C) /\ Queued(q) = Queued(p) \ D /\ SameHolders(p, q)
<1>1. PICK w : D \subseteq gone /\ Shortened(p, w, D) /\ CastOff(w, q, D)
  BY DEF Pruned
<1>2. Sound(w, F, O, C) /\ Queued(w) = Queued(p) \ D
  BY <1>1, ShortenedSound
<1>3. D \cap Waiters(w) = {}
  BY <1>1, <1>2 DEF Waiters, Shortened, SameHolders
<1>4. Sound(q, F, O, C)
  BY <1>1, <1>2, <1>3, CastOffSound
<1>5. Queued(q) = Queued(w) /\ SameHolders(p, q)
  BY <1>1, SameQueues DEF CastOff, Shortened, SameHolders
<1> QED BY <1>2, <1>4, <1>5

\* A held slot becomes a waiter's.
LEMMA TookOverSound ==
  ASSUME NEW p, NEW q, NEW h, NEW r, NEW F, NEW O, TookOver(p, q, h, r), Sound(p, F, O, {}), h \in p.held,
         O \cap Queued(p) = {}
  PROVE  Sound(q, F, O, {}) /\ Queued(q) = Queued(p) \ {r} /\ q.held = p.held \ {h} /\ q.pending = p.pending
<1>1. KeyOf(r) = KeyOf(h) /\ r \in Queued(p) /\ r \in Requests
  BY DEF TookOver
<1>2. PICK s, f, c, e, ahead : /\ Shortened(p, s, {r}) /\ Freed(s, f, h) /\ Charged(f, c, r) /\ Advanced(c, e)
                               /\ Sent(e, q, r, ahead)
  BY Zenon DEF TookOver
<1>3. Sound(s, F, O, {}) /\ Queued(s) = Queued(p) \ {r}
  BY <1>2, ShortenedSound
<1>4. s.held = p.held /\ Occupied(s) = Occupied(p) /\ s.pending = p.pending
  BY <1>2 DEF Shortened, SameHolders, Occupied
<1>5. h \notin O /\ r \notin O /\ r \notin Occupied(p) /\ r \notin F
  BY <1>1 DEF Sound, Slots, Places, Occupied
<1>6. Handed(s, f, F, O, {}, O \union {h}, {}, h)
  BY <1>2, <1>3, <1>4 DEF Handed, Freed, Occupied, Sound, Slots, Places, Shape
<1>7. Shape(f) /\ Modal(f)
  BY <1>2, <1>3 DEF Freed, Sound, Shape, Modal, Around, SameSettings, SameHistory, SameCounts, SameService, SameAccounts
<1>8. Sound(f, F, O \union {h}, {})
  BY <1>2, <1>3, <1>6, <1>7, HandedSound DEF Freed
<1>9. Occupied(f) \subseteq Occupied(s) /\ f.pending = s.pending /\ Queued(f) = Queued(s)
  BY <1>2, SameQueues DEF Freed, Occupied, Around
<1>10. Sound(f, F, O \union {r}, {})
  BY <1>1, <1>4, <1>5, <1>8, <1>9, SlotPasses
<1>11. r \notin f.pending
  BY <1>4, <1>5, <1>9 DEF Occupied
<1>12. Sound(c, F, O \union {r}, {} \union {r})
  BY <1>1, <1>2, <1>10, <1>11, ChargedSound
<1>13. Sound(e, F, O \union {r}, {r})
  <2>1. {} \union {r} = {r}
    OBVIOUS
  <2> QED BY <1>2, <1>12, <2>1, AdvancedSound
<1>14. Queued(e) = Queued(f) /\ e.pending = f.pending /\ e.held = f.held
  BY <1>2, SameQueues DEF Charged, Advanced, SameHolders
<1>15. Sound(q, F, (O \union {r}) \ {r}, {r} \ {r})
  <2>1. r \in O \union {r} /\ r \in {r} /\ r \notin e.pending /\ r \notin Queued(e)
    BY <1>3, <1>9, <1>11, <1>14
  <2> QED BY <1>1, <1>2, <1>5, <1>13, <2>1, SentSound
<1>16. (O \union {r}) \ {r} = O /\ {r} \ {r} = {}
  BY <1>5
<1>17. Sound(q, F, O, {})
  BY <1>15, <1>16
<1>18. Queued(q) = Queued(e) /\ q.pending = e.pending /\ q.held = e.held
  BY <1>2, SameQueues DEF Sent
<1>19. f.held = s.held \ {h}
  BY <1>2 DEF Freed
<1> QED BY <1>3, <1>4, <1>9, <1>14, <1>17, <1>18, <1>19

\* A held slot's turn.
LEMMA RedeemedSound ==
  ASSUME NEW p, NEW q, NEW h, NEW F, NEW O, Redeemed(p, q, h), Sound(p, F, O, {}), h \in p.held,
         O \cap Queued(p) = {}
  PROVE  /\ Sound(q, F, O, {}) /\ Queued(q) \subseteq Queued(p) /\ p.held \ {h} \subseteq q.held
         /\ O \cap Queued(q) = {} /\ q.held \subseteq p.held
<1>1. CASE q = p
  BY <1>1
<1>2. ASSUME NEW D, NEW m, Pruned(p, m, D), q = m \/ \E r : TookOver(m, q, h, r)
      PROVE  /\ Sound(q, F, O, {}) /\ Queued(q) \subseteq Queued(p) /\ p.held \ {h} \subseteq q.held
             /\ O \cap Queued(q) = {} /\ q.held \subseteq p.held
  <2>1. D \cap p.pending = {}
    <3>1. p.held # {} => p.pending = {}
      BY DEF Sound, Modal, Shape
    <3> QED BY <3>1
  <2>2. Sound(m, F, O, {}) /\ Queued(m) = Queued(p) \ D /\ SameHolders(p, m)
    BY <1>2, <2>1, PrunedSound
  <2>3. m.held = p.held /\ O \cap Queued(m) = {}
    BY <2>2 DEF SameHolders
  <2>4. CASE q = m
    BY <2>2, <2>3, <2>4
  <2>5. ASSUME NEW r, TookOver(m, q, h, r)
        PROVE  Sound(q, F, O, {}) /\ Queued(q) = Queued(m) \ {r} /\ q.held = m.held \ {h}
    BY <2>2, <2>3, <2>5, TookOverSound
  <2>6. ASSUME NEW r, TookOver(m, q, h, r)
        PROVE  /\ Sound(q, F, O, {}) /\ Queued(q) \subseteq Queued(p) /\ p.held \ {h} \subseteq q.held
               /\ O \cap Queued(q) = {} /\ q.held \subseteq p.held
    BY <2>2, <2>3, <2>5, <2>6
  <2> QED BY <1>2, <2>4, <2>6
<1>3. q = p \/ \E D, m : Pruned(p, m, D) /\ (q = m \/ \E r : TookOver(m, q, h, r))
  BY Zenon DEF Redeemed
<1> QED BY <1>1, <1>2, <1>3

-----------------------------------------------------------------------------
(* The loops.                                                              *)

\* The pools after each number of turns.
AfterTurns(p) ==
  LET after[n \in 0..Cardinality(Requests)] ==
        IF n = 0 THEN {p} ELSE UNION {turn(q) : q \in after[n - 1]}
  IN  after

\* The equation that defines them.
TurnsBy(p, f) ==
  [n \in 0..Cardinality(Requests) |-> IF n = 0 THEN {p} ELSE UNION {turn(q) : q \in f[n - 1]}]

\* The recursive definition of turns has a solution.
LEMMA TurnsExist ==
  ASSUME NEW p
  PROVE  \E f : f = TurnsBy(p, f)
<1> DEFINE Step(Q) == UNION {turn(q) : q \in Q}
           Good(l) == \E f : f = [n \in 0..l |-> IF n = 0 THEN {p} ELSE Step(f[n - 1])]
           S == {l \in Nat : Good(l)}
<1> HIDE DEF Step
<1>1. Good(0)
  <2> DEFINE Z == [n \in 0..0 |-> {p}]
  <2>1. Z = [n \in 0..0 |-> IF n = 0 THEN {p} ELSE Step(Z[n - 1])]
    OBVIOUS
  <2> QED BY <2>1
<1>2. ASSUME NEW l \in Nat, Good(l) PROVE Good(l + 1)
  <2>1. PICK f : f = [n \in 0..l |-> IF n = 0 THEN {p} ELSE Step(f[n - 1])]
    BY <1>2
  <2> DEFINE g == [n \in 0..(l + 1) |-> IF n = l + 1 THEN Step(f[l]) ELSE f[n]]
  <2>2. \A n \in 0..(l + 1) : g[n] = IF n = 0 THEN {p} ELSE Step(g[n - 1])
    <3> TAKE n \in 0..(l + 1)
    <3>1. CASE n = l + 1
      <4>1. g[n] = Step(f[l]) /\ g[n - 1] = f[l] /\ n # 0
        BY <3>1
      <4> QED BY <4>1
    <3>2. CASE n = 0
      BY <3>2, <2>1
    <3>3. CASE n # l + 1 /\ n # 0
      <4>1. n \in 0..l /\ n - 1 \in 0..l
        BY <3>3
      <4>2. g[n] = f[n] /\ g[n - 1] = f[n - 1]
        BY <3>3, <4>1
      <4> QED BY <2>1, <3>3, <4>1, <4>2
    <3> QED BY <3>1, <3>2, <3>3
  <2>3. g = [n \in 0..(l + 1) |-> IF n = 0 THEN {p} ELSE Step(g[n - 1])]
    BY <2>2, Zenon
  <2> QED BY <2>3, Zenon
<1> HIDE DEF Good
<1>3. 0 \in S /\ \A l \in Nat : l \in S => l + 1 \in S
  BY <1>1, <1>2
<1>4. Cardinality(Requests) \in S
  <2>1. Cardinality(Requests) \in Nat
    BY ListsRequests
  <2> QED BY <1>3, <2>1, NatSetInduction
<1>5. Good(Cardinality(Requests))
  BY <1>4
<1> QED BY <1>5, Zenon DEF Good, Step, TurnsBy

\* One step of the dispatch loop.
LEMMA TurnsStep ==
  ASSUME NEW p, NEW c \in Nat, c = Cardinality(Requests)
  PROVE  /\ turns(p) = AfterTurns(p)[Cardinality(Queued(p))]
         /\ AfterTurns(p)[0] = {p}
         /\ \A n \in 1..c : AfterTurns(p)[n] = UNION {turn(q) : q \in AfterTurns(p)[n - 1]}
<1> DEFINE f == AfterTurns(p)
<1>0. turns(p) = f[Cardinality(Queued(p))]
  BY DEF turns, AfterTurns
<1>1. f = TurnsBy(p, f)
  <2>1. \E g : g = TurnsBy(p, g)
    BY TurnsExist
  <2> QED BY <2>1, Zenon DEF AfterTurns, TurnsBy
<1> HIDE DEF f
<1>2. \A n \in 0..c : f[n] = IF n = 0 THEN {p} ELSE UNION {turn(q) : q \in f[n - 1]}
  BY <1>1, Zenon DEF TurnsBy
<1>3. f[0] = {p}
  <2>1. 0 \in 0..c
    OBVIOUS
  <2> QED BY <1>2, <2>1, Zenon
<1>4. \A n \in 1..c : f[n] = UNION {turn(q) : q \in f[n - 1]}
  <2> TAKE n \in 1..c
  <2>1. n \in 0..c /\ n # 0
    OBVIOUS
  <2> QED BY <1>2, <2>1, Zenon
<1> QED BY <1>0, <1>3, <1>4 DEF f

\* The pools after each number of held slots looked at, with the slots left.
AfterRedeems(p) ==
  LET after[n \in 0..Cardinality(p.held)] ==
        IF n = 0 THEN {[p |-> p, left |-> p.held]}
        ELSE UNION {UNION {{[p |-> q, left |-> x.left \ {h}] : q \in redeem(x.p, h)} : h \in x.left} :
                      x \in after[n - 1]}
  IN  after

\* One more held slot.
RedeemStep(Q) ==
  UNION {UNION {{[p |-> q, left |-> x.left \ {h}] : q \in redeem(x.p, h)} : h \in x.left} : x \in Q}

\* The equation that defines them.
RedeemsBy(p, f) ==
  [n \in 0..Cardinality(p.held) |-> IF n = 0 THEN {[p |-> p, left |-> p.held]} ELSE RedeemStep(f[n - 1])]

\* The recursive definition of redeem_queued has a solution.
LEMMA RedeemsExist ==
  ASSUME NEW p, Cardinality(p.held) \in Nat
  PROVE  \E f : f = RedeemsBy(p, f)
<1> DEFINE A == {[p |-> p, left |-> p.held]}
           Good(l) == \E f : f = [n \in 0..l |-> IF n = 0 THEN A ELSE RedeemStep(f[n - 1])]
           S == {l \in Nat : Good(l)}
<1> HIDE DEF A
<1>1. Good(0)
  <2> DEFINE Z == [n \in 0..0 |-> A]
  <2>1. Z = [n \in 0..0 |-> IF n = 0 THEN A ELSE RedeemStep(Z[n - 1])]
    OBVIOUS
  <2> QED BY <2>1
<1>2. ASSUME NEW l \in Nat, Good(l) PROVE Good(l + 1)
  <2>1. PICK f : f = [n \in 0..l |-> IF n = 0 THEN A ELSE RedeemStep(f[n - 1])]
    BY <1>2
  <2> DEFINE g == [n \in 0..(l + 1) |-> IF n = l + 1 THEN RedeemStep(f[l]) ELSE f[n]]
  <2>2. \A n \in 0..(l + 1) : g[n] = IF n = 0 THEN A ELSE RedeemStep(g[n - 1])
    <3> TAKE n \in 0..(l + 1)
    <3>1. CASE n = l + 1
      <4>1. g[n] = RedeemStep(f[l]) /\ g[n - 1] = f[l] /\ n # 0
        BY <3>1
      <4> QED BY <4>1
    <3>2. CASE n = 0
      BY <3>2, <2>1
    <3>3. CASE n # l + 1 /\ n # 0
      <4>1. n \in 0..l /\ n - 1 \in 0..l
        BY <3>3
      <4>2. g[n] = f[n] /\ g[n - 1] = f[n - 1]
        BY <3>3, <4>1
      <4> QED BY <2>1, <3>3, <4>1, <4>2
    <3> QED BY <3>1, <3>2, <3>3
  <2>3. g = [n \in 0..(l + 1) |-> IF n = 0 THEN A ELSE RedeemStep(g[n - 1])]
    BY <2>2, Zenon
  <2> QED BY <2>3, Zenon
<1> HIDE DEF Good
<1>3. 0 \in S /\ \A l \in Nat : l \in S => l + 1 \in S
  BY <1>1, <1>2
<1>4. Cardinality(p.held) \in S
  BY <1>3, NatSetInduction
<1>5. Good(Cardinality(p.held))
  BY <1>4
<1> QED BY <1>5, Zenon DEF Good, A, RedeemsBy

\* One step of redeem_queued.
LEMMA RedeemsStep ==
  ASSUME NEW p, NEW c \in Nat, c = Cardinality(p.held)
  PROVE  /\ redeem_queued(p) = {x.p : x \in AfterRedeems(p)[c]}
         /\ AfterRedeems(p)[0] = {[p |-> p, left |-> p.held]}
         /\ \A n \in 1..c : AfterRedeems(p)[n] = RedeemStep(AfterRedeems(p)[n - 1])
<1> DEFINE f == AfterRedeems(p)
<1>0. redeem_queued(p) = {x.p : x \in f[c]}
  BY DEF redeem_queued, AfterRedeems
<1>1. f = RedeemsBy(p, f)
  <2>1. \E g : g = RedeemsBy(p, g)
    BY RedeemsExist
  <2> QED BY <2>1, Zenon DEF AfterRedeems, RedeemsBy, RedeemStep
<1> HIDE DEF f
<1>2. \A n \in 0..c : f[n] = IF n = 0 THEN {[p |-> p, left |-> p.held]} ELSE RedeemStep(f[n - 1])
  BY <1>1, Zenon DEF RedeemsBy
<1>3. f[0] = {[p |-> p, left |-> p.held]}
  BY <1>2
<1>4. \A n \in 1..c : f[n] = RedeemStep(f[n - 1])
  <2> TAKE n \in 1..c
  <2>1. n \in 0..c /\ n # 0
    OBVIOUS
  <2> QED BY <1>2, <2>1, Zenon
<1> QED BY <1>0, <1>3, <1>4 DEF f

-----------------------------------------------------------------------------
(* Virtual time, while no claim was refused.                               *)

\* Who waits is not behind virtual time, and nobody was forgotten ahead of it or
\* placed before where they left.
Times(p) ==
  ~p.refused =>
    /\ \A r \in Queued(p) : p.served[TenantOf(r)] >= p.virtual_time
    /\ \A t \in Tenants : p.left[t] <= p.virtual_time
    /\ \A t \in Tenants : p.served[t] # None => p.served[t] >= p.left[t]

\* Steps that leave the service accounts alone.
LEMMA TimesKept ==
  ASSUME NEW p, NEW q, q.refused = p.refused, SameService(p, q), Queued(q) \subseteq Queued(p), Times(p)
  PROVE  Times(q)
BY DEF Times, SameService, SameAccounts

\* A charge.
LEMMA ChargedTimes ==
  ASSUME NEW p, NEW q, NEW r \in Requests, Charged(p, q, r), Shape(p), Times(p)
  PROVE  Times(q)
<1> SUFFICES ASSUME ~p.refused PROVE Times(q)
  BY DEF Times, Charged, SameSettings
<1>1. PICK t \in Tenants : t = TenantOf(r)
  BY Belongs
<1>2. PICK c \in Nat : c = Req[r].cost
  BY Belongs
<1>3. PICK a \in [Tenants -> Int] : a = p.served
  BY DEF Shape
<1>4. PICK l \in [Tenants -> Int] : l = p.left
  BY DEF Shape
<1>5. PICK v \in Int : v = p.virtual_time
  BY DEF Shape
<1>6. q.served = [a EXCEPT ![t] = (IF a[t] = None THEN v ELSE a[t]) + c]
  BY <1>1, <1>2, <1>3, <1>5 DEF Charged
<1>7. q.left = l /\ q.virtual_time = v /\ Queued(q) = Queued(p) /\ Queued(p) \subseteq Requests
  BY <1>4, <1>5, SameQueues, QueuedIs, ZenonT(60) DEF Charged, Shape
<1>8. /\ \A x \in Queued(p) : a[TenantOf(x)] >= v
      /\ \A x \in Tenants : l[x] <= v
      /\ \A x \in Tenants : a[x] # None => a[x] >= l[x]
  BY <1>3, <1>4, <1>5 DEF Times
<1>9. \A x \in Tenants : q.served[x] = IF x = t THEN (IF a[t] = None THEN v ELSE a[t]) + c ELSE a[x]
  BY <1>6
<1>10. \A x \in Tenants : a[x] \in Int /\ l[x] \in Int
  OBVIOUS
<1>11. \A x \in Tenants : q.served[x] # None => q.served[x] >= l[x]
  <2> TAKE x \in Tenants
  <2>1. CASE x # t
    BY <1>8, <1>9, <2>1
  <2>2. CASE x = t
    <3>1. PICK m \in Int, n \in Int : m = a[t] /\ n = l[t]
      BY <1>10
    <3>2. n <= v /\ (m # None => m >= n) /\ q.served[x] = (IF m = None THEN v ELSE m) + c
      BY <1>8, <1>9, <2>2, <3>1
    <3> QED BY <2>2, <3>1, <3>2
  <2> QED BY <2>1, <2>2
<1>12. \A x \in Queued(p) : q.served[TenantOf(x)] >= v
  <2> TAKE x \in Queued(p)
  <2>1. PICK y \in Tenants : y = TenantOf(x)
    BY <1>7, Belongs
  <2>2. PICK m \in Int : m = a[y]
    BY <1>10
  <2>3. m >= v /\ q.served[y] = IF y = t THEN (IF m = None THEN v ELSE m) + c ELSE m
    BY <1>8, <1>9, <2>1, <2>2
  <2> QED BY <2>1, <2>2, <2>3
<1> QED BY <1>7, <1>8, <1>11, <1>12 DEF Times

\* Virtual time never goes back.
LEMMA AdvancedTimes ==
  ASSUME NEW p, NEW q, NEW F, NEW O, NEW C, Advanced(p, q), Sound(p, F, O, C), Times(p)
  PROVE  Times(q)
<1> SUFFICES ASSUME ~p.refused PROVE Times(q)
  BY DEF Times, Advanced, SameSettings
<1> DEFINE W == {p.served[t] : t \in {t \in Tenants : tenant_queued(p, t) /\ p.served[t] # None}}
<1>1. W \subseteq Nat
  <2>1. \A t \in Tenants : p.served[t] \in Int /\ p.served[t] >= None
    BY DEF Sound, Shape, Accounts, TenantAccount
  <2>2. \A t \in Tenants : p.served[t] # None => p.served[t] \in Nat
    BY <2>1 DEF None
  <2> QED BY <2>2
<1>2. q.virtual_time = IF W = {} THEN p.virtual_time ELSE Min(W)
  BY DEF Advanced
<1>3. \A x \in Queued(p) : p.served[TenantOf(x)] \in W
  <2> TAKE x \in Queued(p)
  <2>1. x \in Requests
    BY QueuedIs DEF Sound, Shape
  <2>2. TenantOf(x) \in Tenants
    BY <2>1, Belongs
  <2>3. tenant_queued(p, TenantOf(x))
    BY <2>2, TenantQueuedIs DEF Sound, Shape, Places
  <2> QED BY <2>2, <2>3 DEF Sound, Accounts
<1>4. \A w \in W : w >= p.virtual_time
  <2>1. ASSUME NEW t \in Tenants, tenant_queued(p, t) PROVE p.served[t] >= p.virtual_time
    <3>1. PICK x \in Queued(p) : TenantOf(x) = t
      BY <2>1, TenantQueuedIs DEF Sound, Shape, Places
    <3> QED BY <3>1 DEF Times
  <2> QED BY <2>1
<1> HIDE DEF W
<1>5. PICK v \in Nat : v = p.virtual_time
  BY DEF Sound, Shape, Accounts
<1>6. PICK n \in Nat : n = q.virtual_time
  BY <1>1, <1>2, <1>5, HasMin
<1>7. n >= v /\ \A w \in W : w >= n
  <2>1. CASE W = {}
    BY <1>2, <1>5, <1>6, <2>1
  <2>2. CASE W # {}
    <3>1. n = Min(W) /\ Min(W) \in W /\ \A w \in W : Min(W) <= w
      BY <1>1, <1>2, <1>6, <2>2, HasMin
    <3> QED BY <1>1, <1>4, <1>5, <3>1
  <2> QED BY <2>1, <2>2
<1>8. Queued(q) = Queued(p) /\ q.served = p.served /\ q.left = p.left
  BY SameQueues DEF Advanced, SameAccounts
<1>9. \A t \in Tenants : p.left[t] <= n
  <2> TAKE t \in Tenants
  <2>1. PICK l \in Int : l = p.left[t]
    BY DEF Sound, Shape
  <2>2. l <= v
    BY <1>5, <2>1 DEF Times
  <2> QED BY <1>7, <2>1, <2>2
<1>10. \A x \in Queued(p) : p.served[TenantOf(x)] >= n
  BY <1>3, <1>7
<1>11. \A t \in Tenants : p.served[t] # None => p.served[t] >= p.left[t]
  BY DEF Times
<1> QED BY <1>6, <1>8, <1>9, <1>10, <1>11 DEF Times

\* Whoever is forgotten was at or below virtual time.
LEMMA QuietedTimes ==
  ASSUME NEW p, NEW q, NEW F, NEW O, Quieted(p, q), Sound(p, F, O, {}), Times(p)
  PROVE  Times(q)
<1> SUFFICES ASSUME ~p.refused PROVE Times(q)
  BY DEF Times, Quieted, Forgot, SameSettings
<1>1. PICK keys, tenants : Quiet(p, keys, tenants) /\ Forgot(p, q, keys, tenants)
  BY DEF Quieted
<1>2. Queued(q) = Queued(p) /\ q.virtual_time = p.virtual_time /\ Queued(p) \subseteq Requests
  BY <1>1, SameQueues, QueuedIs DEF Forgot, Sound, Shape
<1>3. \A t \in Tenants : q.served[t] = IF t \in tenants THEN None ELSE p.served[t]
  BY <1>1 DEF Forgot
<1>4. \A t \in Tenants : q.left[t] = IF t \in tenants THEN Max({p.left[t], p.served[t]}) ELSE p.left[t]
  BY <1>1 DEF Forgot
<1>5. \A t \in Tenants : q.left[t] <= p.virtual_time
  <2> TAKE t \in Tenants
  <2>1. PICK l \in Int, s \in Int, v \in Int : l = p.left[t] /\ s = p.served[t] /\ v = p.virtual_time
    BY DEF Sound, Shape
  <2>2. l <= v /\ (t \in tenants => s <= v)
    BY <1>1, <2>1 DEF Times, Quiet
  <2>3. Max({l, s}) = IF l >= s THEN l ELSE s
    BY MaxPair
  <2> QED BY <1>4, <2>1, <2>2, <2>3
<1>6. \A t \in Tenants : q.served[t] # None => q.served[t] >= q.left[t]
  BY <1>3, <1>4 DEF Times
<1>7. \A x \in Queued(p) : TenantOf(x) \in Tenants /\ TenantOf(x) \notin tenants
  <2> TAKE x \in Queued(p)
  <2>1. TenantOf(x) \in Tenants
    BY <1>2, Belongs
  <2>2. tenant_queued(p, TenantOf(x))
    BY <2>1, TenantQueuedIs DEF Sound, Shape, Places
  <2> QED BY <1>1, <2>1, <2>2 DEF Quiet, is_active
<1>8. \A x \in Queued(p) : q.served[TenantOf(x)] >= p.virtual_time
  BY <1>3, <1>7 DEF Times
<1> QED BY <1>2, <1>5, <1>6, <1>8 DEF Times

\* An idle pool starts anew.
LEMMA SettledTimes ==
  ASSUME NEW p, NEW q, Settled(p, q), Times(p)
  PROVE  Times(q)
<1>1. CASE p.in_flight > 0 \/ Queued(p) # {}
  BY <1>1 DEF Settled
<1>2. CASE ~(p.in_flight > 0 \/ Queued(p) # {})
  <2>1. Reset(p, q)
    BY <1>2 DEF Settled
  <2>2. Queued(q) = {}
    BY <1>2, <2>1, SameQueues DEF Reset
  <2> QED BY <2>1, <2>2 DEF Reset, Times
<1> QED BY <1>1, <1>2

\* Who joins is placed at virtual time at the earliest.
LEMMA QueuesTimes ==
  ASSUME NEW p, NEW q, NEW r \in Requests, NEW F, NEW O, Queues(p, q, r), Sound(p, F, O, {}), Times(p),
         Queued(q) = Queued(p) \union {r}
  PROVE  Times(q)
<1> SUFFICES ASSUME ~p.refused PROVE Times(q)
  BY DEF Times, Queues, SameSettings
<1>1. PICK t \in Tenants : t = TenantOf(r)
  BY Belongs
<1>2. PICK a \in [Tenants -> Int] : a = p.served
  BY DEF Sound, Shape
<1>3. PICK l \in [Tenants -> Int] : l = p.left
  BY DEF Sound, Shape
<1>4. PICK v \in Int : v = p.virtual_time
  BY DEF Sound, Shape
<1>5. Max({v, a[t]}) = IF v >= a[t] THEN v ELSE a[t]
  BY MaxPair
<1>6. PICK now \in Int : now = IF tenant_queued(p, t) THEN a[t] ELSE IF v >= a[t] THEN v ELSE a[t]
  OBVIOUS
<1>7. q.served = [a EXCEPT ![t] = now] /\ q.left = l /\ q.virtual_time = v
  BY <1>1, <1>2, <1>3, <1>4, <1>5, <1>6, Zenon DEF Queues
<1>8. /\ \A x \in Queued(p) : a[TenantOf(x)] >= v
      /\ \A x \in Tenants : l[x] <= v
      /\ \A x \in Tenants : a[x] # None => a[x] >= l[x]
  BY <1>2, <1>3, <1>4 DEF Times
<1>9. tenant_queued(p, t) => a[t] >= v
  <2>1. tenant_queued(p, t) => \E x \in Queued(p) : TenantOf(x) = t
    BY TenantQueuedIs DEF Sound, Shape, Places
  <2> QED BY <1>8, <2>1
<1>10. now >= v
  BY <1>6, <1>9
<1>11. \A x \in Tenants : q.served[x] = IF x = t THEN now ELSE a[x]
  BY <1>7
<1>12. \A x \in Tenants : q.served[x] # None => q.served[x] >= l[x]
  <2> TAKE x \in Tenants
  <2>1. CASE x # t
    BY <1>8, <1>11, <2>1
  <2>2. CASE x = t
    <3>1. PICK n \in Int : n = l[t]
      OBVIOUS
    <3>2. n <= v /\ q.served[x] = now
      BY <1>8, <1>11, <2>2, <3>1
    <3> QED BY <1>10, <2>2, <3>1, <3>2
  <2> QED BY <2>1, <2>2
<1>13. \A x \in Queued(q) : q.served[TenantOf(x)] >= v
  <2> TAKE x \in Queued(q)
  <2>1. x \in Requests
    BY QueuedIs DEF Sound, Shape
  <2>2. PICK y \in Tenants : y = TenantOf(x)
    BY <2>1, Belongs
  <2>3. CASE y = t
    BY <1>10, <1>11, <2>2, <2>3
  <2>4. CASE y # t
    <3>1. x \in Queued(p)
      BY <1>1, <2>2, <2>4
    <3> QED BY <1>8, <1>11, <2>2, <2>4, <3>1
  <2> QED BY <2>3, <2>4
<1> QED BY <1>7, <1>8, <1>12, <1>13 DEF Times

-----------------------------------------------------------------------------
(* How often a waiter is passed, while no claim was refused; G are the     *)
(* requests whose caller is gone.                                          *)

\* The largest max_jumps ever set.
MostJumps == Max(Affinities)

\* How often a request may be passed, the claims that jumped it included.
Bound(p) == MostJumps + (IF p.mode = "shared" THEN MaxPending - 1 ELSE 0)

\* Claims out that go ahead of x: their grants will pass it.
Jumping(p, x) == {y \in p.pending \cap p.jumped : KeyOf(y) = KeyOf(x) /\ p.arrived[y] > p.arrived[x]}

\* Nobody was passed more often than who came before, and nobody has been or will
\* be passed by the claims out more often than the bound says.
Passes(p, G) ==
  ~p.refused =>
    /\ \A x, y \in Queued(p) :
         KeyOf(x) = KeyOf(y) /\ p.arrived[x] < p.arrived[y] => p.passed[y] <= p.passed[x]
    /\ \A x \in Queued(p) \ G : p.passed[x] + Cardinality(Jumping(p, x)) <= Bound(p)

\* The largest setting.
LEMMA MostJumpsIs ==
  ASSUME NEW p, Shape(p)
  PROVE  MostJumps \in Nat /\ p.max_jumps \in Nat /\ p.max_jumps <= MostJumps /\ Bound(p) \in Nat
<1>1. IsFiniteSet(Affinities) /\ Affinities \subseteq Nat /\ MaxPending \in Nat \ {0}
  BY PoolAssumption DEF PoolAssumption
<1>2. p.max_jumps \in Affinities
  BY DEF Shape
<1>3. Max(Affinities) \in Affinities /\ \A y \in Affinities : y <= Max(Affinities)
  <2>1. Affinities # {} /\ Affinities \subseteq Int
    BY <1>1, <1>2
  <2> QED BY <1>1, <2>1, HasMax
<1>4. PICK m \in Nat : m = MostJumps
  BY <1>1, <1>3 DEF MostJumps
<1>5. p.max_jumps \in Nat /\ p.max_jumps <= m
  BY <1>1, <1>2, <1>3, <1>4 DEF MostJumps
<1>6. Bound(p) \in Nat
  BY <1>1, <1>4 DEF Bound
<1> QED BY <1>4, <1>5, <1>6

\* Claims are finite sets of requests.
LEMMA JumpingIs ==
  ASSUME NEW p, p.pending \subseteq Requests, NEW x
  PROVE  /\ IsFiniteSet(Jumping(p, x)) /\ Jumping(p, x) \subseteq p.pending
         /\ Cardinality(Jumping(p, x)) \in Nat /\ Cardinality(Jumping(p, x)) <= Cardinality(p.pending)
         /\ IsFiniteSet(p.pending) /\ Cardinality(p.pending) \in Nat
<1>1. Jumping(p, x) \subseteq p.pending
  BY DEF Jumping
<1>2. IsFiniteSet(p.pending)
  BY RequestSet
<1> QED BY <1>1, <1>2, FS_Subset, FS_CardinalityType

\* Fewer claims, fewer that jump.
LEMMA FewerJump ==
  ASSUME NEW p, NEW q, p.pending \subseteq Requests, NEW x, Jumping(q, x) \subseteq Jumping(p, x)
  PROVE  Cardinality(Jumping(q, x)) \in Nat /\ Cardinality(Jumping(q, x)) <= Cardinality(Jumping(p, x))
<1>1. IsFiniteSet(Jumping(p, x))
  BY JumpingIs
<1> QED BY <1>1, FS_Subset, FS_CardinalityType

\* Steps that pass nobody and send no claim out.
Unpassed(p, q) ==
  /\ q.refused = p.refused /\ q.mode = p.mode
  /\ Queued(q) \subseteq Queued(p)
  /\ \A x \in Waiters(q) : q.arrived[x] = p.arrived[x]
  /\ \A x \in Queued(q) : q.passed[x] = p.passed[x]
  /\ q.pending \cap q.jumped \subseteq p.pending \cap p.jumped

\* Steps that pass nobody.
LEMMA PassesKept ==
  ASSUME NEW p, NEW q, NEW G, Unpassed(p, q), Shape(p), Passes(p, G)
  PROVE  Passes(q, G)
<1> SUFFICES ASSUME ~p.refused PROVE Passes(q, G)
  BY DEF Passes, Unpassed
<1>1. \A x \in Queued(q) : q.arrived[x] = p.arrived[x] /\ q.passed[x] = p.passed[x] /\ x \in Queued(p)
  BY DEF Unpassed, Waiters
<1>2. \A x, y \in Queued(q) :
         KeyOf(x) = KeyOf(y) /\ q.arrived[x] < q.arrived[y] => q.passed[y] <= q.passed[x]
  BY <1>1 DEF Passes
<1>3. \A x \in Queued(q) \ G : q.passed[x] + Cardinality(Jumping(q, x)) <= Bound(q)
  <2> TAKE x \in Queued(q) \ G
  <2>1. Jumping(q, x) \subseteq Jumping(p, x)
    BY DEF Unpassed, Waiters, Jumping
  <2>2. p.pending \subseteq Requests /\ x \in Requests
    BY <1>1, QueuedIs DEF Shape
  <2>3. PICK m \in Nat, n \in Nat : m = Cardinality(Jumping(q, x)) /\ n = Cardinality(Jumping(p, x)) /\ m <= n
    BY <2>1, <2>2, FewerJump, JumpingIs
  <2>4. PICK a \in Nat, b \in Nat : a = p.passed[x] /\ b = Bound(p)
    BY <2>2, MostJumpsIs DEF Shape
  <2>5. a + n <= b
    BY <1>1, <2>3, <2>4 DEF Passes
  <2>6. Bound(q) = b /\ q.passed[x] = a
    BY <1>1, <2>4 DEF Unpassed, Bound
  <2> QED BY <2>3, <2>4, <2>5, <2>6
<1> QED BY <1>2, <1>3 DEF Passes

\* A permit given ahead of others passes only who may be passed.
Slack(p, r, G) ==
  affinity_on(p) => \A x \in Queued(p) \ G :
    x \in Earlier(p, r) => p.passed[x] + Cardinality(Jumping(p, x)) + 1 <= Bound(p)

\* No live request of r's key is passed out.
Passable(p, r, G) ==
  affinity_on(p) => \A x \in Queued(p) \ G : KeyOf(x) = KeyOf(r) => p.passed[x] < MostJumps

\* Without claims, that is enough for a grant that jumps.
LEMMA SlackLocal ==
  ASSUME NEW p, NEW r \in Requests, NEW G, Shape(p), p.pending = {}, NEW F, Places(p, F), Passable(p, r, G)
  PROVE  Slack(p, r, G)
<1> SUFFICES ASSUME affinity_on(p), NEW x \in Queued(p) \ G, x \in Earlier(p, r)
             PROVE  p.passed[x] + Cardinality(Jumping(p, x)) + 1 <= Bound(p)
  BY DEF Slack
<1>1. Cardinality(Jumping(p, x)) = 0
  <2>1. Jumping(p, x) = {}
    BY DEF Jumping
  <2> QED BY <2>1, FS_EmptySet
<1>2. x \in Requests
  BY QueuedIs DEF Shape
<1>3. KeyOf(x) = KeyOf(r)
  <2>1. x \in ToSet(p.queues[KeyOf(x)]) /\ KeyOf(x) \in Keys
    BY <1>2, Belongs, TenantQueuedIs DEF Shape, Places
  <2>2. PICK i \in DOMAIN p.queues[KeyOf(r)] : p.queues[KeyOf(r)][i] = x
    BY DEF Earlier, ToSet
  <2>3. KeyOf(r) \in Keys
    BY Belongs
  <2> QED BY <2>2, <2>3 DEF Places
<1>4. PICK a \in Nat, m \in Nat : a = p.passed[x] /\ m = MostJumps
  BY <1>2, MostJumpsIs DEF Shape
<1>5. a < m
  BY <1>3, <1>4 DEF Passable
<1>6. Bound(p) >= m /\ Bound(p) \in Nat
  <2>1. MaxPending \in Nat \ {0}
    BY PoolAssumption DEF PoolAssumption
  <2> QED BY <1>4, <2>1 DEF Bound
<1> QED BY <1>1, <1>4, <1>5, <1>6

\* A permit.
LEMMA SentPasses ==
  ASSUME NEW p, NEW q, NEW r \in Requests, NEW ahead, NEW F, NEW G, Sent(p, q, r, ahead),
         Shape(p), Places(p, F), Passes(p, G), r \notin Waiters(p), ahead /\ ~p.refused => Slack(p, r, G)
  PROVE  Passes(q, G)
<1> SUFFICES ASSUME ~p.refused PROVE Passes(q, G)
  BY DEF Passes, Sent, SameSettings
<1>1. PICK E : E = Earlier(p, r)
  OBVIOUS
<1>2. PICK on \in BOOLEAN : on <=> (affinity_on(p) /\ ahead)
  OBVIOUS
<1>3. Queued(q) = Queued(p) /\ q.pending = p.pending /\ q.jumped = p.jumped /\ q.mode = p.mode
  BY SameQueues DEF Sent, SameSettings
<1>4. Queued(p) \subseteq Requests /\ p.pending \subseteq Requests
  BY QueuedIs DEF Shape
<1>5. PICK v \in [Requests -> Nat], w \in [Requests -> Nat] : v = p.arrived /\ w = p.passed
  BY DEF Shape
<1>6. \A x \in Waiters(p) : q.arrived[x] = v[x]
  BY <1>4, <1>5 DEF Sent, Waiters
<1>7. \A x \in Queued(p) : q.passed[x] = IF on /\ x \in E THEN w[x] + 1 ELSE w[x]
  <2> TAKE x \in Queued(p)
  <2>1. x \in Requests /\ x # r
    BY <1>4 DEF Waiters
  <2> QED BY <1>1, <1>2, <1>5, <2>1 DEF Sent
<1>8. \A x \in Queued(p) : Jumping(q, x) = Jumping(p, x)
  BY <1>3, <1>5, <1>6 DEF Jumping, Waiters
<1>9. \A x, y \in Queued(q) :
         KeyOf(x) = KeyOf(y) /\ q.arrived[x] < q.arrived[y] => q.passed[y] <= q.passed[x]
  <2> SUFFICES ASSUME NEW x \in Queued(p), NEW y \in Queued(p), KeyOf(x) = KeyOf(y), v[x] < v[y]
               PROVE  q.passed[y] <= q.passed[x]
    BY <1>3, <1>6 DEF Waiters
  <2>1. w[y] <= w[x] /\ w[x] \in Nat /\ w[y] \in Nat
    BY <1>4, <1>5 DEF Passes
  <2>2. y \in E => x \in E
    <3>1. x \in Requests /\ y \in Requests
      BY <1>4
    <3>2. KeyOf(x) \in Keys /\ KeyOf(r) \in Keys /\ x \in ToSet(p.queues[KeyOf(x)])
      BY <3>1, Belongs, TenantQueuedIs DEF Shape, Places
    <3>3. y \in E => KeyOf(y) = KeyOf(r)
      BY <1>1, <3>2 DEF Earlier, ToSet, Places
    <3>4. v[x] \in Nat /\ v[y] \in Nat /\ v[r] \in Nat
      BY <3>1
    <3> QED BY <1>1, <1>5, <3>2, <3>3, <3>4 DEF Earlier
  <2> QED BY <1>7, <2>1, <2>2
<1>10. \A x \in Queued(q) \ G : q.passed[x] + Cardinality(Jumping(q, x)) <= Bound(q)
  <2> SUFFICES ASSUME NEW x \in Queued(p) \ G PROVE q.passed[x] + Cardinality(Jumping(p, x)) <= Bound(p)
    BY <1>3, <1>8 DEF Bound
  <2>1. PICK a \in Nat, n \in Nat, b \in Nat : a = w[x] /\ n = Cardinality(Jumping(p, x)) /\ b = Bound(p)
    BY <1>4, <1>5, JumpingIs, MostJumpsIs
  <2>2. a + n <= b
    BY <1>5, <2>1 DEF Passes
  <2>3. on /\ x \in E => a + n + 1 <= b
    BY <1>1, <1>2, <1>5, <2>1 DEF Slack
  <2> QED BY <1>7, <2>1, <2>2, <2>3
<1> QED BY <1>9, <1>10 DEF Passes

\* A claim goes out: it jumps only ahead of who may be passed, and the claims out
\* are no more than may be.
LEMMA ClaimedPasses ==
  ASSUME NEW p, NEW q, NEW r \in Requests, NEW G, Claimed(p, q, r), Shape(p), Passes(p, G),
         p.mode = "shared", Cardinality(p.pending) < MaxPending, r \notin p.pending,
         r \in p.jumped => affinity_on(p) /\ Passable(p, r, G)
  PROVE  Passes(q, G)
<1> SUFFICES ASSUME ~p.refused PROVE Passes(q, G)
  BY DEF Passes, Claimed, SameSettings
<1>1. /\ Queued(q) = Queued(p) /\ q.pending = p.pending \union {r} /\ q.jumped = p.jumped /\ q.mode = p.mode
      /\ q.arrived = p.arrived /\ q.passed = p.passed
  BY SameQueues DEF Claimed, SameSettings, Around
<1>2. Queued(p) \subseteq Requests /\ p.pending \subseteq Requests
  BY QueuedIs DEF Shape
<1>3. \A x, y \in Queued(q) :
         KeyOf(x) = KeyOf(y) /\ q.arrived[x] < q.arrived[y] => q.passed[y] <= q.passed[x]
  BY <1>1 DEF Passes
<1>4. \A x \in Queued(q) \ G : q.passed[x] + Cardinality(Jumping(q, x)) <= Bound(q)
  <2> SUFFICES ASSUME NEW x \in Queued(p) \ G PROVE p.passed[x] + Cardinality(Jumping(q, x)) <= Bound(p)
    BY <1>1 DEF Bound
  <2>1. PICK a \in Nat, n \in Nat, b \in Nat, m \in Nat :
          a = p.passed[x] /\ n = Cardinality(Jumping(p, x)) /\ b = Bound(p) /\ m = MostJumps
    BY <1>2, JumpingIs, MostJumpsIs DEF Shape
  <2>2. a + n <= b
    BY <2>1 DEF Passes
  <2>3. CASE r \in p.jumped /\ KeyOf(x) = KeyOf(r)
    <3>1. a < m
      BY <2>1, <2>3 DEF Passable
    <3>2. PICK c \in Nat : c = MaxPending /\ b = m + (c - 1)
      BY <2>1, PoolAssumption DEF PoolAssumption, Bound
    <3>3. q.pending \subseteq Requests
      BY <1>1, <1>2
    <3>4. PICK d \in Nat, l \in Nat : d = Cardinality(q.pending) /\ l = Cardinality(Jumping(q, x)) /\ l <= d
      BY <3>3, JumpingIs
    <3>5. d <= c
      <4>1. Cardinality(q.pending) = Cardinality(p.pending) + 1
        BY <1>1, <1>2, CountAdd
      <4>2. Cardinality(p.pending) \in Nat
        BY <1>2, JumpingIs
      <4> QED BY <3>2, <3>4, <4>1, <4>2
    <3> QED BY <2>1, <3>1, <3>2, <3>4, <3>5
  <2>4. CASE ~(r \in p.jumped /\ KeyOf(x) = KeyOf(r))
    <3>1. Jumping(q, x) = Jumping(p, x)
      BY <1>1, <2>4 DEF Jumping
    <3> QED BY <2>1, <2>2, <3>1
  <2> QED BY <2>3, <2>4
<1> QED BY <1>3, <1>4 DEF Passes

\* A newcomer is last and was never passed.
LEMMA QueuesPasses ==
  ASSUME NEW p, NEW q, NEW r \in Requests, NEW F, NEW G, Queues(p, q, r), Sound(p, F, {}, {}), r \in F,
         Queued(q) = Queued(p) \union {r}, Passes(p, G)
  PROVE  Passes(q, G)
<1> SUFFICES ASSUME ~p.refused PROVE Passes(q, G)
  BY DEF Passes, Queues, SameSettings
<1>1. q.pending = p.pending /\ q.jumped = p.jumped /\ q.mode = p.mode /\ q.passed = p.passed
  BY DEF Queues, SameSettings, SameHolders
<1>2. Queued(p) \subseteq Requests /\ p.pending \subseteq Requests /\ r \notin Waiters(p)
  BY QueuedIs DEF Sound, Shape, Places, Waiters, Occupied
<1>3. PICK v \in [Requests -> Nat] : v = p.arrived
  BY DEF Sound, Shape
<1>4. PICK n \in Nat : n = 1 + Max({v[x] : x \in Requests}) /\ \A x \in Requests : v[x] < n
  <2> DEFINE S == {v[x] : x \in Requests}
  <2>1. IsFiniteSet(S) /\ S \subseteq Nat /\ S # {}
    BY FiniteValues
  <2>2. \A x \in Requests : v[x] \in S
    OBVIOUS
  <2> HIDE DEF S
  <2>3. Max(S) \in S /\ \A y \in S : y <= Max(S)
    <3>1. S \subseteq Int
      BY <2>1
    <3> QED BY <2>1, <3>1, HasMax
  <2>4. PICK m \in Nat : m = Max(S) /\ \A x \in Requests : v[x] <= m
    BY <2>1, <2>2, <2>3
  <2>5. 1 + m \in Nat /\ \A x \in Requests : v[x] < 1 + m
    BY <2>4
  <2> QED BY <2>4, <2>5 DEF S
<1>5. q.arrived = [v EXCEPT ![r] = n]
  BY <1>3, <1>4 DEF Queues
<1>6. q.arrived[r] = n /\ \A x \in Requests : x # r => q.arrived[x] = v[x]
  BY <1>5
<1>7. p.passed[r] = 0 /\ \A x \in Requests : p.passed[x] \in Nat
  BY DEF Sound, Shape, Marks
<1>8. \A x \in Queued(p) : Jumping(q, x) = Jumping(p, x)
  BY <1>1, <1>2, <1>3, <1>6 DEF Jumping, Waiters
<1>9. Cardinality(Jumping(q, r)) = 0
  <2>1. \A y \in p.pending : q.arrived[y] < n /\ q.arrived[y] \in Nat
    BY <1>2, <1>4, <1>6 DEF Waiters
  <2>2. Jumping(q, r) = {}
    BY <1>1, <1>6, <2>1 DEF Jumping
  <2> QED BY <2>2, FS_EmptySet
<1>10. \A x, y \in Queued(q) :
         KeyOf(x) = KeyOf(y) /\ q.arrived[x] < q.arrived[y] => q.passed[y] <= q.passed[x]
  <2> SUFFICES ASSUME NEW x \in Queued(q), NEW y \in Queued(q), KeyOf(x) = KeyOf(y), q.arrived[x] < q.arrived[y]
               PROVE  p.passed[y] <= p.passed[x]
    BY <1>1
  <2>1. x \in Requests /\ y \in Requests
    BY <1>2
  <2>2. CASE y = r
    BY <1>7, <2>1, <2>2
  <2>3. CASE y # r /\ x = r
    <3>1. q.arrived[y] < n /\ q.arrived[y] \in Nat /\ q.arrived[x] = n
      BY <1>4, <1>6, <2>1, <2>3
    <3> QED BY <3>1
  <2>4. CASE y # r /\ x # r
    BY <1>3, <1>6, <2>1, <2>4 DEF Passes
  <2> QED BY <2>2, <2>3, <2>4
<1>11. \A x \in Queued(q) \ G : q.passed[x] + Cardinality(Jumping(q, x)) <= Bound(q)
  <2> TAKE x \in Queued(q) \ G
  <2>0. Bound(q) = Bound(p) /\ Bound(p) \in Nat
    BY <1>1, MostJumpsIs DEF Bound, Sound
  <2>1. CASE x = r
    BY <1>1, <1>7, <1>9, <2>0, <2>1
  <2>2. CASE x # r
    BY <1>1, <1>8, <2>0, <2>2 DEF Passes
  <2> QED BY <2>1, <2>2
<1> QED BY <1>10, <1>11 DEF Passes

\* Arrivals numbered anew.
LEMMA NumberedPasses ==
  ASSUME NEW p, NEW q, NEW G, Numbered(p, q), Shape(p), Passes(p, G)
  PROVE  Passes(q, G)
<1> SUFFICES ASSUME ~p.refused PROVE Passes(q, G)
  BY DEF Passes, Numbered, SameSettings
<1>1. /\ Queued(q) = Queued(p) /\ q.pending = p.pending /\ q.jumped = p.jumped /\ q.mode = p.mode
      /\ q.passed = p.passed
  BY SameQueues DEF Numbered, SameSettings, SameHolders
<1>2. Queued(p) \subseteq Requests /\ p.pending \subseteq Requests
  BY QueuedIs DEF Shape
<1>3. PICK v \in [Requests -> Nat] : v = p.arrived
  BY DEF Shape
<1>4. PICK w : w = q.arrived
  OBVIOUS
<1>5. w = [r \in Requests |-> Cardinality({x \in Requests : 0 < v[x] /\ v[x] <= v[r]})]
  BY <1>3, <1>4 DEF Numbered
<1>6. /\ w \in [Requests -> Nat]
      /\ \A r, x \in Requests : v[r] < v[x] => w[r] < w[x]
      /\ \A r, x \in Requests : v[r] = v[x] => w[r] = w[x]
  BY <1>5, Ranks
<1>7. \A r, x \in Requests : w[r] < w[x] <=> v[r] < v[x]
  <2> TAKE r, x \in Requests
  <2>1. w[r] \in Nat /\ w[x] \in Nat /\ v[r] \in Nat /\ v[x] \in Nat
    BY <1>6
  <2>2. (v[r] < v[x] => w[r] < w[x]) /\ (v[r] = v[x] => w[r] = w[x]) /\ (v[x] < v[r] => w[x] < w[r])
    BY <1>6
  <2> QED BY <2>1, <2>2
<1>8. \A x \in Queued(p) : Jumping(q, x) = Jumping(p, x)
  <2> TAKE x \in Queued(p)
  <2>1. \A y \in p.pending : w[y] > w[x] <=> v[y] > v[x]
    BY <1>2, <1>6, <1>7
  <2> QED BY <1>1, <1>3, <1>4, <2>1 DEF Jumping
<1>9. \A x, y \in Queued(q) :
         KeyOf(x) = KeyOf(y) /\ q.arrived[x] < q.arrived[y] => q.passed[y] <= q.passed[x]
  BY <1>1, <1>2, <1>3, <1>4, <1>7 DEF Passes
<1>10. \A x \in Queued(q) \ G : q.passed[x] + Cardinality(Jumping(q, x)) <= Bound(q)
  BY <1>1, <1>8 DEF Passes, Bound
<1> QED BY <1>9, <1>10 DEF Passes

-----------------------------------------------------------------------------
(* Newcomers, among tenants of equal weight.                               *)

\* Nobody weighs more than another.
EqualWeights == \A t, u \in Tenants : Tenant[t].weight = Tenant[u].weight

\* A tenant that joined without debt and still waits is at virtual time, and whoever
\* was picked before it is past that.
Joins(p) ==
  EqualWeights /\ p.mode = "local" /\ p.algorithm = "weighted" =>
    /\ \A t \in p.joined, u \in Tenants : p.over[t][u] <= 1
    /\ \A r \in Queued(p) : TenantOf(r) \in p.joined =>
         /\ p.served[TenantOf(r)] = p.virtual_time
         /\ \A u \in Tenants : p.over[TenantOf(r)][u] = 1 => p.served[u] > p.virtual_time

\* Steps that leave service and the newcomers alone.
LEMMA JoinsKept ==
  ASSUME NEW p, NEW q, q.mode = p.mode, q.algorithm = p.algorithm, q.served = p.served,
         q.virtual_time = p.virtual_time, SameHistory(p, q), Queued(q) \subseteq Queued(p), Joins(p)
  PROVE  Joins(q)
BY DEF Joins, SameHistory

\* A pool with claims knows no newcomers.
LEMMA SharedJoins ==
  ASSUME NEW p, p.mode = "shared"
  PROVE  Joins(p)
BY DEF Joins

\* A charge only moves its tenant on.
LEMMA ChargedJoins ==
  ASSUME NEW p, NEW q, NEW r \in Requests, Charged(p, q, r), Shape(p), Joins(p)
  PROVE  Joins(q)
<1> SUFFICES ASSUME EqualWeights, p.mode = "local", p.algorithm = "weighted" PROVE Joins(q)
  BY DEF Joins, Charged, SameSettings
<1>1. PICK t \in Tenants : t = TenantOf(r)
  BY Belongs
<1>2. PICK c \in Nat \ {0} : c = Req[r].cost
  BY Belongs
<1>3. PICK a \in [Tenants -> Int] : a = p.served
  BY DEF Shape
<1>4. PICK v \in Int : v = p.virtual_time
  BY DEF Shape
<1>5. q.served = [a EXCEPT ![t] = (IF a[t] = None THEN v ELSE a[t]) + c]
  BY <1>1, <1>2, <1>3, <1>4 DEF Charged
<1>6. /\ q.virtual_time = v /\ Queued(q) = Queued(p) /\ q.joined = p.joined \ {t} /\ q.over = p.over
  BY <1>1, <1>4, SameQueues DEF Charged
<1>7. \A u \in Tenants : a[u] > v => q.served[u] > v
  <2> TAKE u \in Tenants
  <2>1. PICK m \in Int : m = a[u]
    OBVIOUS
  <2>2. q.served[u] = IF u = t THEN (IF m = None THEN v ELSE m) + c ELSE m
    BY <1>5, <2>1
  <2> QED BY <2>1, <2>2
<1>8. \A x \in Queued(p) : TenantOf(x) \in p.joined \ {t} => q.served[TenantOf(x)] = a[TenantOf(x)]
  <2>1. p.joined \subseteq Tenants
    BY DEF Shape
  <2> QED BY <1>5, <2>1
<1> QED BY <1>3, <1>4, <1>6, <1>7, <1>8 DEF Joins

\* Virtual time waits for a newcomer.
LEMMA AdvancedJoins ==
  ASSUME NEW p, NEW q, NEW F, NEW O, NEW C, Advanced(p, q), Sound(p, F, O, C), Times(p), Joins(p)
  PROVE  Joins(q)
<1> SUFFICES ASSUME EqualWeights, p.mode = "local", p.algorithm = "weighted" PROVE Joins(q)
  BY DEF Joins, Advanced, SameSettings
<1>1. /\ Queued(q) = Queued(p) /\ q.served = p.served /\ SameHistory(p, q)
      /\ q.mode = p.mode /\ q.algorithm = p.algorithm
  BY SameQueues DEF Advanced, SameAccounts, SameSettings
<1>2. CASE \A x \in Queued(p) : TenantOf(x) \notin p.joined
  BY <1>1, <1>2 DEF Joins, SameHistory
<1>3. CASE \E x \in Queued(p) : TenantOf(x) \in p.joined
  <2>1. PICK x \in Queued(p) : TenantOf(x) \in p.joined
    BY <1>3
  <2> DEFINE W == {p.served[t] : t \in {t \in Tenants : tenant_queued(p, t) /\ p.served[t] # None}}
  <2>2. PICK v \in Nat : v = p.virtual_time
    BY DEF Sound, Shape, Accounts
  <2>3. p.served[TenantOf(x)] = v
    BY <2>1, <2>2 DEF Joins
  <2>4. v \in W
    <3>1. x \in Requests
      BY QueuedIs DEF Sound, Shape
    <3>2. TenantOf(x) \in Tenants
      BY <3>1, Belongs
    <3>3. tenant_queued(p, TenantOf(x))
      BY <3>2, TenantQueuedIs DEF Sound, Shape, Places
    <3> QED BY <2>3, <3>2, <3>3 DEF Sound, Accounts
  <2>5. W \subseteq Nat
    <3>1. \A t \in Tenants : p.served[t] \in Int /\ p.served[t] >= None
      BY DEF Sound, Shape, Accounts, TenantAccount
    <3>2. \A t \in Tenants : p.served[t] # None => p.served[t] \in Nat
      BY <3>1 DEF None
    <3> QED BY <3>2
  <2>6. \A w \in W : w >= v
    <3>1. ASSUME NEW t \in Tenants, tenant_queued(p, t) PROVE p.served[t] >= p.virtual_time
      <4>1. PICK y \in Queued(p) : TenantOf(y) = t
        BY <3>1, TenantQueuedIs DEF Sound, Shape, Places
      <4>2. ~p.refused
        BY DEF Sound, Modal
      <4> QED BY <4>1, <4>2 DEF Times
    <3> QED BY <2>2, <3>1
  <2>7. q.virtual_time = IF W = {} THEN p.virtual_time ELSE Min(W)
    BY DEF Advanced
  <2> HIDE DEF W
  <2>8. q.virtual_time = v
    <3>1. Min(W) \in W /\ \A w \in W : Min(W) <= w
      BY <2>4, <2>5, HasMin
    <3>2. PICK m \in Nat : m = Min(W)
      BY <2>5, <3>1
    <3>3. m <= v /\ m >= v
      BY <2>4, <2>6, <3>1, <3>2
    <3> QED BY <2>4, <2>7, <3>2, <3>3
  <2> QED BY <1>1, <2>2, <2>8, JoinsKept
<1> QED BY <1>2, <1>3

\* Whoever is forgotten neither waits nor is past virtual time.
LEMMA QuietedJoins ==
  ASSUME NEW p, NEW q, NEW F, NEW O, NEW C, Quieted(p, q), Sound(p, F, O, C), Joins(p)
  PROVE  Joins(q)
<1> SUFFICES ASSUME EqualWeights, p.mode = "local", p.algorithm = "weighted" PROVE Joins(q)
  BY DEF Joins, Quieted, Forgot, SameSettings
<1>1. PICK keys, tenants : Quiet(p, keys, tenants) /\ Forgot(p, q, keys, tenants)
  BY DEF Quieted
<1>2. Queued(q) = Queued(p) /\ q.virtual_time = p.virtual_time /\ q.joined = p.joined /\ q.over = p.over
  BY <1>1, SameQueues DEF Forgot, SameHistory
<1>3. \A t \in Tenants : q.served[t] = IF t \in tenants THEN None ELSE p.served[t]
  BY <1>1 DEF Forgot
<1>4. \A u \in Tenants : p.served[u] > p.virtual_time => q.served[u] = p.served[u]
  <2> TAKE u \in Tenants
  <2>1. PICK m \in Int, v \in Int : m = p.served[u] /\ v = p.virtual_time
    BY DEF Sound, Shape
  <2>2. u \in tenants => m <= v
    BY <1>1, <2>1 DEF Quiet
  <2> QED BY <1>3, <2>1, <2>2
<1>5. \A x \in Queued(p) : q.served[TenantOf(x)] = p.served[TenantOf(x)]
  <2> TAKE x \in Queued(p)
  <2>1. x \in Requests
    BY QueuedIs DEF Sound, Shape
  <2>2. TenantOf(x) \in Tenants
    BY <2>1, Belongs
  <2>3. tenant_queued(p, TenantOf(x))
    BY <2>2, TenantQueuedIs DEF Sound, Shape, Places
  <2>4. TenantOf(x) \notin tenants
    BY <1>1, <2>3 DEF Quiet, is_active
  <2> QED BY <1>3, <2>2, <2>4
<1> QED BY <1>2, <1>4, <1>5 DEF Joins

\* An idle pool has nobody waiting.
LEMMA SettledJoins ==
  ASSUME NEW p, NEW q, Settled(p, q), Joins(p)
  PROVE  Joins(q)
<1>1. CASE q = p
  BY <1>1
<1>2. CASE Reset(p, q) /\ Queued(p) = {}
  <2>1. Queued(q) = {}
    BY <1>2, SameQueues DEF Reset
  <2> QED BY <1>2, <2>1 DEF Reset, Joins, SameHistory, SameSettings
<1> QED BY <1>1, <1>2 DEF Settled

\* Who joins the line joins it at virtual time, or is no newcomer.
LEMMA QueuesJoins ==
  ASSUME NEW p, NEW q, NEW r \in Requests, NEW F, NEW O, Queues(p, q, r), Sound(p, F, O, {}), Joins(p),
         Queued(q) = Queued(p) \union {r}
  PROVE  Joins(q)
<1> SUFFICES ASSUME EqualWeights, p.mode = "local", p.algorithm = "weighted" PROVE Joins(q)
  BY DEF Joins, Queues, SameSettings
<1>1. PICK t \in Tenants : t = TenantOf(r)
  BY Belongs
<1>2. PICK a \in [Tenants -> Int] : a = p.served
  BY DEF Sound, Shape
<1>3. PICK v \in Int : v = p.virtual_time
  BY DEF Sound, Shape
<1>4. PICK o \in [Tenants -> [Tenants -> Nat]] : o = p.over
  BY DEF Sound, Shape
<1>5. PICK b \in BOOLEAN : b = tenant_queued(p, t)
  BY DEF tenant_queued
<1>6. PICK now \in Int : now = (IF b THEN a[t] ELSE Max({v, a[t]})) /\ now >= a[t] /\ (~b => now >= v)
  <2>1. PICK m \in Int : m = a[t]
    OBVIOUS
  <2>2. Max({v, m}) = IF v >= m THEN v ELSE m
    BY MaxPair
  <2>3. CASE b
    BY <2>1, <2>3
  <2>4. CASE ~b
    BY <2>1, <2>2, <2>4
  <2> QED BY <2>3, <2>4
<1>7. PICK clear \in BOOLEAN : clear = (~b /\ now = v)
  OBVIOUS
<1>8. /\ q.virtual_time = v /\ q.served = [a EXCEPT ![t] = now]
      /\ q.joined = IF clear THEN p.joined \union {t} ELSE IF b THEN p.joined ELSE p.joined \ {t}
      /\ q.over = [o EXCEPT ![t] = IF clear THEN [u \in Tenants |-> 0] ELSE o[t]]
  BY <1>1, <1>2, <1>3, <1>4, <1>5, <1>6, <1>7 DEF Queues
<1>9. b <=> \E x \in Queued(p) : TenantOf(x) = t
  BY <1>5, TenantQueuedIs DEF Sound, Shape, Places
<1>10. p.joined \subseteq Tenants
  BY DEF Sound, Shape
<1>11. /\ \A x \in p.joined, u \in Tenants : o[x][u] <= 1
       /\ \A x \in Queued(p) : TenantOf(x) \in p.joined =>
            /\ a[TenantOf(x)] = v
            /\ \A u \in Tenants : o[TenantOf(x)][u] = 1 => a[u] > v
  BY <1>2, <1>3, <1>4 DEF Joins
<1>12. \A u \in Tenants : a[u] > v => q.served[u] > v
  BY <1>6, <1>8
<1>13. \A x \in q.joined, u \in Tenants : q.over[x][u] <= 1
  <2> TAKE x \in q.joined, u \in Tenants
  <2>1. CASE x = t /\ clear
    BY <1>8, <2>1
  <2>2. CASE ~(x = t /\ clear)
    <3>1. x \in p.joined
      BY <1>8, <2>2
    <3>2. q.over[x] = o[x]
      BY <1>8, <1>10, <2>2, <3>1
    <3> QED BY <1>11, <3>1, <3>2
  <2> QED BY <2>1, <2>2
<1>14. ASSUME NEW x \in Queued(q), TenantOf(x) \in q.joined
       PROVE  /\ q.served[TenantOf(x)] = v
              /\ \A u \in Tenants : q.over[TenantOf(x)][u] = 1 => q.served[u] > v
  <2>1. CASE TenantOf(x) = t
    <3>1. CASE clear
      <4>1. q.served[t] = v /\ q.over[t] = [u \in Tenants |-> 0]
        BY <1>7, <1>8, <3>1
      <4>2. \A u \in Tenants : q.over[t][u] = 0
        BY <4>1
      <4> QED BY <2>1, <4>1, <4>2
    <3>2. CASE ~clear
      <4>1. b /\ t \in p.joined /\ now = a[t]
        BY <1>6, <1>7, <1>8, <1>14, <2>1, <3>2
      <4>2. PICK y \in Queued(p) : TenantOf(y) = t
        BY <1>9, <4>1
      <4>3. a[t] = v /\ \A u \in Tenants : o[t][u] = 1 => a[u] > v
        BY <1>11, <4>1, <4>2
      <4>4. q.over[t] = o[t] /\ q.served[t] = now
        BY <1>8, <3>2
      <4> QED BY <1>12, <2>1, <4>1, <4>3, <4>4
    <3> QED BY <3>1, <3>2
  <2>2. CASE TenantOf(x) # t
    <3>1. x \in Queued(p) /\ TenantOf(x) \in p.joined
      BY <1>1, <1>8, <1>14, <2>2
    <3>2. TenantOf(x) \in Tenants
      BY <1>10, <3>1
    <3>3. q.over[TenantOf(x)] = o[TenantOf(x)] /\ q.served[TenantOf(x)] = a[TenantOf(x)]
      BY <1>8, <2>2, <3>2
    <3> QED BY <1>11, <1>12, <3>1, <3>3
  <2> QED BY <2>1, <2>2
<1> QED BY <1>8, <1>13, <1>14 DEF Joins

\* A turn takes whoever is lowest: a tenant picked before a newcomer is at virtual
\* time with it, and past it once charged.
LEMMA TookJoins ==
  ASSUME NEW p, NEW a, NEW c, NEW d, NEW t, NEW r, NEW F, Took(p, a, t, r), r \notin gone,
         Counted(a, c, r), Charged(c, d, r), Sound(p, F, {}, {}), Times(p), Joins(p),
         Queued(a) \subseteq Queued(p)
  PROVE  Joins(d)
<1> SUFFICES ASSUME EqualWeights, p.mode = "local", p.algorithm = "weighted" PROVE Joins(d)
  BY DEF Joins, Took, Counted, Charged, SameSettings
<1>1. t \in Tenants /\ t \in pick_tenant(p) /\ tenant_is_eligible(p, t) /\ r \in Requests /\ TenantOf(r) = t
  BY DEF Took
<1>2. PICK s \in [Tenants -> Int] : s = p.served
  BY DEF Sound, Shape
<1>3. PICK v \in Nat : v = p.virtual_time
  BY DEF Sound, Shape, Accounts
<1>4. PICK o \in [Tenants -> [Tenants -> Nat]] : o = p.over
  BY DEF Sound, Shape
<1>5. PICK n \in Nat \ {0} : n = Req[r].cost
  BY <1>1, Belongs
<1>6. PICK J : J = StillWait(p, t)
  OBVIOUS
<1>7. J \subseteq p.joined /\ J \subseteq Tenants /\ t \notin J
  BY <1>6 DEF StillWait, Sound, Shape
<1>8. r \in Queued(p)
  BY <1>1, Belongs DEF Took, Queued
<1>9. s[t] >= v
  <2>1. ~p.refused
    BY DEF Sound, Modal
  <2> QED BY <1>1, <1>2, <1>3, <1>8, <2>1 DEF Times
<1>10. /\ c.served = s /\ c.virtual_time = v /\ d.virtual_time = v /\ d.joined = J \ {t} /\ d.over = a.over
       /\ d.queues = a.queues
  BY <1>1, <1>2, <1>3, <1>6 DEF Took, Counted, Charged, SameService, SameAccounts, SameHistory
<1>11. d.served = [s EXCEPT ![t] = (IF s[t] = None THEN v ELSE s[t]) + n]
  BY <1>1, <1>5, <1>10 DEF Charged
<1>12. \A u \in Tenants : u = t \/ s[u] > v => d.served[u] > v
  BY <1>1, <1>9, <1>11
<1>13. a.over = [j \in Tenants |-> IF j \in J THEN [o[j] EXCEPT ![t] = o[j][t] + 1] ELSE o[j]]
  BY <1>4, <1>6 DEF Took
<1>14. /\ \A x \in p.joined, u \in Tenants : o[x][u] <= 1
       /\ \A x \in Queued(p) : TenantOf(x) \in p.joined =>
            /\ s[TenantOf(x)] = v
            /\ \A u \in Tenants : o[TenantOf(x)][u] = 1 => s[u] > v
  BY <1>2, <1>3, <1>4 DEF Joins
<1>15. ASSUME NEW j \in J PROVE o[j][t] = 0 /\ s[j] = v /\ \A u \in Tenants : o[j][u] = 1 => s[u] > v
  <2>1. j \in p.joined /\ j \in Tenants /\ tenant_is_eligible(p, j)
    BY <1>6, <1>7, <1>15 DEF StillWait
  <2>2. tenant_queued(p, j)
    BY <2>1 DEF tenant_is_eligible, tenant_queued
  <2>3. PICK x \in Queued(p) : TenantOf(x) = j
    BY <2>1, <2>2, TenantQueuedIs DEF Sound, Shape, Places
  <2>4. s[j] = v /\ \A u \in Tenants : o[j][u] = 1 => s[u] > v
    BY <1>14, <2>1, <2>3
  <2>5. orZero(p.served[t]) * Tenant[j].weight <= orZero(p.served[j]) * Tenant[t].weight
    BY <1>1, <2>1 DEF pick_tenant, pick_tenant_weighted, lowest_tenants, lowest
  <2>6. PICK w \in Nat \ {0} : w = Tenant[j].weight /\ w = Tenant[t].weight
    BY <1>1, <2>1, PoolAssumption DEF PoolAssumption, EqualWeights
  <2>7. orZero(p.served[t]) = s[t] /\ orZero(p.served[j]) = v /\ s[t] \in Nat
    BY <1>1, <1>2, <1>9, <2>1, <2>4, OrZeroNat
  <2>8. s[t] * w <= v * w
    BY <2>5, <2>6, <2>7
  <2>9. s[t] <= v
    BY <2>6, <2>7, <2>8, ProductCancels
  <2>10. o[j][t] # 1
    BY <1>1, <2>4, <2>7, <2>9
  <2>11. PICK m \in Nat : m = o[j][t]
    BY <1>1, <2>1
  <2>12. m <= 1
    BY <1>1, <1>14, <2>1, <2>11
  <2>13. o[j][t] = 0
    <3>1. m # 1
      BY <2>10, <2>11
    <3>2. m = 0
      BY <2>12, <3>1
    <3> QED BY <2>11, <3>2
  <2> QED BY <2>4, <2>13
<1>16. \A j \in J, u \in Tenants : d.over[j][u] = IF u = t THEN 1 ELSE o[j][u]
  <2> TAKE j \in J, u \in Tenants
  <2>1. d.over[j] = [o[j] EXCEPT ![t] = o[j][t] + 1]
    BY <1>7, <1>10, <1>13
  <2>2. o[j] \in [Tenants -> Nat] /\ o[j][t] = 0
    BY <1>7, <1>15
  <2> QED BY <1>1, <2>1, <2>2
<1>17. Queued(d) \subseteq Queued(p)
  <2>1. Queued(d) = Queued(a)
    BY <1>10, SameQueues
  <2> QED BY <2>1
<1>18. \A x \in d.joined, u \in Tenants : d.over[x][u] <= 1
  BY <1>7, <1>10, <1>14, <1>16
<1>19. ASSUME NEW x \in Queued(d), TenantOf(x) \in d.joined
       PROVE  /\ d.served[TenantOf(x)] = v
              /\ \A u \in Tenants : d.over[TenantOf(x)][u] = 1 => d.served[u] > v
  <2>1. PICK j \in J : j = TenantOf(x)
    BY <1>10, <1>19
  <2>2. j # t /\ j \in Tenants
    BY <1>7
  <2>3. d.served[j] = v
    BY <1>11, <1>15, <2>2
  <2> QED BY <1>12, <1>15, <1>16, <2>1, <2>3
<1> QED BY <1>10, <1>18, <1>19 DEF Joins

-----------------------------------------------------------------------------
(* What every step of a handler keeps; O are the requests whose slot is    *)
(* being given up.                                                         *)

\* The invariant of a pool between two steps of a handler.
Good(p, F, O) == Sound(p, F, O, {}) /\ Times(p) /\ Passes(p, gone) /\ Joins(p)

\* Fields that neither time, passes nor newcomers depend on.
LEMMA OtherwiseKept ==
  ASSUME NEW p, NEW q, SameSettings(p, q), SameService(p, q), q.queues = p.queues, q.pending = p.pending,
         q.arrived = p.arrived, q.passed = p.passed, q.jumped = p.jumped, SameHistory(p, q), Shape(p),
         Times(p), Passes(p, gone), Joins(p)
  PROVE  Times(q) /\ Passes(q, gone) /\ Joins(q)
<1>1. Queued(q) = Queued(p)
  BY SameQueues
<1>2. Unpassed(p, q)
  BY <1>1 DEF Unpassed, SameSettings
<1>3. Joins(q)
  BY <1>1, JoinsKept DEF SameSettings, SameService, SameAccounts
<1> QED BY <1>1, <1>2, <1>3, TimesKept, PassesKept DEF SameSettings

\* Forgetting the quiet keeps the pool good.
LEMMA QuietedGood ==
  ASSUME NEW p, NEW q, NEW F, NEW O, Quieted(p, q), Good(p, F, O)
  PROVE  Good(q, F, O) /\ Queued(q) = Queued(p)
<1>1. Sound(q, F, O, {}) /\ Queued(q) = Queued(p)
  BY QuietedSound DEF Good
<1>2. Times(q)
  BY QuietedTimes DEF Good
<1>3. Unpassed(p, q)
  BY <1>1 DEF Quieted, Forgot, Unpassed, SameSettings, SameHolders, SameMarks
<1>4. Passes(q, gone)
  BY <1>3, PassesKept DEF Good, Sound
<1>5. Joins(q)
  BY QuietedJoins DEF Good
<1> QED BY <1>1, <1>2, <1>4, <1>5 DEF Good

\* Settling does.
LEMMA SettledGood ==
  ASSUME NEW p, NEW q, NEW F, Settled(p, q), Good(p, F, {})
  PROVE  Good(q, F, {}) /\ Queued(q) = Queued(p)
<1>1. Sound(q, F, {}, {}) /\ Queued(q) = Queued(p)
  BY SettledSound DEF Good
<1>2. Times(q)
  BY SettledTimes DEF Good
<1>3. CASE q = p
  BY <1>3 DEF Good
<1>4. Joins(q)
  BY SettledJoins DEF Good
<1>5. CASE Reset(p, q)
  <2>1. Unpassed(p, q)
    BY <1>1, <1>5 DEF Reset, Unpassed, SameSettings, SameHolders, SameMarks
  <2>2. Passes(q, gone)
    BY <2>1, PassesKept DEF Good, Sound
  <2> QED BY <1>1, <1>2, <1>4, <2>2 DEF Good
<1> QED BY <1>3, <1>5 DEF Settled

\* Giving slots back does.
LEMMA ReleasedGood ==
  ASSUME NEW p, NEW q, NEW F, NEW R, Released(p, q, R), Good(p, F, R)
  PROVE  Good(q, F, {}) /\ Queued(q) = Queued(p)
<1>1. PICK v, w : Vacated(p, v, R) /\ Quieted(v, w) /\ Settled(w, q)
  BY DEF Released
<1>2. Sound(v, F, R \ R, {})
  BY <1>1, VacatedSound DEF Good
<1>3. Sound(v, F, {}, {})
  <2>1. R \ R = {}
    OBVIOUS
  <2> QED BY <1>2, <2>1
<1>4. Times(v) /\ Passes(v, gone) /\ Joins(v)
  BY <1>1, OtherwiseKept DEF Vacated, Good, Sound, SameHolders, SameMarks
<1>5. Queued(v) = Queued(p)
  BY <1>1, SameQueues DEF Vacated
<1>6. Good(v, F, {})
  BY <1>3, <1>4 DEF Good
<1>7. Good(w, F, {}) /\ Queued(w) = Queued(v)
  BY <1>1, <1>6, QuietedGood
<1> QED BY <1>1, <1>5, <1>7, SettledGood

\* A waiter is taken from its queue; when it jumps, its key's others may be passed.
LEMMA TookGood ==
  ASSUME NEW p, NEW a, NEW t, NEW r, NEW F, Took(p, a, t, r), Good(p, F, {})
  PROVE  /\ Sound(a, F, {}, {}) /\ Times(a) /\ Passes(a, gone) /\ (r \in gone => Joins(a))
         /\ ~p.refused /\ r \in a.jumped => affinity_on(a) /\ Passable(a, r, gone)
<1>1. /\ Sound(a, F, {}, {}) /\ Queued(a) = Queued(p) \ {r} /\ r \in Queued(p) /\ r \in Requests
      /\ r \notin Occupied(a) /\ r \notin Waiters(a)
  BY TookSound DEF Good
<1>2. Times(a)
  BY <1>1, TimesKept DEF Good, Took, SameSettings
<1>3. Unpassed(p, a)
  <2>1. a.pending \cap a.jumped \subseteq p.pending \cap p.jumped
    BY <1>1 DEF Took, SameHolders, Waiters
  <2> QED BY <1>1, <2>1 DEF Took, Unpassed, SameSettings
<1>4. Passes(a, gone)
  BY <1>3, PassesKept DEF Good, Sound
<1>5. ASSUME ~p.refused, r \in a.jumped PROVE affinity_on(a) /\ Passable(a, r, gone)
  <2>1. affinity_on(p) /\ ~passed_out(p, p.queues[KeyOf(r)][1]) /\ KeyOf(r) \in Keys
    BY <1>5 DEF Took
  <2>2. affinity_on(a)
    BY <2>1 DEF Took, SameSettings, affinity_on
  <2>3. PICK s \in Seq(Requests) : s = p.queues[KeyOf(r)]
    BY <2>1 DEF Good, Sound, Shape
  <2>4. r \in ToSet(s)
    BY <2>3 DEF Took
  <2>5. 1 \in DOMAIN s /\ DOMAIN s \subseteq Nat \ {0}
    <3>1. Len(s) \in Nat /\ DOMAIN s = 1..Len(s)
      OBVIOUS
    <3>2. PICK i \in DOMAIN s : s[i] = r
      BY <2>4 DEF ToSet
    <3> QED BY <3>1, <3>2
  <2>6. PICK h \in Requests : h = s[1]
    BY <2>5
  <2>7. h \in Queued(p) /\ KeyOf(h) = KeyOf(r)
    <3>1. h \in Queued(p)
      BY <2>1, <2>3, <2>5, <2>6, QueuedIs DEF Good, Sound, Shape
    <3> QED BY <2>1, <2>3, <2>5, <2>6, <3>1 DEF Good, Sound, Places
  <2>8. PICK m \in Nat, j \in Nat : m = MostJumps /\ j = p.max_jumps /\ j <= m
    BY MostJumpsIs DEF Good, Sound
  <2>9. PICK c \in Nat : c = p.passed[h] /\ c < m
    <3>1. PICK c \in Nat : c = p.passed[h]
      BY DEF Good, Sound, Shape
    <3> QED BY <2>1, <2>3, <2>6, <2>8, <3>1 DEF passed_out
  <2>10. ASSUME NEW x \in Queued(p), KeyOf(x) = KeyOf(r) PROVE p.passed[x] < m
    <3>1. x \in Requests
      BY QueuedIs DEF Good, Sound, Shape
    <3>2. x \in ToSet(s)
      BY <2>3, <2>10, <3>1, TenantQueuedIs DEF Good, Sound, Shape, Places
    <3>3. PICK i \in DOMAIN s : s[i] = x
      BY <3>2 DEF ToSet
    <3>4. CASE i = 1
      BY <2>6, <2>9, <3>3, <3>4
    <3>5. CASE i # 1
      <4>1. 1 < i
        BY <2>5, <3>5
      <4>2. Ascending(s, p.arrived)
        BY <2>1, <2>3 DEF Good, Sound, Marks
      <4>3. p.arrived[h] < p.arrived[x]
        BY <2>5, <2>6, <3>3, <4>1, <4>2 DEF Ascending
      <4>4. p.passed[x] <= c
        BY <1>5, <2>7, <2>9, <2>10, <4>3 DEF Good, Passes
      <4>5. p.passed[x] \in Nat
        BY <3>1 DEF Good, Sound, Shape
      <4> QED BY <2>9, <4>4, <4>5
    <3> QED BY <3>4, <3>5
  <2>11. a.passed = p.passed
    BY DEF Took
  <2>12. Passable(a, r, gone)
    BY <1>1, <2>8, <2>10, <2>11 DEF Passable
  <2> QED BY <2>2, <2>12
<1>6. ASSUME r \in gone PROVE Joins(a)
  <2>1. a.over = p.over
    <3>1. PICK o \in [Tenants -> [Tenants -> Nat]] : o = p.over
      BY DEF Good, Sound, Shape
    <3> QED BY <1>6, <3>1 DEF Took
  <2>2. SameHistory(p, a)
    BY <1>6, <2>1 DEF Took, SameHistory
  <2> QED BY <1>1, <2>2, JoinsKept DEF Good, Took, SameSettings, SameService, SameAccounts
<1> QED BY <1>1, <1>2, <1>4, <1>5, <1>6

\* A turn.
LEMMA TurnedGood ==
  ASSUME NEW p, NEW q, NEW F, Turned(p, q), Good(p, F, {})
  PROVE  Good(q, F, {}) /\ \E r \in Queued(p) : Queued(q) = Queued(p) \ {r}
<1>1. PICK a, t, r :
    /\ may_take(p) /\ Took(p, a, t, r)
    /\ \/ r \in gone /\ \E b : CastOff(a, b, {r}) /\ Quieted(b, q)
       \/ /\ r \notin gone
          /\ \E c, d, e : /\ Taken(a, c, d, e, r)
                          /\ \/ p.mode = "shared" /\ Claimed(e, q, r)
                             \/ p.mode # "shared" /\ \E u : Unmarked(e, u, r) /\ Sent(u, q, r, r \in e.jumped)
  BY Zenon DEF Turned
<1>2. /\ Sound(a, F, {}, {}) /\ Queued(a) = Queued(p) \ {r} /\ r \in Queued(p) /\ r \in Requests
      /\ r \notin Occupied(a) /\ r \notin Waiters(a) /\ r \notin F /\ Arrived(a, r) /\ Room(a, r)
  BY <1>1, TookSound DEF Good
<1>3. /\ Times(a) /\ Passes(a, gone) /\ (r \in gone => Joins(a))
      /\ ~p.refused /\ r \in a.jumped => affinity_on(a) /\ Passable(a, r, gone)
  BY <1>1, TookGood
<1>4. Sound(q, F, {}, {}) /\ \E x \in Queued(p) : Queued(q) = Queued(p) \ {x}
  BY TurnedSound DEF Good
<1>5. ASSUME NEW b, r \in gone, CastOff(a, b, {r}), Quieted(b, q) PROVE Times(q) /\ Passes(q, gone) /\ Joins(q)
  <2>1. {r} \cap Waiters(a) = {}
    BY <1>2
  <2>2. Sound(b, F, {}, {})
    BY <1>2, <1>5, <2>1, CastOffSound
  <2>3. Queued(b) = Queued(a) /\ b.pending = a.pending
    BY <1>5, SameQueues DEF CastOff, SameHolders
  <2>4. Times(b)
    BY <1>3, <1>5, <2>3, TimesKept DEF CastOff, SameSettings
  <2>5. Waiters(a) \subseteq Requests /\ Waiters(b) = Waiters(a)
    BY <1>2, <2>3, QueuedIs DEF Waiters, Sound, Shape
  <2>6. \A x \in Waiters(a) : b.arrived[x] = a.arrived[x] /\ b.passed[x] = a.passed[x]
    BY <1>2, <1>5, <2>5 DEF CastOff
  <2>7. Unpassed(a, b)
    BY <1>5, <2>3, <2>5, <2>6 DEF Unpassed, CastOff, SameSettings, Waiters
  <2>8. Passes(b, gone)
    BY <1>2, <1>3, <2>7, PassesKept DEF Sound
  <2>9. Joins(b)
    BY <1>3, <1>5, <2>3, JoinsKept DEF CastOff, SameSettings, SameService, SameAccounts
  <2>10. Good(b, F, {})
    BY <2>2, <2>4, <2>8, <2>9 DEF Good
  <2>11. Good(q, F, {})
    BY <1>5, <2>10, QuietedGood
  <2> QED BY <2>11 DEF Good
<1>6. ASSUME NEW c, NEW d, NEW e, r \notin gone, Taken(a, c, d, e, r),
             \/ p.mode = "shared" /\ Claimed(e, q, r)
             \/ p.mode # "shared" /\ \E u : Unmarked(e, u, r) /\ Sent(u, q, r, r \in e.jumped)
      PROVE  Times(q) /\ Passes(q, gone) /\ Joins(q)
  <2>1. /\ Sound(e, F, {r}, {r}) /\ Queued(e) = Queued(a) /\ r \notin Occupied(e) /\ r \notin Waiters(e)
        /\ Arrived(e, r)
    BY <1>2, <1>6, TakenSound
  <2>2. Sound(c, F, {} \union {r}, {})
    BY <1>2, <1>6, CountedSound DEF Taken
  <2>3. Times(c)
    <3>1. Queued(c) = Queued(a)
      BY <1>6, SameQueues DEF Taken, Counted
    <3> QED BY <1>3, <1>6, <3>1, TimesKept DEF Taken, Counted, SameSettings
  <2>4. Times(d)
    BY <1>2, <1>6, <2>2, <2>3, ChargedTimes DEF Taken, Sound
  <2>5. Times(e) /\ Joins(e)
    <3>1. r \notin c.pending
      BY <1>2, <1>6 DEF Taken, Counted, SameHolders, Waiters
    <3>2. r \notin {}
      OBVIOUS
    <3>3. Sound(d, F, {} \union {r}, {} \union {r})
      BY <1>2, <1>6, <2>2, <3>1, <3>2, ChargedSound DEF Taken
    <3>4. Joins(d)
      BY <1>1, <1>2, <1>6, TookJoins DEF Good, Taken
    <3> QED BY <1>6, <2>4, <3>3, <3>4, AdvancedTimes, AdvancedJoins DEF Taken
  <2>6. /\ e.mode = p.mode /\ e.refused = p.refused /\ e.max_jumps = a.max_jumps
        /\ e.pending = p.pending /\ e.pending = a.pending /\ e.jumped = a.jumped
        /\ e.arrived = a.arrived /\ e.passed = a.passed /\ e.queues = a.queues
        /\ e.mode = a.mode /\ e.refused = a.refused
    <3>1. SameSettings(p, a) /\ SameHolders(p, a)
      BY <1>1, Zenon DEF Took
    <3>2. /\ SameSettings(a, c) /\ SameSettings(c, d) /\ SameSettings(d, e)
          /\ SameHolders(a, c) /\ SameHolders(c, d) /\ SameHolders(d, e)
          /\ SameMarks(a, c) /\ SameMarks(c, d) /\ SameMarks(d, e)
          /\ c.queues = a.queues /\ d.queues = c.queues /\ e.queues = d.queues
      BY <1>6, Zenon DEF Taken, Counted, Charged, Advanced
    <3>3. SameSettings(a, e) /\ SameHolders(a, e) /\ SameMarks(a, e) /\ e.queues = a.queues
      BY <3>2, Zenon DEF SameSettings, SameHolders, SameMarks
    <3> QED BY <3>1, <3>3, Zenon DEF SameSettings, SameHolders, SameMarks
  <2>7. Passes(e, gone)
    <3>1. Unpassed(a, e)
      BY <2>1, <2>6 DEF Unpassed
    <3> QED BY <1>2, <1>3, <3>1, PassesKept DEF Sound
  <2>8. ~e.refused /\ r \in e.jumped => affinity_on(e) /\ Passable(e, r, gone)
    BY <1>3, <2>1, <2>6 DEF Passable, affinity_on
  <2>9. CASE p.mode = "shared" /\ Claimed(e, q, r)
    <3>1. Queued(q) = Queued(e)
      BY <2>9, SameQueues DEF Claimed, Around
    <3>2. Times(q) /\ Joins(q)
      BY <2>5, <2>9, <3>1, TimesKept, JoinsKept DEF Claimed, SameSettings, Around, SameService, SameAccounts
    <3>3. CASE e.refused
      BY <2>9, <3>2, <3>3 DEF Claimed, SameSettings, Passes
    <3>4. CASE ~e.refused
      <4>1. Cardinality(e.pending) < MaxPending
        <5>1. Cardinality(p.pending) < limit(p)
          BY <1>1, <2>9 DEF may_take
        <5>2. limit(p) <= MaxPending /\ limit(p) \in Nat /\ MaxPending \in Nat
          BY PoolAssumption DEF PoolAssumption, limit
        <5>3. Cardinality(p.pending) \in Nat
          BY JumpingIs DEF Good, Sound, Shape
        <5> QED BY <2>6, <5>1, <5>2, <5>3
      <4>2. r \notin e.pending
        BY <2>1 DEF Waiters
      <4>3. r \in e.jumped => affinity_on(e) /\ Passable(e, r, gone)
        BY <2>8, <3>4
      <4>4. Passes(q, gone)
        BY <1>2, <2>1, <2>6, <2>7, <2>9, <4>1, <4>2, <4>3, ClaimedPasses DEF Sound
      <4> QED BY <3>2, <4>4
    <3> QED BY <3>3, <3>4
  <2>10. ASSUME NEW u, p.mode # "shared", Unmarked(e, u, r), Sent(u, q, r, r \in e.jumped)
         PROVE  Times(q) /\ Passes(q, gone) /\ Joins(q)
    <3>1. Queued(u) = Queued(e) /\ Queued(q) = Queued(e)
      BY <2>10, SameQueues DEF Unmarked, Around, Sent
    <3>2. Times(u)
      BY <2>5, <2>10, <3>1, TimesKept DEF Unmarked, SameSettings, Around
    <3>3. Queued(q) \subseteq Queued(u) /\ q.refused = u.refused
      BY <2>10, <3>1 DEF Sent, SameSettings
    <3>4. Times(q)
      BY <2>10, <3>2, <3>3 DEF Sent, SameAccounts, Times
    <3>5. Shape(u)
      BY <2>1, <2>10 DEF Unmarked, Sound, Shape, Around, SameSettings, SameHistory, SameCounts, SameService, SameAccounts, SameHolders
    <3>6. Places(u, F)
      <4>1. Modal(u)
        BY <2>1, <2>10 DEF Unmarked, Sound, Modal, SameSettings, SameHolders
      <4>2. Sound(u, F, {r}, {r})
        BY <2>1, <2>10, <3>5, <4>1, AroundSound DEF Unmarked
      <4> QED BY <4>2 DEF Sound
    <3>7. Passes(u, gone)
      <4>1. Unpassed(e, u)
        BY <2>10, <3>1 DEF Unmarked, Unpassed, Around, SameSettings, SameHolders
      <4> QED BY <2>1, <2>7, <4>1, PassesKept DEF Sound
    <3>8. r \notin Waiters(u)
      BY <2>1, <2>10, <3>1 DEF Waiters, Unmarked, SameHolders
    <3>9. u.pending = {} /\ ~u.refused
      <4>1. e.mode = "local"
        BY <2>1, <2>6, <2>10 DEF Sound, Shape
      <4> QED BY <2>1, <2>10, <4>1 DEF Sound, Modal, Unmarked, SameHolders, SameSettings
    <3>10. r \in e.jumped => Slack(u, r, gone)
      <4>1. SUFFICES ASSUME r \in e.jumped PROVE Slack(u, r, gone)
        OBVIOUS
      <4>2. Passable(e, r, gone)
        BY <2>8, <2>10, <3>9, <4>1 DEF Unmarked, SameSettings
      <4>3. Passable(u, r, gone)
        BY <2>10, <3>1, <4>2 DEF Passable, Unmarked, Around, SameSettings, affinity_on
      <4> QED BY <1>2, <3>5, <3>6, <3>9, <4>3, SlackLocal
    <3>11. (r \in e.jumped) \in BOOLEAN
      OBVIOUS
    <3>12. Passes(q, gone)
      BY <1>2, <2>10, <3>5, <3>6, <3>7, <3>8, <3>10, <3>11, SentPasses
    <3>13. Joins(q)
      <4>1. /\ q.mode = e.mode /\ q.algorithm = e.algorithm /\ q.served = e.served
            /\ q.virtual_time = e.virtual_time /\ SameHistory(e, q)
        BY <2>10 DEF Unmarked, Sent, Around, SameSettings, SameService, SameAccounts, SameHistory
      <4> QED BY <2>5, <3>1, <4>1, JoinsKept
    <3> QED BY <3>4, <3>12, <3>13
  <2> QED BY <1>6, <2>9, <2>10
<1>7. Times(q) /\ Passes(q, gone) /\ Joins(q)
  BY <1>1, <1>5, <1>6, Zenon
<1> QED BY <1>4, <1>7 DEF Good

\* Dropping waiters whose caller is gone keeps the pool good.
LEMMA PrunedGood ==
  ASSUME NEW p, NEW q, NEW D, NEW F, NEW O, Pruned(p, q, D), Good(p, F, O), D \cap p.pending = {}
  PROVE  /\ Good(q, F, O) /\ Queued(q) = Queued(p) \ D /\ SameHolders(p, q)
         /\ \A x \in Queued(q) : q.passed[x] = p.passed[x]
         /\ q.max_jumps = p.max_jumps /\ q.mode = p.mode
<1>1. PICK w : D \subseteq gone /\ Shortened(p, w, D) /\ CastOff(w, q, D)
  BY DEF Pruned
<1>2. Sound(q, F, O, {}) /\ Queued(q) = Queued(p) \ D /\ SameHolders(p, q)
  BY PrunedSound DEF Good
<1>3. /\ SameService(p, q) /\ q.refused = p.refused /\ q.mode = p.mode /\ q.jumped = p.jumped
      /\ q.max_jumps = p.max_jumps
  BY <1>1 DEF Shortened, CastOff, SameSettings, SameService, SameAccounts, SameMarks
<1>4. Times(q)
  BY <1>2, <1>3, TimesKept DEF Good
<1>5. Waiters(q) \subseteq Requests /\ Waiters(q) \cap D = {}
  BY <1>2, QueuedIs DEF Waiters, Sound, Shape, SameHolders
<1>6. \A x \in Waiters(q) : q.arrived[x] = p.arrived[x] /\ q.passed[x] = p.passed[x]
  BY <1>1, <1>5 DEF Shortened, CastOff, SameMarks
<1>7. Unpassed(p, q)
  BY <1>2, <1>3, <1>6 DEF Unpassed, Waiters, SameHolders
<1>8. Passes(q, gone)
  BY <1>7, PassesKept DEF Good, Sound
<1>9. SameHistory(p, q) /\ q.algorithm = p.algorithm
  BY <1>1 DEF Shortened, CastOff, SameHistory, SameSettings
<1>10. Joins(q)
  BY <1>2, <1>3, <1>9, JoinsKept DEF Good, SameService, SameAccounts
<1> QED BY <1>2, <1>3, <1>4, <1>6, <1>8, <1>10 DEF Good, Waiters

\* A held slot becomes a waiter's.
LEMMA TookOverGood ==
  ASSUME NEW p, NEW q, NEW h, NEW r, NEW F, NEW O, TookOver(p, q, h, r), Good(p, F, O), h \in p.held,
         O \cap Queued(p) = {}, Passable(p, h, gone)
  PROVE  Good(q, F, O) /\ Queued(q) = Queued(p) \ {r} /\ q.held = p.held \ {h}
<1>1. KeyOf(r) = KeyOf(h) /\ r \in Queued(p) /\ r \in Requests
  BY DEF TookOver
<1>2. PICK s, f, c, e, ahead : /\ Shortened(p, s, {r}) /\ Freed(s, f, h) /\ Charged(f, c, r) /\ Advanced(c, e)
                               /\ Sent(e, q, r, ahead)
  BY DEF TookOver
<1>3. Sound(q, F, O, {}) /\ Queued(q) = Queued(p) \ {r} /\ q.held = p.held \ {h}
  BY TookOverSound DEF Good
<1>4. Sound(s, F, O, {}) /\ Queued(s) = Queued(p) \ {r}
  BY <1>2, ShortenedSound DEF Good
<1>5. p.pending = {} /\ ~p.refused
  BY DEF Good, Sound, Modal, Shape
<1>6. /\ Queued(e) = Queued(s) /\ e.pending = {} /\ ~e.refused /\ e.mode = p.mode /\ e.max_jumps = p.max_jumps
      /\ e.arrived = p.arrived /\ e.passed = p.passed /\ e.refused = p.refused
  <2>1. e.queues = s.queues
    BY <1>2 DEF Freed, Charged, Advanced, Around
  <2> QED BY <1>2, <1>5, <2>1, SameQueues DEF Shortened, Freed, Charged, Advanced, Around, SameSettings, SameHolders, SameMarks
<1>7. Shape(f)
  BY <1>2, <1>4 DEF Freed, Around, Sound, Shape, SameSettings, SameHistory, SameCounts, SameService, SameAccounts
<1>8. Times(c)
  <2>1. Times(s)
    BY <1>2, <1>4, TimesKept DEF Good, Shortened, SameSettings
  <2>2. Queued(f) = Queued(s)
    BY <1>2, SameQueues DEF Freed, Around
  <2>3. Times(f)
    BY <1>2, <2>1, <2>2, TimesKept DEF Freed, Around, SameSettings
  <2> QED BY <1>1, <1>2, <1>7, <2>3, ChargedTimes
<1>9. Sound(c, F, O \union {r}, {r}) /\ Sound(e, F, O \union {r}, {r})
  <2>1. Occupied(s) = Occupied(p) /\ h \in s.held /\ r \notin Occupied(p)
    BY <1>1, <1>2 DEF Shortened, SameHolders, Occupied, Good, Sound, Places
  <2>2. Handed(s, f, F, O, {}, O \union {h}, {}, r)
    <3>1. h \in Requests /\ O \subseteq Requests /\ O \cap Occupied(s) = {}
      BY <1>4, <2>1 DEF Sound, Shape, Slots
    <3>2. Occupied(f) \union {h} = Occupied(s) /\ h \notin Occupied(f)
      BY <1>2, <1>4, <2>1 DEF Occupied, Freed, Sound, Places
    <3> QED BY <1>2, <1>4, <3>1, <3>2 DEF Handed, Freed, Occupied, Sound, Places
  <2>3. Modal(f)
    BY <1>2, <1>4 DEF Freed, Sound, Modal, SameSettings
  <2>4. Sound(f, F, O \union {h}, {})
    BY <1>2, <1>4, <1>7, <2>2, <2>3, HandedSound DEF Freed
  <2>5. h \notin O /\ r \notin O /\ r \notin Occupied(f)
    <3>1. h \notin O /\ r \notin O
      BY <1>1, <2>1 DEF Good, Sound, Slots, Occupied
    <3>2. Occupied(f) \subseteq Occupied(p)
      BY <1>2, <2>1 DEF Occupied, Freed
    <3> QED BY <2>1, <3>1, <3>2
  <2>6. Sound(f, F, O \union {r}, {})
    BY <1>1, <2>4, <2>5, SlotPasses
  <2>7. r \notin f.pending /\ r \notin {}
    BY <2>5 DEF Occupied
  <2>8. Sound(c, F, O \union {r}, {} \union {r})
    BY <1>1, <1>2, <2>6, <2>7, ChargedSound
  <2>9. {} \union {r} = {r}
    OBVIOUS
  <2>10. Sound(c, F, O \union {r}, {r})
    BY <2>8, <2>9
  <2> QED BY <1>2, <2>10, AdvancedSound
<1>10. Times(e)
  BY <1>2, <1>8, <1>9, AdvancedTimes
<1>11. Times(q)
  <2>1. Queued(q) = Queued(e)
    BY <1>2, SameQueues DEF Sent
  <2> QED BY <1>2, <1>10, <2>1 DEF Sent, SameAccounts, SameSettings, Times
<1>12. Passes(e, gone)
  <2>1. Unpassed(p, e)
    BY <1>4, <1>5, <1>6 DEF Unpassed
  <2> QED BY <2>1, PassesKept DEF Good, Sound
<1>13. Slack(e, r, gone)
  <2>1. Passable(e, r, gone)
    BY <1>1, <1>4, <1>6 DEF Passable, affinity_on
  <2> QED BY <1>1, <1>6, <1>9, <2>1, SlackLocal DEF Sound
<1>14. r \notin Waiters(e)
  BY <1>4, <1>6 DEF Waiters
<1>15. Passes(q, gone)
  BY <1>1, <1>2, <1>9, <1>12, <1>13, <1>14, SentPasses DEF Sound
<1>16. Joins(f)
  <2>1. /\ f.mode = p.mode /\ f.algorithm = p.algorithm /\ f.served = p.served
        /\ f.virtual_time = p.virtual_time /\ SameHistory(p, f)
    BY <1>2 DEF Shortened, Freed, Around, SameSettings, SameService, SameAccounts, SameHistory
  <2>2. Queued(f) \subseteq Queued(p)
    BY <1>2, <1>4, SameQueues DEF Freed, Around
  <2> QED BY <2>1, <2>2, JoinsKept DEF Good
<1>17. Joins(e)
  <2>1. Joins(c)
    BY <1>1, <1>2, <1>7, <1>16, ChargedJoins
  <2> QED BY <1>2, <1>8, <1>9, <2>1, AdvancedJoins
<1>18. Joins(q)
  <2>1. Queued(q) = Queued(e)
    BY <1>2, SameQueues DEF Sent
  <2> QED BY <1>2, <1>17, <2>1, JoinsKept DEF Sent, SameAccounts, SameSettings
<1> QED BY <1>3, <1>11, <1>15, <1>18 DEF Good

\* A held slot's turn.
LEMMA RedeemedGood ==
  ASSUME NEW p, NEW q, NEW h, NEW F, NEW O, Redeemed(p, q, h), Good(p, F, O), h \in p.held,
         O \cap Queued(p) = {}
  PROVE  /\ Good(q, F, O) /\ Queued(q) \subseteq Queued(p) /\ p.held \ {h} \subseteq q.held
         /\ O \cap Queued(q) = {} /\ q.held \subseteq p.held
<1>1. CASE q = p
  BY <1>1
<1>2. ASSUME NEW D, NEW m, ~key_passed_out(p, KeyOf(h)), Pruned(p, m, D), q = m \/ \E r : TookOver(m, q, h, r)
      PROVE  /\ Good(q, F, O) /\ Queued(q) \subseteq Queued(p) /\ p.held \ {h} \subseteq q.held
             /\ O \cap Queued(q) = {} /\ q.held \subseteq p.held
  <2>1. D \cap p.pending = {}
    <3>1. p.held # {} => p.pending = {}
      BY DEF Good, Sound, Modal, Shape
    <3> QED BY <3>1
  <2>2. /\ Good(m, F, O) /\ Queued(m) = Queued(p) \ D /\ SameHolders(p, m)
        /\ \A x \in Queued(m) : m.passed[x] = p.passed[x]
        /\ m.max_jumps = p.max_jumps /\ m.mode = p.mode
    BY <1>2, <2>1, PrunedGood
  <2>3. m.held = p.held /\ O \cap Queued(m) = {}
    BY <2>2 DEF SameHolders
  <2>4. Passable(m, h, gone)
    <3> SUFFICES ASSUME affinity_on(m), NEW x \in Queued(m) \ gone, KeyOf(x) = KeyOf(h)
                 PROVE  m.passed[x] < MostJumps
      BY DEF Passable
    <3>1. affinity_on(p) /\ x \in Queued(p) /\ m.passed[x] = p.passed[x]
      BY <2>2 DEF affinity_on
    <3>2. x \in Requests
      BY <3>1, QueuedIs DEF Good, Sound, Shape
    <3>3. x \in ToSet(p.queues[KeyOf(h)])
      BY <3>1, TenantQueuedIs DEF Good, Sound, Shape, Places
    <3>4. ~(p.passed[x] >= p.max_jumps)
      BY <1>2, <3>1, <3>3 DEF key_passed_out, passed_out
    <3>5. PICK a \in Nat, b \in Nat, c \in Nat : a = p.passed[x] /\ b = p.max_jumps /\ c = MostJumps /\ b <= c
      BY <3>2, MostJumpsIs DEF Good, Sound, Shape
    <3> QED BY <3>1, <3>4, <3>5
  <2>5. CASE q = m
    BY <2>2, <2>3, <2>5
  <2>6. ASSUME NEW r, TookOver(m, q, h, r)
        PROVE  Good(q, F, O) /\ Queued(q) = Queued(m) \ {r} /\ q.held = m.held \ {h}
    BY <2>2, <2>3, <2>4, <2>6, TookOverGood
  <2>7. ASSUME NEW r, TookOver(m, q, h, r)
        PROVE  /\ Good(q, F, O) /\ Queued(q) \subseteq Queued(p) /\ p.held \ {h} \subseteq q.held
               /\ O \cap Queued(q) = {} /\ q.held \subseteq p.held
    BY <2>2, <2>3, <2>6, <2>7
  <2> QED BY <1>2, <2>5, <2>7
<1>3. q = p \/ \E D, m : /\ ~key_passed_out(p, KeyOf(h)) /\ Pruned(p, m, D)
                         /\ q = m \/ \E r : TookOver(m, q, h, r)
  BY Zenon DEF Redeemed
<1> QED BY <1>1, <1>2, <1>3

-----------------------------------------------------------------------------
(* dispatch_all.                                                           *)

\* The dispatch loop.
LEMMA TurnsGood ==
  ASSUME NEW p, NEW F, Good(p, F, {}), NEW q \in turns(p)
  PROVE  Good(q, F, {}) /\ Queued(q) \subseteq Queued(p)
<1>1. PICK c \in Nat : c = Cardinality(Requests)
  BY ListsRequests
<1>2. /\ turns(p) = AfterTurns(p)[Cardinality(Queued(p))]
      /\ AfterTurns(p)[0] = {p}
      /\ \A n \in 1..c : AfterTurns(p)[n] = UNION {turn(x) : x \in AfterTurns(p)[n - 1]}
  BY <1>1, TurnsStep
<1>3. PICK a : a = AfterTurns(p)
  OBVIOUS
<1>4. Cardinality(Queued(p)) \in 0..c
  <2>1. Queued(p) \subseteq Requests
    BY QueuedIs DEF Good, Sound, Shape
  <2>2. IsFiniteSet(Requests)
    BY RequestSet
  <2> QED BY <1>1, <2>1, <2>2, FS_Subset, FS_CardinalityType
<1> DEFINE Fine(x) == Good(x, F, {}) /\ Queued(x) \subseteq Queued(p)
           S == {n \in Nat : n \in 0..c => \A x \in a[n] : Fine(x)}
<1>5. ASSUME NEW x, Fine(x), NEW y \in turn(x) PROVE Fine(y)
  <2>1. IF Stuck(x) THEN y = x ELSE Turned(x, y)
    BY <1>5, TurnDoes DEF Good, Sound
  <2>2. CASE Stuck(x)
    BY <1>5, <2>1, <2>2
  <2>3. CASE ~Stuck(x)
    <3>1. Turned(x, y)
      BY <2>1, <2>3
    <3>2. Good(y, F, {}) /\ \E r \in Queued(x) : Queued(y) = Queued(x) \ {r}
      BY <1>5, <3>1, TurnedGood
    <3> QED BY <1>5, <3>2
  <2> QED BY <2>2, <2>3
<1>6. Fine(p)
  OBVIOUS
<1> HIDE DEF Fine
<1>7. 0 \in S
  BY <1>2, <1>3, <1>6
<1>8. ASSUME NEW n \in Nat, n \in S PROVE n + 1 \in S
  <2> SUFFICES ASSUME n + 1 \in 0..c, NEW y \in a[n + 1] PROVE Fine(y)
    OBVIOUS
  <2>1. n \in 0..c /\ n + 1 \in 1..c /\ (n + 1) - 1 = n
    OBVIOUS
  <2>2. a[n + 1] = UNION {turn(x) : x \in a[n]}
    BY <1>2, <1>3, <2>1
  <2>3. PICK x \in a[n] : y \in turn(x)
    BY <2>2
  <2>4. Fine(x)
    BY <1>8, <2>1, <2>3
  <2> QED BY <1>5, <2>3, <2>4
<1>9. \A n \in Nat : n \in S
  <2> HIDE DEF S
  <2> QED BY <1>7, <1>8, NatSetInduction
<1>10. Fine(q)
  BY <1>2, <1>3, <1>4, <1>9
<1> QED BY <1>10 DEF Fine

\* One held slot after another.
LEMMA RedeemQueuedGood ==
  ASSUME NEW p, NEW F, NEW O, Good(p, F, O), O \cap Queued(p) = {}, NEW q \in redeem_queued(p)
  PROVE  Good(q, F, O)
<1>1. PICK c \in Nat : c = Cardinality(p.held)
  <2>1. p.held \subseteq Requests
    BY DEF Good, Sound, Shape
  <2>2. IsFiniteSet(Requests)
    BY RequestSet
  <2> QED BY <2>1, <2>2, FS_Subset, FS_CardinalityType
<1>2. /\ redeem_queued(p) = {x.p : x \in AfterRedeems(p)[c]}
      /\ AfterRedeems(p)[0] = {[p |-> p, left |-> p.held]}
      /\ \A n \in 1..c : AfterRedeems(p)[n] = RedeemStep(AfterRedeems(p)[n - 1])
  BY <1>1, RedeemsStep
<1>3. PICK a : a = AfterRedeems(p)
  OBVIOUS
<1> DEFINE Fine(x) == Good(x.p, F, O) /\ O \cap Queued(x.p) = {} /\ x.left \subseteq x.p.held
           S == {n \in Nat : n \in 0..c => \A x \in a[n] : Fine(x)}
<1>5. ASSUME NEW Q, \A x \in Q : Fine(x), NEW y \in RedeemStep(Q) PROVE Fine(y)
  <2>1. PICK x \in Q : \E h \in x.left : \E z \in redeem(x.p, h) : y = [p |-> z, left |-> x.left \ {h}]
    BY <1>5 DEF RedeemStep
  <2>2. PICK h \in x.left : \E z \in redeem(x.p, h) : y = [p |-> z, left |-> x.left \ {h}]
    BY <2>1
  <2>3. PICK z \in redeem(x.p, h) : y = [p |-> z, left |-> x.left \ {h}]
    BY <2>2
  <2>4. Fine(x)
    BY <1>5
  <2>5. PICK w : w = x.p
    OBVIOUS
  <2>6. h \in w.held /\ Good(w, F, O) /\ O \cap Queued(w) = {} /\ z \in redeem(w, h)
    BY <2>2, <2>3, <2>4, <2>5
  <2>7. h \in Requests
    BY <2>6 DEF Good, Sound, Shape
  <2>8. Redeemed(w, z, h)
    BY <2>6, <2>7, RedeemDoes DEF Good, Sound
  <2>9. Good(z, F, O) /\ w.held \ {h} \subseteq z.held /\ O \cap Queued(z) = {}
    BY <2>6, <2>8, RedeemedGood
  <2>10. y.p = z /\ y.left = x.left \ {h}
    BY <2>3
  <2> QED BY <2>4, <2>5, <2>9, <2>10
<1>6. Fine([p |-> p, left |-> p.held])
  OBVIOUS
<1> HIDE DEF Fine
<1>7. 0 \in S
  BY <1>2, <1>3, <1>6
<1>8. ASSUME NEW n \in Nat, n \in S PROVE n + 1 \in S
  <2> SUFFICES ASSUME n + 1 \in 0..c, NEW y \in a[n + 1] PROVE Fine(y)
    OBVIOUS
  <2>1. n \in 0..c /\ n + 1 \in 1..c /\ (n + 1) - 1 = n
    OBVIOUS
  <2>2. a[n + 1] = RedeemStep(a[n])
    BY <1>2, <1>3, <2>1
  <2>3. \A x \in a[n] : Fine(x)
    BY <1>8, <2>1
  <2> QED BY <1>5, <2>2, <2>3
<1>9. \A n \in Nat : n \in S
  <2> HIDE DEF S
  <2> QED BY <1>7, <1>8, NatSetInduction
<1>10. PICK x \in a[c] : q = x.p
  BY <1>2, <1>3
<1>11. Fine(x)
  <2>1. c \in 0..c
    OBVIOUS
  <2> QED BY <1>9, <1>10, <2>1
<1> QED BY <1>10, <1>11 DEF Fine

\* Settings, sessions and blocked claims change, and the slots held for R are given
\* up.
Tuned(p, q, R) ==
  /\ IsPool(q) /\ Around(p, q) /\ SameHistory(p, q)
  /\ q.algorithm = p.algorithm /\ q.mode = p.mode /\ q.refused = p.refused
  /\ q.cap \in Nat \ {0} /\ q.max_jumps \in Affinities
  /\ q.session = p.session /\ q.jumped = p.jumped
  /\ q.running = p.running /\ q.pending = p.pending /\ q.held = p.held \ R

\* Then the slots of R are left to be given back.
LEMMA TunedGood ==
  ASSUME NEW p, NEW q, NEW R, NEW F, Tuned(p, q, R), Good(p, F, {}), R \subseteq p.held
  PROVE  Good(q, F, R) /\ R \cap Queued(q) = {} /\ Queued(q) = Queued(p)
<1>1. Queued(q) = Queued(p)
  BY SameQueues DEF Tuned, Around
<1>2. Shape(q) /\ Modal(q)
  BY DEF Tuned, Good, Sound, Shape, Modal, Around, SameHistory, SameCounts, SameService, SameAccounts
<1>3. Handed(p, q, F, {}, {}, R, {}, {})
  <2>1. Occupied(q) \union R = Occupied(p) /\ R \cap Occupied(q) = {} /\ R \subseteq Requests
    BY DEF Tuned, Occupied, Good, Sound, Places, Shape
  <2> QED BY <2>1 DEF Handed, Tuned, Good, Sound, Places, Occupied
<1>4. Sound(q, F, R, {})
  BY <1>2, <1>3, HandedSound DEF Tuned, Good
<1>5. Times(q)
  BY <1>1, TimesKept DEF Tuned, Good, Around
<1>6. Unpassed(p, q)
  BY <1>1 DEF Unpassed, Tuned, Around
<1>7. Passes(q, gone)
  BY <1>6, PassesKept DEF Good, Sound
<1>8. R \cap Queued(q) = {}
  BY <1>1 DEF Good, Sound, Places, Occupied
<1>9. Joins(q)
  BY <1>1, JoinsKept DEF Tuned, Good, Around, SameService, SameAccounts
<1> QED BY <1>1, <1>4, <1>5, <1>7, <1>8, <1>9 DEF Good

\* Holds that are given up.
LEMMA GivesUpDoes ==
  ASSUME NEW p, NEW R, Shape(p)
  PROVE  Tuned(p, [p EXCEPT !.held = @ \ R], R)
<1>1. PICK q : q = [p EXCEPT !.held = @ \ R]
  OBVIOUS
<1>2. IsPool(p)
  BY DEF Shape
<1>3. IsPool(q) /\ SameCounts(p, q) /\ SameService(p, q) /\ SameSettings(p, q) /\ SameHistory(p, q) /\ SameMarks(p, q)
  BY <1>1, <1>2 DEF IsPool, Fields, SameCounts, SameService, SameAccounts, SameSettings, SameHistory, SameMarks
<1>4. q.queues = p.queues /\ q.running = p.running /\ q.pending = p.pending /\ q.held = p.held \ R
  BY <1>1, <1>2 DEF IsPool, Fields
<1>5. Tuned(p, q, R)
  BY <1>3, <1>4 DEF Tuned, Around, SameSettings, SameMarks, Shape
<1> QED BY <1>1, <1>5

\* serve_holds.
LEMMA ServeHoldsGood ==
  ASSUME NEW p, NEW F, Good(p, F, {}), NEW q \in serve_holds(p)
  PROVE  Good(q, F, {})
<1>1. PICK R : R = holds_to_give_up(p)
  OBVIOUS
<1>2. R \subseteq p.held
  BY <1>1 DEF holds_to_give_up
<1>3. PICK g : g = [p EXCEPT !.held = @ \ R]
  OBVIOUS
<1>4. PICK x \in redeem_queued(g) : q = release(x, R)
  BY <1>1, <1>3, Zenon DEF serve_holds
<1>5. Tuned(p, g, R)
  BY <1>3, GivesUpDoes DEF Good, Sound, Shape
<1>6. Good(g, F, R) /\ R \cap Queued(g) = {}
  BY <1>2, <1>5, TunedGood
<1>7. Good(x, F, R)
  BY <1>4, <1>6, RedeemQueuedGood
<1>8. R \subseteq Requests /\ IsPool(x)
  BY <1>7 DEF Good, Sound, Slots, Shape
<1>9. Released(x, q, R)
  BY <1>4, <1>8, ReleaseDoes
<1> QED BY <1>7, <1>9, ReleasedGood

\* dispatch_all.
LEMMA DispatchGood ==
  ASSUME NEW p, NEW F, Good(p, F, {}), NEW q \in dispatch_all(p)
  PROVE  Good(q, F, {})
<1>1. PICK y \in UNION {turns(x) : x \in serve_holds(p)} : q = settle_idle(y)
  BY DEF dispatch_all
<1>2. PICK x \in serve_holds(p) : y \in turns(x)
  BY <1>1
<1>3. Good(x, F, {})
  BY <1>2, ServeHoldsGood
<1>4. Good(y, F, {})
  BY <1>2, <1>3, TurnsGood
<1>5. Settled(y, q)
  BY <1>1, <1>4, SettleDoes DEF Settled, Good, Sound, Shape
<1> QED BY <1>4, <1>5, SettledGood

-----------------------------------------------------------------------------
(* The handlers' own steps.                                                *)

\* Fewer requests to come.
LEMMA FewerFresh ==
  ASSUME NEW p, NEW F, NEW G, NEW O, NEW C, Sound(p, F, O, C), G \subseteq F
  PROVE  Sound(p, G, O, C)
<1>1. Places(p, G) /\ Marks(p, G)
  BY DEF Sound, Places, Marks
<1> QED BY <1>1 DEF Sound

\* A charge keeps time, passes and newcomers.
LEMMA ChargedApt ==
  ASSUME NEW p, NEW q, NEW r \in Requests, Charged(p, q, r), Shape(p), Times(p), Passes(p, gone), Joins(p)
  PROVE  Times(q) /\ Passes(q, gone) /\ Joins(q) /\ Queued(q) = Queued(p) /\ SameHolders(p, q)
<1>1. Queued(q) = Queued(p) /\ SameHolders(p, q)
  BY SameQueues DEF Charged
<1>2. Unpassed(p, q)
  BY <1>1 DEF Unpassed, Charged, SameSettings, SameMarks, SameHolders
<1> QED BY <1>1, <1>2, ChargedTimes, PassesKept, ChargedJoins

\* A request that holds a slot and was charged gets its permit.
LEMMA SentGood ==
  ASSUME NEW p, NEW q, NEW r \in Requests, NEW ahead, NEW F, Sent(p, q, r, ahead), Sound(p, F, {r}, {r}),
         Times(p), Passes(p, gone), Joins(p), r \notin Waiters(p), r \notin F, ahead /\ ~p.refused => Slack(p, r, gone)
  PROVE  Good(q, F, {})
<1>1. r \notin p.pending /\ r \notin Queued(p)
  BY DEF Waiters
<1>2. Sound(q, F, {r} \ {r}, {r} \ {r})
  BY <1>1, SentSound
<1>3. {r} \ {r} = {}
  OBVIOUS
<1>4. Sound(q, F, {}, {})
  BY <1>2, <1>3
<1>5. Times(q)
  <2>1. Queued(q) = Queued(p)
    BY SameQueues DEF Sent
  <2> QED BY <2>1 DEF Sent, SameAccounts, SameSettings, Times
<1>6. Passes(q, gone)
  BY SentPasses DEF Sound
<1>7. Joins(q)
  <2>1. Queued(q) = Queued(p)
    BY SameQueues DEF Sent
  <2> QED BY <2>1, JoinsKept DEF Sent, SameAccounts, SameSettings
<1> QED BY <1>4, <1>5, <1>6, <1>7 DEF Good

\* A request comes with its session.
Comes(p, q, r) ==
  /\ IsPool(q) /\ Around(p, q) /\ SameSettings(p, q) /\ SameHistory(p, q) /\ SameHolders(p, q)
  /\ q.jumped = p.jumped
  /\ \E s \in {Req[r].session, NoSession} : q.session = [p.session EXCEPT ![r] = s]

\* Its coming changes nothing else.
LEMMA ComesGood ==
  ASSUME NEW p, NEW q, NEW r \in Requests, NEW F, Comes(p, q, r), Good(p, F, {})
  PROVE  Good(q, F, {}) /\ Queued(q) = Queued(p)
<1>1. Queued(q) = Queued(p)
  BY SameQueues DEF Comes, Around
<1>2. PICK s \in {Req[r].session, NoSession} : q.session = [p.session EXCEPT ![r] = s]
  BY DEF Comes
<1>3. PICK f \in [Requests -> Sessions \union {NoSession}] : f = p.session
  BY DEF Good, Sound, Shape
<1>4. s \in Sessions \union {NoSession}
  BY <1>2 DEF Sessions
<1>5. q.session \in [Requests -> Sessions \union {NoSession}]
  BY <1>2, <1>3, <1>4
<1>6. \A x \in Requests : q.session[x] \in {Req[x].session, NoSession}
  <2>1. \A x \in Requests : f[x] \in {Req[x].session, NoSession}
    BY <1>3 DEF Good, Sound, Modal
  <2>2. \A x \in Requests : q.session[x] = IF x = r THEN s ELSE f[x]
    BY <1>2, <1>3
  <2> QED BY <1>2, <2>1, <2>2
<1>7. Shape(q)
  BY <1>5 DEF Comes, Good, Sound, Shape, Around, SameSettings, SameHistory, SameHolders, SameCounts, SameService, SameAccounts
<1>8. Modal(q)
  BY <1>6 DEF Comes, Good, Sound, Modal, SameSettings, SameHolders
<1>9. Sound(q, F, {}, {})
  BY <1>7, <1>8, AroundSound DEF Comes, Good
<1>10. Times(q) /\ Passes(q, gone) /\ Joins(q)
  BY OtherwiseKept DEF Comes, Good, Sound, Around, SameHolders
<1> QED BY <1>1, <1>9, <1>10 DEF Good

\* The slot held for its session is the newcomer's.
LEMMA RedeemsGood ==
  ASSUME NEW p, NEW F, NEW r \in F, NEW h \in p.held, Good(p, F, {}), Req[h].session = Req[r].session,
         ~key_passed_out(p, KeyOf(r)), NEW ahead,
         NEW q \in send(charge([p EXCEPT !.held = @ \ {h}], r), r, ahead)
  PROVE  Good(q, F \ {r}, {})
<1>1. PICK f : f = [p EXCEPT !.held = @ \ {h}]
  OBVIOUS
<1>2. PICK c : c = charge(f, r)
  OBVIOUS
<1>3. r \in Requests /\ h \in Requests
  BY DEF Good, Sound, Places, Shape
<1>4. KeyOf(h) = KeyOf(r)
  <2>1. Req[h].session # NoSession
    BY DEF Good, Sound, Modal
  <2> QED BY <1>3, <2>1, PoolAssumption DEF PoolAssumption
<1>5. Tuned(p, f, {h})
  BY <1>1, GivesUpDoes DEF Good, Sound
<1>6. Good(f, F, {h}) /\ Queued(f) = Queued(p)
  BY <1>5, TunedGood
<1>7. r \notin Occupied(p) /\ r \notin Queued(p)
  BY DEF Good, Sound, Places
<1>8. r \notin Occupied(f) /\ r \notin Queued(f)
  BY <1>5, <1>6, <1>7 DEF Tuned, Occupied
<1>9. Sound(f, F \ {r}, {r}, {})
  <2>1. {} \union {h} = {h} /\ {} \union {r} = {r}
    OBVIOUS
  <2>2. Sound(f, F, {} \union {h}, {})
    BY <1>6, <2>1 DEF Good
  <2>3. Sound(f, F, {} \union {r}, {})
    BY <1>3, <1>4, <1>8, <2>2, SlotPasses
  <2> QED BY <2>1, <2>3, FewerFresh
<1>10. Charged(f, c, r)
  BY <1>2, <1>9, ChargeDoes DEF Sound, Shape
<1>11. Times(c) /\ Passes(c, gone) /\ Joins(c) /\ Queued(c) = Queued(f) /\ SameHolders(f, c)
  BY <1>3, <1>6, <1>9, <1>10, ChargedApt DEF Good, Sound
<1>12. Sound(c, F \ {r}, {r}, {r})
  <2>1. r \notin f.pending /\ r \notin {}
    BY <1>8 DEF Occupied
  <2>2. Sound(c, F \ {r}, {r}, {} \union {r})
    BY <1>3, <1>9, <1>10, <2>1, ChargedSound
  <2>3. {} \union {r} = {r}
    OBVIOUS
  <2> QED BY <2>2, <2>3
<1>13. IsPool(c)
  BY <1>12 DEF Sound, Shape
<1>14. Sent(c, q, r, ahead)
  BY <1>1, <1>2, <1>13, SendDoes
<1>15. r \notin Waiters(c)
  BY <1>8, <1>11 DEF Waiters, SameHolders, Occupied
<1>16. Slack(c, r, gone)
  <2>1. p.pending = {}
    BY DEF Good, Sound, Modal, Shape
  <2>2. f.max_jumps = p.max_jumps
    BY <1>1 DEF Good, Sound, Shape, IsPool, Fields
  <2>3. c.passed = p.passed /\ f.max_jumps = c.max_jumps
    BY <1>5, <1>10 DEF Charged, SameSettings, SameMarks, Tuned, Around
  <2>4. Passable(c, r, gone)
    <3> SUFFICES ASSUME affinity_on(c), NEW x \in Queued(c) \ gone, KeyOf(x) = KeyOf(r)
                 PROVE  c.passed[x] < MostJumps
      BY DEF Passable
    <3>1. x \in Queued(p) /\ x \in Requests
      BY <1>6, <1>11, QueuedIs DEF Good, Sound, Shape
    <3>2. x \in ToSet(p.queues[KeyOf(r)])
      BY <3>1, TenantQueuedIs DEF Good, Sound, Shape, Places
    <3>3. c.max_jumps = p.max_jumps
      BY <2>2, <2>3
    <3>4. ~(p.passed[x] >= p.max_jumps)
      BY <3>1, <3>2, <3>3 DEF key_passed_out, passed_out, affinity_on
    <3>5. PICK a \in Nat, b \in Nat, m \in Nat : a = p.passed[x] /\ b = p.max_jumps /\ m = MostJumps /\ b <= m
      BY <3>1, MostJumpsIs DEF Good, Sound, Shape
    <3> QED BY <2>3, <3>4, <3>5
  <2>5. c.pending = {}
    BY <1>5, <1>11, <2>1 DEF Tuned, SameHolders
  <2> QED BY <1>3, <1>12, <2>4, <2>5, SlackLocal DEF Sound
<1> QED BY <1>3, <1>11, <1>12, <1>14, <1>15, <1>16, SentGood

\* A slot at once.
LEMMA FastGood ==
  ASSUME NEW p, NEW F, NEW r \in F, Good(p, F, {}), Room(p, r), NEW q \in send(occupy(p, r), r, FALSE)
  PROVE  Good(q, F \ {r}, {})
<1>1. r \in Requests /\ IsPool(p)
  BY DEF Good, Sound, Places, Shape
<1>2. PICK d : d = occupy(p, r)
  OBVIOUS
<1>3. PICK c : Counted(p, c, r) /\ Charged(c, d, r)
  BY <1>1, <1>2, OccupyDoes
<1>4. r \notin Occupied(p) /\ r \notin Queued(p) /\ r \notin {}
  BY DEF Good, Sound, Places
<1>5. {} \union {r} = {r}
  OBVIOUS
<1>6. Sound(c, F, {r}, {})
  <2>1. Sound(c, F, {} \union {r}, {})
    BY <1>1, <1>3, <1>4, CountedSound DEF Good
  <2> QED BY <1>5, <2>1
<1>7. Times(c) /\ Passes(c, gone) /\ Joins(c)
  BY <1>3, OtherwiseKept DEF Counted, Good, Sound, SameHolders, SameMarks
<1>8. Queued(c) = Queued(p) /\ SameHolders(p, c)
  BY <1>3, SameQueues DEF Counted
<1>9. Times(d) /\ Passes(d, gone) /\ Joins(d) /\ Queued(d) = Queued(c) /\ SameHolders(c, d)
  BY <1>1, <1>3, <1>6, <1>7, ChargedApt DEF Sound
<1>10. Sound(d, F \ {r}, {r}, {r})
  <2>1. r \notin c.pending
    BY <1>4, <1>8 DEF SameHolders, Occupied
  <2>2. Sound(d, F, {r}, {} \union {r})
    BY <1>1, <1>3, <1>4, <1>6, <2>1, ChargedSound
  <2>3. Sound(d, F, {r}, {r})
    BY <1>5, <2>2
  <2> QED BY <2>3, FewerFresh
<1>11. Sent(d, q, r, FALSE)
  BY <1>2, <1>10, SendDoes DEF Sound, Shape
<1>12. r \notin Waiters(d)
  BY <1>4, <1>8, <1>9 DEF Waiters, SameHolders, Occupied
<1> QED BY <1>1, <1>9, <1>10, <1>11, <1>12, SentGood

\* A place in the queue.
LEMMA EnqueueGood ==
  ASSUME NEW p, NEW F, NEW r \in F, Good(p, F, {}), NEW q, q = enqueue(p, r)
  PROVE  Good(q, F \ {r}, {})
<1>1. r \in Requests /\ IsPool(p)
  BY DEF Good, Sound, Places, Shape
<1>2. Queues(p, q, r)
  BY <1>1, EnqueueDoes
<1>3. Sound(q, F \ {r}, {}, {}) /\ Queued(q) = Queued(p) \union {r}
  BY <1>1, <1>2, QueuesSound DEF Good
<1>4. Times(q)
  BY <1>1, <1>2, <1>3, QueuesTimes DEF Good
<1>5. Passes(q, gone)
  BY <1>1, <1>2, <1>3, QueuesPasses DEF Good
<1>6. Joins(q)
  BY <1>1, <1>2, <1>3, QueuesJoins DEF Good
<1> QED BY <1>3, <1>4, <1>5, <1>6 DEF Good

\* A permit is dropped.
Dropped(p, q, r) ==
  /\ IsPool(q) /\ Around(p, q) /\ SameSettings(p, q) /\ SameHistory(p, q) /\ q.jumped = p.jumped
  /\ q.running = p.running \ {r} /\ q.pending = p.pending /\ q.held = p.held
  /\ q.session = [p.session EXCEPT ![r] = NoSession]

\* Its slot is kept for its session.
HeldOn(p, q, r) ==
  /\ IsPool(q) /\ Around(p, q) /\ SameSettings(p, q) /\ SameHistory(p, q) /\ q.jumped = p.jumped
  /\ q.running = p.running /\ q.pending = p.pending /\ q.held = p.held \union {r}
  /\ q.session = p.session

\* Then its slot is left to be kept or given back.
LEMMA DroppedGood ==
  ASSUME NEW p, NEW q, NEW r \in p.running, NEW F, Dropped(p, q, r), Good(p, F, {})
  PROVE  Good(q, F, {r}) /\ r \in Requests /\ r \notin Queued(q)
<1>1. r \in Requests /\ r \notin Queued(p)
  BY DEF Good, Sound, Shape, Places, Occupied
<1>2. PICK f \in [Requests -> Sessions \union {NoSession}] : f = p.session
  BY DEF Good, Sound, Shape
<1>3. /\ q.session \in [Requests -> Sessions \union {NoSession}]
      /\ \A x \in Requests : q.session[x] = IF x = r THEN NoSession ELSE f[x]
  BY <1>1, <1>2 DEF Dropped
<1>4. Shape(q)
  BY <1>3 DEF Dropped, Good, Sound, Shape, Around, SameSettings, SameHistory, SameCounts, SameService, SameAccounts
<1>5. Modal(q)
  BY <1>2, <1>3 DEF Dropped, Good, Sound, Modal, SameSettings
<1>6. Handed(p, q, F, {}, {}, {r}, {}, r)
  <2>1. Occupied(q) \union {r} = Occupied(p) /\ r \notin Occupied(q)
    BY DEF Dropped, Occupied, Good, Sound, Places
  <2> QED BY <1>1, <2>1 DEF Handed, Dropped, Good, Sound, Places, Occupied
<1>7. Sound(q, F, {r}, {})
  BY <1>4, <1>5, <1>6, HandedSound DEF Dropped, Good
<1>8. Times(q) /\ Passes(q, gone) /\ Joins(q)
  BY OtherwiseKept DEF Dropped, Good, Sound, Around
<1>9. Queued(q) = Queued(p)
  BY SameQueues DEF Dropped, Around
<1> QED BY <1>1, <1>7, <1>8, <1>9 DEF Good

\* Keeping it.
LEMMA HeldOnGood ==
  ASSUME NEW p, NEW q, NEW r \in Requests, NEW F, HeldOn(p, q, r), Good(p, F, {r}), r \notin Queued(p), r \notin F,
         p.mode = "local", Req[r].session # NoSession
  PROVE  Good(q, F, {})
<1>1. Shape(q)
  BY DEF HeldOn, Good, Sound, Shape, Around, SameSettings, SameHistory, SameCounts, SameService, SameAccounts
<1>2. Modal(q)
  BY DEF HeldOn, Good, Sound, Modal, SameSettings
<1>3. r \notin Occupied(p)
  BY DEF Good, Sound, Slots
<1>4. Handed(p, q, F, {r}, {}, {}, {}, r)
  BY <1>3 DEF Handed, HeldOn, Good, Sound, Places, Occupied
<1>5. Sound(q, F, {}, {})
  BY <1>1, <1>2, <1>4, HandedSound DEF HeldOn, Good
<1>6. Times(q) /\ Passes(q, gone) /\ Joins(q)
  BY OtherwiseKept DEF HeldOn, Good, Sound, Around
<1> QED BY <1>5, <1>6 DEF Good

\* finish_step: the permit is dropped, then the slot is kept for its session or
\* given back.
LEMMA FinishDoes ==
  ASSUME NEW p, NEW r \in Requests, Shape(p), Modal(p)
  PROVE  \E d : /\ Dropped(p, d, r)
                /\ \/ finish_step(p, r) = release(d, {r})
                   \/ /\ HeldOn(d, finish_step(p, r), r)
                      /\ p.session[r] # NoSession /\ p.mode = "local"
<1> DEFINE s == p.session[r]
           steps == p.sessions[s]
           known == affinity_on(p) /\ s # NoSession /\ steps # NoSteps
           alone == steps.n <= 1
           q == [p EXCEPT !.running = @ \ {r}, !.session[r] = NoSession]
           e == [q EXCEPT !.sessions[s] = [steps EXCEPT !.n = orZero(@ - 1), !.last = "warm"]]
           done == IF known THEN e ELSE q
           hold == /\ known /\ alone /\ steps.chained
                   /\ ~someone_aged(p) /\ ~key_passed_out(p, KeyOf(r))
                   /\ Cardinality(p.held) < max_held(p)
<1>3. finish_step(p, r) = IF hold THEN [done EXCEPT !.held = @ \union {r}] ELSE release(done, {r})
  BY Zenon DEF finish_step
<1> HIDE DEF steps
<1>4. IsPool(p)
  BY DEF Shape
<1>5. Dropped(p, q, r)
  <2> HIDE DEF known, alone, hold, done, e
  <2>0. PICK a, b : a = p.running \ {r} /\ b = [p.session EXCEPT ![r] = NoSession]
    OBVIOUS
  <2>1. PICK z : z = q
    OBVIOUS
  <2>2. z = [p EXCEPT !.running = a, !.session = b]
    BY <2>0, <2>1
  <2> HIDE DEF q
  <2>3. IsPool(z) /\ SameCounts(p, z) /\ SameService(p, z) /\ SameSettings(p, z) /\ SameHistory(p, z)
    BY <2>2, <1>4 DEF IsPool, Fields, SameCounts, SameService, SameAccounts, SameSettings, SameHistory
  <2>4. /\ z.queues = p.queues /\ z.running = a /\ z.pending = p.pending /\ z.held = p.held /\ z.session = b
        /\ z.arrived = p.arrived /\ z.passed = p.passed /\ z.jumped = p.jumped
    BY <2>2, <1>4 DEF IsPool, Fields
  <2> QED BY <2>0, <2>1, <2>3, <2>4 DEF Dropped, Around
<1> HIDE DEF q
<1>6. Dropped(p, e, r)
  <2>1. PICK b : b = [q.sessions EXCEPT ![s] = [steps EXCEPT !.n = orZero(@ - 1), !.last = "warm"]]
    OBVIOUS
  <2>2. PICK z : z = e
    OBVIOUS
  <2>3. z = [q EXCEPT !.sessions = b]
    BY <2>1, <2>2
  <2> HIDE DEF e, known, alone, hold, done
  <2>4. IsPool(q)
    BY <1>5 DEF Dropped
  <2>5. IsPool(z) /\ SameCounts(q, z) /\ SameService(q, z) /\ SameSettings(q, z) /\ SameHistory(q, z)
    BY <2>3, <2>4 DEF IsPool, Fields, SameCounts, SameService, SameAccounts, SameSettings, SameHistory
  <2>6. /\ z.queues = q.queues /\ z.running = q.running /\ z.pending = q.pending /\ z.held = q.held /\ z.session = q.session
        /\ z.arrived = q.arrived /\ z.passed = q.passed /\ z.jumped = q.jumped
    BY <2>3, <2>4 DEF IsPool, Fields
  <2>7. Dropped(p, z, r)
    BY <1>5, <2>5, <2>6 DEF Dropped, Around, SameCounts, SameService, SameAccounts, SameSettings, SameHistory
  <2> QED BY <2>2, <2>7
<1> HIDE DEF e
<1>7. Dropped(p, done, r)
  BY <1>5, <1>6
<1>8. ASSUME hold PROVE p.session[r] # NoSession /\ p.mode = "local"
  <2>1. Cardinality(p.held) \in Nat
    <3>1. p.held \subseteq Requests
      BY DEF Shape
    <3> QED BY <3>1, RequestSet, FS_CardinalityType
  <2>2. Cardinality(p.held) < max_held(p)
    BY <1>8
  <2>3. p.mode = "local"
    BY <2>1, <2>2 DEF max_held
  <2> QED BY <1>8, <2>3
<1> HIDE DEF done
<1>9. HeldOn(done, [done EXCEPT !.held = @ \union {r}], r)
  <2>1. PICK w : w = done
    OBVIOUS
  <2>2. PICK z : z = [w EXCEPT !.held = @ \union {r}]
    OBVIOUS
  <2>3. IsPool(w)
    BY <1>7, <2>1 DEF Dropped
  <2>4. IsPool(z) /\ SameCounts(w, z) /\ SameService(w, z) /\ SameSettings(w, z) /\ SameHistory(w, z)
    BY <2>2, <2>3 DEF IsPool, Fields, SameCounts, SameService, SameAccounts, SameSettings, SameHistory
  <2>5. /\ z.queues = w.queues /\ z.running = w.running /\ z.pending = w.pending /\ z.held = w.held \union {r}
        /\ z.session = w.session /\ z.arrived = w.arrived /\ z.passed = w.passed /\ z.jumped = w.jumped
    BY <2>2, <2>3 DEF IsPool, Fields
  <2>6. HeldOn(w, z, r)
    BY <2>4, <2>5 DEF HeldOn, Around
  <2> QED BY <2>1, <2>2, <2>6
<1>10. CASE hold
  <2>1. finish_step(p, r) = [done EXCEPT !.held = @ \union {r}]
    BY <1>3, <1>10
  <2> QED BY <1>7, <1>8, <1>9, <1>10, <2>1, Zenon
<1>11. CASE ~hold
  <2>1. finish_step(p, r) = release(done, {r})
    BY <1>3, <1>11
  <2> QED BY <1>7, <2>1, Zenon
<1> QED BY <1>10, <1>11

\* finish_step.
LEMMA FinishGood ==
  ASSUME NEW p, NEW r \in p.running, NEW F, Good(p, F, {})
  PROVE  Good(finish_step(p, r), F, {})
<1>1. r \in Requests /\ r \notin F
  BY DEF Good, Sound, Shape, Places, Occupied
<1>2. PICK d : /\ Dropped(p, d, r)
               /\ \/ finish_step(p, r) = release(d, {r})
                  \/ /\ HeldOn(d, finish_step(p, r), r)
                     /\ p.session[r] # NoSession /\ p.mode = "local"
  BY <1>1, FinishDoes DEF Good, Sound
<1>3. Good(d, F, {r}) /\ r \notin Queued(d)
  BY <1>2, DroppedGood
<1>4. CASE finish_step(p, r) = release(d, {r})
  <2>1. Released(d, finish_step(p, r), {r})
    BY <1>1, <1>3, <1>4, ReleaseDoes DEF Good, Sound, Shape
  <2> QED BY <1>3, <2>1, ReleasedGood
<1>5. CASE HeldOn(d, finish_step(p, r), r) /\ p.session[r] # NoSession /\ p.mode = "local"
  <2>1. d.mode = "local"
    BY <1>2, <1>5 DEF Dropped, SameSettings
  <2>2. Req[r].session # NoSession
    BY <1>1, <1>5 DEF Good, Sound, Modal
  <2> QED BY <1>1, <1>3, <1>5, <2>1, <2>2, HeldOnGood
<1> QED BY <1>2, <1>4, <1>5

\* The numbers from one on are items.
LEMMA FirstItems ==
  ASSUME NEW n \in Nat \ {0}
  PROVE  Items(1..n) /\ 1..n # {}
<1>1. IsFiniteSet(1..n)
  BY FS_Interval
<1>2. 1 \in 1..n /\ 1..n \subseteq Nat \ {0}
  OBVIOUS
<1> QED BY <1>1, <1>2 DEF Items

-----------------------------------------------------------------------------
(* Somebody is picked where somebody may be.                               *)

\* Tenants, groups and their weights.
LEMMA Weights ==
  /\ Items(Tenants) /\ Items(Groups) /\ IsFiniteSet(Tenants)
  /\ \A t \in Tenants : Tenant[t].group \in Groups /\ Tenant[t].weight \in Nat \ {0}
  /\ \A g \in Groups : GroupWeight[g] \in Nat \ {0}
<1>1. Len(Tenant) \in Nat /\ Len(GroupWeight) \in Nat
  BY Belongs
<1>2. IsFiniteSet(Tenants) /\ IsFiniteSet(Groups)
  BY <1>1, FS_Interval DEF Tenants, Groups
<1>3. Tenants \subseteq Nat \ {0} /\ Groups \subseteq Nat \ {0}
  BY <1>1 DEF Tenants, Groups
<1> QED BY <1>2, <1>3, PoolAssumption DEF PoolAssumption, Items

\* Some tenant has the least share of its weight.
LEMMA TenantFound ==
  ASSUME NEW p, Shape(p), NEW S, S \subseteq Tenants, S # {}
  PROVE  lowest_tenants(p, S) # {} /\ lowest_tenants(p, S) \subseteq S
<1> DEFINE s == [t \in Tenants |-> orZero(p.served[t])]
           w == [t \in Tenants |-> Tenant[t].weight]
<1>1. s \in [Tenants -> Nat]
  <2>1. \A t \in Tenants : orZero(p.served[t]) \in Nat
    BY OrZeroNat DEF Shape
  <2> QED BY <2>1
<1>2. w \in [Tenants -> Nat \ {0}] /\ IsFiniteSet(Tenants)
  BY Weights
<1>3. lowest_tenants(p, S) = {x \in S : \A y \in S : orZero(p.served[x]) * Tenant[y].weight <= orZero(p.served[y]) * Tenant[x].weight}
  BY DEF lowest_tenants, lowest
<1>4. \A t \in S : s[t] = orZero(p.served[t]) /\ w[t] = Tenant[t].weight
  OBVIOUS
<1> HIDE DEF s, w
<1>5. \E x \in S : \A y \in S : s[x] * w[y] <= s[y] * w[x]
  BY <1>1, <1>2, HasLowest
<1>6. PICK x \in S : \A y \in S : s[x] * w[y] <= s[y] * w[x]
  BY <1>5
<1>7. x \in lowest_tenants(p, S)
  BY <1>3, <1>4, <1>6
<1> QED BY <1>3, <1>7

\* The groups' service is a number.
LEMMA GroupServiceNat ==
  ASSUME NEW p, Shape(p), NEW g
  PROVE  group_service(p, g) \in Nat
<1> DEFINE v == [t \in Tenants |-> IF Tenant[t].group = g /\ p.served[t] # None
                                   THEN orZero(p.served[t] - p.base[t]) ELSE 0]
<1>1. \A t \in 1..Len(Tenant) : v[t] \in Nat
  <2> TAKE t \in 1..Len(Tenant)
  <2>1. t \in Tenants
    BY DEF Tenants
  <2>2. p.served[t] - p.base[t] \in Int
    BY <2>1 DEF Shape
  <2>3. orZero(p.served[t] - p.base[t]) \in Nat
    BY <2>2, OrZeroNat
  <2> QED BY <2>1, <2>3
<1> HIDE DEF v
<1>2. Len(Tenant) \in Nat
  BY Belongs
<1>3. Sum(v, Len(Tenant)) \in Nat
  BY <1>1, <1>2, SumNat
<1> QED BY <1>3 DEF group_service, v

\* Some group with a tenant in the set has the least share of its weight.
LEMMA GroupFound ==
  ASSUME NEW p, Shape(p), NEW S, S \subseteq Tenants, S # {}
  PROVE  \E x \in S : \A y \in S :
           group_service(p, Tenant[x].group) * GroupWeight[Tenant[y].group]
             <= group_service(p, Tenant[y].group) * GroupWeight[Tenant[x].group]
<1> DEFINE s == [t \in Tenants |-> group_service(p, Tenant[t].group)]
           w == [t \in Tenants |-> GroupWeight[Tenant[t].group]]
<1>1. s \in [Tenants -> Nat]
  BY GroupServiceNat
<1>2. w \in [Tenants -> Nat \ {0}] /\ IsFiniteSet(Tenants)
  BY Weights
<1>4. \A t \in S : s[t] = group_service(p, Tenant[t].group) /\ w[t] = GroupWeight[Tenant[t].group]
  OBVIOUS
<1> HIDE DEF s, w
<1>6. PICK x \in S : \A y \in S : s[x] * w[y] <= s[y] * w[x]
  BY <1>1, <1>2, HasLowest
<1> QED BY <1>4, <1>6

\* Some of the items are items.
LEMMA SomeItems ==
  ASSUME NEW D, Items(D), NEW S, S \subseteq D
  PROVE  Items(S)
BY FS_Subset DEF Items

\* There is a split of the pool among the groups, and of a group's part among its
\* tenants.
LEMMA GroupCapsFound ==
  ASSUME NEW p, Shape(p)
  PROVE  /\ group_caps(p) # {}
         /\ \A caps \in group_caps(p) : DOMAIN caps \subseteq Groups /\ \A g \in DOMAIN caps : caps[g] \in Nat
<1> DEFINE active == {g \in Groups : \E t \in TenantsOf(g) : is_active(p, t)}
           w == [g \in active |-> GroupWeight[g]]
<1>1. group_caps(p) = weighted_caps(p.cap, w)
  BY DEF group_caps
<1>2. active \subseteq Groups /\ w \in [active -> Int]
  BY Weights
<1> HIDE DEF active, w
<1>3. Items(active)
  BY <1>2, Weights, SomeItems
<1>4. p.cap \in Nat
  BY DEF Shape
<1>5. /\ weighted_caps(p.cap, w) # {}
      /\ \A caps \in weighted_caps(p.cap, w) : DOMAIN caps \subseteq active /\ \A i \in DOMAIN caps : caps[i] \in Nat
  BY <1>2, <1>3, <1>4, CapsExist
<1> QED BY <1>1, <1>2, <1>5

\* The same for the tenants of a group.
LEMMA TenantCapsFound ==
  ASSUME NEW p, NEW g, NEW n \in Nat
  PROVE  tenant_slot_caps(p, g, n) # {}
<1> DEFINE active == {t \in TenantsOf(g) : is_active(p, t)}
           w == [t \in active |-> Tenant[t].weight]
<1>1. tenant_slot_caps(p, g, n) = weighted_caps(n, w)
  BY DEF tenant_slot_caps
<1>2. active \subseteq Tenants /\ w \in [active -> Int]
  BY Weights DEF TenantsOf
<1> HIDE DEF active, w
<1>3. Items(active)
  BY <1>2, Weights, SomeItems
<1>4. weighted_caps(n, w) # {}
  BY <1>2, <1>3, CapsExist
<1> QED BY <1>1, <1>4

\* Where a tenant is eligible one is picked: no cap is a reservation.
LEMMA SomebodyPicked ==
  ASSUME NEW p, Shape(p), NEW t0 \in Tenants, tenant_is_eligible(p, t0)
  PROVE  pick_tenant(p) # {}
<1> DEFINE T == {t \in Tenants : tenant_is_eligible(p, t)}
<1>0. T # {} /\ T \subseteq Tenants
  OBVIOUS
<1>1. CASE p.algorithm = "weighted"
  <2>1. lowest_tenants(p, T) # {}
    BY <1>0, TenantFound
  <2> QED BY <1>1, <2>1 DEF pick_tenant, pick_tenant_weighted
<1>2. CASE p.algorithm # "weighted"
  <2> DEFINE splits(caps) == {f \in [DOMAIN caps -> UNION {tenant_slot_caps(p, g, caps[g]) : g \in DOMAIN caps}] :
                         \A g \in DOMAIN caps : f[g] \in tenant_slot_caps(p, g, caps[g])}
             low(pot) == {x \in pot : \A y \in pot :
                            group_service(p, Tenant[x].group) * GroupWeight[Tenant[y].group]
                              <= group_service(p, Tenant[y].group) * GroupWeight[Tenant[x].group]}
             best(pot) == lowest_tenants(p, low(pot))
             pots(caps) == UNION {best(lend(T, within_caps(p, T, caps, f))) : f \in splits(caps)}
  <2>1. pick_tenant(p) = UNION {pots(caps) : caps \in group_caps(p)}
    BY <1>2 DEF pick_tenant, pick_tenant_hierarchical, lowest
  <2>2. PICK caps \in group_caps(p) : \A g \in DOMAIN caps : caps[g] \in Nat
    BY GroupCapsFound
  <2>3. splits(caps) # {}
    <3> DEFINE f == [g \in DOMAIN caps |-> CHOOSE c : c \in tenant_slot_caps(p, g, caps[g])]
    <3>1. \A g \in DOMAIN caps : f[g] \in tenant_slot_caps(p, g, caps[g])
      <4> TAKE g \in DOMAIN caps
      <4>1. tenant_slot_caps(p, g, caps[g]) # {}
        BY <2>2, TenantCapsFound
      <4>2. (CHOOSE c : c \in tenant_slot_caps(p, g, caps[g])) \in tenant_slot_caps(p, g, caps[g])
        BY <4>1, Zenon
      <4> QED BY <4>2
    <3>2. f \in [DOMAIN caps -> UNION {tenant_slot_caps(p, g, caps[g]) : g \in DOMAIN caps}]
      BY <3>1
    <3>3. f \in splits(caps)
      BY <3>1, <3>2, Zenon
    <3> QED BY <3>3
  <2>4. PICK f : f \in splits(caps)
    BY <2>3, Zenon
  <2> DEFINE W == within_caps(p, T, caps, f)
             pot == lend(T, W)
  <2>5. pot # {} /\ pot \subseteq Tenants
    <3>1. W \subseteq T
      BY DEF within_caps
    <3> HIDE DEF W, T
    <3> QED BY <1>0, <3>1 DEF lend
  <2>6. best(pot) # {}
    <3>1. \E x \in pot : \A y \in pot :
             group_service(p, Tenant[x].group) * GroupWeight[Tenant[y].group]
               <= group_service(p, Tenant[y].group) * GroupWeight[Tenant[x].group]
      <4> HIDE DEF pot
      <4> QED BY <2>5, GroupFound
    <3> HIDE DEF pot
    <3>2. low(pot) # {} /\ low(pot) \subseteq Tenants
      BY <2>5, <3>1
    <3> HIDE DEF low
    <3> QED BY <3>2, TenantFound
  <2> HIDE DEF best, splits
  <2>7. PICK x : x \in best(pot)
    BY <2>6
  <2>8. x \in pots(caps)
    BY <2>4, <2>7
  <2> HIDE DEF pots
  <2> QED BY <2>1, <2>2, <2>8
<1> QED BY <1>1, <1>2

-----------------------------------------------------------------------------
(* No slot idle beside a request it could go to.                           *)

\* The pool is busy: no slot it may take has a request to go to.
Busy(p) == may_take(p) => \A t \in Tenants : ~tenant_is_eligible(p, t)

\* A pool with no turn left is busy.
LEMMA StuckBusy ==
  ASSUME NEW p, Shape(p), Stuck(p)
  PROVE  Busy(p)
BY SomebodyPicked DEF Stuck, Busy

\* So is one where nobody waits.
LEMMA EmptyBusy ==
  ASSUME NEW p, p.queues \in [Keys -> Seq(Requests)], Queued(p) = {}
  PROVE  Busy(p)
<1>1. \A k \in Keys : p.queues[k] = <<>>
  <2> SUFFICES ASSUME NEW k \in Keys PROVE p.queues[k] = <<>>
    OBVIOUS
  <2>1. PICK s \in Seq(Requests) : s = p.queues[k]
    OBVIOUS
  <2>2. \A i \in DOMAIN s : FALSE
    BY <2>1, QueuedIs
  <2>3. Len(s) \in Nat /\ DOMAIN s = 1..Len(s)
    OBVIOUS
  <2>4. Len(s) = 0
    <3>1. Len(s) > 0 => 1 \in DOMAIN s
      BY <2>3
    <3> QED BY <2>2, <2>3, <3>1
  <2> QED BY <2>1, <2>4, EmptySeq
<1> QED BY <1>1 DEF Busy, tenant_is_eligible, KeysOf

\* Who may go depends on the settings, the counters, the claims that are out and on
\* which queues are empty.
LEMMA BusyKept ==
  ASSUME NEW p, NEW q, SameSettings(p, q), SameCounts(p, q), q.pending = p.pending,
         \A k \in Keys : p.queues[k] = <<>> => q.queues[k] = <<>>, Busy(p)
  PROVE  Busy(q)
<1>1. may_take(q) => may_take(p)
  BY DEF may_take, limit, SameSettings, SameCounts
<1>2. \A t \in Tenants : tenant_open(q, t) <=> tenant_open(p, t)
  BY DEF tenant_open, SameSettings, SameCounts
<1>3. \A k \in Keys : key_open(q, k) <=> key_open(p, k)
  BY DEF key_open, SameSettings, SameCounts
<1>4. ASSUME NEW t \in Tenants, tenant_is_eligible(q, t) PROVE tenant_is_eligible(p, t)
  BY <1>2, <1>3, <1>4 DEF tenant_is_eligible, KeysOf
<1> QED BY <1>1, <1>4 DEF Busy

\* The dispatch loop has as many turns as requests wait, and each takes one away or
\* is the last.
LEMMA TurnsBusy ==
  ASSUME NEW p, NEW F, Good(p, F, {}), NEW q \in turns(p)
  PROVE  Busy(q)
<1>1. PICK c \in Nat : c = Cardinality(Requests)
  BY ListsRequests
<1>2. /\ turns(p) = AfterTurns(p)[Cardinality(Queued(p))]
      /\ AfterTurns(p)[0] = {p}
      /\ \A n \in 1..c : AfterTurns(p)[n] = UNION {turn(x) : x \in AfterTurns(p)[n - 1]}
  BY <1>1, TurnsStep
<1>3. PICK a : a = AfterTurns(p)
  OBVIOUS
<1>4. PICK m \in 0..c : m = Cardinality(Queued(p))
  <2>1. Queued(p) \subseteq Requests
    BY QueuedIs DEF Good, Sound, Shape
  <2>2. IsFiniteSet(Requests)
    BY RequestSet
  <2> QED BY <1>1, <2>1, <2>2, FS_Subset, FS_CardinalityType
<1> DEFINE Over(x, n) == Good(x, F, {}) /\ (Stuck(x) \/ Cardinality(Queued(x)) = m - n)
           S == {n \in Nat : n \in 0..c => \A x \in a[n] : Over(x, n)}
<1>5. ASSUME NEW n \in 0..c, NEW x, Over(x, n), NEW y \in turn(x) PROVE Over(y, n + 1)
  <2>1. IF Stuck(x) THEN y = x ELSE Turned(x, y)
    BY <1>5, TurnDoes DEF Good, Sound
  <2>2. CASE Stuck(x)
    BY <1>5, <2>1, <2>2
  <2>3. CASE ~Stuck(x)
    <3>1. Turned(x, y)
      BY <2>1, <2>3
    <3>2. Good(y, F, {})
      BY <1>5, <3>1, TurnedGood
    <3>3. PICK r \in Queued(x) : Queued(y) = Queued(x) \ {r}
      BY <1>5, <3>1, TurnedGood
    <3>4. Queued(x) \subseteq Requests
      BY <1>5, QueuedIs DEF Good, Sound, Shape
    <3>5. IsFiniteSet(Queued(x))
      BY <3>4, RequestSet
    <3>6. Cardinality(Queued(y)) = Cardinality(Queued(x)) - 1
      BY <3>3, <3>5, FS_RemoveElement
    <3>7. Cardinality(Queued(x)) = m - n
      BY <1>5, <2>3
    <3>8. Cardinality(Queued(y)) = m - (n + 1)
      BY <3>6, <3>7
    <3> QED BY <3>2, <3>8
  <2> QED BY <2>2, <2>3
<1>6. Over(p, 0)
  BY <1>4
<1> HIDE DEF Over
<1>7. 0 \in S
  BY <1>2, <1>3, <1>6
<1>8. ASSUME NEW n \in Nat, n \in S PROVE n + 1 \in S
  <2> SUFFICES ASSUME n + 1 \in 0..c, NEW y \in a[n + 1] PROVE Over(y, n + 1)
    OBVIOUS
  <2>1. n \in 0..c /\ n + 1 \in 1..c /\ (n + 1) - 1 = n
    OBVIOUS
  <2>2. a[n + 1] = UNION {turn(x) : x \in a[n]}
    BY <1>2, <1>3, <2>1
  <2>3. PICK x \in a[n] : y \in turn(x)
    BY <2>2
  <2>4. Over(x, n)
    BY <1>8, <2>1, <2>3
  <2> QED BY <1>5, <2>1, <2>3, <2>4
<1>9. \A n \in Nat : n \in S
  <2> HIDE DEF S
  <2> QED BY <1>7, <1>8, NatSetInduction
<1>10. Over(q, m)
  BY <1>2, <1>3, <1>4, <1>9
<1>11. Good(q, F, {}) /\ (Stuck(q) \/ Cardinality(Queued(q)) = m - m)
  BY <1>10 DEF Over
<1>12. CASE Stuck(q)
  BY <1>11, <1>12, StuckBusy DEF Good, Sound
<1>13. CASE Cardinality(Queued(q)) = m - m
  <2>1. Cardinality(Queued(q)) = 0
    BY <1>13
  <2>2. IsFiniteSet(Queued(q))
    BY <1>11, QueuedIs, RequestSet DEF Good, Sound, Shape
  <2>3. Queued(q) = {}
    BY <2>1, <2>2, FS_EmptySet
  <2> QED BY <1>11, <2>3, EmptyBusy DEF Good, Sound, Shape
<1> QED BY <1>11, <1>12, <1>13

\* What a handler leaves behind.
Ready(p, F) == Good(p, F, {}) /\ Busy(p)

\* Forgetting an idle pool's service changes nobody's turn.
LEMMA SettledBusy ==
  ASSUME NEW p, NEW q, Settled(p, q), Busy(p)
  PROVE  Busy(q)
<1>1. CASE q = p
  BY <1>1
<1>2. CASE Reset(p, q)
  BY <1>2, BusyKept DEF Reset, SameHolders
<1> QED BY <1>1, <1>2 DEF Settled

\* dispatch_all.
LEMMA DispatchReady ==
  ASSUME NEW p, NEW F, Good(p, F, {}), NEW q \in dispatch_all(p)
  PROVE  Ready(q, F)
<1>1. PICK y \in UNION {turns(x) : x \in serve_holds(p)} : q = settle_idle(y)
  BY DEF dispatch_all
<1>2. PICK x \in serve_holds(p) : y \in turns(x)
  BY <1>1
<1>3. Good(x, F, {})
  BY <1>2, ServeHoldsGood
<1>4. Good(y, F, {}) /\ Busy(y)
  BY <1>2, <1>3, TurnsGood, TurnsBusy
<1>5. Settled(y, q)
  BY <1>1, <1>4, SettleDoes DEF Settled, Good, Sound, Shape
<1> QED BY <1>4, <1>5, SettledGood, SettledBusy DEF Ready

\* Nothing is kept of an empty queue.
LEMMA RetainedNone ==
  ASSUME NEW D
  PROVE  retain(<<>>, D) = <<>>
<1>1. PICK q \in Seq(Requests) : q = <<>>
  BY EmptySeq
<1>2. Len(q) = 0
  BY <1>1
<1>3. PICK m \in Nat : m = Len(q)
  OBVIOUS
<1>4. retain(q, D) = Kept(q, D)[m] /\ Kept(q, D)[0] = <<>>
  BY <1>3, KeptStep
<1> QED BY <1>1, <1>2, <1>3, <1>4

\* The permit for a request that took over a held slot.
LEMMA RedeemsBusy ==
  ASSUME NEW p, NEW h, NEW r, NEW ahead, IsPool(p), Busy(p),
         NEW q \in send(charge([p EXCEPT !.held = @ \ {h}], r), r, ahead)
  PROVE  Busy(q)
<1>1. PICK f : f = [p EXCEPT !.held = @ \ {h}]
  OBVIOUS
<1>2. PICK c : c = charge(f, r)
  OBVIOUS
<1>3. IsPool(f) /\ SameSettings(p, f) /\ SameCounts(p, f) /\ f.queues = p.queues /\ f.pending = p.pending
  BY <1>1 DEF IsPool, Fields, SameSettings, SameCounts
<1>4. Charged(f, c, r)
  BY <1>2, <1>3, ChargeDoes
<1>5. Sent(c, q, r, ahead)
  BY <1>1, <1>2, <1>4, SendDoes DEF Charged
<1>6. Busy(c)
  BY <1>3, <1>4, BusyKept DEF Charged, SameSettings, SameCounts, SameHolders
<1> QED BY <1>5, <1>6, BusyKept DEF Sent

\* The permit for a request that came when nobody waited.
LEMMA FastBusy ==
  ASSUME NEW p, NEW r, IsPool(p), p.queues \in [Keys -> Seq(Requests)], Queued(p) = {},
         NEW q \in send(occupy(p, r), r, FALSE)
  PROVE  Busy(q)
<1>1. PICK d : d = occupy(p, r)
  OBVIOUS
<1>2. PICK c : Counted(p, c, r) /\ Charged(c, d, r)
  BY <1>1, OccupyDoes
<1>3. Sent(d, q, r, FALSE)
  BY <1>1, <1>2, SendDoes DEF Charged
<1>4. q.queues = p.queues
  BY <1>2, <1>3 DEF Counted, Charged, Sent
<1> QED BY <1>4, SameQueues, EmptyBusy

-----------------------------------------------------------------------------
(* The actions.                                                            *)

\* The inductive invariant: the pool is sound between two messages (slots and accounts
\* match the requests that hold them, queues are in order), and its virtual time, the
\* passes, the newcomers and the idle slots are as the parts say.
Inv ==
  /\ Sound(pool, fresh, {}, {}) /\ Times(pool) /\ Passes(pool, gone) /\ Joins(pool) /\ Busy(pool)
  /\ gone \subseteq Requests /\ aged \subseteq Requests

\* Between two messages the pool is good.
LEMMA InvGood == Inv => Good(pool, fresh, {})
BY DEF Inv, Good

\* A handler that leaves a good and busy pool.
LEMMA HandleInv ==
  ASSUME NEW P, Handle(P), \A p \in P : Ready(p, fresh'), gone \subseteq Requests, aged \subseteq Requests
  PROVE  Inv'
<1>1. PICK p \in P : pool' = Renumbered(p)
  BY DEF Handle
<1>2. Good(p, fresh', {}) /\ Busy(p)
  BY <1>1 DEF Ready
<1>3. Numbered(p, pool')
  BY <1>1, <1>2, RenumberDoes DEF Good, Sound, Shape
<1>4. Sound(pool', fresh', {}, {}) /\ \A r \in Requests : pool'.arrived[r] > 0 <=> p.arrived[r] > 0
  BY <1>2, <1>3, NumberedSound DEF Good
<1>5. Queued(pool') = Queued(p)
  BY <1>3, SameQueues DEF Numbered
<1>6. Times(pool')
  BY <1>2, <1>3, <1>5, TimesKept DEF Good, Numbered, SameSettings
<1>7. Passes(pool', gone)
  BY <1>2, <1>3, NumberedPasses DEF Good, Sound
<1>8. gone' \subseteq Requests /\ aged' \subseteq Requests
  BY DEF Handle
<1>9. \A x \in Queued(pool') : x \in gone => x \in gone'
  <2>1. \A x \in Queued(pool') : pool'.arrived[x] > 0
    BY <1>4 DEF Sound, Marks, Waiters
  <2> QED BY <2>1 DEF Handle
<1>10. Passes(pool', gone')
  BY <1>7, <1>9 DEF Passes
<1>11. Joins(pool')
  BY <1>2, <1>3, <1>5, JoinsKept DEF Good, Numbered, SameSettings, SameService, SameAccounts
<1>12. Busy(pool')
  BY <1>2, <1>3, BusyKept DEF Numbered, SameHolders
<1>13. Sound(pool', fresh', {}, {}) /\ Times(pool') /\ Passes(pool', gone') /\ Joins(pool') /\ Busy(pool')
  BY <1>4, <1>6, <1>10, <1>11, <1>12
<1> QED BY <1>8, <1>13 DEF Inv

\* Admit.
LEMMA AdmitInv ==
  ASSUME Inv, NEW r \in Requests, Admit(r)
  PROVE  Inv'
<1> DEFINE s == IF affinity_on(pool) THEN Req[r].session ELSE NoSession
           p == [pool EXCEPT !.session[r] = s]
           holds == {h \in pool.held : s # NoSession /\ Req[h].session = s}
           redeems == holds # {} /\ ~key_passed_out(pool, KeyOf(r))
           group == Tenant[TenantOf(r)].group
           roomy(caps) == group \in DOMAIN caps => group_in_flight(pool, group) < caps[group]
           queue == dispatch_all(enqueue(p, r))
           fast == send(occupy(p, r), r, FALSE)
           over == UNION {send(charge([p EXCEPT !.held = @ \ {h}], r), r, Queued(pool) # {}) : h \in holds}
           P == IF redeems THEN over
                ELSE IF pool.mode = "shared" \/ ~can_grant_immediately(pool, r) THEN queue
                ELSE IF pool.algorithm = "weighted" THEN fast
                ELSE UNION {IF roomy(caps) THEN fast ELSE queue : caps \in group_caps(pool)}
<1>1. r \in fresh /\ fresh' = fresh \ {r} /\ Handle(P)
  BY Zenon DEF Admit
<1>2. Good(pool, fresh, {})
  BY InvGood
<1>3. PICK u : u = p
  OBVIOUS
<1>4. Comes(pool, u, r)
  <2>1. PICK b : b = [pool.session EXCEPT ![r] = s]
    OBVIOUS
  <2>2. u = [pool EXCEPT !.session = b]
    BY <1>3, <2>1
  <2>3. s \in {Req[r].session, NoSession}
    OBVIOUS
  <2> HIDE DEF s, p
  <2>4. IsPool(pool)
    BY <1>2 DEF Good, Sound, Shape
  <2>5. IsPool(u) /\ SameCounts(pool, u) /\ SameService(pool, u) /\ SameSettings(pool, u) /\ SameHistory(pool, u) /\ SameHolders(pool, u)
    BY <2>2, <2>4 DEF IsPool, Fields, SameCounts, SameService, SameAccounts, SameSettings, SameHistory, SameHolders
  <2>6. /\ u.queues = pool.queues /\ u.session = b
        /\ u.arrived = pool.arrived /\ u.passed = pool.passed /\ u.jumped = pool.jumped
    BY <2>2, <2>4 DEF IsPool, Fields
  <2> QED BY <2>1, <2>3, <2>5, <2>6 DEF Comes, Around
<1>5. Good(u, fresh, {}) /\ Queued(u) = Queued(pool)
  BY <1>2, <1>4, ComesGood
<1>6. ASSUME redeems PROVE \A q \in over : Ready(q, fresh')
  <2> SUFFICES ASSUME NEW q \in over PROVE Ready(q, fresh')
    OBVIOUS
  <2>1. PICK h \in holds : q \in send(charge([u EXCEPT !.held = @ \ {h}], r), r, Queued(pool) # {})
    BY <1>3
  <2>2. h \in pool.held /\ s # NoSession /\ Req[h].session = s
    OBVIOUS
  <2>3. s = Req[r].session
    BY <2>2
  <2>4. h \in u.held /\ Req[h].session = Req[r].session
    BY <1>4, <2>2, <2>3 DEF Comes, SameHolders
  <2>5. ~key_passed_out(u, KeyOf(r))
    BY <1>4, <1>6 DEF Comes, Around, SameSettings, key_passed_out, passed_out, affinity_on
  <2> HIDE DEF over, holds, s
  <2>6. Good(q, fresh', {})
    BY <1>1, <1>5, <2>1, <2>4, <2>5, RedeemsGood
  <2>7. Busy(u)
    BY <1>4, BusyKept DEF Inv, Comes, Around, SameHolders
  <2>8. Busy(q)
    BY <1>5, <2>1, <2>7, RedeemsBusy DEF Good, Sound, Shape
  <2> QED BY <2>6, <2>8 DEF Ready
<1>7. \A q \in queue : Ready(q, fresh')
  <2> SUFFICES ASSUME NEW q \in queue PROVE Ready(q, fresh')
    OBVIOUS
  <2>1. PICK e : e = enqueue(u, r)
    OBVIOUS
  <2>2. q \in dispatch_all(e)
    BY <1>3, <2>1
  <2>3. Good(e, fresh', {})
    BY <1>1, <1>5, <2>1, EnqueueGood
  <2> QED BY <2>2, <2>3, DispatchReady
<1>8. ASSUME can_grant_immediately(pool, r) PROVE \A q \in fast : Ready(q, fresh')
  <2> SUFFICES ASSUME NEW q \in fast PROVE Ready(q, fresh')
    OBVIOUS
  <2>1. q \in send(occupy(u, r), r, FALSE)
    BY <1>3
  <2>2. Room(u, r)
    BY <1>4, <1>8 DEF Room, can_grant_immediately, Comes, Around, SameCounts
  <2> HIDE DEF fast
  <2>3. Good(q, fresh', {})
    BY <1>1, <1>5, <2>1, <2>2, FastGood
  <2>4. Queued(u) = {}
    BY <1>5, <1>8 DEF can_grant_immediately
  <2>5. Busy(q)
    BY <1>5, <2>1, <2>4, FastBusy DEF Good, Sound, Shape
  <2> QED BY <2>3, <2>5 DEF Ready
<1> HIDE DEF over, queue, fast, redeems, roomy
<1>9. \A q \in P : Ready(q, fresh')
  BY <1>6, <1>7, <1>8
<1> HIDE DEF P
<1> QED BY <1>1, <1>9, HandleInv DEF Inv

\* Release.
LEMMA ReleaseInv ==
  ASSUME Inv, NEW r \in Requests, Release(r)
  PROVE  Inv'
<1>1. r \in pool.running /\ fresh' = fresh /\ Handle(dispatch_all(finish_step(pool, r)))
  BY DEF Release
<1>2. Good(finish_step(pool, r), fresh, {})
  BY <1>1, InvGood, FinishGood
<1>3. \A q \in dispatch_all(finish_step(pool, r)) : Ready(q, fresh')
  BY <1>1, <1>2, DispatchReady
<1> QED BY <1>1, <1>3, HandleInv DEF Inv

\* ExpireHolds.
LEMMA ExpireHoldsInv ==
  ASSUME Inv, NEW S, ExpireHolds(S)
  PROVE  Inv'
<1>1. PICK g : g = [pool EXCEPT !.held = @ \ S]
  OBVIOUS
<1>2. S \subseteq pool.held /\ fresh' = fresh /\ Handle(dispatch_all(release(g, S)))
  BY <1>1 DEF ExpireHolds
<1>3. Good(g, fresh, S)
  <2>1. Good(pool, fresh, {})
    BY InvGood
  <2>2. Tuned(pool, g, S)
    BY <1>1, <2>1, GivesUpDoes DEF Good, Sound
  <2> QED BY <1>2, <2>1, <2>2, TunedGood
<1>4. Good(release(g, S), fresh, {})
  <2>1. Released(g, release(g, S), S)
    BY <1>3, ReleaseDoes DEF Good, Sound, Shape, Slots
  <2> QED BY <1>3, <2>1, ReleasedGood
<1>5. \A q \in dispatch_all(release(g, S)) : Ready(q, fresh')
  BY <1>2, <1>4, DispatchReady
<1> QED BY <1>2, <1>5, HandleInv DEF Inv

\* SetModelCaps.
LEMMA SetModelCapsInv ==
  ASSUME Inv, NEW size \in Sizes, SetModelCaps(size)
  PROVE  Inv'
<1>1. PICK g : g = [pool EXCEPT !.cap = size]
  OBVIOUS
<1>2. fresh' = fresh /\ Handle(dispatch_all(g))
  BY <1>1 DEF SetModelCaps
<1>3. Good(pool, fresh, {})
  BY InvGood
<1>4. size \in Nat \ {0} /\ pool.max_jumps \in Affinities /\ IsPool(pool)
  BY <1>3, PoolAssumption DEF PoolAssumption, Good, Sound, Shape
<1>5. Tuned(pool, g, {})
  <2>1. IsPool(g) /\ SameCounts(pool, g) /\ SameService(pool, g) /\ SameHistory(pool, g) /\ SameMarks(pool, g)
    BY <1>1, <1>4 DEF IsPool, Fields, SameCounts, SameService, SameAccounts, SameHistory, SameMarks
  <2>2. /\ g.algorithm = pool.algorithm /\ g.mode = pool.mode /\ g.refused = pool.refused
        /\ g.cap = size /\ g.max_jumps = pool.max_jumps
        /\ g.queues = pool.queues /\ g.running = pool.running /\ g.pending = pool.pending /\ g.held = pool.held
    BY <1>1, <1>4 DEF IsPool, Fields
  <2>3. g.held = pool.held \ {}
    BY <2>2
  <2> QED BY <1>4, <2>1, <2>2, <2>3 DEF Tuned, Around, SameMarks
<1>6. Good(g, fresh, {})
  <2>1. {} \subseteq pool.held
    OBVIOUS
  <2> QED BY <1>3, <1>5, <2>1, TunedGood
<1>7. \A q \in dispatch_all(g) : Ready(q, fresh')
  BY <1>2, <1>6, DispatchReady
<1> QED BY <1>2, <1>7, HandleInv DEF Inv

\* SetSessionAffinity.
LEMMA SetSessionAffinityInv ==
  ASSUME Inv, NEW jumps \in Affinities, SetSessionAffinity(jumps)
  PROVE  Inv'
<1>1. PICK off : off = [pool EXCEPT !.max_jumps = 0, !.held = {}, !.sessions = [s \in Sessions |-> NoSteps]]
  OBVIOUS
<1>2. PICK on : on = [pool EXCEPT !.max_jumps = jumps]
  OBVIOUS
<1>3. fresh' = fresh /\ Handle(dispatch_all(IF jumps = 0 THEN release(off, pool.held) ELSE on))
  BY <1>1, <1>2, Zenon DEF SetSessionAffinity
<1>4. Good(pool, fresh, {})
  BY InvGood
<1>5. pool.cap \in Nat \ {0} /\ IsPool(pool)
  BY <1>4 DEF Good, Sound, Shape
<1>6. ASSUME jumps = 0 PROVE Good(release(off, pool.held), fresh, {})
  <2>1. PICK e : e = [s \in Sessions |-> NoSteps]
    OBVIOUS
  <2>2. off = [pool EXCEPT !.max_jumps = 0, !.held = {}, !.sessions = e]
    BY <1>1, <2>1
  <2>3. IsPool(off) /\ SameCounts(pool, off) /\ SameService(pool, off) /\ SameHistory(pool, off) /\ SameMarks(pool, off)
    BY <2>2, <1>5 DEF IsPool, Fields, SameCounts, SameService, SameAccounts, SameHistory, SameMarks
  <2>4. /\ off.algorithm = pool.algorithm /\ off.mode = pool.mode /\ off.refused = pool.refused
        /\ off.cap = pool.cap /\ off.max_jumps = 0
        /\ off.queues = pool.queues /\ off.running = pool.running /\ off.pending = pool.pending /\ off.held = {}
    BY <2>2, <1>5 DEF IsPool, Fields
  <2>5. off.held = pool.held \ pool.held
    BY <2>4
  <2>6. Tuned(pool, off, pool.held)
    BY <1>5, <1>6, <2>3, <2>4, <2>5 DEF Tuned, Around, SameMarks
  <2>7. Good(off, fresh, pool.held)
    BY <1>4, <2>6, TunedGood
  <2>8. Released(off, release(off, pool.held), pool.held)
    BY <2>7, ReleaseDoes DEF Good, Sound, Shape, Slots
  <2> QED BY <2>7, <2>8, ReleasedGood
<1>7. Good(on, fresh, {})
  <2>1. IsPool(on) /\ SameCounts(pool, on) /\ SameService(pool, on) /\ SameHistory(pool, on) /\ SameMarks(pool, on)
    BY <1>2, <1>5 DEF IsPool, Fields, SameCounts, SameService, SameAccounts, SameHistory, SameMarks
  <2>2. /\ on.algorithm = pool.algorithm /\ on.mode = pool.mode /\ on.refused = pool.refused
        /\ on.cap = pool.cap /\ on.max_jumps = jumps
        /\ on.queues = pool.queues /\ on.running = pool.running /\ on.pending = pool.pending /\ on.held = pool.held
    BY <1>2, <1>5 DEF IsPool, Fields
  <2>3. on.held = pool.held \ {} /\ {} \subseteq pool.held
    BY <2>2
  <2>4. Tuned(pool, on, {})
    BY <1>5, <2>1, <2>2, <2>3 DEF Tuned, Around, SameMarks
  <2> QED BY <1>4, <2>3, <2>4, TunedGood
<1>8. PICK g : g = IF jumps = 0 THEN release(off, pool.held) ELSE on
  OBVIOUS
<1>9. Good(g, fresh, {})
  BY <1>6, <1>7, <1>8
<1>10. \A q \in dispatch_all(g) : Ready(q, fresh')
  BY <1>3, <1>9, DispatchReady
<1> QED BY <1>3, <1>8, <1>10, HandleInv DEF Inv

\* Wake.
LEMMA WakeInv ==
  ASSUME Inv, Wake
  PROVE  Inv'
<1>1. PICK g : g = [pool EXCEPT !.blocked = FALSE, !.blocked_tenants = {}, !.blocked_keys = {}]
  OBVIOUS
<1>2. fresh' = fresh /\ Handle(dispatch_all(g))
  BY <1>1 DEF Wake
<1>3. Good(pool, fresh, {})
  BY InvGood
<1>4. pool.cap \in Nat \ {0} /\ pool.max_jumps \in Affinities /\ IsPool(pool)
  BY <1>3 DEF Good, Sound, Shape
<1>5. IsPool(g) /\ SameCounts(pool, g) /\ SameService(pool, g) /\ SameHistory(pool, g) /\ SameMarks(pool, g)
  BY <1>1, <1>4 DEF IsPool, Fields, SameCounts, SameService, SameAccounts, SameHistory, SameMarks
<1>6. /\ g.algorithm = pool.algorithm /\ g.mode = pool.mode /\ g.refused = pool.refused
      /\ g.cap = pool.cap /\ g.max_jumps = pool.max_jumps
      /\ g.queues = pool.queues /\ g.running = pool.running /\ g.pending = pool.pending /\ g.held = pool.held
  BY <1>1, <1>4 DEF IsPool, Fields
<1>7. g.held = pool.held \ {} /\ {} \subseteq pool.held
  BY <1>6
<1>8. Tuned(pool, g, {})
  BY <1>4, <1>5, <1>6, <1>7 DEF Tuned, Around, SameMarks
<1>9. Good(g, fresh, {})
  BY <1>3, <1>7, <1>8, TunedGood
<1>10. \A q \in dispatch_all(g) : Ready(q, fresh')
  BY <1>2, <1>9, DispatchReady
<1> QED BY <1>2, <1>10, HandleInv DEF Inv

\* What happens around the scheduler.
LEMMA AroundInv ==
  ASSUME Inv, \/ \E r \in Requests : CallerGone(r) \/ Ages(r)
              \/ \E s \in Sessions : Cools(s)
  PROVE  Inv'
<1>1. ASSUME NEW r \in Requests, CallerGone(r) PROVE Inv'
  <2>1. Passes(pool, gone \union {r})
    BY DEF Inv, Passes
  <2> QED BY <1>1, <2>1 DEF Inv, CallerGone
<1>2. ASSUME NEW r \in Requests, Ages(r) PROVE Inv'
  BY <1>2 DEF Inv, Ages
<1>3. ASSUME NEW s \in Sessions, Cools(s) PROVE Inv'
  <2>1. PICK e : e = [pool.sessions EXCEPT ![s].last = "cold"]
    OBVIOUS
  <2>2. PICK g : g = [pool EXCEPT !.sessions = e]
    OBVIOUS
  <2>3. pool' = g /\ fresh' = fresh /\ gone' = gone /\ aged' = aged
    BY <1>3, <2>1, <2>2 DEF Cools
  <2>4. Good(pool, fresh, {})
    BY InvGood
  <2>5. pool.cap \in Nat \ {0} /\ pool.max_jumps \in Affinities /\ IsPool(pool)
    BY <2>4 DEF Good, Sound, Shape
  <2>6. IsPool(g) /\ SameCounts(pool, g) /\ SameService(pool, g) /\ SameHistory(pool, g) /\ SameMarks(pool, g)
    BY <2>2, <2>5 DEF IsPool, Fields, SameCounts, SameService, SameAccounts, SameHistory, SameMarks
  <2>7. /\ g.algorithm = pool.algorithm /\ g.mode = pool.mode /\ g.refused = pool.refused
        /\ g.cap = pool.cap /\ g.max_jumps = pool.max_jumps
        /\ g.queues = pool.queues /\ g.running = pool.running /\ g.pending = pool.pending /\ g.held = pool.held
    BY <2>2, <2>5 DEF IsPool, Fields
  <2>8. g.held = pool.held \ {} /\ {} \subseteq pool.held
    BY <2>7
  <2>9. Tuned(pool, g, {})
    BY <2>5, <2>6, <2>7, <2>8 DEF Tuned, Around, SameMarks
  <2>10. Good(g, fresh, {})
    BY <2>4, <2>8, <2>9, TunedGood
  <2>11. SameSettings(pool, g)
    BY <2>2, <2>5 DEF IsPool, Fields, SameSettings
  <2>12. Busy(g)
    BY <2>6, <2>7, <2>11, BusyKept DEF Inv
  <2>13. Sound(pool', fresh', {}, {}) /\ Times(pool') /\ Passes(pool', gone') /\ Joins(pool') /\ Busy(pool')
    BY <2>3, <2>10, <2>12 DEF Good
  <2> QED BY <2>3, <2>13 DEF Inv
<1> QED BY <1>1, <1>2, <1>3

\* A claim is no longer out.
Answered(p, q, r) ==
  /\ IsPool(q) /\ Around(p, q) /\ SameHistory(p, q)
  /\ q.algorithm = p.algorithm /\ q.mode = p.mode /\ q.refused = p.refused
  /\ q.cap = p.cap /\ q.max_jumps = p.max_jumps
  /\ q.session = p.session /\ q.jumped = p.jumped
  /\ q.running = p.running /\ q.held = p.held /\ q.pending = p.pending \ {r}

\* Then its slot is left to be taken by a permit or given back.
LEMMA AnsweredSound ==
  ASSUME NEW p, NEW q, NEW r \in p.pending, NEW F, Answered(p, q, r), Good(p, F, {})
  PROVE  /\ Sound(q, F, {r}, {r}) /\ Queued(q) = Queued(p) /\ r \in Requests /\ r \notin F /\ p.mode = "shared"
         /\ r \notin Waiters(q) /\ r \notin Occupied(q) /\ Arrived(q, r)
<1>1. Shape(q)
  BY DEF Answered, Good, Sound, Shape, Around, SameHistory, SameCounts, SameService, SameAccounts
<1>2. Modal(q) /\ p.mode = "shared"
  BY DEF Answered, Good, Sound, Shape, Modal
<1>3. r \in Requests /\ r \notin F /\ r \notin Queued(p)
  BY DEF Good, Sound, Shape, Places, Occupied
<1>4. Occupied(q) \union {r} = Occupied(p) /\ r \notin Occupied(q)
  BY DEF Answered, Occupied, Good, Sound, Places
<1>5. Handed(p, q, F, {}, {}, {r}, {r}, r)
  BY <1>3, <1>4 DEF Handed, Answered, Good, Sound, Places, Occupied
<1>6. Sound(q, F, {r}, {r})
  BY <1>1, <1>2, <1>5, HandedSound DEF Answered, Good
<1>7. Queued(q) = Queued(p)
  BY SameQueues DEF Answered, Around
<1>8. r \notin Waiters(q) /\ Waiters(q) \subseteq Waiters(p) /\ r \in Waiters(p)
  BY <1>3, <1>7 DEF Waiters, Answered
<1>9. Arrived(q, r)
  BY <1>8 DEF Arrived, Answered, Around, Good, Sound, Marks
<1> QED BY <1>2, <1>3, <1>4, <1>6, <1>7, <1>8, <1>9

\* A grant passes those its claim jumped.
LEMMA ClaimSlack ==
  ASSUME NEW p, NEW q, NEW r \in p.pending, NEW F, Good(p, F, {}), ~p.refused, r \in p.jumped,
         q.pending = p.pending \ {r}, q.arrived = p.arrived, q.passed = p.passed, q.queues = p.queues,
         q.mode = p.mode, q.jumped \subseteq p.jumped
  PROVE  Slack(q, r, gone)
<1> SUFFICES ASSUME NEW x \in Queued(q) \ gone, x \in Earlier(q, r)
             PROVE  q.passed[x] + Cardinality(Jumping(q, x)) + 1 <= Bound(q)
  BY DEF Slack
<1>1. x \in Queued(p) \ gone
  BY SameQueues
<1>2. x \in Requests /\ r \in Requests /\ p.pending \subseteq Requests
  BY <1>1, QueuedIs DEF Good, Sound, Shape
<1>3. KeyOf(x) = KeyOf(r)
  <2>1. KeyOf(r) \in Keys
    BY <1>2, Belongs
  <2> QED BY <2>1 DEF Earlier, ToSet, Good, Sound, Places
<1>4. p.arrived[r] > p.arrived[x]
  <2>1. p.arrived[r] > 0 /\ p.arrived[r] \in Nat /\ p.arrived[x] \in Nat
    BY <1>2 DEF Good, Sound, Shape, Marks, Waiters
  <2> QED BY <2>1 DEF Earlier
<1>5. r \in Jumping(p, x) /\ Jumping(q, x) \subseteq Jumping(p, x) \ {r}
  BY <1>3, <1>4 DEF Jumping
<1>6. IsFiniteSet(Jumping(p, x))
  BY <1>2, JumpingIs
<1>7. Cardinality(Jumping(p, x) \ {r}) = Cardinality(Jumping(p, x)) - 1 /\ IsFiniteSet(Jumping(p, x) \ {r})
  BY <1>5, <1>6, FS_RemoveElement
<1>8. PICK m \in Nat, n \in Nat : m = Cardinality(Jumping(q, x)) /\ n = Cardinality(Jumping(p, x)) /\ m <= n - 1
  BY <1>5, <1>6, <1>7, FS_Subset, FS_CardinalityType
<1>9. PICK a \in Nat, b \in Nat : a = p.passed[x] /\ b = Bound(p)
  BY <1>2, MostJumpsIs DEF Good, Sound, Shape
<1>10. a + n <= b
  BY <1>1, <1>8, <1>9 DEF Good, Passes
<1>11. Bound(q) = b
  BY <1>9 DEF Bound
<1> QED BY <1>8, <1>9, <1>10, <1>11

\* ClaimGranted.
LEMMA ClaimGrantedInv ==
  ASSUME Inv, NEW r \in Requests, ClaimGranted(r)
  PROVE  Inv'
<1>1. PICK g : g = [pool EXCEPT !.pending = @ \ {r}, !.probing = FALSE]
  OBVIOUS
<1>2. r \in pool.pending /\ fresh' = fresh /\ Handle(UNION {dispatch_all(q) : q \in granted(g, r)})
  BY <1>1 DEF ClaimGranted
<1>3. Good(pool, fresh, {})
  BY InvGood
<1>4. Answered(pool, g, r)
  <2>0. IsPool(pool)
    BY <1>3 DEF Good, Sound, Shape
  <2>1. PICK b : b = pool.pending \ {r}
    OBVIOUS
  <2>2. g = [pool EXCEPT !.pending = b, !.probing = FALSE]
    BY <1>1, <2>1
  <2>3. IsPool(g) /\ SameCounts(pool, g) /\ SameService(pool, g) /\ SameHistory(pool, g) /\ SameMarks(pool, g)
    BY <2>2, <2>0 DEF IsPool, Fields, SameCounts, SameService, SameAccounts, SameHistory, SameMarks
  <2>4. /\ g.algorithm = pool.algorithm /\ g.mode = pool.mode /\ g.refused = pool.refused
        /\ g.cap = pool.cap /\ g.max_jumps = pool.max_jumps
        /\ g.queues = pool.queues /\ g.running = pool.running /\ g.pending = b /\ g.held = pool.held
    BY <2>2, <2>0 DEF IsPool, Fields
  <2> QED BY <2>1, <2>3, <2>4 DEF Answered, Around, SameMarks
<1>5. /\ Sound(g, fresh, {r}, {r}) /\ Queued(g) = Queued(pool) /\ r \notin fresh /\ r \notin Waiters(g)
  BY <1>2, <1>3, <1>4, AnsweredSound
<1>6. ASSUME NEW q \in granted(g, r) PROVE Good(q, fresh, {})
  <2>1. PICK u : Unmarked(g, u, r) /\ Sent(u, q, r, r \in g.jumped)
    BY <1>5, <1>6, GrantDoes DEF Sound, Shape
  <2>2. Queued(u) = Queued(g) /\ u.pending = g.pending
    BY <2>1, SameQueues DEF Unmarked, Around, SameHolders
  <2>3. Shape(u) /\ Modal(u)
    BY <1>5, <2>1 DEF Unmarked, Sound, Shape, Modal, Around, SameSettings, SameHistory, SameCounts, SameService, SameAccounts, SameHolders
  <2>4. Sound(u, fresh, {r}, {r})
    BY <1>5, <2>1, <2>3, AroundSound DEF Unmarked
  <2>5. /\ u.refused = pool.refused /\ u.mode = pool.mode /\ u.pending = pool.pending \ {r}
        /\ u.arrived = pool.arrived /\ u.passed = pool.passed /\ u.queues = pool.queues
        /\ u.jumped \subseteq pool.jumped /\ SameService(pool, u)
    BY <1>4, <2>1 DEF Answered, Unmarked, Around, SameSettings, SameHolders, SameService, SameAccounts
  <2>6. Times(u)
    BY <1>3, <1>5, <2>2, <2>5, TimesKept DEF Good
  <2>7. Passes(u, gone)
    <3>1. Unpassed(pool, u)
      BY <1>5, <2>2, <2>5 DEF Unpassed
    <3> QED BY <1>3, <3>1, PassesKept DEF Good, Sound
  <2>8. (r \in g.jumped) /\ ~u.refused => Slack(u, r, gone)
    <3>1. g.jumped = pool.jumped
      BY <1>4 DEF Answered
    <3> QED BY <1>2, <1>3, <2>5, <3>1, ClaimSlack
  <2>9. r \notin Waiters(u)
    BY <1>5, <2>2 DEF Waiters
  <2>10. Joins(u)
    BY <1>2, <1>3, <2>5, SharedJoins DEF Good, Sound, Modal, Shape
  <2> QED BY <1>5, <2>1, <2>4, <2>6, <2>7, <2>8, <2>9, <2>10, SentGood
<1>7. \A q \in UNION {dispatch_all(x) : x \in granted(g, r)} : Ready(q, fresh')
  <2> SUFFICES ASSUME NEW x \in granted(g, r), NEW q \in dispatch_all(x) PROVE Ready(q, fresh')
    OBVIOUS
  <2> QED BY <1>2, <1>6, DispatchReady
<1> QED BY <1>2, <1>7, HandleInv DEF Inv

\* ClaimDenied.
LEMMA ClaimDeniedInv ==
  ASSUME Inv, NEW r \in Requests, NEW why, ClaimDenied(r, why)
  PROVE  Inv'
<1>1. PICK g : g = [pool EXCEPT !.pending = @ \ {r}]
  OBVIOUS
<1>2. PICK p : p = requeue(g, r)
  OBVIOUS
<1>3. PICK b, t, k : /\ b = (p.blocked \/ why = "pool")
                     /\ t = IF why = "tenant" THEN p.blocked_tenants \union {TenantOf(r)} ELSE p.blocked_tenants
                     /\ k = IF why = "key" THEN p.blocked_keys \union {KeyOf(r)} ELSE p.blocked_keys
  OBVIOUS
<1>4. PICK q : q = [p EXCEPT !.probing = TRUE, !.refused = TRUE, !.blocked = b, !.blocked_tenants = t, !.blocked_keys = k]
  OBVIOUS
<1>5. r \in pool.pending /\ fresh' = fresh /\ Handle(dispatch_all(q))
  BY <1>1, <1>2, <1>3, <1>4 DEF ClaimDenied
<1>6. Good(pool, fresh, {})
  BY InvGood
<1>7. Answered(pool, g, r)
  <2>0. IsPool(pool)
    BY <1>6 DEF Good, Sound, Shape
  <2>1. PICK c : c = pool.pending \ {r}
    OBVIOUS
  <2>2. g = [pool EXCEPT !.pending = c]
    BY <1>1, <2>1
  <2>3. IsPool(g) /\ SameCounts(pool, g) /\ SameService(pool, g) /\ SameHistory(pool, g) /\ SameMarks(pool, g)
    BY <2>2, <2>0 DEF IsPool, Fields, SameCounts, SameService, SameAccounts, SameHistory, SameMarks
  <2>4. /\ g.algorithm = pool.algorithm /\ g.mode = pool.mode /\ g.refused = pool.refused
        /\ g.cap = pool.cap /\ g.max_jumps = pool.max_jumps
        /\ g.queues = pool.queues /\ g.running = pool.running /\ g.pending = c /\ g.held = pool.held
    BY <2>2, <2>0 DEF IsPool, Fields
  <2> QED BY <2>1, <2>3, <2>4 DEF Answered, Around, SameMarks
<1>8. /\ Sound(g, fresh, {r}, {r}) /\ r \notin fresh /\ pool.mode = "shared"
      /\ r \notin Waiters(g) /\ r \notin Occupied(g) /\ Arrived(g, r)
  BY <1>5, <1>6, <1>7, AnsweredSound
<1>9. PICK v : v = vacate(g, {r})
  OBVIOUS
<1>10. Vacated(g, v, {r}) /\ Requeued(v, p, r)
  BY <1>2, <1>8, <1>9, RequeueDoes DEF Sound, Shape
<1>11. Sound(v, fresh, {}, {r})
  <2>1. Sound(v, fresh, {r} \ {r}, {r})
    BY <1>8, <1>10, VacatedSound
  <2>2. {r} \ {r} = {}
    OBVIOUS
  <2> QED BY <2>1, <2>2
<1>12. Queued(v) = Queued(g) /\ SameHolders(g, v) /\ v.arrived = g.arrived
  BY <1>10, SameQueues DEF Vacated, SameMarks
<1>13. Waiters(v) = Waiters(g) /\ Occupied(v) = Occupied(g)
  BY <1>12 DEF Waiters, Occupied, SameHolders
<1>14. r \notin v.pending /\ r \notin Queued(v) /\ r \notin Occupied(v) /\ Arrived(v, r)
  BY <1>8, <1>12, <1>13 DEF Waiters, Arrived
<1>15. Sound(p, fresh, {}, {})
  BY <1>8, <1>10, <1>11, <1>14, RequeuedSound
<1>16. IsPool(p)
  BY <1>15 DEF Sound, Shape
<1>17. IsPool(q) /\ SameCounts(p, q) /\ SameService(p, q) /\ SameHistory(p, q) /\ SameMarks(p, q) /\ SameHolders(p, q)
  BY <1>4, <1>16, ZenonT(60) DEF IsPool, Fields, SameCounts, SameService, SameAccounts, SameHistory, SameMarks, SameHolders
<1>18. /\ q.algorithm = p.algorithm /\ q.mode = p.mode /\ q.refused = TRUE
       /\ q.cap = p.cap /\ q.max_jumps = p.max_jumps /\ q.queues = p.queues
  BY <1>4, <1>16 DEF IsPool, Fields
<1>19. p.mode = "shared"
  BY <1>7, <1>8, <1>10 DEF Answered, Vacated, Requeued, SameSettings
<1>20. Sound(q, fresh, {}, {})
  <2>1. Around(p, q)
    BY <1>17, <1>18 DEF Around, SameMarks
  <2>2. Shape(q)
    BY <1>15, <1>17, <1>18 DEF Sound, Shape, SameHistory, SameMarks, SameHolders, SameCounts, SameService, SameAccounts
  <2>3. Modal(q)
    BY <1>15, <1>17, <1>18, <1>19 DEF Sound, Modal, SameHolders, SameMarks
  <2> QED BY <1>15, <1>17, <2>1, <2>2, <2>3, AroundSound
<1>21. Good(q, fresh, {})
  BY <1>18, <1>19, <1>20, SharedJoins DEF Good, Times, Passes
<1>22. \A x \in dispatch_all(q) : Ready(x, fresh')
  BY <1>5, <1>21, DispatchReady
<1> QED BY <1>5, <1>22, HandleInv DEF Inv

\* Sweep.
LEMMA SweepInv ==
  ASSUME Inv, Sweep
  PROVE  Inv'
<1> DEFINE dead == Queued(pool) \cap gone
           cold == {s \in Sessions : pool.sessions[s].n = 0 /\ pool.sessions[s].last = "cold"}
           cast == cast_off(without(pool, dead), dead)
           pruned == [cast EXCEPT !.sessions = [s \in Sessions |-> IF s \in cold THEN NoSteps ELSE @[s]]]
           swept == settle_idle(forget_if_quiet(pruned, {KeyOf(r) : r \in dead}))
<1>1. fresh' = fresh /\ Handle(IF dead = {} THEN {swept} ELSE dispatch_all(swept))
  BY Zenon DEF Sweep
<1>2. Good(pool, fresh, {})
  BY InvGood
<1>3. PICK D : D = dead
  OBVIOUS
<1>4. D \subseteq gone /\ D \subseteq Queued(pool) /\ D \subseteq Requests /\ D \cap pool.pending = {}
  <2>1. Queued(pool) \subseteq Requests
    BY <1>2, QueuedIs DEF Good, Sound, Shape
  <2> QED BY <1>2, <1>3, <2>1 DEF Good, Sound, Places, Occupied
<1>5. PICK w, c : w = without(pool, D) /\ c = cast_off(w, D)
  OBVIOUS
<1>6. Pruned(pool, c, D)
  <2>1. Shortened(pool, w, D)
    BY <1>2, <1>5, WithoutDoes DEF Good, Sound, Shape
  <2>2. CastOff(w, c, D)
    BY <1>5, <2>1, CastOffDoes DEF Shortened
  <2> QED BY <1>4, <2>1, <2>2 DEF Pruned
<1>7. Good(c, fresh, {})
  BY <1>2, <1>4, <1>6, PrunedGood
<1>8. PICK e : e = [s \in Sessions |-> IF s \in cold THEN NoSteps ELSE c.sessions[s]]
  OBVIOUS
<1>9. PICK g : g = [c EXCEPT !.sessions = e]
  OBVIOUS
<1>10. pruned = g
  BY <1>3, <1>5, <1>8, <1>9, Zenon
<1>11. Good(g, fresh, {})
  <2>1. c.cap \in Nat \ {0} /\ c.max_jumps \in Affinities /\ IsPool(c)
    BY <1>7 DEF Good, Sound, Shape
  <2>2. IsPool(g) /\ SameCounts(c, g) /\ SameService(c, g) /\ SameHistory(c, g) /\ SameMarks(c, g)
    BY <1>9, <2>1 DEF IsPool, Fields, SameCounts, SameService, SameAccounts, SameHistory, SameMarks
  <2>3. /\ g.algorithm = c.algorithm /\ g.mode = c.mode /\ g.refused = c.refused
        /\ g.cap = c.cap /\ g.max_jumps = c.max_jumps
        /\ g.queues = c.queues /\ g.running = c.running /\ g.pending = c.pending /\ g.held = c.held
    BY <1>9, <2>1 DEF IsPool, Fields
  <2>4. g.held = c.held \ {} /\ {} \subseteq c.held
    BY <2>3
  <2>5. Tuned(c, g, {})
    BY <2>1, <2>2, <2>3, <2>4 DEF Tuned, Around, SameMarks
  <2> QED BY <1>7, <2>4, <2>5, TunedGood
<1>12. PICK K : K = {KeyOf(r) : r \in D}
  OBVIOUS
<1>13. PICK f, z : f = forget_if_quiet(g, K) /\ z = settle_idle(f)
  OBVIOUS
<1>14. swept = z
  BY <1>3, <1>10, <1>12, <1>13
<1>15. Good(f, fresh, {})
  <2>1. K \subseteq Keys
    BY <1>4, <1>12, Belongs
  <2>2. Quieted(g, f)
    BY <1>11, <1>13, <2>1, QuietDoes DEF Good, Sound, Shape
  <2> QED BY <1>11, <2>2, QuietedGood
<1>16. Good(z, fresh, {})
  <2>1. Settled(f, z)
    BY <1>13, <1>15, SettleDoes DEF Settled, Good, Sound, Shape
  <2> QED BY <1>15, <2>1, SettledGood
<1>17. Handle(IF D = {} THEN {z} ELSE dispatch_all(z))
  <2> HIDE DEF swept
  <2> QED BY <1>1, <1>3, <1>14
<1> HIDE DEF dead, swept, pruned, cast, cold
<1>18. ASSUME D = {} PROVE Busy(z)
  <2>1. SameSettings(c, g) /\ SameCounts(c, g) /\ g.queues = c.queues /\ g.pending = c.pending /\ IsPool(g)
    BY <1>7, <1>9 DEF Good, Sound, Shape, IsPool, Fields, SameSettings, SameCounts
  <2>2. PICK v : D \subseteq gone /\ Shortened(pool, v, D) /\ CastOff(v, c, D)
    BY <1>6 DEF Pruned
  <2>3. \A k \in Keys : pool.queues[k] = <<>> => c.queues[k] = <<>>
    <3> SUFFICES ASSUME NEW k \in Keys, pool.queues[k] = <<>> PROVE c.queues[k] = <<>>
      OBVIOUS
    <3>1. c.queues[k] = retain(<<>>, D)
      BY <2>2 DEF Shortened, CastOff
    <3> QED BY <3>1, RetainedNone
  <2>4. Busy(c)
    BY <2>2, <2>3, BusyKept DEF Inv, Shortened, CastOff, SameSettings, SameCounts, SameHolders
  <2>5. Busy(g)
    BY <2>1, <2>4, BusyKept
  <2>6. Busy(f)
    <3>1. K \subseteq Keys
      BY <1>4, <1>12, Belongs
    <3>2. PICK keys, tenants : Forgot(g, f, keys, tenants)
      BY <1>13, <2>1, <3>1, QuietDoes DEF Quieted
    <3> QED BY <2>5, <3>2, BusyKept DEF Forgot, SameHolders
  <2>7. Settled(f, z)
    BY <1>13, <1>15, SettleDoes DEF Settled, Good, Sound, Shape
  <2> QED BY <2>6, <2>7, SettledBusy
<1>19. \A q \in IF D = {} THEN {z} ELSE dispatch_all(z) : Ready(q, fresh')
  BY <1>1, <1>16, <1>18, DispatchReady DEF Ready
<1> QED BY <1>17, <1>19, HandleInv DEF Inv

\* A new pool.
LEMMA NewPoolGood ==
  ASSUME NEW a \in {"weighted", "hierarchical"}, NEW m \in {"local", "shared"}, NEW size \in Nat \ {0},
         NEW jumps \in Affinities, NEW F, F \subseteq Requests, NEW G
  PROVE  LET p == NewPool(a, m, size, jumps)
         IN  Sound(p, F, {}, {}) /\ Times(p) /\ Passes(p, G) /\ Joins(p) /\ Busy(p)
<1>1. PICK p : p = NewPool(a, m, size, jumps)
  OBVIOUS
<1>2. IsPool(p)
  BY <1>1 DEF NewPool, IsPool, Fields
<1>3. /\ p.algorithm = a /\ p.mode = m /\ p.cap = size /\ p.max_jumps = jumps
      /\ p.queues = [k \in Keys |-> <<>>] /\ p.arrived = [r \in Requests |-> 0]
      /\ p.passed = [r \in Requests |-> 0]
      /\ p.in_flight = 0 /\ p.tenant_in_flight = [t \in Tenants |-> 0]
      /\ p.key_in_flight = [k \in Keys |-> 0] /\ p.running = {} /\ p.held = {}
      /\ p.pending = {} /\ p.refused = FALSE
  BY <1>1 DEF NewPool
<1>4. /\ p.served = [t \in Tenants |-> None] /\ p.base = [t \in Tenants |-> 0]
      /\ p.key_served = [k \in Keys |-> None] /\ p.virtual_time = 0
      /\ p.session = [r \in Requests |-> NoSession]
      /\ p.granted = [t \in Tenants |-> 0] /\ p.left = [t \in Tenants |-> 0]
      /\ p.joined = {} /\ p.over = [t \in Tenants |-> [u \in Tenants |-> 0]]
  BY <1>1 DEF NewPool
<1>5. Shape(p)
  <2>1. p.queues \in [Keys -> Seq(Requests)]
    BY <1>3, EmptySeq
  <2>2. p.over \in [Tenants -> [Tenants -> Nat]]
    BY <1>4
  <2> QED BY <1>2, <1>3, <1>4, <2>1, <2>2 DEF Shape, None
<1>6. Queued(p) = {} /\ Occupied(p) = {} /\ Waiters(p) = {}
  <2>1. \A k \in Keys : ToSet(p.queues[k]) = {}
    BY <1>3 DEF ToSet
  <2>2. Queued(p) = {}
    BY <2>1 DEF Queued
  <2> QED BY <1>3, <2>2 DEF Occupied, Waiters
<1>7. Places(p, F)
  BY <1>3, <1>6 DEF Places
<1>8. Marks(p, F)
  BY <1>3, <1>6 DEF Marks, Ascending
<1>9. Modal(p)
  BY <1>3, <1>4 DEF Modal
<1>10. Slots(p, {})
  <2>1. /\ Cardinality(Occupied(p) \union {}) = 0
        /\ \A t \in Tenants : TenantCount(Occupied(p) \union {}, t) = 0
        /\ \A k \in Keys : KeyCount(Occupied(p) \union {}, k) = 0
    <3>1. Occupied(p) \union {} = {}
      BY <1>6
    <3>2. \A t : {r \in {} : TenantOf(r) = t} = {}
      OBVIOUS
    <3>3. \A k : {r \in {} : KeyOf(r) = k} = {}
      OBVIOUS
    <3>4. Cardinality({}) = 0
      BY FS_EmptySet
    <3> QED BY <3>1, <3>2, <3>3, <3>4, Zenon DEF TenantCount, KeyCount
  <2>2. Caps(p)
    <3>1. \A k \in Keys : Key[k].cap \in Nat
      BY PoolAssumption DEF PoolAssumption
    <3>2. \A t \in Tenants : Tenant[t].cap \in Nat
      BY PoolAssumption DEF PoolAssumption
    <3> QED BY <1>3, <3>1, <3>2 DEF Caps
  <2> QED BY <1>3, <1>6, <2>1, <2>2 DEF Slots
<1>11. Accounts(p, {})
  BY <1>3, <1>4, <1>6 DEF Accounts, TenantAccount, KeyAccount, None
<1>12. Times(p)
  BY <1>4, <1>6 DEF Times, None
<1>13. Passes(p, G)
  BY <1>6 DEF Passes
<1>14. Joins(p) /\ Busy(p)
  BY <1>4, <1>5, <1>6, EmptyBusy DEF Joins, Shape
<1> QED BY <1>1, <1>5, <1>7, <1>8, <1>9, <1>10, <1>11, <1>12, <1>13, <1>14 DEF Sound

\* Initially.
LEMMA InitInv == Init => Inv
<1> SUFFICES ASSUME Init PROVE Inv
  OBVIOUS
<1>1. PICK a \in Algorithms, m \in Modes, size \in Sizes, jumps \in Affinities : pool = NewPool(a, m, size, jumps)
  BY DEF Init
<1>2. a \in {"weighted", "hierarchical"} /\ m \in {"local", "shared"} /\ size \in Nat \ {0}
  BY PoolAssumption DEF PoolAssumption
<1>3. fresh = Requests /\ gone = {} /\ aged = {}
  BY DEF Init
<1>4. Sound(pool, fresh, {}, {}) /\ Times(pool) /\ Passes(pool, gone) /\ Joins(pool) /\ Busy(pool)
  BY <1>1, <1>2, <1>3, NewPoolGood
<1> QED BY <1>3, <1>4 DEF Inv

\* DropIdlePool.
LEMMA DropIdlePoolInv ==
  ASSUME Inv, DropIdlePool
  PROVE  Inv'
<1>1. /\ pool' = NewPool(pool.algorithm, pool.mode, pool.cap, pool.max_jumps)
      /\ fresh' = fresh /\ gone' = gone /\ aged' = aged
  BY DEF DropIdlePool
<1>2. /\ pool.algorithm \in {"weighted", "hierarchical"} /\ pool.mode \in {"local", "shared"}
      /\ pool.cap \in Nat \ {0} /\ pool.max_jumps \in Affinities /\ fresh \subseteq Requests
  BY DEF Inv, Sound, Shape, Places
<1>3. Sound(pool', fresh', {}, {}) /\ Times(pool') /\ Passes(pool', gone') /\ Joins(pool') /\ Busy(pool')
  BY <1>1, <1>2, NewPoolGood
<1> QED BY <1>1, <1>3 DEF Inv

\* Every step.
LEMMA NextInv == Inv /\ [Next]_vars => Inv'
<1> SUFFICES ASSUME Inv, [Next]_vars PROVE Inv'
  OBVIOUS
<1>1. CASE UNCHANGED vars
  BY <1>1 DEF vars, Inv
<1>2. ASSUME NEW r \in Requests,
             Admit(r) \/ Release(r) \/ CallerGone(r) \/ Ages(r) \/ ClaimGranted(r)
               \/ \E why \in {"pool", "tenant", "key"} : ClaimDenied(r, why)
      PROVE  Inv'
  BY <1>2, AdmitInv, ReleaseInv, AroundInv, ClaimGrantedInv, ClaimDeniedInv
<1>3. ASSUME NEW S \in SUBSET Requests, ExpireHolds(S) PROVE Inv'
  BY <1>3, ExpireHoldsInv
<1>4. ASSUME NEW s \in Sessions, Cools(s) PROVE Inv'
  BY <1>4, AroundInv
<1>5. ASSUME NEW size \in Sizes, SetModelCaps(size) PROVE Inv'
  BY <1>5, SetModelCapsInv
<1>6. ASSUME NEW jumps \in Affinities, SetSessionAffinity(jumps) PROVE Inv'
  BY <1>6, SetSessionAffinityInv
<1>7. CASE Sweep \/ DropIdlePool \/ Wake
  BY <1>7, SweepInv, DropIdlePoolInv, WakeInv
<1> QED BY <1>1, <1>2, <1>3, <1>4, <1>5, <1>6, <1>7 DEF Next

\* The inductive invariant holds of every reachable state, for any requests, keys,
\* tenants, groups, weights, caps and settings, and any number of events.
THEOREM Invariant == Spec => []Inv
<1>1. Init => Inv
  BY InitInv
<1>2. Inv /\ [Next]_vars => Inv'
  BY NextInv
<1> QED BY <1>1, <1>2, PTL DEF Spec

\* What the invariant says of slots.
LEMMA InvSlots == Inv => SlotsAccounted
<1> SUFFICES ASSUME Inv PROVE SlotsAccounted
  OBVIOUS
<1>0. Sound(pool, fresh, {}, {})
  BY DEF Inv
<1>1. PICK S : S = Occupied(pool)
  OBVIOUS
<1>2. S \subseteq Requests /\ S \union {} = S
  BY <1>0, <1>1 DEF Sound, Shape, Occupied
<1>3. \A X \in SUBSET S : Cardinality(X) \in Nat
  BY <1>2, RequestSet, FS_CardinalityType
<1>4. /\ pool.in_flight = Cardinality(S)
      /\ \A t \in Tenants : pool.tenant_in_flight[t] = Cardinality({r \in S : TenantOf(r) = t})
      /\ \A k \in Keys : pool.key_in_flight[k] = Cardinality({r \in S : KeyOf(r) = k})
  BY <1>0, <1>1, <1>2 DEF Sound, Slots, TenantCount, KeyCount
<1>5. pool.in_flight \in Nat /\ pool.tenant_in_flight \in [Tenants -> Nat] /\ pool.key_in_flight \in [Keys -> Nat]
  <2>1. pool.tenant_in_flight \in [Tenants -> Int] /\ pool.key_in_flight \in [Keys -> Int]
    BY <1>0 DEF Sound, Shape
  <2>2. \A t \in Tenants : Cardinality({r \in S : TenantOf(r) = t}) \in Nat
    BY <1>3
  <2>3. \A k \in Keys : Cardinality({r \in S : KeyOf(r) = k}) \in Nat
    BY <1>3
  <2>4. \A t \in Tenants : pool.tenant_in_flight[t] \in Nat
    BY <1>4, <2>2
  <2>5. \A k \in Keys : pool.key_in_flight[k] \in Nat
    BY <1>4, <2>3
  <2> QED BY <1>3, <1>4, <2>1, <2>4, <2>5
<1>6. /\ pool.served \in [Tenants -> Nat \union {None}] /\ pool.base \in [Tenants -> Nat]
      /\ pool.key_served \in [Keys -> Nat \union {None}] /\ pool.virtual_time \in Nat
  <2>1. /\ pool.served \in [Tenants -> Int] /\ pool.base \in [Tenants -> Int]
        /\ pool.key_served \in [Keys -> Int] /\ pool.virtual_time \in Int
    BY <1>0 DEF Sound, Shape
  <2>2. \A t \in Tenants : pool.served[t] \in Nat \union {None} /\ pool.base[t] \in Nat
    BY <1>0, <2>1 DEF Sound, Accounts, TenantAccount, None
  <2>3. \A k \in Keys : pool.key_served[k] \in Nat \union {None}
    BY <1>0, <2>1 DEF Sound, Accounts, KeyAccount, None
  <2>4. pool.virtual_time \in Nat
    BY <1>0, <2>1 DEF Sound, Accounts
  <2> QED BY <2>1, <2>2, <2>3, <2>4
<1>7. TypeOK
  BY <1>0, <1>1, <1>2, <1>5, <1>6 DEF TypeOK, Inv, Sound, Shape
<1>8. Caps(pool)
  BY <1>0 DEF Sound, Slots
<1>9. LET places == <<fresh, Queued(pool), pool.pending, pool.running, pool.held>>
      IN  \A i, j \in 1..5 : i < j => places[i] \cap places[j] = {}
  <2>1. /\ fresh \cap Queued(pool) = {} /\ fresh \cap pool.pending = {} /\ fresh \cap pool.running = {}
        /\ fresh \cap pool.held = {}
    BY <1>0 DEF Sound, Places, Occupied
  <2>2. /\ Queued(pool) \cap pool.pending = {} /\ Queued(pool) \cap pool.running = {}
        /\ Queued(pool) \cap pool.held = {}
    BY <1>0 DEF Sound, Places, Occupied
  <2>3. pool.pending \cap pool.running = {} /\ pool.pending \cap pool.held = {} /\ pool.running \cap pool.held = {}
    BY <1>0 DEF Sound, Places
  <2>4. PICK A, B, C, D, E : A = fresh /\ B = Queued(pool) /\ C = pool.pending /\ D = pool.running /\ E = pool.held
    OBVIOUS
  <2>5. \A i, j \in 1..5 : i < j => <<A, B, C, D, E>>[i] \cap <<A, B, C, D, E>>[j] = {}
    BY <2>1, <2>2, <2>3, <2>4
  <2> QED BY <2>4, <2>5
<1> QED BY <1>1, <1>4, <1>7, <1>8, <1>9 DEF SlotsAccounted, Caps

\* Of queues.
LEMMA InvOrder == Inv => QueuesInOrder
BY DEF Inv, Sound, Marks, Ascending, QueuesInOrder

\* Of service.
LEMMA InvService == Inv => ServiceMatchesGrants
<1> SUFFICES ASSUME Inv, NEW t \in Tenants, pool.served[t] # None
             PROVE  pool.served[t] - pool.base[t] =
                      pool.granted[t] + CostOf({r \in pool.pending : TenantOf(r) = t})
  BY DEF ServiceMatchesGrants
<1>1. pool.pending \union {} = pool.pending
  OBVIOUS
<1>2. pool.served[t] = pool.base[t] + pool.granted[t] + CostOf({r \in pool.pending : TenantOf(r) = t})
  BY <1>1 DEF Inv, Sound, Accounts, TenantAccount, TenantCost
<1>3. pool.base[t] \in Int /\ pool.granted[t] \in Int
  BY DEF Inv, Sound, Shape
<1>4. CostOf({r \in pool.pending : TenantOf(r) = t}) \in Nat
  BY CostNat
<1> QED BY <1>2, <1>3, <1>4

\* Of leaving.
LEMMA InvTimes == Inv => NoGainByLeaving
BY DEF Inv, Times, NoGainByLeaving

\* Of passes.
LEMMA InvPasses == Inv => PassesBounded
<1> SUFFICES ASSUME Inv, affinity_on(pool), ~pool.refused, NEW r \in Queued(pool) \ gone
             PROVE  pool.passed[r] < Max(Affinities) + (IF pool.mode = "shared" THEN MaxPending ELSE 1)
  BY DEF PassesBounded
<1>1. Shape(pool)
  BY DEF Inv, Sound
<1>2. r \in Requests
  BY <1>1, QueuedIs DEF Shape
<1>3. PICK a \in Nat, n \in Nat, m \in Nat :
        a = pool.passed[r] /\ n = Cardinality(Jumping(pool, r)) /\ m = MostJumps
  BY <1>1, <1>2, JumpingIs, MostJumpsIs DEF Shape
<1>4. a + n <= Bound(pool)
  BY <1>3 DEF Inv, Passes
<1>5. MaxPending \in Nat
  BY PoolAssumption DEF PoolAssumption
<1> QED BY <1>3, <1>4, <1>5 DEF Bound, MostJumps

\* Of idle slots.
LEMMA InvIdle == Inv => NoIdleSlot
BY DEF Inv, Busy, NoIdleSlot

\* Of newcomers.
LEMMA InvNewcomers == Inv => (EqualWeights => NewcomersServed)
<1> SUFFICES ASSUME Inv, EqualWeights, pool.mode = "local", pool.algorithm = "weighted",
                    NEW t \in pool.joined, NEW u \in Tenants
             PROVE  pool.over[t][u] * Tenant[t].weight < Tenant[u].weight + Tenant[t].weight
  BY DEF NewcomersServed
<1>1. Shape(pool) /\ Joins(pool)
  BY DEF Inv, Sound
<1>2. t \in Tenants
  BY <1>1 DEF Shape
<1>3. PICK n \in Nat : n = pool.over[t][u]
  BY <1>1, <1>2 DEF Shape
<1>4. n <= 1
  BY <1>1, <1>3 DEF Joins
<1>5. PICK w \in Nat \ {0} : w = Tenant[t].weight /\ w = Tenant[u].weight
  BY <1>2, PoolAssumption DEF PoolAssumption, EqualWeights
<1>6. n * w <= 1 * w
  BY <1>4, <1>5, ProductMonotone
<1>7. n * w \in Nat /\ 1 * w = w
  BY <1>3, <1>5
<1>8. n * w < w + w
  BY <1>5, <1>6, <1>7
<1> QED BY <1>3, <1>5, <1>8

\* Every slot the pool, a tenant or a key counts has one holder, no request is in two
\* places and no tenant or key is past its cap, whatever order release, requeue,
\* redeem, finish_step and the answers to claims come in.
THEOREM SlotsHold == Spec => []SlotsAccounted
BY Invariant, InvSlots, PTL

\* Each key's queue is in order of arrival, also after requeue put refused claims back.
THEOREM OrderHolds == Spec => []QueuesInOrder
BY Invariant, InvOrder, PTL

\* served less served_base is what the tenant was granted or has claimed since its
\* entry was made: occupy, requeue's refund and enqueue's placing keep it so.
THEOREM ServiceHolds == Spec => []ServiceMatchesGrants
BY Invariant, InvService, PTL

\* While no claim was refused, a tenant forgotten by forget_if_quiet is not placed
\* before where it was when enqueue places it again.
THEOREM TimesHold == Spec => []NoGainByLeaving
BY Invariant, InvTimes, PTL

\* While no claim was refused, Affinity::pick and pass_earlier let no request whose
\* caller waits be passed more often than PassesBounded says.
THEOREM PassesHold == Spec => []PassesBounded
BY Invariant, InvPasses, PTL

\* After every message, no slot is free beside a request it could go to: dispatch_all
\* has enough turns, and pick_tenant, hierarchical too, finds somebody whenever a
\* tenant is eligible.
THEOREM IdleHolds == Spec => []NoIdleSlot
BY Invariant, InvIdle, PTL

\* Among tenants of equal weight, one that enqueue places at virtual time and that
\* could be served is passed over by each other tenant at most once.  (For unequal
\* weights it is false: see the run joiner.)
THEOREM NewcomersHold == Spec => [](EqualWeights => NewcomersServed)
BY Invariant, InvNewcomers, PTL

\* The splits that the run fair enumerates, and the one where 90 and 87 pay, are by
\* weight: instances of SplitsByWeight.
THEOREM SplitsHold == Spec => []SlotsSplitByWeight
<1>1. ASSUME NEW n \in 1..4, NEW max \in 0..7, NEW w \in [1..n -> {0, 2, 5}] PROVE Splits(max, w)
  <2>0. n \in Nat \ {0} /\ max \in Nat /\ w \in [1..n -> Int]
    OBVIOUS
  <2>1. Items(1..n) /\ 1..n # {}
    BY <2>0, FirstItems
  <2> QED BY <2>0, <2>1, SplitsByWeight
<1>2. Splits(6, <<90, 87, 1, 1, 1>>)
  <2> DEFINE w == <<90, 87, 1, 1, 1>>
  <2>0. Items(1..5) /\ 1..5 # {}
    <3>1. \A n \in Nat \ {0} : Items(1..n) /\ 1..n # {}
      BY FirstItems
    <3>2. 5 \in Nat \ {0}
      OBVIOUS
    <3> QED BY <3>1, <3>2, Zenon
  <2>1. w \in [1..5 -> Int]
    OBVIOUS
  <2> HIDE DEF w
  <2>2. Splits(6, w)
    BY <2>0, <2>1, SplitsByWeight
  <2> QED BY <2>2 DEF w
<1>3. SlotsSplitByWeight
  BY <1>1, <1>2 DEF SlotsSplitByWeight
<1> QED BY <1>3, PTL
=============================================================================
