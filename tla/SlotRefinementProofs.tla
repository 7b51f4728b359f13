------------------------- MODULE SlotRefinementProofs ------------------------
(***************************************************************************)
(* The Redis scripts implement the slot contract, proved for any number of *)
(* replicas, sessions and slot kinds and for any pool.  The mapping sends  *)
(* the pool's field of each replica's holdings to what the ledger records  *)
(* for it, that field of all held slots to what the ledger has parked, and *)
(* that of the held slots that ran out to what is overdue; the invariants  *)
(* of SlotServiceProofs say that the first two add up to the count the     *)
(* scripts compare with the cap.                                           *)
(***************************************************************************)
EXTENDS SlotRefinement, SlotServiceProofs

USE DEF Replica, HoldId, NOwners, Owner, Slot

\* The pool's field, and what the ledger has recorded, parked and overdue.
F == PoolField(APool)
Rec == [r \in Replica |-> held[r][F]]
Parked == HeldBy(HoldId, F)
Over == HeldBy(Expired, F)

\* What held slots have of the pool, by the holdings H.
ParkedOf(H) == Sum([o \in Owner |-> IF o \in HoldId THEN H[o][F] ELSE 0], NOwners)

\* Terms that are zero past m do not count.
LEMMA SumPrefix ==
  ASSUME NEW n \in Nat, NEW m \in Nat, m <= n, NEW g, \A i \in 1..n : g[i] \in Int,
         \A i \in 1..n : i > m => g[i] = 0
  PROVE  Sum(g, n) = Sum(g, m)
<1> DEFINE P == PartialSums(g, n)
           Q == PartialSums(g, m)
           S == {i \in Nat : i <= n => P[i] = IF i <= m THEN Q[i] ELSE Q[m]}
<1>1. /\ P[0] = 0 /\ \A i \in 1..n : P[i] = P[i-1] + g[i]
      /\ Q[0] = 0 /\ \A i \in 1..m : Q[i] = Q[i-1] + g[i]
  BY PartialSumsStep
<1>2. Q[m] \in Int
  BY PartialSumsInt
<1> HIDE DEF P, Q
<1>3. 0 \in S
  BY <1>1
<1>4. ASSUME NEW k \in Nat, k \in S PROVE k + 1 \in S
  <2> SUFFICES ASSUME k + 1 <= n PROVE P[k+1] = IF k + 1 <= m THEN Q[k+1] ELSE Q[m]
    OBVIOUS
  <2>1. k + 1 \in 1..n /\ P[k] = IF k <= m THEN Q[k] ELSE Q[m]
    BY <1>4
  <2>2. P[k+1] = P[k] + g[k+1]
    BY <1>1, <2>1
  <2>3. CASE k + 1 <= m
    <3>1. Q[k+1] = Q[k] + g[k+1]
      BY <1>1, <2>3
    <3> QED BY <2>1, <2>2, <2>3, <3>1
  <2>4. CASE ~(k + 1 <= m)
    <3>1. g[k+1] = 0
      BY <2>1, <2>4
    <3>2. P[k] = Q[m]
      BY <2>1, <2>4
    <3> QED BY <1>2, <2>2, <2>4, <3>1, <3>2
  <2> QED BY <2>3, <2>4
<1>5. \A i \in Nat : i \in S
  <2>1. \A k \in Nat : k \in S => k + 1 \in S
    BY <1>4
  <2> HIDE DEF S
  <2> QED BY <1>3, <2>1, NatSetInduction
<1>6. P[n] = Q[m]
  BY <1>5
<1> QED BY <1>6 DEF Sum, P, Q

\* The pool's field, as a field.
LEMMA FieldF ==
  /\ F \in Field /\ F \notin HeldFields
  /\ \A s \in Slot : F \in Fields(s) <=> PoolOf(s) = APool
<1>1. 1 \in Slot
  BY SizesAssumption
<1> QED BY <1>1, PoolAssumption, FieldsInField, FieldsApart DEF F

\* What is parked is a natural, and depends on held slots only.
LEMMA ParkedNat ==
  ASSUME NEW H \in [Owner -> [Field -> Nat]]
  PROVE  ParkedOf(H) \in Nat
<1> DEFINE a == [o \in Owner |-> IF o \in HoldId THEN H[o][F] ELSE 0]
<1>1. \A i \in 1..NOwners : a[i] \in Nat
  BY FieldF
<1> HIDE DEF a
<1> QED BY <1>1, SumNat, OwnersAreFinite DEF ParkedOf, a

\* Fewer held slots, less is parked.
LEMMA ParkedLess ==
  ASSUME NEW H \in [Owner -> [Field -> Nat]], NEW K \in [Owner -> [Field -> Nat]],
         \A h \in HoldId : K[h][F] <= H[h][F]
  PROVE  ParkedOf(K) <= ParkedOf(H)
<1> DEFINE a == [o \in Owner |-> IF o \in HoldId THEN K[o][F] ELSE 0]
           b == [o \in Owner |-> IF o \in HoldId THEN H[o][F] ELSE 0]
<1>1. \A i \in 1..NOwners : a[i] \in Int /\ b[i] \in Int /\ a[i] <= b[i]
  BY FieldF
<1>2. ParkedOf(K) = Sum(a, NOwners) /\ ParkedOf(H) = Sum(b, NOwners)
  BY DEF ParkedOf
<1> HIDE DEF a, b
<1> QED BY <1>1, <1>2, SumMonotone, OwnersAreFinite

\* One held slot more or less.
LEMMA ParkedChange ==
  ASSUME NEW H \in [Owner -> [Field -> Nat]], NEW K \in [Owner -> [Field -> Nat]],
         NEW h \in HoldId, \A i \in HoldId : i # h => K[i][F] = H[i][F]
  PROVE  ParkedOf(K) = ParkedOf(H) + (K[h][F] - H[h][F])
<1> DEFINE a == [o \in Owner |-> IF o \in HoldId THEN H[o][F] ELSE 0]
           b == [o \in Owner |-> IF o \in HoldId THEN K[o][F] ELSE 0]
<1>1. \A i \in 1..NOwners : a[i] \in Int /\ b[i] \in Int
  BY FieldF
<1>2. \A i \in 1..NOwners : i # h => b[i] = a[i]
  OBVIOUS
<1>3. h \in 1..NOwners /\ NOwners \in Nat
  BY OwnersAreFinite
<1>4. a[h] = H[h][F] /\ b[h] = K[h][F]
  BY <1>3
<1>5. ParkedOf(K) = Sum(b, NOwners) /\ ParkedOf(H) = Sum(a, NOwners)
  BY DEF ParkedOf
<1> HIDE DEF a, b
<1>6. Sum(b, NOwners) = Sum(a, NOwners) + (b[h] - a[h])
  BY <1>1, <1>2, <1>3, SumChange
<1> QED BY <1>4, <1>5, <1>6

\* The same held slots, the same is parked.
LEMMA ParkedSame ==
  ASSUME NEW H \in [Owner -> [Field -> Nat]], NEW K \in [Owner -> [Field -> Nat]],
         \A h \in HoldId : K[h][F] = H[h][F]
  PROVE  ParkedOf(K) = ParkedOf(H)
<1>1. \A h \in HoldId : K[h][F] \in Nat /\ H[h][F] \in Nat
  BY FieldF, OwnersAreFinite
<1>2. \A h \in HoldId : K[h][F] <= H[h][F] /\ H[h][F] <= K[h][F]
  BY <1>1
<1>3. ParkedOf(K) <= ParkedOf(H)
  BY <1>2, ParkedLess
<1>4. ParkedOf(H) <= ParkedOf(K)
  BY <1>2, ParkedLess
<1>5. ParkedOf(K) \in Nat /\ ParkedOf(H) \in Nat
  BY ParkedNat
<1> QED BY <1>3, <1>4, <1>5

\* All that is counted for the pool is recorded for a replica or parked.
LEMMA CountSplits ==
  ASSUME NEW H \in [Owner -> [Field -> Nat]]
  PROVE  SumOf(H, F) = Sum([r \in Replica |-> H[r][F]], NReplicas) + ParkedOf(H)
<1> DEFINE a == [o \in Owner |-> IF o \in HoldId THEN 0 ELSE H[o][F]]
           b == [o \in Owner |-> IF o \in HoldId THEN H[o][F] ELSE 0]
           c == [o \in Owner |-> H[o][F]]
           d == [r \in Replica |-> H[r][F]]
<1>1. NReplicas \in Nat /\ NOwners \in Nat /\ NReplicas <= NOwners
  BY SizesAssumption
<1>2. \A i \in 1..NOwners : a[i] \in Int /\ b[i] \in Int /\ c[i] = a[i] + b[i]
  BY FieldF
<1>3. \A i \in 1..NOwners : i > NReplicas => a[i] = 0
  BY SizesAssumption
<1>4. \A i \in 1..NReplicas : a[i] \in Int /\ a[i] = d[i]
  BY SizesAssumption, FieldF
<1>5. SumOf(H, F) = Sum(c, NOwners) /\ ParkedOf(H) = Sum(b, NOwners)
  BY DEF SumOf, ParkedOf
<1> HIDE DEF a, b, c, d
<1>6. Sum(c, NOwners) = Sum(a, NOwners) + Sum(b, NOwners)
  BY <1>1, <1>2, SumAdd
<1>7. Sum(a, NOwners) = Sum(a, NReplicas)
  BY <1>1, <1>2, <1>3, SumPrefix
<1>8. Sum(a, NReplicas) = Sum(d, NReplicas)
  BY <1>1, <1>4, SumEqual
<1> QED BY <1>5, <1>6, <1>7, <1>8 DEF d

\* The pool's cap of a claim is within the ledger's.
LEMMA CapWithin ==
  ASSUME NEW c \in Caps
  PROVE  c.pool <= LargestPoolCap /\ LargestPoolCap \in Nat /\ c.pool \in Nat
<1>1. /\ LargestPoolCap \in {d.pool : d \in Caps}
      /\ \A d \in Caps : d.pool <= LargestPoolCap
  BY LargestCapAssumption, Zenon DEF LargestPoolCap
<1> QED BY <1>1, CapsAssumption

\* What the ledger records changes for r only.
LEMMA RecordedFor ==
  ASSUME NEW r \in Replica, NEW n,
         held'[r][F] = n, \A q \in Replica : q # r => held'[q][F] = held[q][F]
  PROVE  Rec' = [Rec EXCEPT ![r] = n]
BY DEF Rec, F

\* What the ledger has parked, by the holdings.
LEMMA ParkedIs == Parked = ParkedOf(held) /\ Parked' = ParkedOf(held')
BY DEF Parked, ParkedOf, HeldBy, F

\* Reclaiming held slots leaves less parked, and replicas alone.
LEMMA ReclaimParked ==
  ASSUME TypeOK, NEW S
  PROVE  /\ ParkedOf(reclaimHeld(S)) \in 0..Parked
         /\ \A q \in Replica : reclaimHeld(S)[q][F] = IF q \in S THEN 0 ELSE held[q][F]
<1>1. reclaimHeld(S) \in [Owner -> [Field -> Nat]] /\ held \in [Owner -> [Field -> Nat]]
  BY ReclaimType DEF TypeOK
<1>2. \A o \in Owner : reclaimHeld(S)[o][F] = IF o \in S THEN 0 ELSE held[o][F]
  BY FieldF DEF reclaimHeld, Nothing
<1>3. \A h \in HoldId : reclaimHeld(S)[h][F] <= held[h][F]
  BY <1>1, <1>2, FieldF, OwnersAreFinite
<1>4. ParkedOf(reclaimHeld(S)) <= ParkedOf(held)
  BY <1>1, <1>3, ParkedLess
<1>5. ParkedOf(reclaimHeld(S)) \in Nat /\ ParkedOf(held) \in Nat
  BY <1>1, ParkedNat
<1> QED BY <1>2, <1>4, <1>5, ParkedIs, OwnersAreFinite

\* What is overdue is parked, and is what freeing the slots that ran out frees.
LEMMA PurgeFrees ==
  ASSUME TypeOK
  PROVE  /\ Over \in Nat /\ Parked \in Nat /\ Over <= Parked
         /\ ParkedOf(reclaimHeld(Expired)) = Parked - Over
<1> DEFINE a == [o \in Owner |-> IF o \in HoldId THEN reclaimHeld(Expired)[o][F] ELSE 0]
           b == [o \in Owner |-> IF o \in Expired THEN held[o][F] ELSE 0]
           c == [o \in Owner |-> IF o \in HoldId THEN held[o][F] ELSE 0]
<1>1. NOwners \in Nat /\ held \in [Owner -> [Field -> Nat]] /\ F \in Field
  BY OwnersAreFinite, FieldF DEF TypeOK
<1>2. \A o \in Owner : reclaimHeld(Expired)[o][F] = IF o \in Expired THEN 0 ELSE held[o][F]
  BY <1>1 DEF reclaimHeld, Nothing
<1>3. \A o \in Owner : o \in Expired => o \in HoldId
  BY DEF Expired
<1>4. \A i \in 1..NOwners : a[i] \in Nat /\ b[i] \in Nat /\ c[i] = a[i] + b[i]
  BY <1>1, <1>2, <1>3
<1>5. /\ ParkedOf(reclaimHeld(Expired)) = Sum(a, NOwners)
      /\ Over = Sum(b, NOwners) /\ Parked = Sum(c, NOwners)
  BY DEF ParkedOf, Over, Parked, HeldBy
<1> HIDE DEF a, b, c
<1>6. Sum(c, NOwners) = Sum(a, NOwners) + Sum(b, NOwners)
  <2>1. \A i \in 1..NOwners : a[i] \in Int /\ b[i] \in Int /\ c[i] = a[i] + b[i]
    BY <1>4
  <2> QED BY <1>1, <2>1, SumAdd
<1>7. Sum(a, NOwners) \in Nat /\ Sum(b, NOwners) \in Nat
  BY <1>1, <1>4, SumNat
<1> QED BY <1>5, <1>6, <1>7

\* Once no held slot has run out, nothing is overdue.
LEMMA NoneOverdue ==
  ASSUME \A i \in HoldId : hold'[i] # "lapsed"
  PROVE  Over' = 0
<1> DEFINE b == [o \in Owner |-> IF o \in Expired' THEN held'[o][F] ELSE 0]
<1>1. \A i \in 1..NOwners : b[i] = 0
  BY DEF Expired
<1>2. Over' = Sum(b, NOwners)
  BY DEF Over, HeldBy, F
<1> HIDE DEF b
<1> QED BY <1>1, <1>2, SumZero, OwnersAreFinite

\* What is overdue is told by the held slots alone.
LEMMA OverdueSame ==
  ASSUME TypeOK, hold' = hold, \A h \in HoldId : held'[h][F] = held[h][F]
  PROVE  Over' = Over
<1> DEFINE a == [o \in Owner |-> IF o \in Expired THEN held[o][F] ELSE 0]
           b == [o \in Owner |-> IF o \in Expired' THEN held'[o][F] ELSE 0]
<1>1. Expired' = Expired /\ \A o \in Expired : o \in HoldId
  BY DEF Expired
<1>2. \A i \in 1..NOwners : a[i] \in Int /\ a[i] = b[i]
  BY <1>1, FieldF DEF TypeOK
<1>3. Over = Sum(a, NOwners) /\ Over' = Sum(b, NOwners)
  BY DEF Over, HeldBy, F
<1> HIDE DEF a, b
<1> QED BY <1>2, <1>3, SumEqual, OwnersAreFinite

\* REPLICA_HEARTBEAT is the ledger's heartbeat.
LEMMA HeartbeatRefines ==
  ASSUME TypeOK, NEW r \in Replica, ReplicaHeartbeat(r)
  PROVE  Contract!Heartbeat(r, Parked - Over) /\ Over' = 0
<1> DEFINE out == Lapsed(r) \cup Expired
<1>1. /\ reg' = [q \in Replica |-> IF q = r THEN "live"
                                   ELSE IF q \in Lapsed(r) THEN "absent" ELSE reg[q]]
      /\ held' = reclaimHeld(out)
  BY DEF ReplicaHeartbeat
<1>2. Parked' = Parked - Over
  <2>1. /\ reclaimHeld(out) \in [Owner -> [Field -> Nat]]
        /\ reclaimHeld(Expired) \in [Owner -> [Field -> Nat]]
    BY ReclaimType
  <2>2. \A h \in HoldId : reclaimHeld(out)[h][F] = reclaimHeld(Expired)[h][F]
    BY OwnersAreFinite DEF reclaimHeld, Lapsed
  <2> HIDE DEF out
  <2>3. ParkedOf(reclaimHeld(out)) = ParkedOf(reclaimHeld(Expired))
    BY <2>1, <2>2, ParkedSame
  <2> QED BY <1>1, <2>3, PurgeFrees, ParkedIs
<1>3. \A q \in Replica : q \in out <=> q \in Lapsed(r)
  BY OwnersAreFinite DEF Expired
<1>4. \A q \in Replica : held'[q][F] = IF q \in Lapsed(r) THEN 0 ELSE held[q][F]
  BY <1>1, <1>3, ReclaimParked
<1>5. Rec' = [q \in Replica |-> IF q \in Lapsed(r) THEN 0 ELSE Rec[q]]
  BY <1>4 DEF Rec, F
<1>6. Contract!Lapsed(r) = Lapsed(r)
  BY DEF Contract!Lapsed, Contract!Replica, Lapsed
<1> HIDE DEF out
<1>7. Contract!Heartbeat(r, Parked - Over)
  BY <1>1, <1>2, <1>5, <1>6 DEF Contract!Heartbeat, Contract!Replica, Rec, Parked, F
<1>8. \A h \in HoldId : hold'[h] # "lapsed"
  BY DEF ReplicaHeartbeat, Expired
<1> QED BY <1>7, <1>8, NoneOverdue

\* REPLICA_DEREGISTER is the ledger's.
LEMMA DeregisterRefines ==
  ASSUME TypeOK, NEW r \in Replica, ReplicaDeregister(r)
  PROVE  Contract!Deregister(r) /\ Over' = Over
<1>1. reg' = [reg EXCEPT ![r] = "absent"] /\ held' = reclaimHeld({r})
  BY DEF ReplicaDeregister
<1>2. \A q \in Replica : held'[q][F] = IF q = r THEN 0 ELSE held[q][F]
  BY <1>1, ReclaimParked
<1>3. Rec' = [Rec EXCEPT ![r] = 0]
  BY <1>2, RecordedFor
<1>4. held' \in [Owner -> [Field -> Nat]] /\ held \in [Owner -> [Field -> Nat]]
  BY <1>1, ReclaimType DEF TypeOK
<1>5. \A h \in HoldId : held'[h][F] = held[h][F]
  BY <1>1, OwnersAreFinite DEF reclaimHeld
<1>6. Parked' = Parked
  BY <1>4, <1>5, ParkedSame, ParkedIs
<1>7. hold' = hold
  BY DEF ReplicaDeregister
<1>8. Over' = Over
  BY <1>5, <1>7, OverdueSame
<1> QED BY <1>1, <1>3, <1>6, <1>8 DEF Contract!Deregister, Rec, Parked, F

\* What the proofs need of the scripts' state.
Sound == TypeOK /\ TotalsAreSums /\ NothingLeaks /\ HeldShape

\* The ledger adds up as the scripts' model does.
LEMMA LedgerSum == \A g, n : Contract!Sum(g, n) = Sum(g, n)
BY Zenon DEF Contract!Sum, Contract!PartialSums, Sum, PartialSums

\* The slot a redeemed hold names is a live hold's one slot of its pool.
LEMMA RedeemedHold ==
  ASSUME Sound, NEW r, NEW s \in Slot, NEW h \in HoldsFor(s), NEW only, NEW starve, NEW c,
         SlotAcquireOutcome(r, s, h, only, starve, c) = "Redeemed"
  PROVE  /\ h \in HoldId /\ Live(r)
         /\ reclaimHeld(FreedFirst(s, h, starve))[h] = held[h]
         /\ held[h][F] = IF PoolOf(s) = APool THEN 1 ELSE 0
<1> DEFINE h1 == reclaimHeld(FreedFirst(s, h, starve))
<1>1. Live(r) /\ h # NoHold /\ h1[h] # Nothing
  BY DEF SlotAcquireOutcome, HoldFound
<1>2. h \in HoldId /\ h \in Owner /\ HoldSlot[h] = s
  BY <1>1, OwnersAreFinite DEF HoldsFor
<1>3. h1[h] = held[h] /\ held[h] # Nothing
  BY <1>1, <1>2 DEF reclaimHeld
<1>4. hold[h] # "absent"
  BY <1>2, <1>3 DEF Sound, NothingLeaks
<1>5. held[h][F] = IF PoolOf(s) = APool THEN 1 ELSE 0
  BY <1>2, <1>4, PoolAssumption DEF Sound, HeldShape, F
<1> QED BY <1>1, <1>2, <1>3, <1>5

\* A granted claim found the pool's count below the cap it carried.
LEMMA GrantedBelow ==
  ASSUME NEW r, NEW s, NEW h, NEW only, NEW starve, NEW c,
         SlotAcquireOutcome(r, s, h, only, starve, c) = "Granted"
  PROVE  /\ Live(r)
         /\ ~(reclaimTotals(FreedFirst(s, h, starve))[PoolField(PoolOf(s))] >= c.pool)
BY DEF SlotAcquireOutcome, atCap

\* What a claim leaves parked before it is decided.
LEMMA ClaimLeaves ==
  ASSUME Sound, NEW s \in Slot, NEW h \in HoldsFor(s), NEW starve \in BOOLEAN
  PROVE  ParkedOf(reclaimHeld(FreedFirst(s, h, starve))) =
           IF starve /\ PoolOf(s) = APool
           THEN IF HoldFound(s, h, starve) THEN 1 ELSE 0
           ELSE Parked - Over
<1> DEFINE out == FreedFirst(s, h, starve)
           h1 == reclaimHeld(out)
           h0 == reclaimHeld(Expired)
<1>0. TypeOK /\ F \in Field
  BY FieldF DEF Sound
<1>1. h1 \in [Owner -> [Field -> Nat]] /\ h0 \in [Owner -> [Field -> Nat]]
  BY <1>0, ReclaimType
<1>2. /\ \A i \in HoldId : h1[i] = IF i \in out THEN Nothing ELSE held[i]
      /\ \A i \in HoldId : h0[i] = IF i \in Expired THEN Nothing ELSE held[i]
      /\ Nothing[F] = 0
  BY <1>0, OwnersAreFinite DEF reclaimHeld, Nothing
<1>3. \A i \in HoldId : held[i][F] = IF hold[i] # "absent" /\ PoolOf(HoldSlot[i]) = APool
                                     THEN 1 ELSE 0
  <2>1. \A i \in HoldId : hold[i] = "absent" => held[i][F] = 0
    BY <1>2 DEF Sound, NothingLeaks
  <2>2. \A i \in HoldId : hold[i] # "absent" =>
          held[i][F] = IF PoolOf(HoldSlot[i]) = APool THEN 1 ELSE 0
    BY PoolAssumption DEF Sound, HeldShape, F
  <2> QED BY <2>1, <2>2
<1>4. \A i \in HoldId : i \in out <=> \/ i \in Expired
                                      \/ /\ starve /\ hold[i] = "live" /\ i # h
                                         /\ PoolOf(HoldSlot[i]) = PoolOf(s)
  BY DEF FreedFirst, GivenUp
<1>5. \A i \in HoldId : (i \in Expired <=> hold[i] = "lapsed")
                        /\ hold[i] \in {"absent", "live", "lapsed"}
  BY <1>0 DEF Expired, TypeOK, Status
<1> HIDE DEF out
<1>6. CASE ~(starve /\ PoolOf(s) = APool)
  <2>1. \A i \in HoldId : h1[i][F] = h0[i][F]
    BY <1>2, <1>3, <1>4, <1>6
  <2>2. ParkedOf(h1) = ParkedOf(h0)
    BY <1>1, <2>1, ParkedSame
  <2> QED BY <1>0, <1>6, <2>2, PurgeFrees DEF out
<1>7. CASE starve /\ PoolOf(s) = APool
  <2> DEFINE z == [o \in Owner |-> Nothing]
  <2>1. z \in [Owner -> [Field -> Nat]] /\ \A i \in HoldId : z[i][F] = 0
    BY <1>2, OwnersAreFinite DEF Nothing
  <2>2. ParkedOf(z) = 0
    <3> DEFINE a == [o \in Owner |-> IF o \in HoldId THEN z[o][F] ELSE 0]
    <3>1. \A i \in 1..NOwners : a[i] = 0
      BY <2>1
    <3>2. ParkedOf(z) = Sum(a, NOwners)
      BY DEF ParkedOf
    <3> HIDE DEF a
    <3> QED BY <3>1, <3>2, SumZero, OwnersAreFinite
  <2> HIDE DEF z
  <2>3. \A i \in HoldId : i # h => h1[i][F] = 0
    BY <1>2, <1>3, <1>4, <1>5, <1>7
  <2>4. HoldFound(s, h, starve) <=> h # NoHold /\ h1[h] # Nothing
    BY DEF HoldFound, out
  <2>5. CASE h = NoHold
    <3>1. h \notin HoldId
      BY <2>5, SizesAssumption DEF NoHold
    <3>2. \A i \in HoldId : h1[i][F] = z[i][F]
      BY <2>1, <2>3, <3>1
    <3>3. ParkedOf(h1) = ParkedOf(z)
      BY <1>1, <2>1, <3>2, ParkedSame
    <3> QED BY <1>7, <2>2, <2>4, <2>5, <3>3 DEF out
  <2>6. CASE h # NoHold
    <3>1. h \in HoldId /\ HoldSlot[h] = s
      BY <2>6 DEF HoldsFor
    <3>2. ParkedOf(h1) = ParkedOf(z) + (h1[h][F] - z[h][F])
      BY <1>1, <2>1, <2>3, <3>1, ParkedChange
    <3>3. ParkedOf(h1) = h1[h][F]
      BY <1>1, <1>0, <2>1, <2>2, <3>1, <3>2, OwnersAreFinite
    <3>4. h1[h][F] = IF h1[h] # Nothing THEN 1 ELSE 0
      <4>1. CASE h1[h] = Nothing
        BY <1>2, <4>1
      <4>2. CASE h1[h] # Nothing
        <5>1. h1[h] = held[h] /\ held[h] # Nothing
          BY <1>2, <3>1, <4>2
        <5>2. hold[h] # "absent"
          BY <3>1, <5>1 DEF Sound, NothingLeaks
        <5> QED BY <1>3, <1>7, <3>1, <4>2, <5>1, <5>2
      <4> QED BY <4>1, <4>2
    <3> QED BY <1>7, <2>4, <2>6, <3>3, <3>4 DEF out
  <2> QED BY <2>5, <2>6
<1> QED BY <1>6, <1>7

\* A claim leaves the replicas' holdings, and the count it is decided by is
\* what the ledger adds up.
LEMMA ClaimCounts ==
  ASSUME Sound, NEW s \in Slot, NEW h \in HoldsFor(s), NEW starve \in BOOLEAN,
         NEW k \in Nat, k = ParkedOf(reclaimHeld(FreedFirst(s, h, starve)))
  PROVE  /\ \A q \in Replica : reclaimHeld(FreedFirst(s, h, starve))[q][F] = held[q][F]
         /\ reclaimTotals(FreedFirst(s, h, starve))[F] = Sum(Rec, NReplicas) + k
<1> DEFINE out == FreedFirst(s, h, starve)
           h1 == reclaimHeld(out)
           t1 == reclaimTotals(out)
<1>0. TypeOK /\ TotalsAreSums
  BY DEF Sound
<1>1. h1 \in [Owner -> [Field -> Nat]] /\ F \in Field
  BY <1>0, ReclaimType, FieldF
<1>2. \A q \in Replica : h1[q][F] = held[q][F]
  <2>1. \A q \in Replica : q \notin out
    BY OwnersAreFinite DEF FreedFirst, Expired, GivenUp
  <2> QED BY <1>0, <2>1, ReclaimParked
<1>3. t1[F] = Sum([q \in Replica |-> h1[q][F]], NReplicas) + k
  BY <1>0, <1>1, ReclaimSums, CountSplits
<1>4. [q \in Replica |-> h1[q][F]] = Rec
  BY <1>2 DEF Rec
<1> QED BY <1>2, <1>3, <1>4

\* SLOT_ACQUIRE is the ledger call of its answer.
LEMMA AcquireRefines ==
  ASSUME Sound, TypeOK', NEW r \in Replica, NEW s \in Slot, NEW h \in HoldsFor(s),
         NEW only \in BOOLEAN, NEW starve \in BOOLEAN, NEW c \in Caps,
         SlotAcquire(r, s, h, only, starve, c),
         NEW k \in Nat, k = ParkedOf(reclaimHeld(FreedFirst(s, h, starve)))
  PROVE  LET outcome == SlotAcquireOutcome(r, s, h, only, starve, c)
         IN  IF outcome = "NotRegistered" THEN UNCHANGED bvars
             ELSE /\ Over' = 0
                  /\ IF PoolOf(s) = APool /\ outcome = "Granted" THEN Contract!Grant(r, k)
                     ELSE IF PoolOf(s) = APool /\ outcome = "Redeemed" THEN Contract!Redeem(r, k)
                     ELSE Contract!Purge(k)
<1> DEFINE out == FreedFirst(s, h, starve)
           outcome == SlotAcquireOutcome(r, s, h, only, starve, c)
           took == outcome = "Redeemed"
           new == outcome = "Granted"
           h1 == reclaimHeld(out)
           t1 == reclaimTotals(out)
<1>0. TypeOK /\ TotalsAreSums
  BY DEF Sound
<1>1. /\ h1 \in [Owner -> [Field -> Nat]] /\ held' \in [Owner -> [Field -> Nat]]
      /\ held \in [Owner -> [Field -> Nat]]
      /\ r \in Owner /\ F \in Field /\ F \notin HeldFields
      /\ F \in Fields(s) <=> PoolOf(s) = APool
  BY <1>0, ReclaimType, OwnersAreFinite, FieldF DEF TypeOK
<1>2. k = ParkedOf(h1)
  OBVIOUS
<1>3. /\ \A q \in Replica : h1[q][F] = held[q][F]
      /\ t1[F] = Sum(Rec, NReplicas) + k
  BY ClaimCounts
<1>6. \/ outcome = "NotRegistered" /\ UNCHANGED bvars
      \/ /\ reg' = reg
         /\ held' = [o \in Owner |->
              IF o = r
              THEN [f \in Field |->
                      h1[r][f] + (IF new /\ f \in Fields(s) THEN 1 ELSE 0)
                               + (IF took /\ f \notin HeldFields THEN h1[h][f] ELSE 0)]
              ELSE IF took /\ o = h THEN Nothing ELSE h1[o]]
  BY Zenon DEF SlotAcquire
<1>7. took => /\ h \in HoldId /\ Live(r) /\ h1[h] = held[h]
              /\ held[h][F] = IF PoolOf(s) = APool THEN 1 ELSE 0
  BY RedeemedHold
<1>8. new => Live(r) /\ ~(t1[PoolField(PoolOf(s))] >= c.pool)
  BY GrantedBelow
<1>9. ~(new /\ took) /\ (outcome = "NotRegistered" => ~new /\ ~took)
  OBVIOUS
<1>10. Rec \in [Replica -> Nat] /\ Rec[r] = held[r][F]
  BY <1>1, OwnersAreFinite DEF Rec
<1> HIDE DEF out, outcome, took, new, h1, t1
<1>11. outcome # "NotRegistered" => Over' = 0
  <2>1. outcome # "NotRegistered" => \A i \in HoldId : hold'[i] # "lapsed"
    <3>1. outcome # "NotRegistered" =>
            hold' = [i \in HoldId |-> IF i \in out \/ (took /\ i = h) THEN "absent" ELSE hold[i]]
      BY Zenon DEF SlotAcquire, out, outcome, took
    <3>2. \A i \in HoldId : hold[i] = "lapsed" => i \in out
      BY DEF out, FreedFirst, Expired
    <3> QED BY <3>1, <3>2
  <2> QED BY <2>1, NoneOverdue
<1>13. outcome = "NotRegistered" => UNCHANGED bvars
  BY Zenon DEF SlotAcquire, outcome
<1>12. CASE /\ outcome # "NotRegistered"
            /\ reg' = reg
            /\ held' = [o \in Owner |->
                 IF o = r
                 THEN [f \in Field |->
                         h1[r][f] + (IF new /\ f \in Fields(s) THEN 1 ELSE 0)
                                  + (IF took /\ f \notin HeldFields THEN h1[h][f] ELSE 0)]
                 ELSE IF took /\ o = h THEN Nothing ELSE h1[o]]
  <2>1. \A o \in Owner : o # r => held'[o] = IF took /\ o = h THEN Nothing ELSE h1[o]
    BY <1>12
  <2>2. held'[r][F] = h1[r][F] + (IF new /\ F \in Fields(s) THEN 1 ELSE 0)
                               + (IF took THEN h1[h][F] ELSE 0)
    <3>1. held'[r] = [f \in Field |->
                         h1[r][f] + (IF new /\ f \in Fields(s) THEN 1 ELSE 0)
                                  + (IF took /\ f \notin HeldFields THEN h1[h][f] ELSE 0)]
      BY <1>1, <1>12, Zenon
    <3> QED BY <1>1, <3>1
  <2>3. \A q \in Replica : q # r => held'[q][F] = held[q][F]
    BY <1>3, <1>7, <2>1, OwnersAreFinite
  <2>4. h1[r][F] = held[r][F] /\ held[r][F] \in Nat
    BY <1>1, <1>3
  <2>8. reg' = reg /\ (new \/ took => Live(r))
    BY <1>7, <1>8, <1>12
  <2>5. CASE new /\ PoolOf(s) = APool
    <3>1. held'[r][F] = held[r][F] + 1
      BY <1>1, <1>9, <2>2, <2>4, <2>5
    <3>2. Rec' = [Rec EXCEPT ![r] = @ + 1]
      BY <1>10, <2>3, <3>1, RecordedFor
    <3>3. Parked' = k
      BY <1>1, <1>2, <1>9, <2>1, <2>5, ParkedSame, ParkedIs, OwnersAreFinite
    <3>4. Sum(Rec, NReplicas) + k < LargestPoolCap
      <4>1. t1[F] \in Nat /\ ~(t1[F] >= c.pool)
        BY <1>0, <1>1, <1>8, <2>5, ReclaimType DEF t1, F
      <4> QED BY <1>3, <4>1, CapWithin
    <3>5. Contract!Grant(r, k)
      BY <2>5, <2>8, <3>2, <3>3, <3>4, LedgerSum
         DEF Contract!Grant, Contract!Live, Live, Rec, Parked, F
    <3> QED BY <1>11, <1>12, <2>5, <3>5 DEF new, outcome
  <2>6. CASE took /\ PoolOf(s) = APool
    <3>1. held'[r][F] = held[r][F] + 1
      BY <1>1, <1>7, <1>9, <2>2, <2>4, <2>6
    <3>2. Rec' = [Rec EXCEPT ![r] = @ + 1]
      BY <1>10, <2>3, <3>1, RecordedFor
    <3>3. Parked' = k + (held'[h][F] - h1[h][F])
      <4>1. \A i \in HoldId : i # h => held'[i][F] = h1[i][F]
        BY <1>1, <2>1, OwnersAreFinite
      <4>2. h \in HoldId
        BY <1>7, <2>6
      <4>3. ParkedOf(held') = ParkedOf(h1) + (held'[h][F] - h1[h][F])
        BY <1>1, <4>1, <4>2, ParkedChange
      <4> QED BY <1>2, <4>3, ParkedIs
    <3>4. held'[h][F] = 0 /\ h1[h][F] = 1
      BY <1>1, <1>7, <2>1, <2>6, OwnersAreFinite DEF Nothing
    <3>5. k \in Nat /\ Parked' \in Nat
      BY <1>1, <1>2, ParkedNat, ParkedIs
    <3>6. Parked' = k - 1 /\ k > 0
      BY <3>3, <3>4, <3>5
    <3>7. Contract!Redeem(r, k)
      BY <2>6, <2>8, <3>2, <3>6
         DEF Contract!Redeem, Contract!Live, Live, Rec, Parked, F
    <3> QED BY <1>9, <1>11, <1>12, <2>6, <3>7 DEF new, took, outcome
  <2>7. CASE ~(new /\ PoolOf(s) = APool) /\ ~(took /\ PoolOf(s) = APool)
    <3>1. held'[r][F] = held[r][F]
      BY <1>1, <1>7, <2>2, <2>4, <2>7
    <3>2. Rec' = Rec
      BY <2>3, <3>1 DEF Rec, F
    <3>3. \A i \in HoldId : held'[i][F] = h1[i][F]
      BY <1>1, <1>7, <2>1, <2>7, OwnersAreFinite DEF Nothing
    <3>4. Parked' = k
      BY <1>1, <1>2, <3>3, ParkedSame, ParkedIs
    <3>5. Contract!Purge(k)
      BY <2>8, <3>2, <3>4 DEF Contract!Purge, Rec, Parked, F
    <3> QED BY <1>11, <1>12, <2>7, <3>5 DEF new, took, outcome
  <2> QED BY <2>5, <2>6, <2>7
<1>14. CASE outcome = "NotRegistered"
  BY <1>13, <1>14 DEF outcome
<1> QED BY <1>6, <1>12, <1>14

\* SLOT_RELEASE is the ledger's release, or nothing to this pool.
LEMMA ReleaseRefines ==
  ASSUME Sound, TypeOK', NEW r \in Replica, NEW s \in Slot, SlotRelease(r, s)
  PROVE  /\ Over' = Over
         /\ IF PoolOf(s) = APool THEN Contract!Release(r, Parked)
            ELSE UNCHANGED Contract!lvars
<1> DEFINE drop == Recorded(held[r], s)
<1>1. /\ held' \in [Owner -> [Field -> Nat]] /\ held \in [Owner -> [Field -> Nat]]
      /\ r \in Owner /\ r \notin HoldId /\ F \in Field
  BY OwnersAreFinite, FieldF DEF TypeOK, Sound
<1>2. /\ held' = [held EXCEPT ![r] = [f \in Field |->
                    IF f \in drop THEN held[r][f] - 1 ELSE held[r][f]]]
      /\ reg' = reg
  BY DEF SlotRelease
<1>3. F \in drop <=> PoolOf(s) = APool /\ held[r][F] > 0
  BY FieldF DEF Recorded
<1> HIDE DEF drop
<1>4. /\ held'[r][F] = IF F \in drop THEN held[r][F] - 1 ELSE held[r][F]
      /\ held[r][F] \in Nat
      /\ \A o \in Owner : o # r => held'[o] = held[o]
  BY <1>1, <1>2
<1>5. Parked' = Parked /\ Parked \in Nat
  BY <1>1, <1>4, ParkedSame, ParkedIs, ParkedNat, OwnersAreFinite
<1>6. \A q \in Replica : q # r => held'[q][F] = held[q][F]
  BY <1>4, OwnersAreFinite
<1>9. Over' = Over
  <2>1. hold' = hold /\ TypeOK
    BY DEF SlotRelease, Sound
  <2> QED BY <1>4, <2>1, OverdueSame, OwnersAreFinite
<1>7. CASE PoolOf(s) = APool
  <2>2. Rec' = [Rec EXCEPT ![r] = IF @ > 0 THEN @ - 1 ELSE 0]
    <3>1. held'[r][F] = IF held[r][F] > 0 THEN held[r][F] - 1 ELSE 0
      BY <1>3, <1>4, <1>7
    <3>2. Rec[r] = held[r][F] /\ r \in DOMAIN Rec
      BY DEF Rec
    <3> QED BY <1>6, <3>1, <3>2, RecordedFor
  <2>3. Contract!Release(r, Parked)
    BY <1>2, <1>5, <2>2 DEF Contract!Release, Rec, Parked, F
  <2> QED BY <1>7, <1>9, <2>3
<1>8. CASE PoolOf(s) # APool
  <2>1. Rec' = Rec
    BY <1>3, <1>4, <1>6, <1>8 DEF Rec, F
  <2> QED BY <1>2, <1>5, <1>8, <1>9, <2>1 DEF Contract!lvars, Rec, Parked, F
<1> QED BY <1>7, <1>8

\* SLOT_HOLD parks a slot of its replica or releases it; in another pool it only
\* frees held slots that ran out.
LEMMA HoldRefines ==
  ASSUME Sound, TypeOK', NEW r \in Replica, NEW h \in HoldId, NEW inTime \in BOOLEAN,
         SlotHold(r, h, inTime)
  PROVE  /\ Over' = 0
         /\ IF PoolOf(HoldSlot[h]) # APool THEN Contract!Purge(Parked - Over)
            ELSE IF SlotHoldKeeps(r, h, inTime) THEN Contract!Park(r, Parked - Over)
            ELSE Contract!Release(r, Parked - Over)
<1> DEFINE s == HoldSlot[h]
           p == PoolOf(s)
           drop == Recorded(held[r], s)
           keep == SlotHoldKeeps(r, h, inTime)
           h1 == reclaimHeld(Expired)
<1>0. TypeOK
  BY DEF Sound
<1>1. /\ h1 \in [Owner -> [Field -> Nat]] /\ held' \in [Owner -> [Field -> Nat]]
      /\ held \in [Owner -> [Field -> Nat]]
      /\ r \in Owner /\ r \notin HoldId /\ h \in Owner /\ h # r
      /\ F \in Field /\ s \in Slot
      /\ F \in Fields(s) <=> p = APool
  BY <1>0, ReclaimType, OwnersAreFinite, FieldF, SlotAssumption DEF TypeOK
<1>19. PICK k \in Nat : k = ParkedOf(h1) /\ k = Parked - Over
  BY <1>0, PurgeFrees
<1>2. k = ParkedOf(h1)
  BY <1>19
<1>20. k = Parked - Over
  BY <1>19
<1>18. Over' = 0
  <2>1. \A i \in HoldId : hold'[i] # "lapsed"
    BY DEF SlotHold, Expired
  <2> QED BY <2>1, NoneOverdue
<1>3. \A q \in Replica : h1[q][F] = held[q][F]
  <2>1. \A q \in Replica : q \notin Expired
    BY OwnersAreFinite DEF Expired
  <2> QED BY <1>0, <2>1, ReclaimParked
<1>4. reg' = reg
  BY DEF SlotHold
<1>5. held' = [o \in Owner |->
         IF o = r
         THEN [f \in Field |-> IF f \in drop THEN h1[r][f] - 1 ELSE h1[r][f]]
         ELSE IF keep /\ o = h
         THEN [f \in Field |-> IF f \in drop \cup {HeldField(p)} THEN 1 ELSE 0]
         ELSE h1[o]]
  BY DEF SlotHold
<1>6. F \in drop <=> p = APool /\ held[r][F] > 0
  BY <1>1 DEF Recorded
<1>7. keep => h1[h] = Nothing /\ (p = APool => held[r][F] > 0)
  BY DEF SlotHoldKeeps, F
<1>8. keep => held'[h][F] = IF p = APool THEN 1 ELSE 0
  BY <1>0, PoolAssumption, KeptShape DEF F
<1> HIDE DEF drop, keep, h1, s, p
<1>9. /\ held'[r][F] = IF F \in drop THEN held[r][F] - 1 ELSE held[r][F]
      /\ held[r][F] \in Nat
  BY <1>1, <1>3, <1>5
<1>10. \A q \in Replica : q # r => held'[q][F] = held[q][F]
  BY <1>1, <1>3, <1>5, OwnersAreFinite
<1>11. \A i \in HoldId : ~(keep /\ i = h) => held'[i] = h1[i]
  BY <1>1, <1>5, OwnersAreFinite
<1>12. ~keep \/ p # APool => Parked' = k
  <2>1. ~keep \/ p # APool => \A i \in HoldId : held'[i][F] = h1[i][F]
    BY <1>1, <1>7, <1>8, <1>11 DEF Nothing
  <2> QED BY <1>1, <1>2, <2>1, ParkedSame, ParkedIs
<1>13. keep /\ p = APool => Parked' = k + 1
  <2> SUFFICES ASSUME keep, p = APool PROVE Parked' = k + 1
    OBVIOUS
  <2>1. held'[h][F] = 1 /\ h1[h][F] = 0
    BY <1>1, <1>7, <1>8 DEF Nothing
  <2>2. \A i \in HoldId : i # h => held'[i][F] = h1[i][F]
    BY <1>11
  <2>3. ParkedOf(held') = ParkedOf(h1) + (held'[h][F] - h1[h][F])
    BY <1>1, <2>2, ParkedChange
  <2> QED BY <1>2, <2>1, <2>3, ParkedIs
<1>14. Rec[r] = held[r][F] /\ r \in DOMAIN Rec
  BY DEF Rec
<1>15. CASE p # APool
  <2>1. Rec' = Rec
    BY <1>6, <1>9, <1>10, <1>15 DEF Rec, F
  <2>2. Parked' = k
    BY <1>12, <1>15
  <2>3. Contract!Purge(Parked - Over)
    BY <1>4, <1>20, <2>1, <2>2 DEF Contract!Purge, Rec, Parked, F
  <2> QED BY <1>15, <1>18, <2>3 DEF p, s
<1>16. CASE p = APool /\ keep
  <2>1. held'[r][F] = held[r][F] - 1 /\ held[r][F] > 0
    BY <1>6, <1>7, <1>9, <1>16
  <2>2. Rec' = [Rec EXCEPT ![r] = @ - 1]
    BY <1>10, <1>14, <2>1, RecordedFor
  <2>3. Parked' = k + 1
    BY <1>13, <1>16
  <2>4. Contract!Park(r, Parked - Over)
    <3>1. Parked' = (Parked - Over) + 1
      BY <1>20, <2>3
    <3> QED BY <1>4, <2>1, <2>2, <3>1 DEF Contract!Park, Rec, Parked, F
  <2> QED BY <1>16, <1>18, <2>4 DEF p, s, keep
<1>17. CASE p = APool /\ ~keep
  <2>1. held'[r][F] = IF held[r][F] > 0 THEN held[r][F] - 1 ELSE 0
    BY <1>6, <1>9, <1>17
  <2>2. Rec' = [Rec EXCEPT ![r] = IF @ > 0 THEN @ - 1 ELSE 0]
    BY <1>10, <1>14, <2>1, RecordedFor
  <2>3. Parked' = k
    BY <1>12, <1>17
  <2>4. Contract!Release(r, Parked - Over)
    <3>1. Parked' = Parked - Over
      BY <1>20, <2>3
    <3> QED BY <1>4, <2>2, <3>1 DEF Contract!Release, Rec, Parked, F
  <2> QED BY <1>17, <1>18, <2>4 DEF p, s, keep
<1> QED BY <1>15, <1>16, <1>17

\* SLOT_RECONCILE is the ledger's, or nothing for a replica it does not know.
LEMMA ReportRefines ==
  ASSUME Sound, TypeOK', NEW r \in Replica, NEW new, SlotReconcile(r, new)
  PROVE  IF Live(r) THEN /\ Contract!Reconcile(r, new[F]) /\ Over' = Over
                         /\ Rec'[r] = new[F] /\ new[F] \in Nat
         ELSE UNCHANGED bvars
<1>2. /\ held' \in [Owner -> [Field -> Nat]] /\ held \in [Owner -> [Field -> Nat]]
      /\ r \in Owner /\ r \notin HoldId /\ F \in Field
  BY OwnersAreFinite, FieldF DEF TypeOK, Sound
<1>3. CASE ~Live(r)
  BY <1>3 DEF SlotReconcile
<1>4. CASE Live(r)
  <2>1. held' = [held EXCEPT ![r] = new] /\ reg' = reg /\ hold' = hold
    BY <1>4 DEF SlotReconcile
  <2>2. \A o \in Owner : o # r => held'[o] = held[o]
    BY <1>2, <2>1
  <2>3. Parked' = Parked
    BY <1>2, <2>2, ParkedSame, ParkedIs, OwnersAreFinite
  <2>4. held'[r] = new /\ new[F] \in Nat
    BY <1>2, <2>1
  <2>5. \A q \in Replica : q # r => held'[q][F] = held[q][F]
    BY <2>2, OwnersAreFinite
  <2>6. Rec' = [Rec EXCEPT ![r] = new[F]] /\ Rec'[r] = new[F]
    BY <2>4, <2>5, RecordedFor DEF Rec, F
  <2>7. Contract!Reconcile(r, new[F])
    BY <1>4, <2>1, <2>3, <2>6 DEF Contract!Reconcile, Contract!Live, Live, Rec, Parked, F
  <2>8. Over' = Over
    <3>1. TypeOK
      BY DEF Sound
    <3> QED BY <1>2, <2>1, <2>2, <3>1, OverdueSame, OwnersAreFinite
  <2> QED BY <1>4, <2>4, <2>6, <2>7, <2>8
<1> QED BY <1>3, <1>4

\* Everything the steps rest on holds in every reachable state.
LEMMA SoundAlways == Spec => []Sound
<1>1. TypeOK /\ TotalsAreSums /\ NothingLeaks /\ HeldShape /\ HeldWithin => Sound
  BY DEF Sound
<1> QED BY <1>1, TypeCorrect, TotalsNeverDrift, NoSlotLeaks, HoldInvariant, PTL

\* The empty hashes are the empty ledger.
LEMMA InitRefines ==
  ASSUME BackendInit, call = Contract!NoCall
  PROVE  Contract!ContractInit
<1>1. held \in [Owner -> [Field -> Nat]] /\ \A o \in Owner : held[o][F] = 0
  BY FieldF DEF BackendInit, Nothing
<1>2. Rec = [r \in Replica |-> 0]
  BY <1>1, OwnersAreFinite DEF Rec
<1>3. Parked = 0
  <2> DEFINE a == [o \in Owner |-> IF o \in HoldId THEN held[o][F] ELSE 0]
  <2>1. \A i \in 1..NOwners : a[i] = 0
    BY <1>1
  <2>2. Parked = Sum(a, NOwners)
    BY ParkedIs DEF ParkedOf
  <2> HIDE DEF a
  <2> QED BY <2>1, <2>2, SumZero, OwnersAreFinite
<1>4. reg = [r \in Replica |-> "absent"]
  BY DEF BackendInit
<1>5. Over = 0
  <2> DEFINE a == [o \in Owner |-> IF o \in Expired THEN held[o][F] ELSE 0]
  <2>1. \A i \in 1..NOwners : a[i] = 0
    BY <1>1
  <2>2. Over = Sum(a, NOwners)
    BY DEF Over, HeldBy
  <2> HIDE DEF a
  <2> QED BY <2>1, <2>2, SumZero, OwnersAreFinite
<1> QED BY <1>2, <1>3, <1>4, <1>5
       DEF Contract!ContractInit, Contract!LedgerInit, Contract!Replica, Rec, Parked, Over, F

\* What an answer tells about the pool, when the claim was for it.
LEMMA AnswerTells ==
  ASSUME Sound, NEW r \in Replica, NEW s \in Slot, NEW h \in HoldsFor(s),
         NEW only \in BOOLEAN, NEW starve \in BOOLEAN, NEW c \in Caps,
         NEW k \in Nat, k = ParkedOf(reclaimHeld(FreedFirst(s, h, starve))),
         NEW answer, answer = SlotAcquireOutcome(r, s, h, only, starve, c),
         PoolOf(s) = APool
  PROVE  /\ answer \in Contract!Answers
         /\ answer = "NotRegistered" <=> ~Live(r)
         /\ k = IF ~starve THEN Parked - Over
                ELSE IF ~Live(r) THEN k ELSE IF answer = "Redeemed" THEN 1 ELSE 0
         /\ answer \in {"Granted", "Global", "Tenant", "Key"} =>
              Sum(Rec, NReplicas) + k < c.pool
         /\ answer = "Pool" => ~(Sum(Rec, NReplicas) + k < c.pool)
<1> DEFINE t == reclaimTotals(FreedFirst(s, h, starve))
           found == HoldFound(s, h, starve)
<1>1. answer = IF ~Live(r) THEN "NotRegistered"
               ELSE IF found THEN "Redeemed"
               ELSE IF h # NoHold /\ only THEN "NotHeld"
               ELSE IF t[F] >= c.pool THEN "Pool"
               ELSE IF atCap(t[GlobalField], c.global) THEN "Global"
               ELSE IF c.tenant > 0 /\ atCap(t[TenantField(s)], c.tenant) THEN "Tenant"
               ELSE IF c.key > 0 /\ atCap(t[KeyField(s)], c.key) THEN "Key"
               ELSE "Granted"
  <2>1. atCap(t[PoolField(PoolOf(s))], c.pool) <=> t[F] >= c.pool
    BY DEF atCap, F
  <2> HIDE DEF t, found
  <2> QED BY <2>1, Zenon DEF SlotAcquireOutcome, t, found
<1>2. t[F] = Sum(Rec, NReplicas) + k
  BY ClaimCounts
<1>3. k = IF starve THEN IF found THEN 1 ELSE 0 ELSE Parked - Over
  BY ClaimLeaves
<1>4. t[F] \in Nat /\ c.pool \in Nat
  BY ReclaimType, FieldF, CapWithin DEF Sound
<1> HIDE DEF t, found
<1>5. /\ answer \in Contract!Answers
      /\ answer = "NotRegistered" <=> ~Live(r)
      /\ Live(r) => (answer = "Redeemed" <=> found)
      /\ answer \in {"Granted", "Global", "Tenant", "Key"} => ~(t[F] >= c.pool)
      /\ answer = "Pool" => t[F] >= c.pool
  BY <1>1 DEF Contract!Answers
<1>6. k = IF ~starve THEN Parked - Over
          ELSE IF ~Live(r) THEN k ELSE IF answer = "Redeemed" THEN 1 ELSE 0
  BY <1>3, <1>5
<1> QED BY <1>2, <1>4, <1>5, <1>6

\* What the contract sees does not change with the hashes it is read from.
LEMMA StandsStill ==
  ASSUME UNCHANGED <<reg, held, hold>>
  PROVE  UNCHANGED <<Contract!lvars, Over>>
<1>1. reg' = reg /\ held' = held /\ Expired' = Expired
  BY DEF Expired
<1>2. Rec' = Rec /\ Parked' = Parked /\ Over' = Over
  BY <1>1, ParkedIs DEF Rec, Over, HeldBy, F
<1> QED BY <1>1, <1>2 DEF Contract!lvars, Rec, Parked, F

\* What a call about another pool may do to this one.
LEMMA Elsewhere ==
  ASSUME NEW r \in Replica, Contract!Called(<<r, "elsewhere">>),
         \/ Contract!Purge(Parked - Over) /\ Over' = 0
         \/ UNCHANGED <<Contract!lvars, Over>>
  PROVE  Contract!ContractNext
<1>1. Contract!CallElsewhere(r)
  BY Zenon DEF Contract!CallElsewhere, Contract!Kept, Parked, Over, F
<1> QED BY <1>1, Zenon DEF Contract!ContractNext, Contract!Replica

\* A claim, with the record of its answer, is a step of the contract.
LEMMA ClaimStep ==
  ASSUME Sound, TypeOK', NEW r \in Replica, NEW s \in Slot, NEW h \in HoldsFor(s),
         NEW only \in BOOLEAN, NEW starve \in BOOLEAN, NEW c \in Caps,
         SlotAcquire(r, s, h, only, starve, c),
         Records(r, s, <<r, "acquire", c.pool, starve,
                         SlotAcquireOutcome(r, s, h, only, starve, c)>>)
  PROVE  Contract!ContractNext
<1> DEFINE answer == SlotAcquireOutcome(r, s, h, only, starve, c)
           cap == c.pool
<1>1. PICK k \in Nat : k = ParkedOf(reclaimHeld(FreedFirst(s, h, starve)))
  BY ReclaimType, ParkedNat DEF Sound
<1>2. IF answer = "NotRegistered" THEN UNCHANGED bvars
      ELSE /\ Over' = 0
           /\ IF PoolOf(s) = APool /\ answer = "Granted" THEN Contract!Grant(r, k)
              ELSE IF PoolOf(s) = APool /\ answer = "Redeemed" THEN Contract!Redeem(r, k)
              ELSE Contract!Purge(k)
  BY <1>1, AcquireRefines
<1>3. answer = "NotRegistered" => UNCHANGED <<Contract!lvars, Over>>
  BY <1>2, StandsStill DEF bvars
<1>4. CASE PoolOf(s) # APool
  <2>1. Contract!Called(<<r, "elsewhere">>)
    BY <1>4 DEF Records
  <2>2. k = Parked - Over
    BY <1>1, <1>4, ClaimLeaves
  <2>3. answer # "NotRegistered" => Contract!Purge(Parked - Over) /\ Over' = 0
    BY <1>2, <1>4, <2>2
  <2> QED BY <1>3, <2>1, <2>3, Elsewhere
<1>5. CASE PoolOf(s) = APool
  <2>1. Contract!Called(<<r, "acquire", cap, starve, answer>>)
    BY <1>5 DEF Records
  <2>2. /\ answer \in Contract!Answers
        /\ answer = "NotRegistered" <=> ~Live(r)
        /\ k = IF ~starve THEN Parked - Over
               ELSE IF ~Live(r) THEN k ELSE IF answer = "Redeemed" THEN 1 ELSE 0
        /\ answer \in {"Granted", "Global", "Tenant", "Key"} => Sum(Rec, NReplicas) + k < cap
        /\ answer = "Pool" => ~(Sum(Rec, NReplicas) + k < cap)
    BY <1>1, <1>5, AnswerTells
  <2>3. cap \in 1..LargestPoolCap
    BY CapWithin, CapsAssumption
  <2> HIDE DEF answer, cap
  <2>4. Contract!AcquireCall(r, cap, starve, answer)
    <3> DEFINE kk == Contract!LeftParked(starve, answer)
               room == Contract!Sum(Rec, NReplicas) + kk < cap
    <3>1. CASE ~Live(r)
      <4>1. answer = "NotRegistered" /\ ~Contract!Live(r)
        BY <2>2, <3>1 DEF Contract!Live, Live
      <4> QED BY <1>3, <2>1, <4>1, Zenon DEF Contract!AcquireCall, Over, F
    <3>2. CASE Live(r)
      <4>1. kk = k
        BY <2>2, <3>2 DEF Contract!LeftParked, Contract!Kept, Parked, Over, F
      <4>2. room <=> Sum(Rec, NReplicas) + k < cap
        BY <4>1, LedgerSum
      <4>3. /\ Contract!Live(r) /\ Over' = 0
            /\ \/ answer = "Granted" /\ room /\ Contract!Grant(r, kk)
               \/ answer = "Redeemed" /\ Contract!Redeem(r, kk)
               \/ answer = "NotHeld" /\ Contract!Purge(kk)
               \/ answer = "Pool" /\ ~room /\ Contract!Purge(kk)
               \/ answer \in {"Global", "Tenant", "Key"} /\ room /\ Contract!Purge(kk)
        <5>1. Contract!Live(r) /\ answer # "NotRegistered"
          BY <2>2, <3>2 DEF Contract!Live, Live
        <5> HIDE DEF kk, room
        <5>2. /\ Over' = 0
              /\ IF answer = "Granted" THEN Contract!Grant(r, k)
                 ELSE IF answer = "Redeemed" THEN Contract!Redeem(r, k)
                 ELSE Contract!Purge(k)
          BY <1>2, <1>5, <5>1 DEF answer
        <5>5. Contract!Grant(r, k) => Contract!Grant(r, kk)
          BY <4>1 DEF Contract!Grant
        <5>6. Contract!Redeem(r, k) => Contract!Redeem(r, kk)
          BY <4>1 DEF Contract!Redeem
        <5>7. Contract!Purge(k) => Contract!Purge(kk)
          BY <4>1 DEF Contract!Purge
        <5>3. /\ answer \in {"Granted", "Global", "Tenant", "Key"} => room
              /\ answer = "Pool" => ~room
          BY <2>2, <4>2
        <5>4. answer \in {"Granted", "Redeemed", "NotHeld", "Pool", "Global", "Tenant", "Key"}
          BY <2>2, <5>1 DEF Contract!Answers
        <5> QED BY <5>1, <5>2, <5>3, <5>4, <5>5, <5>6, <5>7
      <4> QED BY <2>1, <4>3, Zenon DEF Contract!AcquireCall, Over, Rec, F
    <3> QED BY <3>1, <3>2
  <2> QED BY <2>2, <2>3, <2>4, Zenon DEF Contract!ContractNext, Contract!Replica
<1> QED BY <1>4, <1>5

\* A script call, with the record of its answer, is a step of the contract.
LEMMA CallStep ==
  ASSUME Sound, TypeOK', NEW r \in Replica, RecordedCall(r)
  PROVE  Contract!ContractNext
<1>0. TypeOK
  BY DEF Sound
<1>1. CASE ReplicaHeartbeat(r) /\ Contract!Called(<<r, "heartbeat">>)
  <2>1. Contract!Heartbeat(r, Parked - Over) /\ Over' = 0
    BY <1>0, <1>1, HeartbeatRefines
  <2>2. Contract!HeartbeatCall(r)
    BY <1>1, <2>1, Zenon DEF Contract!HeartbeatCall, Contract!Kept, Parked, Over, F
  <2> QED BY <2>2, Zenon DEF Contract!ContractNext, Contract!Replica
<1>2. CASE ReplicaDeregister(r) /\ Contract!Called(<<r, "deregister">>)
  <2>1. Contract!Deregister(r) /\ Over' = Over
    BY <1>0, <1>2, DeregisterRefines
  <2>2. Contract!DeregisterCall(r)
    BY <1>2, <2>1, Zenon DEF Contract!DeregisterCall, Over, F
  <2> QED BY <2>2, Zenon DEF Contract!ContractNext, Contract!Replica
<1>3. CASE \E s \in Slot, only \in BOOLEAN, starve \in BOOLEAN, c \in Caps :
             \E h \in HoldsFor(s) :
               /\ only => h # NoHold
               /\ SlotAcquire(r, s, h, only, starve, c)
               /\ Records(r, s, <<r, "acquire", c.pool, starve,
                                  SlotAcquireOutcome(r, s, h, only, starve, c)>>)
  BY <1>3, ClaimStep, Zenon
<1>4. ASSUME NEW s \in Slot, SlotRelease(r, s), Records(r, s, <<r, "release">>)
      PROVE  Contract!ContractNext
  <2>1. /\ Over' = Over
        /\ IF PoolOf(s) = APool THEN Contract!Release(r, Parked) ELSE UNCHANGED Contract!lvars
    BY <1>4, ReleaseRefines
  <2>2. CASE PoolOf(s) = APool
    <3>1. Contract!Called(<<r, "release">>)
      BY <1>4, <2>2 DEF Records
    <3>2. Contract!ReleaseCall(r)
      BY <2>1, <2>2, <3>1, Zenon DEF Contract!ReleaseCall, Parked, Over, F
    <3> QED BY <3>2, Zenon DEF Contract!ContractNext, Contract!Replica
  <2>3. CASE PoolOf(s) # APool
    <3>1. Contract!Called(<<r, "elsewhere">>)
      BY <1>4, <2>3 DEF Records
    <3> QED BY <2>1, <2>3, <3>1, Elsewhere
  <2> QED BY <2>2, <2>3
<1>5. ASSUME NEW h \in HoldId, NEW inTime \in BOOLEAN, SlotHold(r, h, inTime),
             Records(r, HoldSlot[h], <<r, "hold", SlotHoldKeeps(r, h, inTime)>>)
      PROVE  Contract!ContractNext
  <2> DEFINE keep == SlotHoldKeeps(r, h, inTime)
  <2>1. /\ Over' = 0
        /\ IF PoolOf(HoldSlot[h]) # APool THEN Contract!Purge(Parked - Over)
           ELSE IF keep THEN Contract!Park(r, Parked - Over)
           ELSE Contract!Release(r, Parked - Over)
    BY <1>5, HoldRefines
  <2>2. keep \in BOOLEAN
    BY Zenon DEF SlotHoldKeeps
  <2>3. CASE PoolOf(HoldSlot[h]) = APool
    <3>1. Contract!Called(<<r, "hold", keep>>)
      BY <1>5, <2>3 DEF Records
    <3> HIDE DEF keep
    <3>2. Contract!HoldCall(r, keep)
      BY <2>1, <2>3, <3>1, Zenon DEF Contract!HoldCall, Contract!Kept, Parked, Over, F
    <3> QED BY <2>2, <3>2, Zenon DEF Contract!ContractNext, Contract!Replica
  <2>4. CASE PoolOf(HoldSlot[h]) # APool
    <3>1. Contract!Called(<<r, "elsewhere">>)
      BY <1>5, <2>4 DEF Records
    <3> QED BY <2>1, <2>4, <3>1, Elsewhere
  <2> QED BY <2>3, <2>4
<1>6. ASSUME NEW perms \in [Slot -> 0..MaxCount], Report(r, perms),
             Contract!Called(IF Live(r)
                             THEN <<r, "reconcile", HoldingFields(perms)[PoolField(APool)]>>
                             ELSE <<r, "reconcile refused">>)
      PROVE  Contract!ContractNext
  <2> DEFINE new == HoldingFields(perms)
  <2>1. SlotReconcile(r, new)
    BY <1>6 DEF Report
  <2> HIDE DEF new
  <2>2. IF Live(r) THEN /\ Contract!Reconcile(r, new[F]) /\ Over' = Over
                        /\ Rec'[r] = new[F] /\ new[F] \in Nat
        ELSE UNCHANGED bvars
    BY <2>1, ReportRefines
  <2>3. CASE Live(r)
    <3>1. /\ Contract!Reconcile(r, new[F]) /\ Over' = Over
          /\ Rec'[r] = new[F] /\ new[F] \in Nat
      BY <2>2, <2>3
    <3>3. Contract!Called(<<r, "reconcile", new[F]>>)
      BY <1>6, <2>3 DEF new, F
    <3>4. Contract!ReconcileCall(r, new[F])
      BY <3>1, <3>3, Zenon DEF Contract!ReconcileCall, Over, F
    <3>2. Contract!ReconcileCall(r, Rec'[r]) /\ Rec'[r] \in Nat
      BY <3>1, <3>4
    <3> QED BY <3>2, Zenon DEF Contract!ContractNext, Contract!Replica, Rec, F
  <2>4. CASE ~Live(r)
    <3>1. Contract!Called(<<r, "reconcile refused">>)
      BY <1>6, <2>4
    <3>2. UNCHANGED <<Contract!lvars, Over>>
      BY <2>2, <2>4, StandsStill DEF bvars
    <3>3. ~Contract!Live(r)
      BY <2>4 DEF Contract!Live, Live
    <3>4. Contract!ReconcileRefused(r)
      BY <3>1, <3>2, <3>3, Zenon DEF Contract!ReconcileRefused, Over, F
    <3> QED BY <3>4, Zenon DEF Contract!ContractNext, Contract!Replica
  <2> QED BY <2>3, <2>4
<1> QED BY <1>1, <1>2, <1>3, <1>4, <1>5, <1>6, Zenon DEF RecordedCall

\* A held slot of the pool that runs out is one more overdue.
LEMMA HoldLapsesStep ==
  ASSUME Sound, NEW h \in HoldId, HoldLapses(h), call' = call
  PROVE  Contract!ContractNext \/ UNCHANGED Contract!cvars
<1> DEFINE a == [o \in Owner |-> IF o \in Expired THEN held[o][F] ELSE 0]
           b == [o \in Owner |-> IF o \in Expired' THEN held[o][F] ELSE 0]
           c == [o \in Owner |-> IF o \in HoldId THEN held[o][F] ELSE 0]
<1>0. TypeOK /\ F \in Field /\ h \in Owner
  BY FieldF, OwnersAreFinite DEF Sound
<1>1. hold[h] = "live" /\ hold' = [hold EXCEPT ![h] = "lapsed"] /\ held' = held /\ reg' = reg
  BY DEF HoldLapses
<1>2. \A o \in Owner : /\ o \in Expired' <=> o \in Expired \/ o = h
                       /\ o \in Expired' => o \in HoldId
  BY <1>0, <1>1 DEF Expired, TypeOK
<1>3. h \notin Expired
  BY <1>1 DEF Expired
<1>4. held[h][F] = IF PoolOf(HoldSlot[h]) = APool THEN 1 ELSE 0
  BY <1>1, PoolAssumption DEF Sound, HeldShape, F
<1>5. /\ \A i \in 1..NOwners : a[i] \in Int /\ b[i] \in Int /\ c[i] \in Int /\ b[i] <= c[i]
      /\ \A i \in 1..NOwners : i # h => b[i] = a[i]
      /\ a[h] = 0 /\ b[h] = held[h][F]
  <2>1. \A o \in Owner : held[o][F] \in Nat
    BY <1>0 DEF TypeOK
  <2>2. \A o \in Owner : /\ a[o] = IF o \in Expired THEN held[o][F] ELSE 0
                         /\ b[o] = IF o \in Expired' THEN held[o][F] ELSE 0
                         /\ c[o] = IF o \in HoldId THEN held[o][F] ELSE 0
    OBVIOUS
  <2> HIDE DEF a, b, c
  <2> QED BY <1>0, <1>2, <1>3, <2>1, <2>2
<1>6. Over = Sum(a, NOwners) /\ Over' = Sum(b, NOwners) /\ Parked = Sum(c, NOwners)
  BY <1>1 DEF Over, Parked, HeldBy, F
<1> HIDE DEF a, b, c
<1>7. NOwners \in Nat /\ h \in 1..NOwners
  BY <1>0, OwnersAreFinite
<1>8. Sum(b, NOwners) = Sum(a, NOwners) + (b[h] - a[h]) /\ Sum(b, NOwners) <= Sum(c, NOwners)
  BY <1>5, <1>7, SumChange, SumMonotone
<1>9. Over \in Nat /\ Parked \in Nat
  BY <1>0, PurgeFrees
<1>10. Over' = Over + held[h][F] /\ Over' <= Parked
  BY <1>4, <1>5, <1>6, <1>8, <1>9
<1>11. UNCHANGED Contract!lvars
  <2>1. Rec' = Rec /\ Parked' = Parked
    BY <1>1, ParkedIs DEF Rec, F
  <2> QED BY <1>1, <2>1 DEF Contract!lvars, Rec, Parked, F
<1>12. CASE held[h][F] = 1
  <2>1. Over' = Over + 1 /\ Over < Parked
    BY <1>9, <1>10, <1>12
  <2>2. Contract!ParkedRunsOut
    BY <1>11, <2>1 DEF Contract!ParkedRunsOut, Over, Parked, F
  <2> QED BY <2>2, Zenon DEF Contract!ContractNext
<1>13. CASE held[h][F] = 0
  <2>1. Over' = Over
    BY <1>9, <1>10, <1>13
  <2> QED BY <1>11, <2>1 DEF Contract!cvars, Over, F
<1> QED BY <1>4, <1>12, <1>13

\* A step of the scripts, with its record, is a step of the contract, or none.
LEMMA StepRefines ==
  ASSUME Sound, TypeOK', [RecordedNext]_<<bvars, call>>
  PROVE  [Contract!ContractNext]_Contract!cvars
<1>1. ASSUME UNCHANGED <<reg, held, hold>>, call' = call
      PROVE  UNCHANGED Contract!cvars
  BY <1>1, StandsStill DEF Contract!cvars, Over, F
<1>2. CASE \E r \in Replica : RecordedCall(r)
  BY <1>2, CallStep
<1>3. ASSUME NEW r \in Replica, HeartbeatLapses(r), call' = call
      PROVE  Contract!ContractNext
  <2>1. Live(r) /\ reg' = [reg EXCEPT ![r] = "lapsed"] /\ held' = held /\ Expired' = Expired
    BY <1>3 DEF HeartbeatLapses, Expired
  <2>2. Rec' = Rec /\ Parked' = Parked /\ Over' = Over
    BY <2>1, ParkedIs DEF Rec, Over, HeldBy, F
  <2>3. Contract!HeartbeatLapses(r)
    BY <2>1, <2>2 DEF Contract!HeartbeatLapses, Contract!Live, Live, Rec, Parked, F
  <2>4. Contract!ReplicaLapses(r)
    BY <1>3, <2>2, <2>3 DEF Contract!ReplicaLapses, Over, F
  <2> QED BY <2>4, Zenon DEF Contract!ContractNext, Contract!Replica
<1>4. ASSUME Clock, ~\E r \in Replica : HeartbeatLapses(r), ~\E h \in HoldId : HoldLapses(h)
      PROVE  UNCHANGED <<reg, held, hold>>
  BY <1>4 DEF Clock, MarkLapses, StarvingLapses, FinishForgotten
<1>5. ASSUME NEW r \in Replica, NEW p \in Pool, TakeWakeup(r, p)
      PROVE  UNCHANGED <<reg, held, hold>>
  BY <1>5 DEF TakeWakeup
<1>6. CASE Clock /\ call' = call
  BY <1>1, <1>3, <1>4, <1>6, HoldLapsesStep
<1>7. CASE (\E r \in Replica, p \in Pool : TakeWakeup(r, p)) /\ call' = call
  BY <1>1, <1>5, <1>7
<1>8. CASE UNCHANGED <<bvars, call>>
  BY <1>1, <1>8 DEF bvars
<1> QED BY <1>2, <1>6, <1>7, <1>8 DEF RecordedNext

\* The record of calls leaves the scripts as they are.
LEMMA RecordedIsSpec == RecordedSpec => Spec
<1>1. ASSUME NEW r \in Replica, RecordedCall(r) PROVE CallBy(r)
  BY <1>1, Zenon DEF RecordedCall, CallBy, Claim, Return, Keep, Reassert
<1>2. [RecordedNext]_<<bvars, call>> => [Next]_bvars
  <2>1. RecordedNext => Next
    BY <1>1 DEF RecordedNext, Next
  <2> QED BY <2>1
<1> QED BY <1>2, PTL DEF RecordedSpec, Spec

\* The Redis scripts keep every promise of the slot contract, for any pool and
\* whatever calls came before: each call changes the pool exactly as the ledger
\* call of its own name and answer does.
THEOREM ScriptsImplementLedger == RecordedSpec => ImplementsLedger
<1>1. BackendInit /\ call = Contract!NoCall => Contract!ContractInit
  BY InitRefines
<1>2. Sound /\ Sound' /\ [RecordedNext]_<<bvars, call>> =>
        [Contract!ContractNext]_Contract!cvars
  <2>1. Sound' => TypeOK'
    BY DEF Sound
  <2> QED BY <2>1, StepRefines
<1> QED BY <1>1, <1>2, RecordedIsSpec, SoundAlways, PTL
       DEF RecordedSpec, ImplementsLedger, Contract!ContractSpec
=============================================================================
