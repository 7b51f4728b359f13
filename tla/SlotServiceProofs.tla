-------------------------- MODULE SlotServiceProofs --------------------------
(***************************************************************************)
(* Proofs about the slot scripts for any number of replicas, sessions and  *)
(* slot kinds: type correctness, the totals as the sum of the holdings, no *)
(* leaked holdings, and no call touching another live replica's holdings;  *)
(* then, about the slots held for agent sessions and about wakeups: the    *)
(* count SLOT_HOLD compares with its limit is the number of slots really   *)
(* held, and a pool whose count falls while it is waited on is published.  *)
(***************************************************************************)
EXTENDS SlotService, SumsProofs, FiniteSetTheorems

USE DEF Replica, HoldId, NOwners, Owner, Slot

\* Where the fields of one slot, and of the held slots, are.
LEMMA FieldsInField ==
  /\ \A s \in Slot : Fields(s) \subseteq Field
  /\ \A s \in Slot : PoolOf(s) \in Pool
  /\ \A p \in Pool : HeldField(p) \in Field
  /\ \A p \in Pool : PoolField(p) \in Field
  /\ GlobalField \in Field
<1>1. \A s \in Slot : Fields(s) \subseteq Field
  BY DEF Field
<1>2. \A s \in Slot : PoolOf(s) \in Pool
  BY DEF PoolOf, Pool
<1>3. \A p \in Pool : HeldField(p) \in Field
  <2> SUFFICES ASSUME NEW p \in Pool PROVE HeldField(p) \in Field
    OBVIOUS
  <2>1. HeldField(p) \in HeldFields
    BY DEF HeldFields
  <2> QED BY <2>1 DEF Field
<1>4. \A p \in Pool : PoolField(p) \in Field
  <2> SUFFICES ASSUME NEW p \in Pool PROVE PoolField(p) \in Field
    OBVIOUS
  <2>1. PICK s \in Slot : p = PoolOf(s)
    BY DEF Pool, PoolOf
  <2>2. PoolField(p) \in Fields(s)
    BY <2>1 DEF Fields
  <2> QED BY <1>1, <2>2
<1>5. GlobalField \in Field
  <2>1. 1 \in Slot
    BY SizesAssumption
  <2>2. GlobalField \in Fields(1)
    BY DEF Fields
  <2> QED BY <1>1, <2>1, <2>2
<1> QED BY <1>1, <1>2, <1>3, <1>4, <1>5

\* Replicas and hold ids are owners, and no replica is a hold id.
LEMMA OwnersAreFinite ==
  NOwners \in Nat /\ Replica \subseteq Owner /\ HoldId \subseteq Owner
  /\ Replica \cap HoldId = {} /\ NSlots \in Nat
BY SizesAssumption

\* A count adjusted by any amount stays a natural.
LEMMA AdjustNat ==
  ASSUME NEW v \in Int, NEW d \in Int
  PROVE  adjust(v, d) \in Nat /\ (v + d >= 0 => adjust(v, d) = v + d)
BY DEF adjust

\* What a set of owners holds together is a natural.
LEMMA HeldByNat ==
  ASSUME held \in [Owner -> [Field -> Nat]], NEW S, NEW f \in Field
  PROVE  HeldBy(S, f) \in Nat
<1> DEFINE g == [o \in Owner |-> IF o \in S THEN held[o][f] ELSE 0]
<1>1. \A i \in 1..NOwners : g[i] \in Nat
  OBVIOUS
<1>2. Sum(g, NOwners) \in Nat
  BY <1>1, SumNat, OwnersAreFinite
<1> QED BY <1>2 DEF HeldBy

\* Reclaiming keeps the hashes well typed.
LEMMA ReclaimType ==
  ASSUME TypeOK, NEW S
  PROVE  /\ reclaimHeld(S) \in [Owner -> [Field -> Nat]]
         /\ reclaimTotals(S) \in [Field -> Nat]
         /\ wake(reclaimPools(S)) \subseteq Pool
<1>1. Nothing \in [Field -> Nat]
  BY DEF Nothing
<1>2. reclaimHeld(S) \in [Owner -> [Field -> Nat]]
  BY <1>1 DEF reclaimHeld, TypeOK
<1>3. \A f \in Field : adjust(totals[f], - HeldBy(S, f)) \in Nat
  <2> SUFFICES ASSUME NEW f \in Field PROVE adjust(totals[f], - HeldBy(S, f)) \in Nat
    OBVIOUS
  <2>1. HeldBy(S, f) \in Nat
    BY HeldByNat DEF TypeOK
  <2>2. totals[f] \in Int /\ - HeldBy(S, f) \in Int
    BY <2>1 DEF TypeOK
  <2> QED BY <2>2, AdjustNat
<1>4. reclaimTotals(S) \in [Field -> Nat]
  BY <1>3 DEF reclaimTotals
<1> QED BY <1>2, <1>4 DEF wake, reclaimPools

\* The holdings a reconcile reports are counts per field.
LEMMA HoldingFieldsType ==
  ASSUME NEW perms \in [Slot -> Nat]
  PROVE  HoldingFields(perms) \in [Field -> Nat]
<1> SUFFICES ASSUME NEW f \in Field
             PROVE  Sum([s \in Slot |-> IF f \in Fields(s) THEN perms[s] ELSE 0], NSlots) \in Nat
  BY DEF HoldingFields
<1> DEFINE g == [s \in Slot |-> IF f \in Fields(s) THEN perms[s] ELSE 0]
<1>1. \A i \in 1..NSlots : g[i] \in Nat
  OBVIOUS
<1>2. Sum(g, NSlots) \in Nat
  BY <1>1, SumNat, OwnersAreFinite
<1> QED BY <1>2
-----------------------------------------------------------------------------
(* Type correctness.                                                       *)

\* The empty hashes are well typed.
LEMMA InitType == BackendInit => TypeOK
BY SizesAssumption DEF BackendInit, TypeOK, Status, Nothing

\* A message names pools only.
LEMMA PublishType ==
  ASSUME TypeOK, NEW S, S \subseteq Pool, Publish(S)
  PROVE  inbox' \in [Replica -> SUBSET Pool]
BY DEF Publish, TypeOK

\* REPLICA_HEARTBEAT keeps the hashes well typed.
LEMMA HeartbeatType ==
  ASSUME TypeOK, NEW r \in Replica, ReplicaHeartbeat(r) PROVE TypeOK'
<1> DEFINE gone == Lapsed(r)
           out  == gone \cup Expired
<1>1. /\ reclaimHeld(out) \in [Owner -> [Field -> Nat]]
      /\ reclaimTotals(out) \in [Field -> Nat]
      /\ wake(reclaimPools(out)) \subseteq Pool
  BY ReclaimType
<1>2. held' = reclaimHeld(out) /\ totals' = reclaimTotals(out)
      /\ Publish(wake(reclaimPools(out)))
  BY DEF ReplicaHeartbeat
<1>3. inbox' \in [Replica -> SUBSET Pool]
  BY <1>1, <1>2, PublishType
<1>4. reg' \in [Replica -> Status] /\ hold' \in [HoldId -> Status]
  BY DEF ReplicaHeartbeat, TypeOK, Status
<1>5. UNCHANGED <<marks, starving, recent, chain>>
  BY DEF ReplicaHeartbeat
<1> QED BY <1>1, <1>2, <1>3, <1>4, <1>5 DEF TypeOK

\* REPLICA_DEREGISTER keeps the hashes well typed.
LEMMA DeregisterType ==
  ASSUME TypeOK, NEW r \in Replica, ReplicaDeregister(r) PROVE TypeOK'
<1>1. /\ reclaimHeld({r}) \in [Owner -> [Field -> Nat]]
      /\ reclaimTotals({r}) \in [Field -> Nat]
      /\ wake(reclaimPools({r})) \subseteq Pool
  BY ReclaimType
<1>2. inbox' \in [Replica -> SUBSET Pool]
  BY <1>1, PublishType DEF ReplicaDeregister
<1>3. reg' \in [Replica -> Status]
  BY DEF ReplicaDeregister, TypeOK, Status
<1> QED BY <1>1, <1>2, <1>3 DEF ReplicaDeregister, TypeOK

\* SLOT_ACQUIRE keeps the hashes well typed, whatever it answers.
LEMMA AcquireType ==
  ASSUME TypeOK, NEW r \in Replica, NEW s \in Slot, NEW h \in HoldsFor(s),
         NEW only \in BOOLEAN, NEW starve \in BOOLEAN, NEW c \in Caps,
         SlotAcquire(r, s, h, only, starve, c)
  PROVE  TypeOK'
<1> DEFINE out == FreedFirst(s, h, starve)
           outcome == SlotAcquireOutcome(r, s, h, only, starve, c)
           took == outcome = "Redeemed"
           new == outcome = "Granted"
           h1 == reclaimHeld(out)
           t1 == reclaimTotals(out)
<1>1. CASE outcome = "NotRegistered"
  BY <1>1 DEF SlotAcquire, TypeOK, bvars
<1>2. CASE outcome # "NotRegistered"
  <2>1. /\ h1 \in [Owner -> [Field -> Nat]]
        /\ t1 \in [Field -> Nat]
        /\ wake(reclaimPools(out)) \subseteq Pool
    BY ReclaimType
  <2>2. PoolOf(s) \in Pool
    BY FieldsInField
  <2>3. took => h \in Owner
    BY OwnersAreFinite DEF SlotAcquireOutcome, HoldFound, HoldsFor
  <2>4. /\ starving' = IF starve THEN starving \cup {PoolOf(s)} ELSE starving
        /\ held' = [o \in Owner |->
             IF o = r
             THEN [f \in Field |->
                     h1[r][f] + (IF new /\ f \in Fields(s) THEN 1 ELSE 0)
                              + (IF took /\ f \notin HeldFields THEN h1[h][f] ELSE 0)]
             ELSE IF took /\ o = h THEN Nothing ELSE h1[o]]
        /\ totals' = [f \in Field |->
             IF new /\ f \in Fields(s) THEN t1[f] + 1
             ELSE IF took /\ f \in HeldFields THEN adjust(t1[f], - h1[h][f])
             ELSE t1[f]]
        /\ hold' = [i \in HoldId |->
             IF i \in out \/ (took /\ i = h) THEN "absent" ELSE hold[i]]
        /\ marks' = marks \cup (IF outcome = "Global" THEN {Ceiling}
                                ELSE IF outcome \in Denials THEN {PoolOf(s)} ELSE {})
        /\ Publish(wake(reclaimPools(out)))
        /\ UNCHANGED <<reg, recent, chain>>
    BY <1>2, Zenon DEF SlotAcquire
  <2> HIDE DEF out, outcome, took, new, h1, t1
  <2>5. held' \in [Owner -> [Field -> Nat]]
    <3>1. r \in Owner
      BY OwnersAreFinite
    <3>2. Nothing \in [Field -> Nat]
      BY DEF Nothing
    <3>3. [f \in Field |->
             h1[r][f] + (IF new /\ f \in Fields(s) THEN 1 ELSE 0)
                      + (IF took /\ f \notin HeldFields THEN h1[h][f] ELSE 0)]
          \in [Field -> Nat]
      BY <2>1, <2>3, <3>1
    <3> QED BY <2>1, <2>4, <3>2, <3>3
  <2>6. totals' \in [Field -> Nat]
    <3>1. ASSUME NEW f \in Field, took PROVE adjust(t1[f], - h1[h][f]) \in Nat
      <4>1. t1[f] \in Int /\ - h1[h][f] \in Int
        BY <2>1, <2>3, <3>1
      <4> QED BY <4>1, AdjustNat
    <3> QED BY <2>1, <2>4, <3>1
  <2>7. inbox' \in [Replica -> SUBSET Pool]
    BY <2>1, <2>4, PublishType
  <2>8. hold' \in [HoldId -> Status]
    BY <2>4 DEF TypeOK, Status
  <2>9. marks' \subseteq Pool \cup {Ceiling} /\ starving' \subseteq Pool
    BY <2>2, <2>4 DEF TypeOK
  <2> QED BY <2>4, <2>5, <2>6, <2>7, <2>8, <2>9 DEF TypeOK
<1> QED BY <1>1, <1>2

\* SLOT_RELEASE keeps the hashes well typed: it only takes what is recorded.
LEMMA ReleaseType ==
  ASSUME TypeOK, NEW r \in Replica, NEW s \in Slot, SlotRelease(r, s)
  PROVE  TypeOK'
<1> DEFINE drop == Recorded(held[r], s)
<1>1. r \in Owner /\ PoolOf(s) \in Pool
  BY OwnersAreFinite, FieldsInField
<1>2. \A f \in Field : f \in drop => held[r][f] - 1 \in Nat
  BY <1>1 DEF Recorded, TypeOK
<1>3. held' \in [Owner -> [Field -> Nat]]
  BY <1>1, <1>2 DEF SlotRelease, TypeOK
<1>4. \A f \in Field : adjust(totals[f], -1) \in Nat
  BY DEF TypeOK, adjust
<1>5. totals' \in [Field -> Nat]
  BY <1>4 DEF SlotRelease, TypeOK
<1>6. wake(IF PoolField(PoolOf(s)) \in drop THEN {PoolOf(s)} ELSE {}) \subseteq Pool
  BY <1>1 DEF wake
<1>7. inbox' \in [Replica -> SUBSET Pool]
  BY <1>6, PublishType DEF SlotRelease
<1> QED BY <1>3, <1>5, <1>7 DEF SlotRelease, TypeOK

\* SLOT_HOLD keeps the hashes well typed, and the holds in a row bounded.
LEMMA HoldType ==
  ASSUME TypeOK, NEW r \in Replica, NEW h \in HoldId, NEW inTime \in BOOLEAN,
         SlotHold(r, h, inTime)
  PROVE  TypeOK'
<1> DEFINE s == HoldSlot[h]
           p == PoolOf(s)
           drop == Recorded(held[r], s)
           keep == SlotHoldKeeps(r, h, inTime)
           h1 == reclaimHeld(Expired)
           t1 == reclaimTotals(Expired)
<1>1. s \in Slot /\ p \in Pool /\ r \in Owner /\ r \notin HoldId
  BY OwnersAreFinite, FieldsInField, SlotAssumption
<1>2. /\ h1 \in [Owner -> [Field -> Nat]]
      /\ t1 \in [Field -> Nat]
      /\ wake(reclaimPools(Expired)) \subseteq Pool
  BY ReclaimType
<1>3. h1[r] = held[r]
  BY <1>1 DEF reclaimHeld, Expired
<1>4. /\ held' = [o \in Owner |->
           IF o = r
           THEN [f \in Field |-> IF f \in drop THEN h1[r][f] - 1 ELSE h1[r][f]]
           ELSE IF keep /\ o = h
           THEN [f \in Field |-> IF f \in drop \cup {HeldField(p)} THEN 1 ELSE 0]
           ELSE h1[o]]
      /\ totals' = [f \in Field |->
           IF keep THEN (IF f = HeldField(p) THEN t1[f] + 1 ELSE t1[f])
           ELSE IF f \in drop THEN adjust(t1[f], -1) ELSE t1[f]]
  BY DEF SlotHold
<1>5. /\ recent' \subseteq HoldId
      /\ hold' \in [HoldId -> Status]
      /\ UNCHANGED <<reg, marks, starving>>
  BY DEF SlotHold, TypeOK, Status
<1>6. chain' \in [HoldId -> 0..MaxRun]
  <2>1. keep /\ Waited(p) => chain[h] < MaxRun
    BY DEF SlotHoldKeeps
  <2>2. chain' = [chain EXCEPT ![h] = IF keep /\ Waited(p) THEN @ + 1 ELSE 0]
    BY DEF SlotHold
  <2> HIDE DEF keep, p
  <2> QED BY <2>1, <2>2, SizesAssumption DEF TypeOK
<1>7. inbox' \in [Replica -> SUBSET Pool]
  <2>1. wake(reclaimPools(Expired) \cup (IF ~keep /\ PoolField(p) \in drop THEN {p} ELSE {}))
          \subseteq Pool
    BY <1>1 DEF wake, reclaimPools
  <2> QED BY <2>1, PublishType DEF SlotHold
<1>8. \A f \in Field : f \in drop => h1[r][f] - 1 \in Nat
  BY <1>1, <1>2, <1>3 DEF Recorded
<1> HIDE DEF s, p, drop, keep, h1, t1
<1>9. held' \in [Owner -> [Field -> Nat]]
  BY <1>1, <1>2, <1>4, <1>8
<1>10. totals' \in [Field -> Nat]
  BY <1>2, <1>4 DEF adjust
<1> QED BY <1>5, <1>6, <1>7, <1>9, <1>10 DEF TypeOK

\* SLOT_RECONCILE keeps the hashes well typed.
LEMMA ReconcileType ==
  ASSUME TypeOK, NEW r \in Replica, NEW new \in [Field -> Nat], SlotReconcile(r, new)
  PROVE  TypeOK'
<1> DEFINE lowered == {p \in Pool : new[PoolField(p)] < held[r][PoolField(p)]}
<1>1. CASE ~Live(r)
  BY <1>1 DEF SlotReconcile, TypeOK, bvars
<1>2. CASE Live(r)
  <2>1. r \in Owner
    BY OwnersAreFinite
  <2>2. held' = [held EXCEPT ![r] = new]
        /\ totals' = [f \in Field |-> adjust(totals[f], new[f] - held[r][f])]
        /\ Publish(wake(lowered))
        /\ UNCHANGED <<reg, hold, marks, starving, recent, chain>>
    BY <1>2 DEF SlotReconcile
  <2>3. held' \in [Owner -> [Field -> Nat]]
    BY <2>1, <2>2 DEF TypeOK
  <2>4. totals' \in [Field -> Nat]
    <3>1. ASSUME NEW f \in Field PROVE adjust(totals[f], new[f] - held[r][f]) \in Nat
      <4>1. totals[f] \in Int /\ new[f] - held[r][f] \in Int
        BY <2>1 DEF TypeOK
      <4> QED BY <4>1, AdjustNat
    <3> QED BY <2>2, <3>1
  <2>5. wake(lowered) \subseteq Pool
    BY DEF wake
  <2>6. inbox' \in [Replica -> SUBSET Pool]
    BY <2>2, <2>5, PublishType
  <2> QED BY <2>2, <2>3, <2>4, <2>6 DEF TypeOK
<1> QED BY <1>1, <1>2

\* A deadline passing, or a message taken, keeps the hashes well typed.
LEMMA ClockType ==
  ASSUME TypeOK, Clock \/ \E r \in Replica, p \in Pool : TakeWakeup(r, p)
  PROVE  TypeOK'
<1>1. CASE \E r \in Replica : HeartbeatLapses(r)
  BY <1>1 DEF HeartbeatLapses, TypeOK, Status
<1>2. CASE \E h \in HoldId : HoldLapses(h)
  BY <1>2 DEF HoldLapses, TypeOK, Status
<1>3. CASE \E m \in Pool \cup {Ceiling} : MarkLapses(m)
  BY <1>3 DEF MarkLapses, TypeOK
<1>4. CASE \E p \in Pool : StarvingLapses(p)
  BY <1>4 DEF StarvingLapses, TypeOK
<1>5. CASE \E h \in HoldId : FinishForgotten(h)
  BY <1>5, SizesAssumption DEF FinishForgotten, TypeOK
<1>6. CASE \E r \in Replica, p \in Pool : TakeWakeup(r, p)
  BY <1>6 DEF TakeWakeup, TypeOK
<1> QED BY <1>1, <1>2, <1>3, <1>4, <1>5, <1>6 DEF Clock

\* A reconcile reports counts per field.
LEMMA ReassertReports ==
  ASSUME NEW r \in Replica, Reassert(r)
  PROVE  \E new \in [Field -> Nat] : SlotReconcile(r, new)
<1>1. PICK perms \in [Slot -> 0..MaxCount] : SlotReconcile(r, HoldingFields(perms))
  BY DEF Reassert, Report
<1>2. perms \in [Slot -> Nat]
  BY MaxCountAssumption
<1>3. HoldingFields(perms) \in [Field -> Nat]
  BY <1>2, HoldingFieldsType
<1> QED BY <1>1, <1>3

\* Every script keeps every count natural and every marker one of its kind.
THEOREM TypeCorrect == Spec => []TypeOK
<1>1. TypeOK /\ [Next]_bvars => TypeOK'
  <2> SUFFICES ASSUME TypeOK, [Next]_bvars PROVE TypeOK'
    OBVIOUS
  <2>1. ASSUME NEW r \in Replica, CallBy(r) PROVE TypeOK'
    <3>1. CASE ReplicaHeartbeat(r)
      BY <3>1, HeartbeatType
    <3>2. CASE ReplicaDeregister(r)
      BY <3>2, DeregisterType
    <3>3. CASE Claim(r)
      BY <3>3, AcquireType DEF Claim
    <3>4. CASE Return(r)
      BY <3>4, ReleaseType DEF Return
    <3>5. CASE Keep(r)
      BY <3>5, HoldType DEF Keep
    <3>6. CASE Reassert(r)
      BY <3>6, ReassertReports, ReconcileType
    <3> QED BY <2>1, <3>1, <3>2, <3>3, <3>4, <3>5, <3>6 DEF CallBy
  <2>2. CASE UNCHANGED bvars
    BY <2>2 DEF bvars, TypeOK
  <2> QED BY <2>1, <2>2, ClockType DEF Next
<1> QED BY <1>1, InitType, PTL DEF Spec
-----------------------------------------------------------------------------
(* The totals are the sum of the holdings.                                 *)

\* What all owners hold of field f, by the holdings H.
SumOf(H, f) == Sum([o \in Owner |-> H[o][f]], NOwners)

\* What all owners hold of a field is a natural, and at least what one holds.
LEMMA SumOfNat ==
  ASSUME NEW H \in [Owner -> [Field -> Nat]], NEW f \in Field
  PROVE  /\ SumOf(H, f) \in Nat
         /\ \A r \in Owner : H[r][f] <= SumOf(H, f)
<1> DEFINE g == [o \in Owner |-> H[o][f]]
<1>1. \A i \in 1..NOwners : g[i] \in Nat
  OBVIOUS
<1>2. \A r \in Owner : g[r] = H[r][f]
  OBVIOUS
<1>3. NOwners \in Nat
  BY OwnersAreFinite
<1> HIDE DEF g
<1>4. Sum(g, NOwners) \in Nat
  BY <1>1, <1>3, SumNat
<1>5. ASSUME NEW r \in 1..NOwners PROVE g[r] <= Sum(g, NOwners)
  BY <1>1, <1>3, TermAtMostSum
<1>6. SumOf(H, f) = Sum(g, NOwners)
  BY DEF SumOf, g
<1> QED BY <1>2, <1>4, <1>5, <1>6

\* Holdings that agree on a field have the same sum.
LEMMA SumOfEqual ==
  ASSUME NEW H \in [Owner -> [Field -> Nat]], NEW K, NEW f \in Field,
         \A o \in Owner : K[o][f] = H[o][f]
  PROVE  SumOf(K, f) = SumOf(H, f)
<1> DEFINE a == [o \in Owner |-> H[o][f]]
           b == [o \in Owner |-> K[o][f]]
<1>1. \A i \in 1..NOwners : a[i] \in Int /\ a[i] = b[i]
  OBVIOUS
<1>2. NOwners \in Nat
  BY OwnersAreFinite
<1>3. SumOf(K, f) = Sum(b, NOwners) /\ SumOf(H, f) = Sum(a, NOwners)
  BY DEF SumOf
<1> HIDE DEF a, b
<1>4. Sum(a, NOwners) = Sum(b, NOwners)
  BY <1>1, <1>2, SumEqual
<1> QED BY <1>3, <1>4

\* Holdings that differ at one owner.
LEMMA SumOfChange ==
  ASSUME NEW H \in [Owner -> [Field -> Nat]], NEW K \in [Owner -> [Field -> Nat]],
         NEW f \in Field, NEW r \in Owner,
         \A o \in Owner : o # r => K[o][f] = H[o][f]
  PROVE  SumOf(K, f) = SumOf(H, f) + (K[r][f] - H[r][f])
<1> DEFINE a == [o \in Owner |-> H[o][f]]
           b == [o \in Owner |-> K[o][f]]
<1>1. \A i \in 1..NOwners : a[i] = H[i][f] /\ b[i] = K[i][f]
  OBVIOUS
<1>5. \A i \in 1..NOwners : a[i] \in Int /\ b[i] \in Int
  BY <1>1
<1>6. \A i \in 1..NOwners : i # r => b[i] = a[i]
  BY <1>1
<1>2. NOwners \in Nat
  BY OwnersAreFinite
<1>3. SumOf(K, f) = Sum(b, NOwners) /\ SumOf(H, f) = Sum(a, NOwners)
      /\ a[r] = H[r][f] /\ b[r] = K[r][f]
  BY DEF SumOf
<1> HIDE DEF a, b
<1>4. Sum(b, NOwners) = Sum(a, NOwners) + (b[r] - a[r])
  BY <1>2, <1>5, <1>6, SumChange
<1> QED BY <1>3, <1>4

\* Holdings that differ at two owners: a slot that moves from one to another.
LEMMA SumOfMove ==
  ASSUME NEW H \in [Owner -> [Field -> Nat]], NEW K \in [Owner -> [Field -> Nat]],
         NEW f \in Field, NEW r \in Owner, NEW h \in Owner, r # h,
         \A o \in Owner : o # r /\ o # h => K[o][f] = H[o][f]
  PROVE  SumOf(K, f) = SumOf(H, f) + (K[r][f] - H[r][f]) + (K[h][f] - H[h][f])
<1> DEFINE M == [o \in Owner |-> IF o = r THEN K[r] ELSE H[o]]
<1>1. M \in [Owner -> [Field -> Nat]] /\ M[r] = K[r] /\ M[h] = H[h]
  OBVIOUS
<1>2. \A o \in Owner : o # r => M[o][f] = H[o][f]
  OBVIOUS
<1>3. \A o \in Owner : o # h => K[o][f] = M[o][f]
  OBVIOUS
<1> HIDE DEF M
<1>4. SumOf(M, f) = SumOf(H, f) + (M[r][f] - H[r][f])
  BY <1>1, <1>2, SumOfChange, Zenon
<1>5. SumOf(K, f) = SumOf(M, f) + (K[h][f] - M[h][f])
  BY <1>1, <1>3, SumOfChange, Zenon
<1>6. SumOf(H, f) \in Nat /\ SumOf(M, f) \in Nat
  BY <1>1, SumOfNat
<1> QED BY <1>1, <1>4, <1>5, <1>6

\* The invariant in terms of SumOf.
LEMMA TotalsSum == TotalsAreSums <=> \A f \in Field : totals[f] = SumOf(held, f)
BY DEF TotalsAreSums, SumOf

\* Reclaiming takes from the totals exactly what it takes from the owners.
LEMMA ReclaimSums ==
  ASSUME TypeOK, TotalsAreSums, NEW S, NEW f \in Field
  PROVE  reclaimTotals(S)[f] = SumOf(reclaimHeld(S), f)
<1> DEFINE a == [o \in Owner |-> IF o \in S THEN held[o][f] ELSE 0]
           b == [o \in Owner |-> reclaimHeld(S)[o][f]]
           c == [o \in Owner |-> held[o][f]]
<1>1. \A i \in 1..NOwners : a[i] \in Int /\ b[i] \in Int /\ c[i] = a[i] + b[i]
  BY DEF reclaimHeld, Nothing, TypeOK
<1>2. NOwners \in Nat
  BY OwnersAreFinite
<1>3. HeldBy(S, f) = Sum(a, NOwners) /\ SumOf(reclaimHeld(S), f) = Sum(b, NOwners)
      /\ totals[f] = Sum(c, NOwners)
  BY DEF HeldBy, SumOf, TotalsAreSums
<1> HIDE DEF a, b, c
<1>4. Sum(c, NOwners) = Sum(a, NOwners) + Sum(b, NOwners)
  BY <1>1, <1>2, SumAdd
<1>5. SumOf(reclaimHeld(S), f) \in Nat /\ HeldBy(S, f) \in Nat
  BY ReclaimType, SumOfNat, HeldByNat DEF TypeOK
<1>6. reclaimTotals(S)[f] = adjust(totals[f], - HeldBy(S, f))
  BY DEF reclaimTotals
<1> QED BY <1>3, <1>4, <1>5, <1>6 DEF adjust

\* A claim moves a total exactly as it moves the holdings.
LEMMA AcquireSums ==
  ASSUME TypeOK, TypeOK', TotalsAreSums, NEW r \in Replica, NEW s \in Slot,
         NEW h \in HoldsFor(s), NEW only \in BOOLEAN, NEW starve \in BOOLEAN,
         NEW c \in Caps, SlotAcquire(r, s, h, only, starve, c)
  PROVE  TotalsAreSums'
<1> DEFINE out == FreedFirst(s, h, starve)
           outcome == SlotAcquireOutcome(r, s, h, only, starve, c)
           took == outcome = "Redeemed"
           new == outcome = "Granted"
           h1 == reclaimHeld(out)
           t1 == reclaimTotals(out)
<1>1. CASE outcome = "NotRegistered"
  BY <1>1 DEF SlotAcquire, TotalsAreSums, bvars
<1>2. CASE outcome # "NotRegistered"
  <2>1. /\ h1 \in [Owner -> [Field -> Nat]]
        /\ t1 \in [Field -> Nat]
        /\ held' \in [Owner -> [Field -> Nat]]
    BY ReclaimType DEF TypeOK
  <2>2. \A f \in Field : t1[f] = SumOf(h1, f)
    BY ReclaimSums
  <2>3. took => h \in Owner /\ h # r
    BY OwnersAreFinite DEF SlotAcquireOutcome, HoldFound, HoldsFor
  <2>4. r \in Owner
    BY OwnersAreFinite
  <2>5. ~(took /\ new)
    OBVIOUS
  <2>6. /\ held' = [o \in Owner |->
             IF o = r
             THEN [f \in Field |->
                     h1[r][f] + (IF new /\ f \in Fields(s) THEN 1 ELSE 0)
                              + (IF took /\ f \notin HeldFields THEN h1[h][f] ELSE 0)]
             ELSE IF took /\ o = h THEN Nothing ELSE h1[o]]
        /\ totals' = [f \in Field |->
             IF new /\ f \in Fields(s) THEN t1[f] + 1
             ELSE IF took /\ f \in HeldFields THEN adjust(t1[f], - h1[h][f])
             ELSE t1[f]]
    BY <1>2, Zenon DEF SlotAcquire
  <2> HIDE DEF out, outcome, took, new, h1, t1
  <2>7. SUFFICES ASSUME NEW f \in Field PROVE totals'[f] = SumOf(held', f)
    BY DEF TotalsAreSums, SumOf
  <2>8. CASE ~took
    <3>1. \A o \in Owner : o # r => held'[o][f] = h1[o][f]
      BY <2>6, <2>8
    <3>2. held'[r][f] = h1[r][f] + IF new /\ f \in Fields(s) THEN 1 ELSE 0
      BY <2>1, <2>4, <2>6, <2>8
    <3>3. SumOf(held', f) = SumOf(h1, f) + (held'[r][f] - h1[r][f])
      BY <2>1, <2>4, <3>1, SumOfChange, Zenon
    <3>4. h1[r][f] \in Nat /\ SumOf(h1, f) \in Nat
      BY <2>1, <2>4, SumOfNat
    <3> QED BY <2>2, <2>6, <2>8, <3>2, <3>3, <3>4
  <2>9. CASE took
    <3>1. \A o \in Owner : o # r /\ o # h => held'[o][f] = h1[o][f]
      BY <2>6, <2>9
    <3>2. held'[r][f] = h1[r][f] + IF f \notin HeldFields THEN h1[h][f] ELSE 0
      <4>1. ~new
        BY <2>5, <2>9
      <4>2. held'[r] = [g \in Field |->
                          h1[r][g] + 0 + (IF g \notin HeldFields THEN h1[h][g] ELSE 0)]
        BY <2>4, <2>6, <2>9, <4>1
      <4>3. h1[r][f] \in Nat /\ h1[h][f] \in Nat
        BY <2>1, <2>3, <2>4, <2>9
      <4> QED BY <4>2, <4>3
    <3>3. held'[h][f] = 0
      BY <2>3, <2>6, <2>9 DEF Nothing
    <3>4. SumOf(held', f) = SumOf(h1, f) + (held'[r][f] - h1[r][f])
                                         + (held'[h][f] - h1[h][f])
      BY <2>1, <2>3, <2>4, <2>9, <3>1, SumOfMove, Zenon
    <3>5. h1[h][f] <= SumOf(h1, f) /\ SumOf(h1, f) \in Nat
          /\ h1[h][f] \in Nat /\ h1[r][f] \in Nat
      BY <2>1, <2>3, <2>4, <2>9, SumOfNat
    <3>6. totals'[f] = IF f \in HeldFields THEN adjust(t1[f], - h1[h][f]) ELSE t1[f]
      BY <2>5, <2>6, <2>9
    <3> QED BY <2>2, <3>2, <3>3, <3>4, <3>5, <3>6 DEF adjust
  <2> QED BY <2>8, <2>9
<1> QED BY <1>1, <1>2

\* A release takes one from each total it takes from the replica.
LEMMA ReleaseSums ==
  ASSUME TypeOK, TypeOK', TotalsAreSums, NEW r \in Replica, NEW s \in Slot,
         SlotRelease(r, s)
  PROVE  TotalsAreSums'
<1> DEFINE drop == Recorded(held[r], s)
<1>1. r \in Owner /\ held \in [Owner -> [Field -> Nat]] /\ totals \in [Field -> Nat]
      /\ held' \in [Owner -> [Field -> Nat]]
  BY OwnersAreFinite DEF TypeOK
<1>2. /\ held' = [held EXCEPT ![r] = [f \in Field |->
                     IF f \in drop THEN held[r][f] - 1 ELSE held[r][f]]]
      /\ totals' = [f \in Field |->
                     IF f \in drop THEN adjust(totals[f], -1) ELSE totals[f]]
  BY DEF SlotRelease
<1>3. \A f \in drop : held[r][f] > 0
  BY DEF Recorded
<1> HIDE DEF drop
<1>4. SUFFICES ASSUME NEW f \in Field PROVE totals'[f] = SumOf(held', f)
  BY DEF TotalsAreSums, SumOf
<1>5. totals[f] = SumOf(held, f)
  BY TotalsSum
<1>6. \A o \in Owner : o # r => held'[o][f] = held[o][f]
  BY <1>1, <1>2
<1>7. held'[r][f] = IF f \in drop THEN held[r][f] - 1 ELSE held[r][f]
  BY <1>1, <1>2
<1>8. SumOf(held', f) = SumOf(held, f) + (held'[r][f] - held[r][f])
  BY <1>1, <1>6, SumOfChange, Zenon
<1>9. held[r][f] <= SumOf(held, f) /\ held[r][f] \in Nat /\ SumOf(held, f) \in Nat
  BY <1>1, SumOfNat
<1> QED BY <1>2, <1>3, <1>5, <1>7, <1>8, <1>9 DEF adjust

\* A reconcile moves each total by what it moves the replica.
LEMMA ReconcileSums ==
  ASSUME TypeOK, TypeOK', TotalsAreSums, NEW r \in Replica,
         NEW new \in [Field -> Nat], SlotReconcile(r, new)
  PROVE  TotalsAreSums'
<1>1. CASE ~Live(r)
  BY <1>1 DEF SlotReconcile, TotalsAreSums, bvars
<1>2. CASE Live(r)
  <2>1. r \in Owner /\ held \in [Owner -> [Field -> Nat]]
        /\ held' \in [Owner -> [Field -> Nat]]
    BY OwnersAreFinite DEF TypeOK
  <2>2. held' = [held EXCEPT ![r] = new]
        /\ totals' = [f \in Field |-> adjust(totals[f], new[f] - held[r][f])]
    BY <1>2 DEF SlotReconcile
  <2>3. SUFFICES ASSUME NEW f \in Field PROVE totals'[f] = SumOf(held', f)
    BY DEF TotalsAreSums, SumOf
  <2>8. \A o \in Owner : o # r => held'[o][f] = held[o][f]
    BY <2>1, <2>2
  <2>4. SumOf(held', f) = SumOf(held, f) + (held'[r][f] - held[r][f])
    BY <2>1, <2>8, SumOfChange, Zenon
  <2>5. held'[r][f] = new[f] /\ totals[f] = SumOf(held, f)
    BY <2>1, <2>2, TotalsSum
  <2>6. SumOf(held, f) \in Nat /\ SumOf(held', f) \in Nat /\ held[r][f] \in Nat
    BY <2>1, SumOfNat
  <2>7. totals'[f] = adjust(totals[f], new[f] - held[r][f])
    BY <2>2
  <2> QED BY <2>4, <2>5, <2>6, <2>7 DEF adjust
<1> QED BY <1>1, <1>2

\* A hold moves a slot from the replica to the session, or frees it.
LEMMA HoldSums ==
  ASSUME TypeOK, TypeOK', TotalsAreSums, NEW r \in Replica, NEW h \in HoldId,
         NEW inTime \in BOOLEAN, SlotHold(r, h, inTime)
  PROVE  TotalsAreSums'
<1> DEFINE s == HoldSlot[h]
           p == PoolOf(s)
           drop == Recorded(held[r], s)
           keep == SlotHoldKeeps(r, h, inTime)
           h1 == reclaimHeld(Expired)
           t1 == reclaimTotals(Expired)
<1>1. r \in Owner /\ h \in Owner /\ r # h /\ r \notin HoldId
  BY OwnersAreFinite
<1>2. h1 \in [Owner -> [Field -> Nat]]
  BY ReclaimType
<1>13. held' \in [Owner -> [Field -> Nat]]
  BY DEF TypeOK
<1>14. r \in Owner
  BY OwnersAreFinite
<1>15. h \in Owner /\ r # h
  BY OwnersAreFinite
<1>3. \A f \in Field : t1[f] = SumOf(h1, f)
  BY ReclaimSums
<1>4. /\ held' = [o \in Owner |->
           IF o = r
           THEN [f \in Field |-> IF f \in drop THEN h1[r][f] - 1 ELSE h1[r][f]]
           ELSE IF keep /\ o = h
           THEN [f \in Field |-> IF f \in drop \cup {HeldField(p)} THEN 1 ELSE 0]
           ELSE h1[o]]
      /\ totals' = [f \in Field |->
           IF keep THEN (IF f = HeldField(p) THEN t1[f] + 1 ELSE t1[f])
           ELSE IF f \in drop THEN adjust(t1[f], -1) ELSE t1[f]]
  BY DEF SlotHold
<1>5. \A f \in drop : h1[r][f] > 0
  BY <1>1 DEF Recorded, reclaimHeld, Expired
<1>6. keep => h1[h] = Nothing
  BY DEF SlotHoldKeeps
<1>7. HeldField(p) \notin drop
  BY DEF Recorded, Fields, HeldField, GlobalField, PoolField, TenantField, KeyField
<1> HIDE DEF s, p, drop, keep, h1, t1
<1>8. SUFFICES ASSUME NEW f \in Field PROVE totals'[f] = SumOf(held', f)
  BY DEF TotalsAreSums, SumOf
<1>9. held'[r][f] = IF f \in drop THEN h1[r][f] - 1 ELSE h1[r][f]
  BY <1>1, <1>4
<1>10. h1[r][f] \in Nat /\ h1[r][f] <= SumOf(h1, f) /\ SumOf(h1, f) \in Nat
  BY <1>1, <1>2, SumOfNat
<1>11. CASE keep
  <2>1. \A o \in Owner : o # r /\ o # h => held'[o][f] = h1[o][f]
    BY <1>4
  <2>2. held'[h][f] = (IF f \in drop \cup {HeldField(p)} THEN 1 ELSE 0) /\ h1[h][f] = 0
    BY <1>1, <1>4, <1>6, <1>11 DEF Nothing
  <2>3. SumOf(held', f) = SumOf(h1, f) + (held'[r][f] - h1[r][f])
                                       + (held'[h][f] - h1[h][f])
    BY <1>2, <1>13, <1>14, <1>15, <2>1, SumOfMove, Zenon
  <2>4. totals'[f] = IF f = HeldField(p) THEN t1[f] + 1 ELSE t1[f]
    BY <1>4, <1>11
  <2> QED BY <1>3, <1>7, <1>9, <1>10, <2>2, <2>3, <2>4
<1>12. CASE ~keep
  <2>1. \A o \in Owner : o # r => held'[o][f] = h1[o][f]
    BY <1>4, <1>12
  <2>2. SumOf(held', f) = SumOf(h1, f) + (held'[r][f] - h1[r][f])
    BY <1>2, <1>13, <1>14, <2>1, SumOfChange
  <2>3. totals'[f] = IF f \in drop THEN adjust(t1[f], -1) ELSE t1[f]
    BY <1>4, <1>12
  <2> QED BY <1>3, <1>5, <1>9, <1>10, <2>2, <2>3 DEF adjust
<1> QED BY <1>11, <1>12

\* A script that only reclaims keeps the totals the sum of the holdings.
LEMMA ReclaimingSums ==
  ASSUME TypeOK, TotalsAreSums, NEW S,
         held' = reclaimHeld(S), totals' = reclaimTotals(S)
  PROVE  TotalsAreSums'
<1>1. \A f \in Field : totals'[f] = SumOf(held', f)
  BY ReclaimSums
<1> QED BY <1>1 DEF TotalsAreSums, SumOf

\* The initial totals: nobody holds anything.
LEMMA InitSums == BackendInit => TotalsAreSums
<1> SUFFICES ASSUME BackendInit, NEW f \in Field PROVE totals[f] = SumOf(held, f)
  BY DEF TotalsAreSums, SumOf
<1> DEFINE z == [o \in Owner |-> held[o][f]]
<1>1. \A i \in 1..NOwners : z[i] = 0
  BY DEF BackendInit, Nothing
<1> HIDE DEF z
<1>2. Sum(z, NOwners) = 0
  BY <1>1, SumZero, OwnersAreFinite
<1> QED BY <1>2 DEF BackendInit, Nothing, SumOf, z

\* The totals hash never drifts from the holdings: for any number of
\* replicas, sessions and slot kinds and any order of script calls, each
\* count is exactly the sum of what all owners are recorded as holding.
THEOREM TotalsNeverDrift == Spec => []TotalsAreSums
<1>1. TypeOK /\ TypeOK' /\ TotalsAreSums /\ [Next]_bvars => TotalsAreSums'
  <2> SUFFICES ASSUME TypeOK, TypeOK', TotalsAreSums, [Next]_bvars
               PROVE  TotalsAreSums'
    OBVIOUS
  <2>1. ASSUME NEW r \in Replica, CallBy(r) PROVE TotalsAreSums'
    <3>1. CASE ReplicaHeartbeat(r)
      BY <3>1, ReclaimingSums DEF ReplicaHeartbeat, Lapsed
    <3>2. CASE ReplicaDeregister(r)
      BY <3>2, ReclaimingSums DEF ReplicaDeregister
    <3>3. CASE Claim(r)
      BY <3>3, AcquireSums DEF Claim
    <3>4. CASE Return(r)
      BY <3>4, ReleaseSums DEF Return
    <3>5. CASE Keep(r)
      BY <3>5, HoldSums DEF Keep
    <3>6. CASE Reassert(r)
      BY <3>6, ReassertReports, ReconcileSums
    <3> QED BY <2>1, <3>1, <3>2, <3>3, <3>4, <3>5, <3>6 DEF CallBy
  <2>2. CASE UNCHANGED <<held, totals>>
    BY <2>2 DEF TotalsAreSums
  <2>3. Clock => UNCHANGED <<held, totals>>
    BY DEF Clock, HeartbeatLapses, HoldLapses, MarkLapses, StarvingLapses, FinishForgotten
  <2>4. (\E r \in Replica, p \in Pool : TakeWakeup(r, p)) => UNCHANGED <<held, totals>>
    BY DEF TakeWakeup
  <2>5. UNCHANGED bvars => UNCHANGED <<held, totals>>
    BY DEF bvars
  <2> QED BY <2>1, <2>2, <2>3, <2>4, <2>5 DEF Next
<1> QED BY <1>1, InitSums, TypeCorrect, PTL DEF Spec
-----------------------------------------------------------------------------
(* Nothing leaks, and live holdings are left alone.                        *)

\* What each call does to the holdings of an owner other than the caller.
LEMMA OthersHoldings ==
  ASSUME TypeOK, NEW r \in Replica, CallBy(r), NEW q \in Replica, q # r
  PROVE  /\ held'[q] = held[q] \/ (reg[q] = "lapsed" /\ held'[q] = Nothing)
         /\ Live(q) => held'[q] = held[q]
         /\ reg'[q] = reg[q] \/ held'[q] = Nothing
<1>1. q \in Owner /\ r \in Owner /\ q \notin HoldId
  BY OwnersAreFinite
<1>2. ASSUME NEW S \in SUBSET HoldId PROVE reclaimHeld(S)[q] = held[q]
  BY <1>1, <1>2 DEF reclaimHeld
<1>3. Expired \in SUBSET HoldId
  BY DEF Expired
<1>4. CASE ReplicaHeartbeat(r)
  <2> DEFINE gone == Lapsed(r)
  <2>1. held' = reclaimHeld(gone \cup Expired)
        /\ reg'[q] = IF q \in gone THEN "absent" ELSE reg[q]
    BY <1>4 DEF ReplicaHeartbeat
  <2>2. held'[q] = IF q \in gone THEN Nothing ELSE held[q]
    BY <1>1, <2>1 DEF reclaimHeld, Expired
  <2> QED BY <2>1, <2>2 DEF Live, Lapsed
<1>5. CASE ReplicaDeregister(r)
  BY <1>1, <1>5 DEF ReplicaDeregister, reclaimHeld, TypeOK
<1>6. CASE Claim(r)
  <2>5. PICK s \in Slot, only \in BOOLEAN, starve \in BOOLEAN, c \in Caps :
          \E h \in HoldsFor(s) : SlotAcquire(r, s, h, only, starve, c)
    BY <1>6 DEF Claim
  <2>1. PICK h \in HoldsFor(s) : SlotAcquire(r, s, h, only, starve, c)
    BY <2>5
  <2> DEFINE outcome == SlotAcquireOutcome(r, s, h, only, starve, c)
             h1 == reclaimHeld(FreedFirst(s, h, starve))
  <2>2. CASE outcome = "NotRegistered"
    BY <2>1, <2>2 DEF SlotAcquire, bvars
  <2>3. CASE outcome # "NotRegistered"
    <3>1. /\ held' = [o \in Owner |->
             IF o = r
             THEN [f \in Field |->
                     h1[r][f] + (IF outcome = "Granted" /\ f \in Fields(s) THEN 1 ELSE 0)
                              + (IF outcome = "Redeemed" /\ f \notin HeldFields
                                 THEN h1[h][f] ELSE 0)]
             ELSE IF outcome = "Redeemed" /\ o = h THEN Nothing ELSE h1[o]]
          /\ reg' = reg
      BY <2>1, <2>3, Zenon DEF SlotAcquire
    <3>2. outcome = "Redeemed" => h # q
      BY <1>1 DEF SlotAcquireOutcome, HoldFound, HoldsFor, NoHold
    <3>3. h1[q] = held[q]
      <4>1. FreedFirst(s, h, starve) \in SUBSET HoldId
        BY <1>3 DEF FreedFirst, GivenUp
      <4> QED BY <1>2, <4>1
    <3> HIDE DEF h1, outcome
    <3>4. held'[q] = held[q]
      BY <1>1, <3>1, <3>2, <3>3
    <3> QED BY <3>1, <3>4
  <2> QED BY <2>2, <2>3
<1>7. CASE Return(r)
  BY <1>1, <1>7 DEF Return, SlotRelease, TypeOK
<1>8. CASE Keep(r)
  <2>1. PICK h \in HoldId, inTime \in BOOLEAN : SlotHold(r, h, inTime)
    BY <1>8 DEF Keep
  <2>2. q # h
    BY <1>1
  <2>3. held'[q] = reclaimHeld(Expired)[q] /\ reg' = reg
    BY <1>1, <2>1, <2>2 DEF SlotHold
  <2>4. held'[q] = held[q]
    BY <1>2, <1>3, <2>3
  <2> QED BY <2>3, <2>4
<1>9. CASE Reassert(r)
  <2>1. PICK new : SlotReconcile(r, new)
    BY <1>9 DEF Reassert, Report
  <2>2. CASE ~Live(r)
    BY <2>1, <2>2 DEF SlotReconcile, bvars
  <2>3. CASE Live(r)
    BY <1>1, <2>1, <2>3 DEF SlotReconcile, TypeOK
  <2> QED BY <2>2, <2>3
<1> QED BY <1>4, <1>5, <1>6, <1>7, <1>8, <1>9 DEF CallBy

\* The clock and the subscribers change no holdings.
LEMMA OnlyCallsChangeHoldings ==
  ASSUME [Next]_bvars, ~ \E r \in Replica : CallBy(r)
  PROVE  /\ held' = held
         /\ \A r \in Replica : reg'[r] = "absent" => reg[r] = "absent"
         /\ \A h \in HoldId : hold'[h] = "absent" => hold[h] = "absent"
<1>1. CASE UNCHANGED bvars
  BY <1>1 DEF bvars
<1>2. CASE \E r \in Replica, p \in Pool : TakeWakeup(r, p)
  BY <1>2 DEF TakeWakeup
<1>3. CASE Clock
  <2>1. CASE \E r \in Replica : HeartbeatLapses(r)
    BY <2>1 DEF HeartbeatLapses, Live
  <2>2. CASE \E h \in HoldId : HoldLapses(h)
    BY <2>2 DEF HoldLapses
  <2>3. CASE ~(\E r \in Replica : HeartbeatLapses(r)) /\ ~(\E h \in HoldId : HoldLapses(h))
    BY <1>3, <2>3 DEF Clock, MarkLapses, StarvingLapses, FinishForgotten
  <2> QED BY <2>1, <2>2, <2>3
<1> QED BY <1>1, <1>2, <1>3 DEF Next

\* No script a peer runs, and no deadline, touches what a live replica is
\* recorded as holding: only its own calls do.
THEOREM LiveHoldingsStay == Spec => LiveHoldingsUntouched
<1>1. ASSUME TypeOK, [Next]_bvars, NEW q \in Replica, Live(q), held'[q] # held[q]
      PROVE  CallBy(q)
  <2>1. PICK r \in Replica : CallBy(r)
    BY <1>1, OnlyCallsChangeHoldings
  <2>2. r # q => held'[q] = held[q]
    BY <1>1, <2>1, OthersHoldings
  <2> QED BY <1>1, <2>1, <2>2
<1>2. TypeOK /\ [Next]_bvars =>
        [\A q \in Replica : Live(q) /\ held'[q] # held[q] => CallBy(q)]_bvars
  BY <1>1
<1> QED BY <1>2, TypeCorrect, PTL DEF Spec, LiveHoldingsUntouched

\* A caller that is in the replica set no more comes to hold nothing.
LEMMA AbsentCallerHoldsNothing ==
  ASSUME TypeOK, NothingLeaks, NEW r \in Replica, CallBy(r), reg'[r] = "absent"
  PROVE  held'[r] = Nothing
<1>1. r \in Owner /\ r \notin HoldId
  BY OwnersAreFinite
<1>2. CASE ReplicaHeartbeat(r)
  BY <1>2 DEF ReplicaHeartbeat
<1>3. CASE ReplicaDeregister(r)
  BY <1>1, <1>3 DEF ReplicaDeregister, reclaimHeld
<1>4. CASE Claim(r)
  <2>1. PICK s \in Slot, only \in BOOLEAN, starve \in BOOLEAN, c \in Caps :
          \E h \in HoldsFor(s) : SlotAcquire(r, s, h, only, starve, c)
    BY <1>4 DEF Claim
  <2>2. PICK h \in HoldsFor(s) : SlotAcquire(r, s, h, only, starve, c)
    BY <2>1
  <2>3. CASE ~Live(r)
    <3>1. UNCHANGED bvars
      BY <2>2, <2>3 DEF SlotAcquire, SlotAcquireOutcome
    <3> QED BY <3>1 DEF bvars, NothingLeaks
  <2>4. CASE Live(r)
    <3>1. reg' = reg
      BY <2>2, <2>4, Zenon DEF SlotAcquire, bvars
    <3> QED BY <2>4, <3>1 DEF Live
  <2> QED BY <2>3, <2>4
<1>5. CASE Return(r)
  <2>1. PICK s \in Slot : SlotRelease(r, s)
    BY <1>5 DEF Return
  <2>2. held[r] = Nothing
    BY <2>1 DEF SlotRelease, NothingLeaks
  <2>3. Recorded(held[r], s) = {}
    BY <2>2, FieldsInField DEF Recorded, Nothing
  <2>4. held'[r] = [f \in Field |-> held[r][f]]
    BY <1>1, <2>1, <2>3 DEF SlotRelease, TypeOK
  <2> QED BY <2>2, <2>4 DEF Nothing
<1>6. CASE Keep(r)
  <2>1. PICK h \in HoldId, inTime \in BOOLEAN : SlotHold(r, h, inTime)
    BY <1>6 DEF Keep
  <2>2. held[r] = Nothing
    BY <2>1 DEF SlotHold, NothingLeaks
  <2>3. HoldSlot[h] \in Slot
    BY SlotAssumption
  <2>4. Recorded(held[r], HoldSlot[h]) = {}
    BY <2>2, <2>3, FieldsInField DEF Recorded, Nothing
  <2>5. reclaimHeld(Expired)[r] = Nothing
    BY <1>1, <2>2 DEF reclaimHeld
  <2>6. held'[r] = [f \in Field |-> reclaimHeld(Expired)[r][f]]
    BY <1>1, <2>1, <2>4 DEF SlotHold
  <2> QED BY <2>5, <2>6 DEF Nothing
<1>7. CASE Reassert(r)
  <2>1. PICK new : SlotReconcile(r, new)
    BY <1>7 DEF Reassert, Report
  <2>2. CASE ~Live(r)
    BY <2>1, <2>2 DEF SlotReconcile, bvars, NothingLeaks
  <2>3. CASE Live(r)
    BY <2>1, <2>3 DEF SlotReconcile, Live
  <2> QED BY <2>2, <2>3
<1> QED BY <1>2, <1>3, <1>4, <1>5, <1>6, <1>7 DEF CallBy

\* A hold id that is not among the held slots after a call holds nothing.
LEMMA AbsentHoldHoldsNothing ==
  ASSUME TypeOK, NothingLeaks, NEW r \in Replica, CallBy(r),
         NEW i \in HoldId, hold'[i] = "absent"
  PROVE  held'[i] = Nothing
<1>1. r \in Owner /\ i \in Owner /\ i # r /\ i \notin Replica
  BY OwnersAreFinite
<1>2. hold[i] \in Status /\ (hold[i] = "absent" => held[i] = Nothing)
  BY DEF TypeOK, NothingLeaks
<1>3. ASSUME NEW S, hold[i] = "absent" \/ i \in S PROVE reclaimHeld(S)[i] = Nothing
  BY <1>1, <1>2, <1>3 DEF reclaimHeld
<1>4. CASE ReplicaHeartbeat(r)
  <2> DEFINE gone == Lapsed(r)
  <2>1. held' = reclaimHeld(gone \cup Expired)
        /\ (hold[i] = "absent" \/ i \in Expired)
    BY <1>4 DEF ReplicaHeartbeat
  <2> QED BY <1>3, <2>1
<1>5. CASE ReplicaDeregister(r)
  BY <1>3, <1>5 DEF ReplicaDeregister
<1>6. CASE Claim(r)
  <2>1. PICK s \in Slot, only \in BOOLEAN, starve \in BOOLEAN, c \in Caps :
          \E h \in HoldsFor(s) : SlotAcquire(r, s, h, only, starve, c)
    BY <1>6 DEF Claim
  <2>2. PICK h \in HoldsFor(s) : SlotAcquire(r, s, h, only, starve, c)
    BY <2>1
  <2> DEFINE out == FreedFirst(s, h, starve)
             outcome == SlotAcquireOutcome(r, s, h, only, starve, c)
             h1 == reclaimHeld(out)
  <2>3. CASE outcome = "NotRegistered"
    BY <1>2, <2>2, <2>3 DEF SlotAcquire, bvars
  <2>4. CASE outcome # "NotRegistered"
    <3>1. /\ held' = [o \in Owner |->
             IF o = r
             THEN [f \in Field |->
                     h1[r][f] + (IF outcome = "Granted" /\ f \in Fields(s) THEN 1 ELSE 0)
                              + (IF outcome = "Redeemed" /\ f \notin HeldFields
                                 THEN h1[h][f] ELSE 0)]
             ELSE IF outcome = "Redeemed" /\ o = h THEN Nothing ELSE h1[o]]
          /\ hold' = [j \in HoldId |->
                IF j \in out \/ (outcome = "Redeemed" /\ j = h) THEN "absent" ELSE hold[j]]
      BY <2>2, <2>4, Zenon DEF SlotAcquire
    <3>2. hold[i] = "absent" \/ i \in out => h1[i] = Nothing
      BY <1>3
    <3> HIDE DEF h1, out, outcome
    <3> QED BY <1>1, <3>1, <3>2
  <2> QED BY <2>3, <2>4
<1>7. CASE Return(r)
  BY <1>1, <1>2, <1>7 DEF Return, SlotRelease, TypeOK
<1>8. CASE Keep(r)
  <2>1. PICK h \in HoldId, inTime \in BOOLEAN : SlotHold(r, h, inTime)
    BY <1>8 DEF Keep
  <2> DEFINE keep == SlotHoldKeeps(r, h, inTime)
  <2>2. ~(keep /\ i = h) /\ (hold[i] = "absent" \/ i \in Expired)
    BY <2>1 DEF SlotHold
  <2>3. held'[i] = reclaimHeld(Expired)[i]
    BY <1>1, <2>1, <2>2 DEF SlotHold
  <2> QED BY <1>3, <2>2, <2>3
<1>9. CASE Reassert(r)
  <2>1. PICK new : SlotReconcile(r, new)
    BY <1>9 DEF Reassert, Report
  <2>2. CASE ~Live(r)
    BY <1>2, <2>1, <2>2 DEF SlotReconcile, bvars
  <2>3. CASE Live(r)
    BY <1>1, <1>2, <2>1, <2>3 DEF SlotReconcile, TypeOK
  <2> QED BY <2>2, <2>3
<1> QED BY <1>4, <1>5, <1>6, <1>7, <1>8, <1>9 DEF CallBy

\* No slot is ever lost: an owner the replica set, or the sorted set of held
\* slots, does not list holds nothing, so every slot counted is one that a
\* release, a redeem, a reclaim or a purge can still find and free.
THEOREM NoSlotLeaks == Spec => []NothingLeaks
<1>1. BackendInit => NothingLeaks
  BY OwnersAreFinite DEF BackendInit, NothingLeaks
<1>2. TypeOK /\ NothingLeaks /\ [Next]_bvars => NothingLeaks'
  <2> SUFFICES ASSUME TypeOK, NothingLeaks, [Next]_bvars PROVE NothingLeaks'
    OBVIOUS
  <2>1. CASE ~ \E r \in Replica : CallBy(r)
    BY <2>1, OnlyCallsChangeHoldings DEF NothingLeaks
  <2>2. ASSUME NEW r \in Replica, CallBy(r) PROVE NothingLeaks'
    <3>1. ASSUME NEW q \in Replica, reg'[q] = "absent" PROVE held'[q] = Nothing
      <4>1. CASE q = r
        BY <2>2, <3>1, <4>1, AbsentCallerHoldsNothing
      <4>2. CASE q # r
        <5>1. held'[q] = held[q] \/ held'[q] = Nothing
          BY <2>2, <4>2, OthersHoldings
        <5>2. reg'[q] = reg[q] \/ held'[q] = Nothing
          BY <2>2, <4>2, OthersHoldings
        <5> QED BY <3>1, <5>1, <5>2 DEF NothingLeaks
      <4> QED BY <4>1, <4>2
    <3>2. ASSUME NEW i \in HoldId, hold'[i] = "absent" PROVE held'[i] = Nothing
      BY <2>2, <3>2, AbsentHoldHoldsNothing
    <3> QED BY <3>1, <3>2 DEF NothingLeaks
  <2> QED BY <2>1, <2>2
<1> QED BY <1>1, <1>2, TypeCorrect, PTL DEF Spec
-----------------------------------------------------------------------------
\* Held slots and wakeups.

\* The sum of an indicator is the size of its set.
LEMMA SumIndicator ==
  ASSUME NEW n \in Nat, NEW S, S \subseteq 1..n, NEW g,
         \A i \in 1..n : g[i] = IF i \in S THEN 1 ELSE 0
  PROVE  Sum(g, n) = Cardinality(S)
<1> DEFINE P == PartialSums(g, n)
           C(i) == S \cap 1..i
           T == {i \in Nat : i <= n => IsFiniteSet(C(i)) /\ P[i] = Cardinality(C(i))}
<1>1. P[0] = 0 /\ \A i \in 1..n : P[i] = P[i-1] + g[i]
  BY PartialSumsStep
<1> HIDE DEF P
<1>2. 0 \in T
  <2>1. C(0) = {}
    OBVIOUS
  <2> QED BY <1>1, <2>1, FS_EmptySet
<1>3. ASSUME NEW m \in Nat, m \in T PROVE m + 1 \in T
  <2> SUFFICES ASSUME m + 1 <= n
               PROVE  IsFiniteSet(C(m+1)) /\ P[m+1] = Cardinality(C(m+1))
    OBVIOUS
  <2>1. IsFiniteSet(C(m)) /\ P[m] = Cardinality(C(m)) /\ m + 1 \in 1..n
    BY <1>3
  <2>2. P[m+1] = P[m] + g[m+1]
    BY <1>1, <2>1
  <2>3. Cardinality(C(m)) \in Nat
    BY <2>1, FS_CardinalityType
  <2>4. CASE m + 1 \in S
    <3>1. C(m+1) = C(m) \cup {m+1} /\ m + 1 \notin C(m)
      BY <2>4
    <3> HIDE DEF C
    <3>2. IsFiniteSet(C(m+1)) /\ Cardinality(C(m+1)) = Cardinality(C(m)) + 1
      BY <2>1, <3>1, FS_AddElement
    <3> QED BY <2>1, <2>2, <2>4, <3>2
  <2>5. CASE m + 1 \notin S
    <3>1. C(m+1) = C(m)
      BY <2>5
    <3> HIDE DEF C
    <3>2. P[m+1] = P[m] + 0
      BY <2>1, <2>2, <2>5
    <3> QED BY <2>1, <2>3, <3>1, <3>2
  <2> QED BY <2>4, <2>5
<1>4. \A i \in Nat : i \in T
  <2>1. \A m \in Nat : m \in T => m + 1 \in T
    BY <1>3
  <2> HIDE DEF T
  <2> QED BY <1>2, <2>1, NatSetInduction
<1>5. C(n) = S
  OBVIOUS
<1>6. P[n] = Cardinality(C(n))
  <2> HIDE DEF C
  <2> QED BY <1>4
<1> QED BY <1>5, <1>6 DEF Sum, P

\* The counters one slot takes are no counters of held slots, and only one of
\* them is of a pool.
LEMMA FieldsApart ==
  ASSUME NEW s \in Slot, NEW p
  PROVE  /\ HeldField(p) \notin Fields(s)
         /\ PoolField(p) \in Fields(s) <=> p = PoolOf(s)
         /\ PoolField(p) \notin HeldFields
         /\ \A q : HeldField(p) = HeldField(q) => p = q
         /\ \A q : PoolField(p) # HeldField(q)
BY DEF Fields, HeldField, GlobalField, PoolField, TenantField, KeyField, HeldFields

-----------------------------------------------------------------------------
(* Wakeups.                                                                *)

\* A total that a reclaim lowers is of a pool the reclaim publishes.
LEMMA ReclaimAnnounces ==
  ASSUME TypeOK, NEW S, NEW p \in Pool,
         reclaimTotals(S)[PoolField(p)] < totals[PoolField(p)]
  PROVE  p \in reclaimPools(S)
<1> DEFINE f == PoolField(p)
           g == [o \in Owner |-> IF o \in S THEN held[o][f] ELSE 0]
<1>1. f \in Field /\ held \in [Owner -> [Field -> Nat]] /\ totals[f] \in Nat
      /\ NOwners \in Nat
  BY FieldsInField, OwnersAreFinite DEF TypeOK
<1> HIDE DEF f
<1>2. SUFFICES ASSUME \A o \in S \cap Owner : ~(held[o][f] > 0) PROVE FALSE
  <2>1. PICK o \in S : held[o][f] > 0
    BY <1>2
  <2> QED BY <2>1 DEF reclaimPools, f
<1>3. \A i \in 1..NOwners : g[i] = 0
  BY <1>1, <1>2
<1> HIDE DEF g
<1>4. HeldBy(S, f) = 0
  BY <1>1, <1>3, SumZero DEF HeldBy, g
<1>5. reclaimTotals(S)[f] = totals[f]
  BY <1>1, <1>4 DEF reclaimTotals, adjust
<1> QED BY <1>1, <1>5 DEF f

\* What is woken is published to every subscriber.
LEMMA WokenPublished ==
  ASSUME TypeOK, NEW S, Publish(wake(S)), NEW p \in S, Waited(p), NEW r \in Replica
  PROVE  p \in inbox'[r]
BY DEF Publish, wake, Waited

\* Every call that lowers the count of a pool which is waited on publishes it.
LEMMA CallAnnounces ==
  ASSUME TypeOK, NEW r \in Replica, CallBy(r), NEW p \in Pool, Waited(p),
         totals'[PoolField(p)] < totals[PoolField(p)]
  PROVE  \E S : Publish(wake(S)) /\ p \in S
<1> DEFINE f == PoolField(p)
<1>1. /\ f \in Field /\ totals[f] \in Nat /\ r \in Owner
      /\ \A s \in Slot : f \in Fields(s) <=> p = PoolOf(s)
      /\ f \notin HeldFields
      /\ \A q : f # HeldField(q)
      /\ \A S : reclaimTotals(S)[f] \in Nat /\ (reclaimTotals(S)[f] < totals[f] => p \in reclaimPools(S))
  <2>1. f \in Field
    BY FieldsInField
  <2>2. 1 \in Slot
    BY SizesAssumption
  <2>3. \A s \in Slot : f \in Fields(s) <=> p = PoolOf(s)
    BY FieldsApart
  <2>4. f \notin HeldFields /\ \A q : f # HeldField(q)
    BY <2>2, FieldsApart
  <2>5. \A S : reclaimTotals(S)[f] \in Nat
    BY <2>1, ReclaimType
  <2> QED BY <2>1, <2>3, <2>4, <2>5, ReclaimAnnounces, OwnersAreFinite DEF TypeOK
<1>2. totals'[f] < totals[f]
  OBVIOUS
<1> HIDE DEF f
<1>3. CASE ReplicaHeartbeat(r)
  BY <1>1, <1>2, <1>3 DEF ReplicaHeartbeat
<1>4. CASE ReplicaDeregister(r)
  BY <1>1, <1>2, <1>4 DEF ReplicaDeregister
<1>5. CASE Claim(r)
  <2>1. PICK s \in Slot, only \in BOOLEAN, starve \in BOOLEAN, c \in Caps :
          \E h \in HoldsFor(s) : SlotAcquire(r, s, h, only, starve, c)
    BY <1>5 DEF Claim
  <2>2. PICK h \in HoldsFor(s) : SlotAcquire(r, s, h, only, starve, c)
    BY <2>1
  <2> DEFINE out == FreedFirst(s, h, starve)
             outcome == SlotAcquireOutcome(r, s, h, only, starve, c)
             t1 == reclaimTotals(out)
  <2>3. \/ UNCHANGED bvars
        \/ /\ totals' = [e \in Field |->
                IF outcome = "Granted" /\ e \in Fields(s) THEN t1[e] + 1
                ELSE IF outcome = "Redeemed" /\ e \in HeldFields
                     THEN adjust(t1[e], - reclaimHeld(out)[h][e])
                ELSE t1[e]]
           /\ Publish(wake(reclaimPools(out)))
    BY <2>2, Zenon DEF SlotAcquire
  <2> HIDE DEF out, outcome
  <2>4. totals' # totals
    BY <1>1, <1>2
  <2>5. totals'[f] >= t1[f] /\ Publish(wake(reclaimPools(out)))
    BY <1>1, <2>3, <2>4 DEF bvars
  <2>6. t1[f] < totals[f]
    <3>1. totals'[f] \in {t1[f], t1[f] + 1}
      BY <1>1, <2>3, <2>4 DEF bvars
    <3> QED BY <1>1, <1>2, <2>5, <3>1
  <2> QED BY <1>1, <2>5, <2>6
<1>6. CASE Return(r)
  <2>1. PICK s \in Slot : SlotRelease(r, s)
    BY <1>6 DEF Return
  <2> DEFINE drop == Recorded(held[r], s)
  <2>2. /\ totals'[f] = IF f \in drop THEN adjust(totals[f], -1) ELSE totals[f]
        /\ Publish(wake(IF PoolField(PoolOf(s)) \in drop THEN {PoolOf(s)} ELSE {}))
        /\ drop \subseteq Fields(s)
    BY <1>1, <2>1 DEF SlotRelease, Recorded
  <2> HIDE DEF drop
  <2>3. f \in drop /\ p = PoolOf(s)
    BY <1>1, <1>2, <2>2
  <2> QED BY <2>2, <2>3 DEF f
<1>7. CASE Keep(r)
  <2>1. PICK h \in HoldId, inTime \in BOOLEAN : SlotHold(r, h, inTime)
    BY <1>7 DEF Keep
  <2> DEFINE s == HoldSlot[h]
             drop == Recorded(held[r], s)
             keep == SlotHoldKeeps(r, h, inTime)
             t1 == reclaimTotals(Expired)
  <2>2. /\ totals'[f] = IF keep THEN (IF f = HeldField(PoolOf(s)) THEN t1[f] + 1 ELSE t1[f])
                        ELSE IF f \in drop THEN adjust(t1[f], -1) ELSE t1[f]
        /\ Publish(wake(reclaimPools(Expired) \cup
                        (IF ~keep /\ PoolField(PoolOf(s)) \in drop THEN {PoolOf(s)} ELSE {})))
        /\ drop \subseteq Fields(s) /\ s \in Slot
    BY <1>1, <2>1, SlotAssumption DEF SlotHold, Recorded
  <2> HIDE DEF drop, keep, s
  <2>3. CASE ~keep /\ f \in drop
    <3>1. p = PoolOf(s) /\ PoolField(PoolOf(s)) \in drop
      BY <1>1, <2>2, <2>3 DEF f
    <3> QED BY <2>2, <2>3, <3>1
  <2>4. CASE ~(~keep /\ f \in drop)
    <3>1. totals'[f] = t1[f]
      BY <1>1, <2>2, <2>4
    <3>2. p \in reclaimPools(Expired)
      BY <1>1, <1>2, <3>1
    <3> QED BY <2>2, <3>2
  <2> QED BY <2>3, <2>4
<1>8. CASE Reassert(r)
  <2>1. PICK new \in [Field -> Nat] : SlotReconcile(r, new)
    BY <1>8, ReassertReports
  <2> DEFINE lowered == {q \in Pool : new[PoolField(q)] < held[r][PoolField(q)]}
  <2>2. CASE ~Live(r)
    BY <1>1, <1>2, <2>1, <2>2 DEF SlotReconcile, bvars
  <2>3. CASE Live(r)
    <3>1. totals'[f] = adjust(totals[f], new[f] - held[r][f]) /\ Publish(wake(lowered))
      BY <1>1, <2>1, <2>3 DEF SlotReconcile
    <3>2. held[r][f] \in Nat /\ new[f] \in Nat
      BY <1>1 DEF TypeOK
    <3>3. new[f] < held[r][f]
      BY <1>1, <1>2, <3>1, <3>2 DEF adjust
    <3>4. p \in lowered
      BY <3>3 DEF f
    <3> QED BY <3>1, <3>4
  <2> QED BY <2>2, <2>3
<1> QED BY <1>3, <1>4, <1>5, <1>6, <1>7, <1>8 DEF CallBy

\* A pool whose count falls while it, or the ceiling, is waited on is published
\* to every subscriber, whichever script lowered it.
THEOREM FreedSlotsAnnounced == Spec => FreedSlotAnnounced
<1>1. ASSUME TypeOK, [Next]_bvars, NEW p \in Pool, Waited(p),
             totals'[PoolField(p)] < totals[PoolField(p)], NEW r \in Replica
      PROVE  p \in inbox'[r]
  <2>1. totals' # totals
    <3>1. totals[PoolField(p)] \in Nat
      BY <1>1, FieldsInField DEF TypeOK
    <3> QED BY <1>1, <3>1
  <2>2. PICK q \in Replica : CallBy(q)
    BY <1>1, <2>1 DEF Next, Clock, HeartbeatLapses, HoldLapses, MarkLapses, StarvingLapses,
                      FinishForgotten, TakeWakeup, bvars
  <2>3. PICK S : Publish(wake(S)) /\ p \in S
    BY <1>1, <2>2, CallAnnounces
  <2> QED BY <1>1, <2>3, WokenPublished
<1>2. TypeOK /\ [Next]_bvars =>
        [\A p \in Pool : totals'[PoolField(p)] < totals[PoolField(p)] /\ Waited(p)
           => \A r \in Replica : p \in inbox'[r]]_bvars
  BY <1>1
<1> QED BY <1>2, TypeCorrect, PTL DEF Spec, FreedSlotAnnounced
-----------------------------------------------------------------------------
(* Held slots.                                                             *)

\* Replicas have no counters of held slots; a held slot is one slot of its pool and
\* of no other, counted once as held.
HeldShape ==
  /\ \A r \in Replica, p \in Pool : held[r][HeldField(p)] = 0
  /\ \A h \in HoldId, p \in Pool : hold[h] # "absent" =>
       LET n == IF p = PoolOf(HoldSlot[h]) THEN 1 ELSE 0
       IN  held[h][PoolField(p)] = n /\ held[h][HeldField(p)] = n

\* The held slots of every pool are within the limit.
HeldWithin == \A p \in Pool : totals[HeldField(p)] <= MaxHeld

\* A call leaves a held slot as it was or frees it, unless it is the SLOT_HOLD that
\* keeps the slot.
LEMMA HeldSlotStays ==
  ASSUME TypeOK, NEW r \in Replica, CallBy(r), NEW i \in HoldId, hold'[i] # "absent"
  PROVE  \/ hold[i] # "absent" /\ held'[i] = held[i]
         \/ \E inTime \in BOOLEAN : SlotHold(r, i, inTime) /\ SlotHoldKeeps(r, i, inTime)
<1>1. r \in Owner /\ i \in Owner /\ i # r /\ i \notin Replica
  BY OwnersAreFinite
<1>2. ASSUME NEW S, i \notin S PROVE reclaimHeld(S)[i] = held[i]
  BY <1>1, <1>2 DEF reclaimHeld
<1>3. CASE ReplicaHeartbeat(r)
  <2>1. /\ held' = reclaimHeld(Lapsed(r) \cup Expired)
        /\ i \notin Expired /\ hold[i] # "absent"
    BY <1>3 DEF ReplicaHeartbeat
  <2>2. i \notin Lapsed(r) \cup Expired
    BY <1>1, <2>1 DEF Lapsed
  <2> QED BY <1>2, <2>1, <2>2
<1>4. CASE ReplicaDeregister(r)
  BY <1>1, <1>2, <1>4 DEF ReplicaDeregister
<1>5. CASE Claim(r)
  <2>1. PICK s \in Slot, only \in BOOLEAN, starve \in BOOLEAN, c \in Caps :
          \E h \in HoldsFor(s) : SlotAcquire(r, s, h, only, starve, c)
    BY <1>5 DEF Claim
  <2>2. PICK h \in HoldsFor(s) : SlotAcquire(r, s, h, only, starve, c)
    BY <2>1
  <2> DEFINE out == FreedFirst(s, h, starve)
             took == SlotAcquireOutcome(r, s, h, only, starve, c) = "Redeemed"
  <2>3. \/ held' = held /\ hold' = hold
        \/ /\ \A o \in Owner \ {r} :
                held'[o] = IF took /\ o = h THEN Nothing ELSE reclaimHeld(out)[o]
           /\ \A j \in HoldId :
                hold'[j] = IF j \in out \/ (took /\ j = h) THEN "absent" ELSE hold[j]
    BY <2>2, Zenon DEF SlotAcquire, bvars
  <2> HIDE DEF out, took
  <2> QED BY <1>1, <1>2, <2>3
<1>6. CASE Return(r)
  BY <1>1, <1>6 DEF Return, SlotRelease, TypeOK
<1>7. CASE Keep(r)
  <2>1. PICK h \in HoldId, inTime \in BOOLEAN : SlotHold(r, h, inTime)
    BY <1>7 DEF Keep
  <2> DEFINE keep == SlotHoldKeeps(r, h, inTime)
  <2>2. CASE keep /\ i = h
    BY <2>1, <2>2
  <2>3. CASE ~(keep /\ i = h)
    <3>1. /\ held'[i] = reclaimHeld(Expired)[i]
          /\ i \notin Expired /\ hold[i] # "absent"
      BY <1>1, <2>1, <2>3 DEF SlotHold
    <3> QED BY <1>2, <3>1
  <2> QED BY <2>2, <2>3
<1>8. CASE Reassert(r)
  <2>1. PICK new : SlotReconcile(r, new)
    BY <1>8 DEF Reassert, Report
  <2>2. CASE ~Live(r)
    BY <2>1, <2>2 DEF SlotReconcile, bvars
  <2>3. CASE Live(r)
    BY <1>1, <2>1, <2>3 DEF SlotReconcile, TypeOK
  <2> QED BY <2>2, <2>3
<1> QED BY <1>3, <1>4, <1>5, <1>6, <1>7, <1>8 DEF CallBy

\* A replica reports no held slots.
LEMMA NoHeldReported ==
  ASSUME NEW perms \in [Slot -> Nat], NEW p \in Pool
  PROVE  HoldingFields(perms)[HeldField(p)] = 0
<1> DEFINE f == HeldField(p)
           g == [s \in Slot |-> IF f \in Fields(s) THEN perms[s] ELSE 0]
<1>1. \A i \in 1..NSlots : g[i] = 0
  BY FieldsApart
<1>2. f \in Field /\ NSlots \in Nat
  BY FieldsInField, OwnersAreFinite
<1>3. HoldingFields(perms)[f] = Sum(g, NSlots)
  BY <1>2 DEF HoldingFields
<1> HIDE DEF f, g
<1>4. Sum(g, NSlots) = 0
  BY <1>1, <1>2, SumZero
<1> QED BY <1>3, <1>4 DEF f

\* No call gives its caller a counter of held slots.
LEMMA CallerHoldsNoHeld ==
  ASSUME TypeOK, HeldShape, NEW r \in Replica, CallBy(r), NEW p \in Pool
  PROVE  held'[r][HeldField(p)] = 0
<1> DEFINE f == HeldField(p)
<1>1. /\ f \in Field /\ r \in Owner /\ r \notin HoldId /\ held[r][f] = 0
      /\ f \in HeldFields
      /\ \A s \in Slot : f \notin Fields(s)
  BY FieldsInField, OwnersAreFinite, FieldsApart DEF HeldShape, HeldFields
<1>2. ASSUME NEW S PROVE reclaimHeld(S)[r][f] = 0
  BY <1>1 DEF reclaimHeld, Nothing
<1>3. held'[r][f] = 0
  <2> HIDE DEF f
  <2>1. CASE ReplicaHeartbeat(r)
    BY <1>2, <2>1 DEF ReplicaHeartbeat
  <2>2. CASE ReplicaDeregister(r)
    BY <1>2, <2>2 DEF ReplicaDeregister
  <2>3. CASE Claim(r)
    <3>1. PICK s \in Slot, only \in BOOLEAN, starve \in BOOLEAN, c \in Caps :
            \E h \in HoldsFor(s) : SlotAcquire(r, s, h, only, starve, c)
      BY <2>3 DEF Claim
    <3>2. PICK h \in HoldsFor(s) : SlotAcquire(r, s, h, only, starve, c)
      BY <3>1
    <3> DEFINE h1 == reclaimHeld(FreedFirst(s, h, starve))
               outcome == SlotAcquireOutcome(r, s, h, only, starve, c)
    <3>3. \/ held' = held
          \/ held' = [o \in Owner |->
               IF o = r
               THEN [e \in Field |->
                       h1[r][e] + (IF outcome = "Granted" /\ e \in Fields(s) THEN 1 ELSE 0)
                                + (IF outcome = "Redeemed" /\ e \notin HeldFields
                                   THEN h1[h][e] ELSE 0)]
               ELSE IF outcome = "Redeemed" /\ o = h THEN Nothing ELSE h1[o]]
      BY <3>2, Zenon DEF SlotAcquire, bvars
    <3>4. h1[r][f] = 0
      BY <1>2
    <3> HIDE DEF h1, outcome
    <3>5. CASE held' = held
      BY <1>1, <3>5
    <3>6. CASE held' # held
      <4>1. held'[r] =
              [e \in Field |->
                 h1[r][e] + (IF outcome = "Granted" /\ e \in Fields(s) THEN 1 ELSE 0)
                          + (IF outcome = "Redeemed" /\ e \notin HeldFields
                             THEN h1[h][e] ELSE 0)]
        BY <1>1, <3>3, <3>6, Zenon
      <4>2. held'[r][f] = h1[r][f] + 0 + 0
        BY <1>1, <4>1
      <4> QED BY <3>4, <4>2
    <3> QED BY <3>5, <3>6
  <2>4. CASE Return(r)
    <3>1. PICK s \in Slot : SlotRelease(r, s)
      BY <2>4 DEF Return
    <3>2. f \notin Recorded(held[r], s)
      BY <1>1 DEF Recorded
    <3> QED BY <1>1, <3>1, <3>2 DEF SlotRelease, TypeOK
  <2>5. CASE Keep(r)
    <3>1. PICK h \in HoldId, inTime \in BOOLEAN : SlotHold(r, h, inTime)
      BY <2>5 DEF Keep
    <3>2. f \notin Recorded(held[r], HoldSlot[h])
      BY <1>1, SlotAssumption DEF Recorded
    <3>3. held'[r][f] = reclaimHeld(Expired)[r][f]
      BY <1>1, <3>1, <3>2 DEF SlotHold
    <3> QED BY <1>2, <3>3
  <2>6. CASE Reassert(r)
    <3>1. PICK perms \in [Slot -> 0..MaxCount] : SlotReconcile(r, HoldingFields(perms))
      BY <2>6 DEF Reassert, Report
    <3>2. perms \in [Slot -> Nat]
      BY MaxCountAssumption
    <3>3. HoldingFields(perms)[f] = 0
      BY <3>2, NoHeldReported DEF f
    <3>4. CASE ~Live(r)
      BY <1>1, <3>1, <3>4 DEF SlotReconcile, bvars
    <3>5. CASE Live(r)
      BY <1>1, <3>1, <3>3, <3>5 DEF SlotReconcile, TypeOK
    <3> QED BY <3>4, <3>5
  <2> QED BY <2>1, <2>2, <2>3, <2>4, <2>5, <2>6 DEF CallBy
<1> QED BY <1>3

\* The slot SLOT_HOLD keeps is one slot of the session's pool.
LEMMA KeptShape ==
  ASSUME TypeOK, NEW r \in Replica, NEW h \in HoldId, NEW inTime \in BOOLEAN,
         SlotHold(r, h, inTime), SlotHoldKeeps(r, h, inTime), NEW p \in Pool
  PROVE  LET n == IF p = PoolOf(HoldSlot[h]) THEN 1 ELSE 0
         IN  held'[h][PoolField(p)] = n /\ held'[h][HeldField(p)] = n
<1> DEFINE s == HoldSlot[h]
           q == PoolOf(s)
           drop == Recorded(held[r], s)
<1>1. s \in Slot /\ q \in Pool /\ h \in Owner /\ h # r
  BY SlotAssumption, FieldsInField, OwnersAreFinite
<1>2. /\ PoolField(p) \in Field /\ HeldField(p) \in Field
      /\ PoolField(p) \in Fields(s) <=> p = q
      /\ HeldField(p) \notin Fields(s)
      /\ HeldField(p) = HeldField(q) <=> p = q
      /\ PoolField(p) # HeldField(q)
  BY <1>1, FieldsInField, FieldsApart
<1>3. held'[h] = [f \in Field |-> IF f \in drop \cup {HeldField(q)} THEN 1 ELSE 0]
  BY <1>1 DEF SlotHold
<1>4. drop \subseteq Fields(s) /\ (p = q => PoolField(p) \in drop)
  BY <1>2 DEF SlotHoldKeeps, Recorded
<1> HIDE DEF drop, s, q
<1>5. held'[h][PoolField(p)] = IF p = q THEN 1 ELSE 0
  BY <1>2, <1>3, <1>4
<1>6. held'[h][HeldField(p)] = IF p = q THEN 1 ELSE 0
  BY <1>2, <1>3, <1>4
<1> QED BY <1>5, <1>6 DEF q, s

\* Time passing lists no new held slot.
LEMMA OnlyCallsListHolds ==
  ASSUME [Next]_bvars, ~ \E r \in Replica : CallBy(r), NEW h \in HoldId, hold'[h] # "absent"
  PROVE  hold[h] # "absent"
<1>1. CASE \E i \in HoldId : HoldLapses(i)
  BY <1>1 DEF HoldLapses
<1>2. CASE ~ \E i \in HoldId : HoldLapses(i)
  BY <1>2 DEF Next, Clock, HeartbeatLapses, MarkLapses, StarvingLapses, FinishForgotten,
              TakeWakeup, bvars
<1> QED BY <1>1, <1>2

\* Held slots keep their shape.
LEMMA ShapeStays == TypeOK /\ HeldShape /\ [Next]_bvars => HeldShape'
<1> SUFFICES ASSUME TypeOK, HeldShape, [Next]_bvars PROVE HeldShape'
  OBVIOUS
<1>1. CASE ~ \E r \in Replica : CallBy(r)
  BY <1>1, OnlyCallsChangeHoldings, OnlyCallsListHolds DEF HeldShape
<1>2. ASSUME NEW r \in Replica, CallBy(r) PROVE HeldShape'
  <2>1. ASSUME NEW q \in Replica, NEW p \in Pool PROVE held'[q][HeldField(p)] = 0
    <3>1. CASE q = r
      BY <1>2, <3>1, CallerHoldsNoHeld
    <3>2. CASE q # r
      <4>1. held'[q] = held[q] \/ held'[q] = Nothing
        BY <1>2, <3>2, OthersHoldings
      <4> QED BY <4>1, FieldsInField DEF HeldShape, Nothing
    <3> QED BY <3>1, <3>2
  <2>2. ASSUME NEW h \in HoldId, NEW p \in Pool, hold'[h] # "absent"
        PROVE  LET n == IF p = PoolOf(HoldSlot[h]) THEN 1 ELSE 0
               IN  held'[h][PoolField(p)] = n /\ held'[h][HeldField(p)] = n
    <3>1. CASE hold[h] # "absent" /\ held'[h] = held[h]
      BY <3>1 DEF HeldShape
    <3>2. CASE \E inTime \in BOOLEAN : SlotHold(r, h, inTime) /\ SlotHoldKeeps(r, h, inTime)
      BY <3>2, KeptShape
    <3> QED BY <1>2, <2>2, <3>1, <3>2, HeldSlotStays
  <2> QED BY <2>1, <2>2 DEF HeldShape
<1> QED BY <1>1, <1>2

\* A call lowers the count of held slots, leaves it, or keeps one more within the
\* limit.
LEMMA CountWithin ==
  ASSUME TypeOK, TypeOK', TotalsAreSums, TotalsAreSums', HeldShape, HeldShape',
         NothingLeaks', HeldWithin, [Next]_bvars
  PROVE  HeldWithin'
<1> SUFFICES ASSUME NEW p \in Pool PROVE totals'[HeldField(p)] <= MaxHeld
  BY DEF HeldWithin
<1> DEFINE f == HeldField(p)
<1>1. /\ f \in Field /\ totals[f] \in Nat /\ totals'[f] \in Nat /\ totals[f] <= MaxHeld
      /\ MaxHeld \in Nat /\ NOwners \in Nat
      /\ held \in [Owner -> [Field -> Nat]] /\ held' \in [Owner -> [Field -> Nat]]
      /\ totals[f] = SumOf(held, f) /\ totals'[f] = SumOf(held', f)
  BY FieldsInField, SizesAssumption, OwnersAreFinite DEF TypeOK, HeldWithin, TotalsAreSums, SumOf
<1>2. SUFFICES ASSUME totals'[f] > totals[f] PROVE totals'[f] <= MaxHeld
  BY <1>1
<1>3. PICK o \in Owner : held'[o][f] > held[o][f]
  <2> SUFFICES ASSUME \A o \in Owner : ~(held'[o][f] > held[o][f]) PROVE FALSE
    OBVIOUS
  <2> DEFINE a == [o \in Owner |-> held'[o][f]]
             b == [o \in Owner |-> held[o][f]]
  <2>1. \A i \in 1..NOwners : a[i] \in Int /\ b[i] \in Int /\ a[i] <= b[i]
    BY <1>1
  <2>2. SumOf(held', f) = Sum(a, NOwners) /\ SumOf(held, f) = Sum(b, NOwners)
    BY DEF SumOf
  <2> HIDE DEF a, b
  <2>3. Sum(a, NOwners) <= Sum(b, NOwners)
    BY <1>1, <2>1, SumMonotone
  <2> QED BY <1>1, <1>2, <2>2, <2>3
<1>4. held'[o][f] \in Nat /\ held[o][f] \in Nat /\ held'[o][f] # 0 /\ held' # held
  BY <1>1, <1>3
<1>5. o \notin Replica
  BY <1>4 DEF HeldShape
<1>6. o \in HoldId /\ held'[o] # Nothing
  BY <1>1, <1>4, <1>5, SizesAssumption DEF Nothing
<1>7. PICK r \in Replica : CallBy(r)
  BY <1>4, OnlyCallsChangeHoldings
<1>8. hold'[o] # "absent"
  BY <1>6 DEF NothingLeaks
<1>9. PICK inTime \in BOOLEAN : SlotHold(r, o, inTime) /\ SlotHoldKeeps(r, o, inTime)
  BY <1>3, <1>4, <1>6, <1>7, <1>8, HeldSlotStays
<1> DEFINE q == PoolOf(HoldSlot[o])
           t1 == reclaimTotals(Expired)
<1>10. t1[f] \in Nat /\ t1[f] <= totals[f]
  <2>1. t1[f] = adjust(totals[f], - HeldBy(Expired, f)) /\ HeldBy(Expired, f) \in Nat
    BY <1>1, HeldByNat DEF reclaimTotals
  <2> QED BY <1>1, <2>1 DEF adjust
<1>11. totals'[f] = IF f = HeldField(q) THEN t1[f] + 1 ELSE t1[f]
  BY <1>1, <1>9 DEF SlotHold
<1>12. t1[HeldField(q)] < MaxHeld
  BY <1>9 DEF SlotHoldKeeps
<1> HIDE DEF t1, f, q
<1> QED BY <1>1, <1>10, <1>11, <1>12

\* The count of a pool's held slots is their number.
LEMMA CountIsNumber ==
  ASSUME TypeOK, TotalsAreSums, NothingLeaks, HeldShape, NEW p \in Pool
  PROVE  totals[HeldField(p)] = Cardinality(HeldIn(p))
<1> DEFINE f == HeldField(p)
           g == [o \in Owner |-> held[o][f]]
<1>1. f \in Field /\ totals[f] = Sum(g, NOwners) /\ NOwners \in Nat
  BY FieldsInField, OwnersAreFinite DEF TotalsAreSums
<1>2. HeldIn(p) \subseteq 1..NOwners
  BY OwnersAreFinite DEF HeldIn
<1>3. ASSUME NEW o \in 1..NOwners PROVE g[o] = IF o \in HeldIn(p) THEN 1 ELSE 0
  <2>1. CASE o \in Replica
    BY <2>1, OwnersAreFinite DEF HeldShape, HeldIn
  <2>2. CASE o \in HoldId /\ hold[o] # "absent"
    BY <2>2 DEF HeldShape, HeldIn
  <2>3. CASE o \in HoldId /\ hold[o] = "absent"
    BY <1>1, <2>3 DEF NothingLeaks, Nothing, HeldIn
  <2> QED BY <2>1, <2>2, <2>3, SizesAssumption
<1> HIDE DEF g, f
<1>4. Sum(g, NOwners) = Cardinality(HeldIn(p))
  BY <1>1, <1>2, <1>3, SumIndicator
<1> QED BY <1>1, <1>4 DEF f

\* The shape and the limit hold in every reachable state.
LEMMA HoldInvariant == Spec => [](HeldShape /\ HeldWithin)
<1>1. BackendInit => HeldShape /\ HeldWithin
  BY FieldsInField, OwnersAreFinite, SizesAssumption
     DEF BackendInit, HeldShape, HeldWithin, Nothing
<1>2. /\ TypeOK /\ TotalsAreSums /\ NothingLeaks /\ HeldShape /\ HeldWithin
      /\ TypeOK' /\ TotalsAreSums' /\ NothingLeaks'
      /\ [Next]_bvars
      => HeldShape' /\ HeldWithin'
  BY ShapeStays, CountWithin
<1> QED BY <1>1, <1>2, TypeCorrect, TotalsNeverDrift, NoSlotLeaks, PTL DEF Spec

\* However holds are kept, redeemed, given up, run out and purged, SLOT_HOLD's
\* count is the number of slots really held, never above the limit, and each is
\* one slot of its pool.
THEOREM HeldSlotsStayBounded == Spec => []HeldSlotsBounded
<1>1. TypeOK /\ TotalsAreSums /\ NothingLeaks /\ HeldShape /\ HeldWithin => HeldSlotsBounded
  <2> SUFFICES ASSUME TypeOK, TotalsAreSums, NothingLeaks, HeldShape, HeldWithin
               PROVE  HeldSlotsBounded
    OBVIOUS
  <2>1. \A h \in HoldId : hold[h] # "absent" => held[h][PoolField(PoolOf(HoldSlot[h]))] = 1
    BY FieldsInField, SlotAssumption DEF HeldShape
  <2> QED BY <2>1, CountIsNumber DEF HeldSlotsBounded, HeldWithin
<1> QED BY <1>1, TypeCorrect, TotalsNeverDrift, NoSlotLeaks, HoldInvariant, PTL
=============================================================================
