----------------------------- MODULE SlotService -----------------------------
(***************************************************************************)
(* The slot scripts of SlotBackend under every order of calls: replicas    *)
(* claim, release, hold, reconcile, heartbeat and deregister at any time,  *)
(* whatever they are recorded as holding, since a release may be late, a   *)
(* reconcile may report anything its replica runs, and a replica that lost *)
(* its heartbeat may still call.                                           *)
(***************************************************************************)
EXTENDS SlotBackend

CONSTANT MaxCount  \* bound: slots a reconcile may bring the fleet's count to

ASSUME MaxCountAssumption == MaxCount \in Nat

\* A hold id names one session in one pool, so only claims of that slot kind
\* carry it.
HoldsFor(s) == {NoHold} \cup {h \in HoldId : HoldSlot[h] = s}

Claim(r) ==
  \E s \in Slot, only \in BOOLEAN, starve \in BOOLEAN, c \in Caps :
    \E h \in HoldsFor(s) :
      /\ only => h # NoHold
      /\ SlotAcquire(r, s, h, only, starve, c)

Return(r) == \E s \in Slot : SlotRelease(r, s)

Keep(r) == \E h \in HoldId, inTime \in BOOLEAN : SlotHold(r, h, inTime)

Report(r, perms) ==
  LET new == HoldingFields(perms)
  IN  /\ totals[GlobalField] - held[r][GlobalField] + new[GlobalField] <= MaxCount
      /\ SlotReconcile(r, new)

Reassert(r) == \E perms \in [Slot -> 0..MaxCount] : Report(r, perms)

CallBy(r) ==
  \/ ReplicaHeartbeat(r)
  \/ ReplicaDeregister(r)
  \/ Claim(r)
  \/ Return(r)
  \/ Keep(r)
  \/ Reassert(r)

Clock ==
  \/ \E r \in Replica : HeartbeatLapses(r)
  \/ \E h \in HoldId : HoldLapses(h)
  \/ \E m \in Pool \cup {Ceiling} : MarkLapses(m)
  \/ \E p \in Pool : StarvingLapses(p)
  \/ \E h \in HoldId : FinishForgotten(h)

Next ==
  \/ \E r \in Replica : CallBy(r)
  \/ \E r \in Replica, p \in Pool : TakeWakeup(r, p)
  \/ Clock

Spec == BackendInit /\ [][Next]_bvars

\* Replica 1 stays up: its heartbeat task calls again every interval.
FairSpec == Spec /\ WF_bvars(ReplicaHeartbeat(1))
-----------------------------------------------------------------------------
(* Properties.                                                             *)

\* Every count is a natural number kept per field, and every marker, session
\* and message is one the scripts know of (all scripts of scripts.rs).
TypeOK ==
  /\ reg \in [Replica -> Status]
  /\ held \in [Owner -> [Field -> Nat]]
  /\ totals \in [Field -> Nat]
  /\ hold \in [HoldId -> Status]
  /\ marks \subseteq Pool \cup {Ceiling}
  /\ starving \subseteq Pool
  /\ recent \subseteq HoldId
  /\ chain \in [HoldId -> 0..MaxRun]
  /\ inbox \in [Replica -> SUBSET Pool]

\* The totals hash is the sum of all holdings hashes, field by field, after
\* any sequence of claims, late releases, reclaims, holds and reconciles: no
\* slot is counted that nobody holds and none is held that is not counted.
TotalsAreSums ==
  \A f \in Field : totals[f] = Sum([o \in Owner |-> held[o][f]], NOwners)

\* No holdings are left where no script will ever look: a replica that is in
\* the replica set no more, and a hold id that is not among the held slots,
\* hold nothing.  REPLICA_HEARTBEAT and purge_holds only free what those sets
\* list, so anything else would be lost for good.
NothingLeaks ==
  /\ \A r \in Replica : reg[r] = "absent" => held[r] = Nothing
  /\ \A h \in HoldId : hold[h] = "absent" => held[h] = Nothing

\* The held slots of pool p, run out or not.
HeldIn(p) == {h \in HoldId : hold[h] # "absent" /\ PoolOf(HoldSlot[h]) = p}

\* A held slot is one slot of its pool, and the count SLOT_HOLD compares with
\* the limit is the number of slots really held, never above the limit.
HeldSlotsBounded ==
  /\ \A p \in Pool : /\ totals[HeldField(p)] = Cardinality(HeldIn(p))
                     /\ totals[HeldField(p)] <= MaxHeld
  /\ \A h \in HoldId : hold[h] # "absent" =>
       held[h][PoolField(PoolOf(HoldSlot[h]))] = 1

\* "A live replica's holdings are never touched": while a replica's heartbeat
\* has not run out, nothing but its own calls changes what it is recorded as
\* holding (reclaim in REPLICA_HEARTBEAT frees lapsed replicas only).
LiveHoldingsUntouched ==
  [][\A q \in Replica : Live(q) /\ held'[q] # held[q] => CallBy(q)]_bvars

\* Whenever a pool's count falls while it, or the ceiling, is waited on, the
\* pool is published to every subscriber, whichever script lowered it: a
\* release, a refused hold, a reclaim, a purge inside a claim or a reconcile.
FreedSlotAnnounced ==
  [][\A p \in Pool : totals'[PoolField(p)] < totals[PoolField(p)] /\ Waited(p)
       => \A r \in Replica : p \in inbox'[r]]_bvars

\* What a lapsed replica or a lapsed hold still counts for comes free without
\* its owner doing anything, as long as one replica keeps heartbeating.
LapsedHoldingsFreed ==
  /\ \A q \in Replica \ {1} :
       (reg[q] = "lapsed" /\ held[q] # Nothing) ~> (held[q] = Nothing \/ Live(q))
  /\ \A h \in HoldId : hold[h] = "lapsed" ~> hold[h] # "lapsed"
=============================================================================
