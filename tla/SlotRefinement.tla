---------------------------- MODULE SlotRefinement ---------------------------
(***************************************************************************)
(* The Redis scripts implement the slot contract, pool by pool: what       *)
(* SlotService does to the fields of one pool, and what it answers, is a   *)
(* step of SlotContract.                                                   *)
(***************************************************************************)
EXTENDS SlotService

CONSTANT APool   \* any one pool

ASSUME PoolAssumption == APool \in Pool

\* Claims carry caps from the configuration, of which one is the largest.
ASSUME LargestCapAssumption == \E n \in {c.pool : c \in Caps} : \A c \in Caps : c.pool <= n

\* A history variable: the last script call and its answer, as far as they
\* are about the pool.  No script reads it.
VARIABLE call

\* The largest cap claims carry for a pool.
LargestPoolCap == CHOOSE n \in {c.pool : c \in Caps} : \A c \in Caps : c.pool <= n

Contract == INSTANCE SlotContract WITH
  Cap <- LargestPoolCap,
  recorded <- [r \in Replica |-> held[r][PoolField(APool)]],
  parked <- HeldBy(HoldId, PoolField(APool)),
  overdue <- HeldBy(Expired, PoolField(APool))

\* A call about slot kind s is recorded as c, one about another pool as such.
Records(r, s, c) ==
  Contract!Called(IF PoolOf(s) = APool THEN c ELSE <<r, "elsewhere">>)

\* The script calls of SlotService, each with the record of what it answered.
RecordedCall(r) ==
  \/ ReplicaHeartbeat(r) /\ Contract!Called(<<r, "heartbeat">>)
  \/ ReplicaDeregister(r) /\ Contract!Called(<<r, "deregister">>)
  \/ \E s \in Slot, only \in BOOLEAN, starve \in BOOLEAN, c \in Caps :
       \E h \in HoldsFor(s) :
         /\ only => h # NoHold
         /\ SlotAcquire(r, s, h, only, starve, c)
         /\ Records(r, s, <<r, "acquire", c.pool, starve,
                            SlotAcquireOutcome(r, s, h, only, starve, c)>>)
  \/ \E s \in Slot : SlotRelease(r, s) /\ Records(r, s, <<r, "release">>)
  \/ \E h \in HoldId, inTime \in BOOLEAN :
       /\ SlotHold(r, h, inTime)
       /\ Records(r, HoldSlot[h], <<r, "hold", SlotHoldKeeps(r, h, inTime)>>)
  \/ \E perms \in [Slot -> 0..MaxCount] :
       /\ Report(r, perms)
       /\ Contract!Called(IF Live(r)
                          THEN <<r, "reconcile", HoldingFields(perms)[PoolField(APool)]>>
                          ELSE <<r, "reconcile refused">>)

RecordedNext ==
  \/ \E r \in Replica : RecordedCall(r)
  \/ /\ (\E r \in Replica, p \in Pool : TakeWakeup(r, p)) \/ Clock
     /\ UNCHANGED call

RecordedSpec == BackendInit /\ call = Contract!NoCall /\ [][RecordedNext]_<<bvars, call>>

\* The scripts implement the contract, whatever calls came before.  Every call
\* changes the pool as the ledger call of its own name and answer does, and in
\* no other way: a claim is granted only while what the replicas hold and what
\* stays parked is below the cap it carries, and refused as full only at the
\* cap; a reclaim frees lapsed replicas only, a late release frees nothing a
\* replica does not hold; a parked slot is redeemed once, freed once its time
\* ran out or given up to a starving claim, and otherwise stays counted.
ImplementsLedger == Contract!ContractSpec
=============================================================================
