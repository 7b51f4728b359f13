----------------------------- MODULE SlotLedger ------------------------------
(***************************************************************************)
(* What the slot backend promises its callers about one pool: who is       *)
(* registered, how many slots each replica is recorded as holding and how  *)
(* many are parked for agent sessions.  The SharedSlots trait states these *)
(* promises; SlotContract makes a specification of them, which the Redis   *)
(* scripts implement for every pool (SlotRefinement), and SlotCluster runs *)
(* the schedulers on top of them.                                          *)
(***************************************************************************)
EXTENDS Sums, FiniteSets

CONSTANTS
  NReplicas,   \* gateway replicas
  Cap          \* the largest size a claim may carry for the pool

Replica == 1..NReplicas

ASSUME LedgerAssumption == NReplicas \in Nat \ {0} /\ Cap \in Nat \ {0}

VARIABLES
  reg,         \* each replica's heartbeat
  recorded,    \* the slots each replica is recorded as holding
  parked       \* the slots held for sessions, expired or not

lvars == <<reg, recorded, parked>>

Live(r) == reg[r] = "live"

Taken == Sum(recorded, NReplicas) + parked

LedgerInit ==
  /\ reg = [r \in Replica |-> "absent"]
  /\ recorded = [r \in Replica |-> 0]
  /\ parked = 0
-----------------------------------------------------------------------------
(* The calls.  k: the parked slots left after expired ones were freed.     *)

NoneLapsed(r) == {}
Lapsed(r) == {q \in Replica \ {r} : reg[q] = "lapsed"}

Heartbeat(r, k) ==
  /\ reg' = [q \in Replica |-> IF q = r THEN "live"
                               ELSE IF q \in Lapsed(r) THEN "absent" ELSE reg[q]]
  /\ recorded' = [q \in Replica |-> IF q \in Lapsed(r) THEN 0 ELSE recorded[q]]
  /\ parked' = k

\* The live replicas the heartbeat of r counts.
LiveCount(r) == Cardinality({q \in Replica : q = r \/ Live(q)})

Deregister(r) ==
  /\ reg' = [reg EXCEPT ![r] = "absent"]
  /\ recorded' = [recorded EXCEPT ![r] = 0]
  /\ UNCHANGED parked

\* A claim of a registered replica takes a slot only while the pool, with what
\* is left parked, is not full.
Grant(r, k) ==
  /\ Live(r)
  /\ Sum(recorded, NReplicas) + k < Cap
  /\ recorded' = [recorded EXCEPT ![r] = @ + 1]
  /\ parked' = k
  /\ UNCHANGED reg

\* A claim that names a parked slot takes it over.
Redeem(r, k) ==
  /\ Live(r)
  /\ k > 0
  /\ recorded' = [recorded EXCEPT ![r] = @ + 1]
  /\ parked' = k - 1
  /\ UNCHANGED reg

\* A release gives back a slot the replica is recorded as holding, if any.
Release(r, k) ==
  /\ recorded' = [recorded EXCEPT ![r] = IF @ > 0 THEN @ - 1 ELSE 0]
  /\ parked' = k
  /\ UNCHANGED reg

\* A finished step's slot is kept for its session.
Park(r, k) ==
  /\ recorded[r] > 0
  /\ recorded' = [recorded EXCEPT ![r] = @ - 1]
  /\ parked' = k + 1
  /\ UNCHANGED reg

\* A registered replica's true holdings replace what is recorded, whatever
\* the size of the pool.
Reconcile(r, n) ==
  /\ Live(r)
  /\ recorded' = [recorded EXCEPT ![r] = n]
  /\ UNCHANGED <<reg, parked>>

\* Any other call may free expired parked slots: a refused claim, or one about
\* another pool.
Purge(k) ==
  /\ parked' = k
  /\ UNCHANGED <<reg, recorded>>

HeartbeatLapses(r) ==
  /\ Live(r)
  /\ reg' = [reg EXCEPT ![r] = "lapsed"]
  /\ UNCHANGED <<recorded, parked>>
=============================================================================
