----------------------------- MODULE SlotBackend -----------------------------
(***************************************************************************)
(* The Redis side of cluster-wide admission slots: the Lua scripts of      *)
(* obleth-redis/src/scripts.rs as atomic actions.                          *)
(*                                                                         *)
(* Counts are kept per field, as in the hashes: one field for all pools    *)
(* together, one per pool, per tenant and per key in a pool, and one per   *)
(* pool for the slots held for agent sessions.  Every holder of slots, a   *)
(* replica or a held slot, has a holdings hash, and the totals hash counts *)
(* them all.                                                               *)
(*                                                                         *)
(* The Redis clock is abstracted to whether a deadline has passed: an      *)
(* entry of a sorted set is "live", "lapsed" (scored in the past, not yet  *)
(* pruned) or "absent"; a wait marker in the past reads as no marker.      *)
(* Deadlines pass in any order.                                            *)
(*                                                                         *)
(* A definition that only differs from the one it stands before by a       *)
(* mistake (reclaimKeepsHeld, pastCap, ...) is a mutant: the specification *)
(* does not use it, and with it in place the properties must fail.         *)
(***************************************************************************)
EXTENDS Sums, FiniteSets

CONSTANTS
  NReplicas,   \* gateway replicas
  NHolds,      \* session hold ids
  NSlots,      \* kinds of slot: a pool, a tenant and a key
  SlotInfo,    \* SlotInfo[s]: the pool, tenant and key of slot kind s
  HoldSlot,    \* HoldSlot[h]: the slot kind the session of hold id h runs in
  Caps,        \* the limits a claim may carry (0: no tenant or key limit)
  MaxHeld,     \* most slots one pool may have held for sessions
  MaxRun       \* most holds in a row for a session while its pool is waited on

Replica == 1..NReplicas
HoldId  == (NReplicas+1)..(NReplicas+NHolds)
NOwners == NReplicas + NHolds
Owner   == 1..NOwners          \* everything with a holdings hash
NoHold  == 0                   \* a claim that names no hold
Slot    == 1..NSlots

ASSUME SizesAssumption ==
  /\ NReplicas \in Nat \ {0}
  /\ NHolds \in Nat
  /\ NSlots \in Nat \ {0}
  /\ MaxHeld \in Nat
  /\ MaxRun \in Nat \ {0}
ASSUME SlotAssumption ==
  /\ DOMAIN SlotInfo = Slot
  /\ HoldSlot \in [HoldId -> Slot]
ASSUME CapsAssumption ==
  \A c \in Caps : /\ c.pool \in Nat \ {0}
                  /\ c.global \in Nat \ {0}
                  /\ c.tenant \in Nat
                  /\ c.key \in Nat
-----------------------------------------------------------------------------
(* Fields of the hashes.                                                   *)

Pool == {SlotInfo[s].pool : s \in Slot}

GlobalField  == <<"g">>
PoolField(p) == <<"p", p>>
TenantField(s) == <<"t", SlotInfo[s].pool, SlotInfo[s].tenant>>
KeyField(s)    == <<"k", SlotInfo[s].pool, SlotInfo[s].key>>
HeldField(p) == <<"h", p>>

PoolOf(s) == SlotInfo[s].pool

\* The four counters one slot takes.
Fields(s) == {GlobalField, PoolField(PoolOf(s)), TenantField(s), KeyField(s)}

HeldFields == {HeldField(p) : p \in Pool}
Field == (UNION {Fields(s) : s \in Slot}) \cup HeldFields

Nothing == [f \in Field |-> 0]
Ceiling == "ceiling"           \* the wait marker of the global ceiling
-----------------------------------------------------------------------------
VARIABLES
  reg,      \* the replica set: each replica's heartbeat
  held,     \* the holdings hash of every owner
  totals,   \* the totals hash
  hold,     \* the sorted set of held slots
  marks,    \* current wait markers: pools, and the ceiling
  starving, \* pools with a current starving marker
  recent,   \* sessions whose last finished step is remembered
  chain,    \* holds in a row while waited on, per session
  inbox     \* per replica, published pool ids its subscriber has not taken

bvars == <<reg, held, totals, hold, marks, starving, recent, chain, inbox>>

Status == {"absent", "live", "lapsed"}

BackendInit ==
  /\ reg = [r \in Replica |-> "absent"]
  /\ held = [o \in Owner |-> Nothing]
  /\ totals = Nothing
  /\ hold = [h \in HoldId |-> "absent"]
  /\ marks = {}
  /\ starving = {}
  /\ recent = {}
  /\ chain = [h \in HoldId |-> 0]
  /\ inbox = [r \in Replica |-> {}]
-----------------------------------------------------------------------------
(* The helpers every script is built from.                                 *)

\* A count that would fall to zero or below is deleted.
adjust(v, d) == IF v + d <= 0 THEN 0 ELSE v + d

\* The pools whose release is published: only while someone waits there, or
\* on the ceiling.
wake(pools) == {p \in pools : p \in marks \/ Ceiling \in marks}

\* Every subscriber is sent the pools in the set.
Publish(pools) == inbox' = [r \in Replica |-> inbox[r] \cup pools]

\* What the owners in S hold together.
HeldBy(S, f) == Sum([o \in Owner |-> IF o \in S THEN held[o][f] ELSE 0], NOwners)

\* The hashes after the holdings of every owner in S were reclaimed.
reclaimKeepsHeld(S) == held
reclaimHeld(S) == [o \in Owner |-> IF o \in S THEN Nothing ELSE held[o]]
reclaimTotals(S) == [f \in Field |-> adjust(totals[f], - HeldBy(S, f))]
reclaimSilently(S) == {}
reclaimPools(S) == {p \in Pool : \E o \in S : held[o][PoolField(p)] > 0}

\* The held slots that ran out: purge_holds frees them.
NeverExpired == {}
Expired == {h \in HoldId : hold[h] = "lapsed"}

\* The pool's other held slots, freed for a request that waited too long.
GivenUp(p, keep) ==
  {h \in HoldId : hold[h] = "live" /\ PoolOf(HoldSlot[h]) = p /\ h # keep}

\* The fields of slot s that these holdings record.
RecordedUnchecked(h, s) == Fields(s)
Recorded(h, s) == {f \in Fields(s) : h[f] > 0}
-----------------------------------------------------------------------------
(* The scripts.                                                            *)

Live(r) == reg[r] = "live"

\* The replicas a heartbeat of r prunes.
LapsedAndLive(r) == {q \in Replica \ {r} : reg[q] # "absent"}
Lapsed(r) == {q \in Replica \ {r} : reg[q] = "lapsed"}

\* REPLICA_HEARTBEAT.  The caller is refreshed before the set is pruned, so
\* its own holdings survive a late heartbeat nobody reclaimed before.
ReplicaHeartbeat(r) ==
  LET out == Lapsed(r) \cup Expired
  IN  /\ reg' = [q \in Replica |-> IF q = r THEN "live"
                                   ELSE IF q \in Lapsed(r) THEN "absent" ELSE reg[q]]
      /\ held' = reclaimHeld(out)
      /\ totals' = reclaimTotals(out)
      /\ hold' = [h \in HoldId |-> IF h \in Expired THEN "absent" ELSE hold[h]]
      /\ Publish(wake(reclaimPools(out)))
      /\ UNCHANGED <<marks, starving, recent, chain>>

\* What the heartbeat of r returns.
LiveCount(r) == Cardinality({q \in Replica : q = r \/ Live(q)})

\* REPLICA_DEREGISTER.
ReplicaDeregister(r) ==
  /\ reg' = [reg EXCEPT ![r] = "absent"]
  /\ held' = reclaimHeld({r})
  /\ totals' = reclaimTotals({r})
  /\ Publish(wake(reclaimPools({r})))
  /\ UNCHANGED <<hold, marks, starving, recent, chain>>

\* The held slots a claim of slot kind s frees before it is decided.
FreedFirst(s, h, starve) ==
  Expired \cup (IF starve THEN GivenUp(PoolOf(s), h) ELSE {})

\* Whether a slot is held for the session a claim names.
HoldFound(s, h, starve) ==
  h # NoHold /\ reclaimHeld(FreedFirst(s, h, starve))[h] # Nothing

\* A count has reached its limit.
pastCap(count, cap) == count > cap
atCap(count, cap) == count >= cap

\* What SLOT_ACQUIRE answers a claim of r for slot kind s naming hold h.
SlotAcquireOutcome(r, s, h, only, starve, c) ==
  LET t == reclaimTotals(FreedFirst(s, h, starve))
  IN  IF ~Live(r) THEN "NotRegistered"
      ELSE IF HoldFound(s, h, starve) THEN "Redeemed"
      ELSE IF h # NoHold /\ only THEN "NotHeld"
      ELSE IF atCap(t[PoolField(PoolOf(s))], c.pool) THEN "Pool"
      ELSE IF atCap(t[GlobalField], c.global) THEN "Global"
      ELSE IF c.tenant > 0 /\ atCap(t[TenantField(s)], c.tenant) THEN "Tenant"
      ELSE IF c.key > 0 /\ atCap(t[KeyField(s)], c.key) THEN "Key"
      ELSE "Granted"

Denials == {"Pool", "Global", "Tenant", "Key"}

\* SLOT_ACQUIRE.
SlotAcquire(r, s, h, only, starve, c) ==
  LET out     == FreedFirst(s, h, starve)
      outcome == SlotAcquireOutcome(r, s, h, only, starve, c)
      took    == outcome = "Redeemed"
      new     == outcome = "Granted"
      h1      == reclaimHeld(out)
      t1      == reclaimTotals(out)
  IN  IF outcome = "NotRegistered" THEN UNCHANGED bvars
      ELSE
      /\ starving' = IF starve THEN starving \cup {PoolOf(s)} ELSE starving
      /\ held' = [o \in Owner |->
           IF o = r
           THEN [f \in Field |->
                   h1[r][f] + (IF new /\ f \in Fields(s) THEN 1 ELSE 0)
                            + (IF took /\ f \notin HeldFields THEN h1[h][f] ELSE 0)]
           ELSE IF took /\ o = h THEN Nothing ELSE h1[o]]
      /\ totals' = [f \in Field |->
           IF new /\ f \in Fields(s) THEN t1[f] + 1
           ELSE IF took /\ f \in HeldFields THEN adjust(t1[f], - h1[h][f])
           ELSE t1[f]]
      /\ hold' = [i \in HoldId |->
           IF i \in out \/ (took /\ i = h) THEN "absent" ELSE hold[i]]
      /\ marks' = marks \cup (IF outcome = "Global" THEN {Ceiling}
                              ELSE IF outcome \in Denials THEN {PoolOf(s)} ELSE {})
      /\ Publish(wake(reclaimPools(out)))
      /\ UNCHANGED <<reg, recent, chain>>

\* SLOT_RELEASE.
SlotRelease(r, s) ==
  LET drop == Recorded(held[r], s)
      p    == PoolOf(s)
  IN  /\ held' = [held EXCEPT ![r] = [f \in Field |->
                    IF f \in drop THEN held[r][f] - 1 ELSE held[r][f]]]
      /\ totals' = [f \in Field |->
                    IF f \in drop THEN adjust(totals[f], -1) ELSE totals[f]]
      /\ Publish(wake(IF PoolField(p) \in drop THEN {p} ELSE {}))
      /\ UNCHANGED <<reg, hold, marks, starving, recent, chain>>

\* Whether a pool, or the ceiling, is waited on.
Waited(p) == p \in marks \/ Ceiling \in marks

\* Whether SLOT_HOLD keeps the slot of r for the session of h; inTime: its
\* step arrived soon enough after the session's previous one finished.
KeepsUnlimited(r, h, inTime) ==
  LET p == PoolOf(HoldSlot[h])
  IN  /\ h \in recent /\ inTime
      /\ p \notin starving
      /\ ~Waited(p) \/ chain[h] < MaxRun
      /\ held[r][PoolField(p)] > 0
      /\ reclaimHeld(Expired)[h] = Nothing
KeepsForever(r, h, inTime) ==
  LET p == PoolOf(HoldSlot[h])
  IN  /\ h \in recent /\ inTime
      /\ p \notin starving
      /\ held[r][PoolField(p)] > 0
      /\ reclaimTotals(Expired)[HeldField(p)] < MaxHeld
      /\ reclaimHeld(Expired)[h] = Nothing
SlotHoldKeeps(r, h, inTime) ==
  LET p  == PoolOf(HoldSlot[h])
      t1 == reclaimTotals(Expired)
  IN  /\ h \in recent /\ inTime
      /\ p \notin starving
      /\ ~Waited(p) \/ chain[h] < MaxRun
      /\ held[r][PoolField(p)] > 0
      /\ t1[HeldField(p)] < MaxHeld
      /\ reclaimHeld(Expired)[h] = Nothing

\* SLOT_HOLD.
SlotHold(r, h, inTime) ==
  LET s    == HoldSlot[h]
      p    == PoolOf(s)
      drop == Recorded(held[r], s)
      keep == SlotHoldKeeps(r, h, inTime)
      h1   == reclaimHeld(Expired)
      t1   == reclaimTotals(Expired)
  IN  /\ recent' = recent \cup {h}
      /\ held' = [o \in Owner |->
           IF o = r
           THEN [f \in Field |-> IF f \in drop THEN h1[r][f] - 1 ELSE h1[r][f]]
           ELSE IF keep /\ o = h
           THEN [f \in Field |-> IF f \in drop \cup {HeldField(p)} THEN 1 ELSE 0]
           ELSE h1[o]]
      /\ totals' = [f \in Field |->
           IF keep THEN (IF f = HeldField(p) THEN t1[f] + 1 ELSE t1[f])
           ELSE IF f \in drop THEN adjust(t1[f], -1) ELSE t1[f]]
      /\ hold' = [i \in HoldId |->
           IF keep /\ i = h THEN "live"
           ELSE IF i \in Expired THEN "absent" ELSE hold[i]]
      /\ chain' = [chain EXCEPT ![h] = IF keep /\ Waited(p) THEN @ + 1 ELSE 0]
      /\ Publish(wake(reclaimPools(Expired) \cup
                      (IF ~keep /\ PoolField(p) \in drop THEN {p} ELSE {})))
      /\ UNCHANGED <<reg, marks, starving>>

\* The fields a replica sends for its permits: perms[s] of slot kind s.
HoldingFields(perms) ==
  [f \in Field |-> Sum([s \in Slot |-> IF f \in Fields(s) THEN perms[s] ELSE 0], NSlots)]

\* SLOT_RECONCILE with the holdings new.
SlotReconcile(r, new) ==
  LET lowered == {p \in Pool : new[PoolField(p)] < held[r][PoolField(p)]}
  IN  IF ~Live(r) THEN UNCHANGED bvars
      ELSE
      /\ held' = [held EXCEPT ![r] = new]
      /\ totals' = [f \in Field |-> adjust(totals[f], new[f] - held[r][f])]
      /\ Publish(wake(lowered))
      /\ UNCHANGED <<reg, hold, marks, starving, recent, chain>>
-----------------------------------------------------------------------------
(* The Redis clock passing a deadline, and a subscriber taking a message.  *)

HeartbeatLapses(r) ==
  /\ Live(r)
  /\ reg' = [reg EXCEPT ![r] = "lapsed"]
  /\ UNCHANGED <<held, totals, hold, marks, starving, recent, chain, inbox>>

HoldLapses(h) ==
  /\ hold[h] = "live"
  /\ hold' = [hold EXCEPT ![h] = "lapsed"]
  /\ UNCHANGED <<reg, held, totals, marks, starving, recent, chain, inbox>>

MarkLapses(m) ==
  /\ m \in marks
  /\ marks' = marks \ {m}
  /\ UNCHANGED <<reg, held, totals, hold, starving, recent, chain, inbox>>

StarvingLapses(p) ==
  /\ p \in starving
  /\ starving' = starving \ {p}
  /\ UNCHANGED <<reg, held, totals, hold, marks, recent, chain, inbox>>

\* A session's last finish is forgotten, with its count of holds in a row.
FinishForgotten(h) ==
  /\ h \in recent
  /\ recent' = recent \ {h}
  /\ chain' = [chain EXCEPT ![h] = 0]
  /\ UNCHANGED <<reg, held, totals, hold, marks, starving, inbox>>

TakeWakeup(r, p) ==
  /\ p \in inbox[r]
  /\ inbox' = [inbox EXCEPT ![r] = @ \ {p}]
  /\ UNCHANGED <<reg, held, totals, hold, marks, starving, recent, chain>>
=============================================================================
