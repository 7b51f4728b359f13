# Verification of the Obleth gateway

TLA+ models of the parts of the Obleth gateway whose correctness depends on
several processes acting on shared state, the TLC configurations that check
them, and TLAPS proofs of the central invariants. `PROJECT.json` lists
components, runs, mutants, hazards and theorems, and maps every definition to
the source lines it models.

## 1. The system

Obleth is an LLM gateway. Clients send requests to one of several **replicas**
(pods) of `obleth-proxy`. A replica authenticates the request, rewrites it,
waits for a **slot** of the model's pool, checks **token budgets**, forwards the
request to a model server, streams the answer back and settles what it used.
Replicas share state through Redis (Lua scripts, each atomic) and configuration
through Postgres.

### 1.1 Inventory

| Component | State | Operations | Talks to | What makes it correct |
|---|---|---|---|---|
| Slot scripts (`obleth-redis` `scripts.rs`, `slots.rs`) | replica set (sorted by heartbeat expiry), a holdings hash per replica and per held slot, a totals hash, wait and starving markers, recent finishes | `REPLICA_HEARTBEAT`, `REPLICA_DEREGISTER`, `SLOT_ACQUIRE`, `SLOT_RELEASE`, `SLOT_HOLD`, `SLOT_RECONCILE` | called by every replica's scheduler and heartbeat task; publishes freed pools | totals equal holdings; nothing is stranded; live replicas are untouched; a freed slot is announced; caps hold |
| `SharedSlots` trait (`obleth-fairshare` `shared.rs`) | per pool, who holds how many | acquire, release, hold, reconcile | implemented by the scripts, used by the scheduler | the scripts do what the scheduler was promised |
| Scheduler, shared side (`obleth-fairshare` `lib.rs`) | mode (alone, shared, fallback), `synced`, `failing`, due and running reconcile, deferred releases, claims in flight, refusals, retry timers | admit, release, set replicas, wake, timer, answers of calls | spawns calls to Redis, which answer by message; heartbeat task tells it the replica count | books agree with the backend when it says so; no waiter forgotten; back to shared mode after failures |
| Scheduler, local fair queue (`lib.rs`, `algorithm.rs`) | queues per tenant and key, served/weight, virtual time, caps, groups | enqueue, dispatch, requeue, release, prune | feeds claims to the shared side | weighted fairness, caps, nobody starves |
| Session affinity (`affinity.rs`) | local holds, jump counts | note, pick, hold, redeem, give up | the fair queue and `SLOT_HOLD` | bounded jumping, holds end |
| Replica heartbeat (`obleth-proxy` `replicas.rs`, `main.rs`) | instance id, timer | first heartbeat before listening, periodic heartbeats, deregistration on drain | scripts and scheduler | a process that ends gives its slots back |
| Token and term budgets (`scripts.rs`, `obleth-redis` `lib.rs`, `proxy.rs`, `completion.rs`) | per-minute bucket of a tenant; committed and reserved term usage of a tenant and of a key; the holds of a request | `RESERVE_WITH_TERM`, `RECONCILE`, `TERM_RECONCILE`, `TERM_USAGE_ADD`; reject, settle, release on drop | each request, at admission and at settlement | caps are not passed on shared headroom; usage is committed exactly; reservations come back |
| Telemetry and write-ahead log (`obleth-telemetry`) | channel, buffer, log segments and their checkpoints, two backoffs, whether the schema is set up | record, flush, insert, spill, replay, commit, quarantine, drain | ClickHouse, the disk | no record lost without a count, none inserted twice, the log is emptied |
| Provisioner | desired and actual deployments | reconcile, launch, cancel | Slurm, Kubernetes | converges |
| Request path: routing, sticky sessions, model health, crash guard, lifecycle, jobs | caches, strikes, health flags | per request and per timer | all of the above | no stale route, drains completely |
| Rewriting (boons), verdicts, guardrails, knowledge, search, speech | per request | text in, text out | helper models | data, not protocol |
| Admin API, configuration, store, UI, tools | Postgres rows | CRUD | Postgres | transactions of the database |

### 1.2 What is hard about it

* Each replica's scheduler is one task handling one message at a time, but its
  Redis calls are separate tasks: they overlap, fail, or time out **after**
  Redis applied them, and their answers arrive in any order, possibly in a
  different mode than the one the call was made in.
* Redis decides that a replica is dead by a deadline; the replica may only be
  late.
* A reconcile replaces what Redis counts for a replica by what the replica
  reports; anything that changes between sending and landing makes it wrong.
* Wakeups (pub/sub) may be lost. Only timers guarantee progress.
* A request holds reservations over awaits at which its client may leave, and
  answers may last longer than the reservation's time to live.
* Budget periods roll while requests are under way.
* A waiter that is picked is charged before its claim is answered; a refusal
  puts it back in a queue that has moved on.
* Fair shares are kept in counters that are made, forgotten and made again as
  tenants come and go.
* The insert that timed out may have been applied, and the log it is then
  spilled to may be cut off by a crash.

The list with source lines, and the property that would show each going wrong,
is `hazards` in `PROJECT.json`.

## 2. Modules

Models, with the modules each extends or instantiates:

| Module | Uses | Checked as | Proved about in |
|---|---|---|---|
| `Sums` | | | `SumsProofs` |
| `SlotBackend`, `SlotService` | `Sums` | `MCSlotService` | `SlotServiceProofs` |
| `SlotLedger`, `SlotContract` | `Sums` | as part of the next two | |
| `SlotRefinement` | `SlotService`, instance of `SlotContract` | `MCSlotRefinement` | `SlotRefinementProofs` |
| `SlotCluster` | `SlotLedger` | `MCSlotCluster` | `SlotClusterProofs` |
| `Apportion` | `Sums` | as part of the next | `ApportionProofs` |
| `FairPool` | `Apportion`, `Sums` | `MCFairPool` | `FairPoolProofs` |
| `TokenBudget` | `Sums` | `MCTokenBudget` | `TokenBudgetProofs` |
| `TelemetryLog` | `Sums` | `MCTelemetryLog` | `TelemetryLogProofs` |

Definitions keep the source's names where TLA+ allows. In each module a
definition that stands directly before another and repeats it with a mistake
(`reclaimKeepsHeld`, `settle_no_dispatch`, `rearmed`...) is a **mutant**: the
specification does not use it. For each property `PROJECT.json` names one such
mistake which, put in place, violates the property.

### SlotBackend, SlotService: the slot scripts

`SlotBackend` has one action per script. The hashes become functions from
fields to counts, with the fields the code uses (all pools, pool, tenant, key,
held slots of a pool): `held` for each owner (a replica or a held slot) and
`totals`. A script's helpers are operators (`adjust`, `wake`, `reclaim...`,
`Expired` for `purge_holds`, `GivenUp` for `free_pool_holds`). Everything a
script does is in its action: `SLOT_ACQUIRE` purges run-out holds, may give up
held slots for a starving caller, redeems the caller's hold, checks ceiling,
pool, tenant and key caps in the code's order and leaves the wait marker.

`SlotService` lets any replica make any call the scheduler can make, and lets
deadlines pass in any order. The Redis clock is abstracted to whether a
deadline has passed (`"live"`, `"lapsed"` but not pruned, `"absent"`).

### SlotLedger, SlotContract, SlotRefinement: what the scheduler relies on

`SlotLedger` has the calls of `SharedSlots` for one pool: who is registered, how
many slots each replica is recorded with, how many are parked for sessions.
`SlotContract` makes a specification of them. Two of its variables are there to
make it exact. `overdue` counts the parked slots whose time ran out, so that a
call frees those and no other (a starving claim gives up the rest, but for the
one it came for). `call` has the last call with its answer: a claim that
overfills the pool can then not pass for a reconcile, which may set any count,
nor a lost parked slot for one that ran out. Every call flips a bit of it, so
that a call is never taken for a step that changes nothing.

`SlotRefinement` adds `call` to `SlotService` as a history variable
(`RecordedSpec`; no script reads it), maps the hashes to the contract and states
that the scripts implement it (`ImplementsLedger`): each call does what the
ledger call of its own name and answer does. Both directions of a claim's answer
are in it: granted only below the cap it carries, refused as full only at the
cap, refused for another limit only with room in the pool. The run's claims
carry one set of caps, by which the pool always refuses first; the refusals for
another limit are in `holds` and in the proof.

### SlotCluster: the replicas' schedulers

One record per replica with the fields of `Scheduler`, `SharedCtl` and `Pool`
that the shared side uses, and the number of its calls at each point of their
way: sent, applied with the answer on its way, lost. An action handles one
message of the scheduler's loop in full, ending as the code's handlers do with
`apply_mode`, `maybe_start_reconcile` and `dispatch_all` (`settle`). The
heartbeat task, late heartbeats, clean stops, crashes and restarts under a new
id are actions too. It runs over the ledger, not the scripts: that is what the
refinement is for.

Abstractions: waiters of one tenant and key are counted (which waiter goes next
belongs to the fair queue); the pool's size and the global ceiling are one
number; session affinity is off. A connection is multiplexed and first-in
first-out, so a call that timed out was applied before it is given up, or
never. The scheduler handles the replica count of a heartbeat in the same step.
A crash loses the calls in flight. Wakeups arrive whenever, or not at all.

### FairPool, Apportion: who gets a free slot

One pool of one replica. `pool` is a record with the fields of `Pool` and
`Affinity`; operators on it are their methods, under their names, and return a
set of pools where the code's answer depends on the order of a hash map or on
the clock. An action is one message of the scheduler's loop, handled to its end:
`Admit` with the redemption of a held slot, the fast path or the queue; `Release`
with `finish_step`, which may hold the slot for the session; `ClaimGranted` and
`ClaimDenied` for `acquire_done`; `ExpireHolds`, `Sweep`, `DropIdlePool`,
`SetModelCaps`, `SetSessionAffinity`, `Wake`. Each ends in `dispatch_all`
where the code does: held slots are served or given up, then requests are taken
until nothing may be. Both algorithms are there, and both modes: where
`SlotCluster` counts waiters and models the backend, `FairPool` has the waiters
and lets the backend answer as it likes.

`Apportion` is `weighted_caps`, the integer split of slots by weight, as the set
of splits the code may return (its ties are broken by hash order).

Abstractions: costs are small numbers and served divided by weight is compared by
cross-multiplication, not in floating point; a request ages, a session cools and
a held slot runs out in steps of their own; which steps of a session follow soon
enough to chain is left open; arrival times are ranks. There is one pool, so the
ceiling never binds before it. Slots are held in local mode only. Weights and
caps do not change while the run lasts. A held slot is known by the finished
request that had it, whose key and session it is kept for. As in the code, slots
are counted in counters of the pool, its tenants and its keys (`in_flight`,
`tenant_in_flight`, `key_in_flight`) beside the permits, claims and holds
themselves; that they agree is a property, not a definition. Several slots given
back in one handler (`release` of a set) are given back at once: in between,
the code changes nothing else but the accounts of a tenant, key or pool that the
last of them leaves idle.

### TelemetryLog: usage records and their log

The flusher task with its three sources (records, ticks, a drain request), the
log's files and ClickHouse. A file is a sequence of lines: a record, the blank
line that ends a batch, a torn end, a line that does not parse. `append` has a
case for each way out: written, at a limit, not opened, written in part. A batch
is received, inserted, spilled, replayed and committed in separate steps; a
crash may come between any two, and inside a write. ClickHouse is external: it
ignores a batch whose token it has seen, for ever, and an insert may be applied
although the flusher sees it fail.

Abstractions: sizes and offsets count lines, not bytes, so the limits on the
bytes of a batch and of a read (a batch is 500 records at most) are left out, as
are the oversized records they exist for (a batch refused for its bytes ends as one
whose file cannot be opened does, `open_failed`); a checkpoint is part of its file's
state (it is written by rename and named after a file whose name never comes
again); the file left by an earlier version may have any lines, broken ones
included, but none of the records to come; a segment's age is the clock's choice; moving several bad lines aside is
one step. The span channel has no log and is not modelled.

### TokenBudget: budgets

The four scripts and the request that calls them. A request goes through
`Path`: reserve at the key, reserve at the tenant (term gate, bucket and
reservation in one script), serving, then the bucket's reconcile and the
commits to the tenant's and the key's counters, leaving out what the
configuration does not have. Each reserve is two steps, the script and the
answer, so that the client may leave, the call fail or the process die between
them. `rejected` is what becomes of a `PendingTermHold`: released by a task of
its own, whether a rejection or `Drop` started it. `held` is what the request
believes it reserved; `counted` records what Redis counts for it.

Abstractions: cost in dollars is gated, reserved and committed beside tokens
and alike, so tokens stand for both; one tenant with one key, whose periods
roll together; all pods share one clock, read before the call as in
`reserve_inner`; a call is applied or given up within a tick (the connection's
response timeout). Helper usage committed by boons is left out.

## 3. Runs

| Run | Instance | Shows |
|---|---|---|
| `holds` | 2 replicas, 2 sessions of one key, at most 1 held slot, pool of 2; claims with and without ceiling, tenant and key caps of 1 | totals stay the sum of holdings, nothing stranded, live holdings untouched, freed slots announced, held slots within their limit, what lapsed comes free |
| `refinement` | 2 replicas, 1 session, pool of 1, reports up to 2 | the scripts implement the contract, call by call and answer by answer |
| `faults` | 2 replicas with up to 2 and 1 requests, pool of 2, 1 fault | books exact when synced, reconciles undisturbed, nobody stuck, no idle slot beside a waiter |
| `recovery` | 1 slot, no split on fallback; either 2 replicas contending, which stop and restart, or a busy replica and a peer with 1 fault or crash besides | the books over process ends; every waiter served without relying on wakeups; shared mode reached and kept; slots of the dead come free |
| `whole_pool` | 2 replicas for 1 slot, no fault | a divergence, see 5 |
| `fair` | 5 requests: a session of 3 steps and another request of its key, with a cap of 2, and a request of cost 2 of a tenant of another group with a cap of 1; pool of 1 or 2; both algorithms and modes; affinity off or 1 jump; 2 claims out; 1 event | slots accounted for, none idle, queues in order, service counters are what was granted, nothing gained by leaving, newcomers served, passes bounded; and `weighted_caps` on all weights from {0, 2, 5} for up to 4 items and 7 slots, and on 90, 87, 1, 1, 1 and 6 slots |
| `joiner` | a backlog of 6 requests of a tenant of weight 2, and a newcomer of weight 1; 1 slot | a defect, see 5 |
| `jumps` | a session of 3 steps among 2 other requests of its key, 2 slots, 2 claims out, 1 jump | a divergence, see 5 |
| `budget` | 2 requests, key cap 2, tenant cap 3, bucket of 1 refilled by 2 a tick, estimates 1 and 2, usage 2, 1 fault, pods that fail open and closed, 2 periods, 2 ticks, time to live 2 | reservations match what is in flight, commits exact over both periods, bucket conserved, rejections return the key's reservation, no two requests on the same headroom |
| `lapse` | 2 requests at a time, for ever, 2 periods, time to live 2, 1 fault | orphaned reservations lapse however busy the scope |
| `period_roll` | 2 requests, 2 periods, no fault | a defect, see 5 |
| `wal` | 3 records, channel of 2, batches of 2, segments of 5 lines, log of 8 lines and 2 segments, a left-over file with a bad line; 2 failing calls, 1 crash, 1 shutdown | the log stays readable, every record accounted for, inserted once, kept until inserted, out of memory (written or counted as dropped) before a drain is acknowledged, replayed in the end |

**Why the bounds are enough for the cases of interest.** Two replicas are the
smallest fleet in which one reclaims the other, claims race and replica counts
differ; the scripts treat all peers alike. Counts up to 2 or 3 (`MaxCount`
bounds what one owner is recorded with, by refusing calls beyond it) let a pool
be empty, full, and overfull by a reconcile. One fault at any point already
separates the books from reality; recovery is what is under test. Two requests
suffice for a stale settlement releasing another's reservation, for the race on
headroom and for the roll-back of a period. Estimates within and above the
bucket's size, and usage equal to and above the estimate, reach the floor, the
debt and the oversize rule; a bucket refilled faster than its time to live is
what the code has (a minute against ten). `Reuse` (in `lapse`) makes traffic endless, without
which a refreshed time to live would go unnoticed. A session's steps
are interchangeable in `fair` and a tenant's backlog in `joiner`, so symmetry is
used there; runs with liveness use none. In `budget` requests are numbers, which
TLC cannot permute: the constraint `ArriveInOrder` does it, keeping only the
behaviours in which they arrive in the order of their numbers. Every behaviour
is one of these with requests renamed, and no property tells them apart (the run
passes without the constraint too, over 4.4 million states).

In `fair` an event is a refused claim, a caller that leaves while it waits, a
request that ages, a session that cools or a change of settings (`MaxEvents`).
Five requests fill a pool of two and leave three waiting, enough for two claims
out, one refused and put back behind or before another, a session's step held,
chained and redeemed, and a tenant that goes quiet and returns while others
wait. The same instance was also explored once with two events (1.6 million
states), and one with six requests and two keys of a tenant (0.95 million); both
pass, and are too long to keep. In `fair` each tenant has one key, so `pick_key`
has one candidate there.

In `wal` three records make up to three batches: enough to fill the channel,
reach the log's size and number of segments, and have batches side by side in a
segment. Two failing calls allow an insert that is applied without an answer
followed by a spill that breaks off, or by a commit that fails.

Deadlock is checked in the slot runs and in `wal`. It is not in `budget`,
`period_roll` and the `FairPool` runs, where each request comes once, so the run
ends.

**Fairness.** `SlotService`: replica 1 keeps heartbeating (its task is a loop on
an interval); nothing is assumed of the others. `SlotCluster`: requests end, calls are
answered or time out (`bounded` wraps each in a timeout), armed timers fire,
heartbeats that have something to tell happen, keys of dead processes lapse.
Faults are not fair, and finitely many. The fairness conditions spell out what
enables each step, because TLC needs minutes to compute ENABLED for these
actions. `WaitersServed` moreover supposes that requests stop arriving and
replicas stop stopping: an endless series of restarting peers can put off a
waiter by a reconcile each. `TokenBudget`: only that time passes.
`TelemetryLog`: the flusher task is scheduled, its two intervals tick and its
backoffs end; `tokio::select!` picks among ready branches at random, so none is
left out for ever. Weak fairness suffices since records stop coming. `FairPool`
has no fairness: every message is handled in one step that leaves nothing to
wait for (`NoIdleSlot`), and what bounds a wait are the counts of passes and of
picks (`PassesBounded`, `NewcomersServed`).

**What the history variables are for.** `exact` (SlotCluster) says a peer has
not reclaimed the replica since its last reconcile: a late heartbeat really
costs a replica its bookings until the next one. `disturbed` (TokenBudget)
says a reserved hash went with reservations in it, which the code accepts as
brief over-admission. `deleted` is the usage that rolling a period deleted, so
that `CommitsExact` speaks of every period, not of the present one only. `slack` counts the three ways in which the bucket gains
what was not paid for: debt forgiven at the floor, an interval refilled twice
when a late call moves `ts` back, and the estimate refunded at settlement to a
request that was let through without a reservation. `excused` marks
reservations parted from their request by a fault or by a client that left
during that very call; these do exist, and `OrphansLapse` bounds them.
`granted`, `left`, `joined`, `over` and `refused` (FairPool) record what a tenant
was granted since its entry was made, where it was when it was forgotten, and how
often others were picked before a newcomer. `refused` limits two properties:
after a refusal virtual time may go back, and passes counted for a claim that
others overtook may exceed the bound. `torn` (TelemetryLog) marks batches of
which only a part got into the log: see 5.

## 4. Proofs

Each theorem holds for every value of the constants that satisfies the named
assumptions: any number of replicas, sessions, requests, records, slots, periods
and faults. The properties stated are those the runs check on small instances.
Proofs are one lemma per operation, with constant-level lemmas about the
model's operators below them.

### Sums (`SumsProofs`)

The recursive function is well defined; sums are additive, monotone, change by
what one index changes (`SumChange`), and grow or shrink with the range
(`SumMore`, `SumLess`). They are
proved by an induction on sets of naturals (`NatSetInduction`, from the least
element of a set), which needs no operator parameter.

### The slot scripts (`SlotServiceProofs`)

| Theorem | Statement | Argument |
|---|---|---|
| `TypeCorrect` | `Spec => []TypeOK` | inductive as it stands; one lemma per script |
| `TotalsNeverDrift` | `Spec => []TotalsAreSums` | inductive with `TypeOK` |
| `LiveHoldingsStay` | `Spec => LiveHoldingsUntouched` | each script changes only the caller's, lapsed replicas' and held slots' holdings |
| `NoSlotLeaks` | `Spec => []NothingLeaks` | inductive with `TypeOK`: an owner leaves its set only together with its holdings, and only a registered owner gains any |
| `HeldSlotsStayBounded` | `Spec => []HeldSlotsBounded` | inductive with the shape of a held slot (`HeldShape`: it is exactly one slot of its pool) and `HeldWithin`; the count compared with the limit is then the number of held slots |
| `FreedSlotsAnnounced` | `Spec => FreedSlotAnnounced` | every script that lowers a pool's total ends in a `wake` of that pool, also where it does so through a reclaim, a purge or a give-up |

`TotalsAreSums` is the one with substance. The scripts change `totals` and
`held` by separate commands, and `adjust` clamps at zero, so a total below the
sum would be hidden and never repaired. The invariant makes the clamp
unreachable: what a script takes off a total is at most what its owner holds,
which is at most the sum (`TermAtMostSum`). Each script is a change at one
owner (`SumOfChange`), a move between two (`SumOfMove`: a slot becomes held or
is redeemed), or a set of owners emptied at once (`ReclaimSums`: reclaim,
purge, give-up, whose combined amount `HeldBy` is again a sum).

### The scripts implement the ledger (`SlotRefinementProofs`)

`ScriptsImplementLedger` proves `RecordedSpec => ImplementsLedger`, for any pool.
The history variable does not restrict the scripts (`RecordedIsSpec`:
`RecordedSpec => Spec`), so what `SlotServiceProofs` proves of `Spec` is there to
use. The mapping takes a replica's record to its count in the pool's field, and
the parked and the overdue slots to sums over held slots, so the argument needs
`Sound`: types, `TotalsAreSums` (the scripts decide by `totals`, the contract by
the records), `NothingLeaks` (a replica that is not registered has no record) and
`HeldShape` (a held slot counts once, in its own pool). What is left parked is
exact: purging takes off what is overdue (`PurgeFrees`), and a starving claim
leaves the slot it came for or nothing (`ClaimLeaves`). `AnswerTells` says what
each answer of `SLOT_ACQUIRE` means for the count. Each script then has a lemma
that it is its ledger call (`HeartbeatRefines` to `ReportRefines`), and
`StepRefines` puts them together. The contract's cap is the largest a call
carries (`LargestCapAssumption`); a claim is held to the cap it carries.

### The fleet (`SlotClusterProofs`)

| Theorem | Statement |
|---|---|
| `FleetInvariant` | `Spec => []FleetInv` |
| `ClusterTyped`, `SyncedExact`, `ReconcileAlone`, `NoneStuck`, `SlotsUsed` | `TypeOK`, `SyncedIsExact`, `ReconcileUndisturbed`, `NobodyStuck`, `NoIdleSlot` always hold |
| `FleetWithinCap` | `Spec => []SharedWithinCap` |

`SyncedIsExact` is not inductive: whether a replica's books are right after the
next answer depends on the calls in flight and on where a reconcile is.
`FleetInv` says that every scheduler is `Settled` between messages (`Local`: what
each mode and each stage of a reconcile allows to be in flight; `Started`: a due
reconcile runs or waits for calls; `Busy`: a waiter is passed over for a reason)
and that the books of a replica that was not reclaimed (`exact`) agree with it
when it is synced, and with the count its reconcile sent when that was applied
(`Books`). One lemma shows that the end of every handler (`settle`: `apply_mode`,
`maybe_start_reconcile`, `dispatch_all`) establishes `Settled` from a weaker
condition, so each handler's lemma ends there. `FleetWithinCap` adds `Ended`: a
process that ended has nothing in flight.

### Budgets (`TokenBudgetProofs`)

| Theorem | Statement |
|---|---|
| `BudgetInvariant` | `Spec => []Inv` |
| `BudgetTyped`, `ReservedMatches`, `NoReservationStranded` | `TypeOK`, `ReservedMatchesInFlight`, `ReservationsReturned` always hold |
| `AdmissionUnderCap` | `Spec => AdmittedUnderCap` |
| `CommitsAreExact` | `~Reuse => (Spec => []CommitsExact)` |
| `BucketIsConserved` | `~Reuse => (Spec => []BucketConserves)` |

`Inv` says of each request where on its path it may have which reservation,
answer, charge and commit (`OnPath`, `OnTime`), that it knows of every
reservation counted for it unless excused (`Owns`), and that a reserved hash
counts reservations of one period only (`OnePeriod`); the last makes the
period check of a release harmless. For the bucket, `Balanced` bounds the tokens
from both sides while the hash exists, and says that one that expires has been
left alone for long enough to have refilled, so that no debt is forgotten. That
rests on `Rate * (Ttl - 1) >= 2 * Capacity` of `BudgetAssumption`: a bucket refills
in a minute from empty and lives for ten (`scripts.rs:53`, `:167`, `:216`). The two
theorems about sums over all requests ever made suppose that a name stands for
one request (`~Reuse`): with names used again the history of the earlier ones is
gone from the state.

### Telemetry (`TelemetryLogProofs`)

| Theorem | Statement |
|---|---|
| `LogInvariant` | `Spec => []Inv` |
| `LogReadable`, `AllAccounted`, `NoneTwice`, `AllDrained` | `FilesWellFormed`, `RecordsAccounted`, `InsertedOnce`, `DrainLeavesNothing` always hold |
| `NoneLeaveEarly` | `Spec => SpillKept` |

`InsertedOnce` needs the most. That a record is not inserted twice depends on a
batch being read back from the log as it was written, so that it has the same
token; the invariant is `OnceInv`: a record of the log that has a row lies in a
batch of `tokens` that starts where `read_batch` will start to read one and ends
where it will stop (`Covers`, `BatchAt`), or is marked `torn`. Two batches of a
file that share a line are the same (`SameBatch`), so what replay reads is that
batch. An append keeps this because the file appended to ends with a batch's end
(`Readable`), a commit because it moves the checkpoint to the end of a batch, and a
spill that breaks off by marking its batch `torn`. Beside it stand: memory's
places share no record (`MemoryInv`), the log and memory share none, and what
replay has in hand is what the first file holds (`LogInv`); a token's records have
rows (`TokenInv`); the limits (`Bounded`); what a drain owes (`DrainInv`).

### The split of slots (`ApportionProofs`)

`SplitsByWeight` proves `Splits` of every split that `weighted_caps` may return, for
any number of slots, any items and any weights; the run evaluates it for small
ones. Whole shares never exceed the slots, and what they leave is less than one
slot for each item, because remainders are below the total weight (`WholeTotal`:
the sum of `max * weight` is the sum of shares times the total weight plus the sum
of remainders). If raises to one make the shares too many, there is always an
item above one to pay while they are (`HasPayer`), and the payments, by induction on
their number (`AllPaid`), take no item below one and leave none two slots below a
lighter one. Otherwise there are enough items for
the slots left, and the ones with the largest remainders get one each (`TopItems`,
`CapsAre`). The set of splits is never empty (`CapsExist`), without which the
hierarchical pick could find nobody.

### The fair queue (`FairPoolProofs`)

| Theorem | Statement |
|---|---|
| `Invariant` | `Spec => []Inv` |
| `SlotsHold`, `IdleHolds`, `OrderHolds`, `ServiceHolds`, `TimesHold`, `PassesHold`, `SplitsHold` | `SlotsAccounted`, `NoIdleSlot`, `QueuesInOrder`, `ServiceMatchesGrants`, `NoGainByLeaving`, `PassesBounded`, `SlotsSplitByWeight` always hold |
| `NewcomersHold` | `Spec => [](EqualWeights => NewcomersServed)` |

None of the properties is inductive. `Inv` is the conjunction of:

* `Sound`, in six parts: the pool's fields (`Shape`); every request is in one
  place at most and in its own key's queue (`Places`); waiters, the claimed ones
  included, are numbered apart and each queue is in that order (`Marks`; a refused
  claim is put back by its number, so claims must keep theirs); what the modes
  exclude (`Modal`); the counters are the holders (`Slots`, with the caps); and
  served less base is granted plus claimed for each tenant, which has an account
  as long as it waits or has a claim out (`Accounts`; otherwise a refund would
  find nothing to take from, or take twice).
* `Times`: while no claim was refused, nobody who waits is behind virtual time,
  and nobody was forgotten ahead of it. This is why `forget_if_quiet` may forget.
* `Passes`: who came earlier was passed at least as often, so the head of a queue
  stands for all; and a waiter's passes, together with the claims out that have
  jumped it and will be counted when they are granted, stay within the bound.
* `Joins`: for equal weights, in local mode with the weighted algorithm, a
  newcomer is at virtual time, and who was picked before it is past that.
* `Busy`: no slot the pool may take has a request to go to.

A handler is a composition of small steps. For each step a predicate on the pool
before and after says what it changes (`Charged`, `Sent`, `Took`, `Released`...), a
lemma `...Does` that the operator does it, and lemmas `...Sound`, `...Times`,
`...Passes`, `...Joins` that it keeps each part of the invariant. Between two steps
a request may have a slot or a charge that the books do not show yet:
`Sound(p, F, O, C)` has these sets (`O`, `C`) as parameters, empty between messages.
`dispatch_all` is proved by inductions over its turns and over the held slots. That
its turns are enough, so that it ends in a pool with nothing to take, is a count:
each turn that is not the last shortens the queues (`TurnsBusy`).

`NewcomersServed` is proved for tenants of equal weight, since for others it is
false (`joiner`, see 5).

### Assumptions

`SizesAssumption`, `SlotAssumption`, `CapsAssumption` (`SlotBackend`),
`MaxCountAssumption` (`SlotService`), `PoolAssumption`, `LargestCapAssumption`
(`SlotRefinement`), `LedgerAssumption` (`SlotLedger`), `ClusterAssumption`
(`SlotCluster`), `PoolAssumption` (`FairPool`: among others that requests are
finitely many, weights and costs are positive, and a session belongs to one key),
`BudgetAssumption` (`TokenBudget`) and `LogAssumption` (`TelemetryLog`): shapes and signs of the constants; of the records, that they are
distinct, and that the file left by an earlier version holds each once and is
broken at its end at most. TLC evaluates each on every run of its module.

### Only model-checked

All liveness (`LapsedHoldingsFreed`, `WaitersServed`, `SharedAgain`,
`CrashedSlotsFreed`, `OrphansLapse`, `SpillReplayed`): fairness and ENABLED are out
of the prover's reach. And `NewcomersServed` for tenants of unequal weight, where
`fair` has none and `joiner` shows that it fails. Every other property of a
passing run is stated by a theorem.

## 5. Findings

**The fleet may exceed the pool** (`whole_pool`). The docs state without
exception that "the fleet never exceeds it" (`obleth-fairshare/src/lib.rs:24`,
`shared.rs:9`). A replica that believes it is alone, or whose boot reconcile
reached Redis before its first heartbeat (answer "not registered", hence
fallback), admits against the whole pool without recording. On entering shared
mode it reports its permits, and none is taken back. `SharedWithinCap` is what
does hold: while the books are within the cap and every replica is in shared
mode and on the books, so is the fleet.

**A late request rolls the budget period back** (`period_roll`).
`RESERVE_WITH_TERM` (`scripts.rs:115`) deletes the committed counters whenever
the stored period differs from the caller's, also when the caller's is older.
The period is computed before the reserve calls are awaited, so a request that
straddles the month's end deletes what requests of the new month have already
committed. The window is short there; in `TERM_USAGE_ADD` (`scripts.rs:256`)
it is as long as an answer, for requests that were let through while Redis
failed. `TERM_RECONCILE`'s comment names the mistake and avoids it.

**A newcomer waits for a heavier tenant's history** (`joiner`). A tenant that
starts to wait is placed at virtual time (`lib.rs:1348`), the least `served` of
the waiting tenants (`advance_virtual_time`, `lib.rs:1713`), while picks compare
`served` divided by weight. Beside a backlogged tenant of weight *w* it is
placed *w* times as far ahead as that tenant is, and is passed over until the
tenant has caught up: with weights 2 and 1, three times where two turns are its
due, and more the longer the backlog has lasted. The README
(`src/README.md:25`) promises a split "by weight, so no tenant starves another".
For groups the code has corrected the same effect (`served_base`).
`NewcomersServed` holds for equal weights (`fair`).

**Concurrent claims jump the same request** (`jumps`). `Affinity::pick`
(`affinity.rs:157`) argues that "no request is passed more than `max_jumps`
times". In shared mode the pick is made when the claim is sent and the pass is
counted when it is granted (`lib.rs:1306`), so each claim that is out picks by
the old count. `PassesBounded` is what holds: at most `max_jumps` plus the other
claims a pool may have out.

Noted while modelling, not stated as runs: an insert that timed out but was
applied, followed by a spill that breaks off, is replayed as a shorter batch
with another token, so its records may be inserted twice, although `lib.rs:162`
and `wal.rs:4` of the telemetry crate rely on the same token (`InsertedOnce`
leaves such batches out); records counted as dropped may still be replayed from
such a spill. `weighted_caps` leaves an item raised to one slot its remainder,
so weights 1, 2, 2 and four slots give 2, 1, 1 (`Splits` spares raised items).
Proving `Splits` showed that paying for raises may also turn the order of two items
that were not raised: of the largest, the smallest remainder pays each time, so
with weights 90, 87, 1, 1, 1 and six slots the heaviest is left with one slot
and the next with two. It is never more than one slot. No doc promises that order.
After a refusal virtual time may go back.

Also: a client that leaves while a reserve
call is awaited leaves its reservation to the time to live, though
`proxy.rs:2224` says each is settled exactly once; a request let through while
Redis failed is refunded by the bucket what it never took (`proxy.rs:4767`).
Both are visible in the model (`excused`, `slack`).

## 6. Not modelled, and the plan

Within the modelled parts: several pools under one ceiling and the round robin
between them, changes of a tenant's weight, group or caps while it waits, the
scheduler's cluster-wide held slots (the scripts' side is in `SlotBackend`),
helper usage committed by boons, telemetry's spans.

Next, in this order:

1. A composition of `FairPool` with `SlotLedger` for two pools under a ceiling.
2. The crash guard's strikes, lifecycle and drain, background jobs.
3. The provisioner's reconcile loop, sticky routing.

Left out for good, because there is no protocol in it: request rewriting,
guardrails, verdicts, knowledge, search and speech (transformations of one
request's data); the admin API, store, configuration and UI (validation, SQL
and database transactions); tokenizer, compressor and load generators; dashboard
views (read only). These are most of the repository: of its 138,000 lines of
implementation the admin API, the store and the configuration types are 28,000,
request and response translation most of the proxy's, and unit tests kept in the
same files a large part of all of them. The lines that decide who gets a slot, what
is charged and what is kept are the ones mapped, so the mapped share of all
lines stays small; a larger one would mean modelling data conversions as if they
were behaviour.
