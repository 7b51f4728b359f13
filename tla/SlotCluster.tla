----------------------------- MODULE SlotCluster -----------------------------
(***************************************************************************)
(* The gateway replicas' schedulers sharing one pool of slots: the         *)
(* shared-slot side of obleth-fairshare's Scheduler, one per replica, over *)
(* the slot ledger.  Each scheduler is a single task that handles one      *)
(* message at a time; its backend calls run as tasks of their own and      *)
(* answer by message, in any order; a call may fail or time out before or  *)
(* after the backend applied it.                                           *)
(*                                                                         *)
(* Which waiter goes next is the local fair queue's business; here waiters *)
(* of one tenant and key are counted.  The pool's size and the global      *)
(* ceiling are one number, Cap.  Session affinity is off.                  *)
(*                                                                         *)
(* As in SlotBackend, a definition that stands before the one it repeats   *)
(* with a mistake (apply_mode_blocked, ...) is a mutant.                   *)
(***************************************************************************)
EXTENDS SlotLedger

CONSTANTS
  MaxPending,  \* max_pending_per_pool: claims outstanding for the pool
  Split,       \* split_on_fallback
  Scenes,      \* bounds: load, the requests and calls each replica has at a time, and
               \* faults, the calls and replies lost, late heartbeats and crashes
  Ending       \* bound: whether processes end and new ones start

ASSUME ClusterAssumption ==
  /\ MaxPending \in Nat \ {0}
  /\ Split \in BOOLEAN
  /\ \A s \in Scenes : s.load \in [Replica -> Nat] /\ s.faults \in Nat
  /\ Ending \in BOOLEAN

VARIABLES
  up,      \* replicas whose process runs
  sched,   \* each scheduler, with its calls in flight
  exact,   \* history: not reclaimed by a peer since its last reconcile
  faults,  \* faults that may still happen
  scene    \* the bounds of this behaviour

cvars == <<up, sched, exact, faults, scene>>
vars == <<lvars, cvars>>
-----------------------------------------------------------------------------
(* One scheduler's state.                                                  *)

\* The fields of Scheduler, SharedCtl and Pool that matter here, and the calls
\* in flight: claims sent, their answers on the way (granted, denied, refused:
\* not registered), releases sent and answered, and the reconcile.  open: the
\* listeners are, after the first heartbeat call.
Booted ==
  [open |-> FALSE, replicas |-> 1, synced |-> FALSE, failing |-> FALSE, want |-> FALSE,
   rec |-> "sent", quiesced |-> FALSE, snap |-> 0, moved |-> FALSE,
   deferred |-> 0, permits |-> 0, waiting |-> 0,
   claims |-> 0, granted |-> 0, denied |-> 0, refused |-> 0,
   releases |-> 0, released |-> 0,
   blocked |-> FALSE, probing |-> FALSE, retry |-> FALSE]

Least(a, b) == IF a <= b THEN a ELSE b

pending(s) == s.claims + s.granted + s.denied + s.refused
ops(s) == pending(s) + s.releases + s.released
in_flight(s) == s.permits + pending(s)

wanted_mode(s) ==
  IF s.replicas <= 1 THEN "local" ELSE IF s.synced THEN "shared" ELSE "fallback"

\* ceil(total / replicas), at least 1.
replica_share(total, replicas) ==
  LET share == (total + replicas - 1) \div replicas
  IN  IF share < 1 THEN 1 ELSE share

\* The pool's size as this replica enforces it.
limit(s) == IF wanted_mode(s) = "fallback" /\ Split
            THEN replica_share(Cap, s.replicas) ELSE Cap

\* Refusals mean nothing outside shared mode.
apply_mode_blocked(old, new) ==
  IF wanted_mode(old) = "shared" /\ wanted_mode(new) # "shared"
  THEN [new EXCEPT !.probing = FALSE, !.retry = FALSE]
  ELSE new
apply_mode(old, new) ==
  IF wanted_mode(old) = "shared" /\ wanted_mode(new) # "shared"
  THEN [new EXCEPT !.blocked = FALSE, !.probing = FALSE, !.retry = FALSE]
  ELSE new

quiesced_running(s) == s.rec # "none" /\ s.quiesced

quiescing_until_sent(s) == s.want /\ s.replicas > 1 /\ ~s.failing
quiescing(s) == (s.want /\ s.replicas > 1 /\ ~s.failing) \/ quiesced_running(s)

\* A local grant or release the backend does not see; it only matters to a
\* reconcile that runs meanwhile.
note_nothing(s) == s
note_unrecorded(s) == [s EXCEPT !.moved = s.rec # "none"]

\* The reconcile is over.
recd(s) == [s EXCEPT !.rec = "none", !.quiesced = FALSE, !.snap = 0, !.moved = FALSE]

\* Claims that may be outstanding: one after a refusal.
max_pending(s) == IF s.probing THEN 1 ELSE MaxPending

\* dispatch_all and dispatch_shared: how many waiters go on.
dispatchable(s) ==
  LET room == limit(s) - in_flight(s)
      n    == IF wanted_mode(s) = "shared"
              THEN IF s.blocked THEN 0 ELSE Least(room, max_pending(s) - pending(s))
              ELSE room
  IN  IF quiescing(s) \/ n <= 0 THEN 0 ELSE Least(s.waiting, n)

dispatch_twice(s) ==
  LET n == dispatchable(s)
  IN  IF wanted_mode(s) = "shared" THEN [s EXCEPT !.claims = @ + n]
      ELSE [s EXCEPT !.permits = @ + n]
dispatch_all(s) ==
  LET n == dispatchable(s)
      t == [s EXCEPT !.waiting = @ - n]
  IN  IF n = 0 THEN s
      ELSE IF wanted_mode(s) = "shared" THEN [t EXCEPT !.claims = @ + n]
      ELSE note_unrecorded([t EXCEPT !.permits = @ + n])

\* A due reconcile starts once nothing else is in flight.
start_unquiesced(s) ==
  IF s.want /\ s.rec = "none" /\ ops(s) = 0
  THEN [s EXCEPT !.want = FALSE, !.rec = "sent", !.quiesced = FALSE,
                 !.snap = s.permits, !.moved = FALSE]
  ELSE s
maybe_start_reconcile(s) ==
  IF s.want /\ s.rec = "none" /\ ops(s) = 0
  THEN [s EXCEPT !.want = FALSE, !.rec = "sent",
                 !.quiesced = s.replicas > 1 /\ ~s.failing,
                 !.snap = s.permits, !.moved = FALSE]
  ELSE s

\* How the handlers of backend answers, timers and replica counts end.
settle_no_dispatch(s) == maybe_start_reconcile(s)
settle(s) == dispatch_all(maybe_start_reconcile(s))

fail_still_synced(s) ==
  LET t == [s EXCEPT !.failing = TRUE, !.deferred = 0]
  IN  IF s.deferred > 0 THEN note_unrecorded(t) ELSE t
shared_failed(s) ==
  LET t == [s EXCEPT !.failing = TRUE, !.synced = FALSE, !.deferred = 0]
  IN  apply_mode(s, IF s.deferred > 0 THEN note_unrecorded(t) ELSE t)

release_slot(s) ==
  LET t == [s EXCEPT !.permits = @ - 1]
  IN  IF quiesced_running(s) THEN [t EXCEPT !.deferred = @ + 1]
      ELSE IF wanted_mode(s) = "shared" THEN [t EXCEPT !.releases = @ + 1]
      ELSE note_unrecorded(t)

reconcile_synced(s) ==
  LET multi == s.replicas > 1
      good  == multi /\ (s.quiesced \/ ~s.moved)
      t     == apply_mode(s, [recd(s) EXCEPT !.failing = FALSE,
                                             !.synced = @ \/ good,
                                             !.want = @ \/ (multi /\ ~good)])
  IN  [t EXCEPT !.releases = @ + (IF t.synced /\ multi THEN s.deferred ELSE 0),
                !.deferred = 0, !.blocked = FALSE]
-----------------------------------------------------------------------------
(* The messages a scheduler handles.                                       *)

\* The scheduler of r is in state s after its message.
Becomes(r, s) ==
  /\ sched' = [sched EXCEPT ![r] = s]
  /\ UNCHANGED <<up, exact, faults, lvars>>

\* Ctl::Admit.
Admit(r) ==
  LET s == sched[r]
  IN  /\ r \in up /\ s.open
      /\ s.permits + s.deferred + s.waiting + ops(s) < scene.load[r]
      /\ Becomes(r, dispatch_all([s EXCEPT !.waiting = @ + 1]))

\* Ctl::Release, when a permit is dropped: its request ended, or nobody took it.
Finish(r) ==
  /\ r \in up /\ sched[r].permits > 0
  /\ Becomes(r, dispatch_all(release_slot(sched[r])))

\* A waiter whose caller has gone is dropped by a dispatch or the sweep.
Abandon(r) ==
  /\ r \in up /\ sched[r].waiting > 0
  /\ Becomes(r, dispatch_all([sched[r] EXCEPT !.waiting = @ - 1]))

\* Ctl::SetReplicas with n live replicas.
set_replicas_synced(s, n) ==
  LET t == [s EXCEPT !.replicas = n, !.want = @ \/ (n > 1 /\ ~s.synced)]
  IN  IF n = s.replicas THEN s ELSE settle(apply_mode(s, t))
set_replicas(s, n) ==
  LET synced == s.synced /\ (s.replicas > 1 <=> n > 1)
      t      == [s EXCEPT !.replicas = n, !.synced = synced,
                          !.want = @ \/ (n > 1 /\ ~synced)]
  IN  IF n = s.replicas THEN s ELSE settle(apply_mode(s, t))

\* shared_timer: the retry of a refused pool, the next reconcile, or both.
Timer(r, retry, due) ==
  LET s == sched[r]
  IN  /\ r \in up
      /\ retry \/ due
      /\ retry => s.retry
      /\ due => s.rec = "none" /\ ~s.want
      /\ Becomes(r, settle([s EXCEPT !.retry = @ /\ ~retry,
                                     !.blocked = @ /\ ~retry,
                                     !.want = @ \/ due]))

\* Ctl::Wake.  Published messages are best effort and any release publishes:
\* a wakeup may come at any time, or never.
Wake(r) ==
  /\ r \in up /\ wanted_mode(sched[r]) = "shared"
  /\ Becomes(r, dispatch_all([sched[r] EXCEPT !.blocked = FALSE]))

\* Ctl::AcquireDone, with each answer.
AcquireGranted(r) ==
  LET s == sched[r]
  IN  /\ r \in up /\ s.granted > 0
      /\ Becomes(r, settle(LET t == [s EXCEPT !.granted = @ - 1, !.permits = @ + 1,
                                            !.probing = FALSE]
                           IN  IF wanted_mode(s) = "shared" THEN t
                               ELSE note_unrecorded(t)))

AcquireDenied(r) ==
  LET s == sched[r]
  IN  /\ r \in up /\ s.denied > 0
      /\ Becomes(r, settle([s EXCEPT !.denied = @ - 1, !.waiting = @ + 1,
                                     !.probing = TRUE, !.blocked = TRUE,
                                     !.retry = TRUE]))

AcquireNotRegistered(r) ==
  LET s == sched[r]
  IN  /\ r \in up /\ s.refused > 0
      /\ Becomes(r, settle(shared_failed([s EXCEPT !.refused = @ - 1,
                                                   !.waiting = @ + 1])))

\* Ctl::ReleaseDone.
ReleaseDone(r) ==
  LET s == sched[r]
  IN  /\ r \in up /\ s.released > 0
      /\ Becomes(r, settle([s EXCEPT !.released = @ - 1,
                                     !.blocked = @ /\ wanted_mode(s) # "shared"]))

\* Ctl::ReconcileDone.
ReconcileDone(r) ==
  LET s == sched[r]
  IN  /\ r \in up
      /\ \/ /\ s.rec = "synced"
            /\ Becomes(r, settle(reconcile_synced(s)))
         \/ /\ s.rec = "unregistered"
            /\ Becomes(r, settle(shared_failed(recd(s))))

\* A fault happens.
Fault == faults > 0 /\ faults' = faults - 1

\* A call of r errs or times out: it, or the answer on its way, is lost.
Lost(r, s) ==
  /\ r \in up /\ Fault
  /\ sched' = [sched EXCEPT ![r] = settle(shared_failed(s))]
  /\ UNCHANGED <<up, exact, lvars>>

CallFails(r) ==
  LET s == sched[r]
  IN  \/ s.claims > 0 /\ Lost(r, [s EXCEPT !.claims = @ - 1, !.waiting = @ + 1])
      \/ s.granted > 0 /\ Lost(r, [s EXCEPT !.granted = @ - 1, !.waiting = @ + 1])
      \/ s.releases > 0 /\ Lost(r, [s EXCEPT !.releases = @ - 1])
      \/ s.released > 0 /\ Lost(r, [s EXCEPT !.released = @ - 1])
      \/ s.rec \in {"sent", "synced"} /\ Lost(r, recd(s))
-----------------------------------------------------------------------------
(* The backend applying calls.                                             *)

\* The backend answers one call of r, whose scheduler is then in state s.
Answered(r, s) ==
  /\ sched' = [sched EXCEPT ![r] = s]
  /\ UNCHANGED <<up, faults>>

ApplyClaim(r) ==
  LET s == [sched[r] EXCEPT !.claims = @ - 1]
  IN  /\ sched[r].claims > 0
      /\ UNCHANGED exact
      /\ \/ Grant(r, parked) /\ Answered(r, [s EXCEPT !.granted = @ + 1])
         \/ /\ Taken >= Cap
            /\ Live(r) /\ UNCHANGED lvars
            /\ Answered(r, [s EXCEPT !.denied = @ + 1])
         \/ /\ ~Live(r)
            /\ UNCHANGED lvars /\ Answered(r, [s EXCEPT !.refused = @ + 1])

ApplyRelease(r) ==
  /\ sched[r].releases > 0
  /\ Release(r, parked)
  /\ Answered(r, [sched[r] EXCEPT !.releases = @ - 1, !.released = @ + 1])
  /\ UNCHANGED exact

ApplyReconcile(r) ==
  LET s == sched[r]
  IN  /\ s.rec = "sent"
      /\ \/ /\ Reconcile(r, s.snap)
            /\ exact' = exact \cup {r}
            /\ Answered(r, [s EXCEPT !.rec = "synced"])
         \/ /\ ~Live(r)
            /\ Answered(r, [s EXCEPT !.rec = "unregistered"])
            /\ UNCHANGED <<exact, lvars>>

\* The heartbeat task: one script call, and a message with the count of live
\* replicas.  A call that fails, or whose answer is lost, leaves the count as
\* it was; the first call opens the listeners either way.
HeartbeatTask(r) ==
  LET s == [sched[r] EXCEPT !.open = TRUE]
  IN  /\ r \in up
      /\ UNCHANGED up
      /\ \/ /\ Heartbeat(r, parked)
            /\ exact' = exact \ Lapsed(r)
            /\ \/ /\ sched' = [sched EXCEPT ![r] = set_replicas(s, LiveCount(r))]
                  /\ UNCHANGED faults
               \/ Fault /\ sched' = [sched EXCEPT ![r] = s]
         \/ /\ Fault /\ ~sched[r].open
            /\ sched' = [sched EXCEPT ![r] = s]
            /\ UNCHANGED <<exact, lvars>>
-----------------------------------------------------------------------------
(* Processes and clocks.                                                   *)

\* The heartbeat of a running replica is late only by a fault.
Lapse(r) ==
  /\ HeartbeatLapses(r)
  /\ IF r \in up THEN Fault ELSE UNCHANGED faults
  /\ UNCHANGED <<up, sched, exact>>

\* The process of r ends.  A call still on its way is lost: had the backend
\* applied it, it did so before.
Ends(r) ==
  /\ up' = up \ {r}
  /\ sched' = [sched EXCEPT ![r] = recd(Booted)]
  /\ exact' = exact \ {r}

Crash(r) == Ending /\ r \in up /\ Fault /\ Ends(r) /\ UNCHANGED lvars

\* A clean shutdown: drained, then deregistered.
Stop(r) ==
  /\ Ending /\ r \in up
  /\ sched[r].permits = 0 /\ sched[r].waiting = 0
  /\ Deregister(r)
  /\ Ends(r)
  /\ UNCHANGED faults

\* A new process, under a new instance id: the old id has left no trace.
Restart(r) ==
  /\ r \notin up
  /\ reg[r] = "absent" /\ recorded[r] = 0
  /\ up' = up \cup {r}
  /\ sched' = [sched EXCEPT ![r] = Booted]
  /\ UNCHANGED <<exact, faults, lvars>>
-----------------------------------------------------------------------------
Init ==
  /\ LedgerInit
  /\ up = Replica
  /\ sched = [r \in Replica |-> Booted]
  /\ exact = {}
  /\ scene \in Scenes
  /\ faults = scene.faults

\* A call of r is applied, or its answer handled.
Calls(r) ==
  \/ ApplyClaim(r) \/ ApplyRelease(r) \/ ApplyReconcile(r)
  \/ AcquireGranted(r) \/ AcquireDenied(r) \/ AcquireNotRegistered(r)
  \/ ReleaseDone(r) \/ ReconcileDone(r)

Timers(r) == \E retry \in BOOLEAN, due \in BOOLEAN : Timer(r, retry, due)

Next ==
  /\ UNCHANGED scene
  /\ \E r \in Replica :
       \/ Admit(r) \/ Finish(r) \/ Abandon(r) \/ Timers(r) \/ Wake(r)
       \/ Calls(r) \/ CallFails(r)
       \/ HeartbeatTask(r) \/ Lapse(r)
       \/ Crash(r) \/ Stop(r) \/ Restart(r)

Spec == Init /\ [][Next]_vars

\* A heartbeat has something to tell the backend or the scheduler.
HeartbeatDue(r) ==
  ~sched[r].open \/ ~Live(r) \/ Lapsed(r) # {} \/ sched[r].replicas # LiveCount(r)

\* Weak fairness, with what enables each step written out (TLC takes minutes
\* to work out ENABLED here).  Requests end, calls are answered or time out,
\* timers fire, heartbeats go on and the keys of dead replicas lapse; faults
\* need not happen, and do so finitely often.
Fairness ==
  \A r \in Replica :
    /\ \/ []<>~(r \in up /\ sched[r].permits > 0)
       \/ []<><<Finish(r)>>_vars
    /\ \/ []<>~(r \in up /\ sched[r].retry)
       \/ []<><<\E due \in BOOLEAN : Timer(r, TRUE, due)>>_vars
    /\ \/ []<>~(r \in up /\ sched[r].rec = "none" /\ ~sched[r].want)
       \/ []<><<\E retry \in BOOLEAN : Timer(r, retry, TRUE)>>_vars
    /\ \/ []<>~(r \in up /\ (ops(sched[r]) > 0 \/ sched[r].rec # "none"))
       \/ []<><<Calls(r)>>_vars
    /\ \/ []<>~(r \in up /\ HeartbeatDue(r))
       \/ []<><<HeartbeatTask(r)>>_vars
    /\ \/ []<>~(r \notin up /\ Live(r))
       \/ []<><<Lapse(r)>>_vars

FairSpec == Spec /\ Fairness
-----------------------------------------------------------------------------
(* Properties.                                                             *)

\* Every scheduler's state is well formed, and a request is in one place only:
\* over every requeue, grant, lost answer and deferred release, what waits, is
\* claimed, runs or is being given back is never more than what was admitted.
TypeOK ==
  /\ reg \in [Replica -> {"absent", "live", "lapsed"}]
  /\ recorded \in [Replica -> Nat]
  /\ parked = 0
  /\ up \subseteq Replica
  /\ exact \subseteq Replica
  /\ faults \in 0..scene.faults
  /\ sched \in [Replica ->
       [open : BOOLEAN, replicas : 1..NReplicas,
        synced : BOOLEAN, failing : BOOLEAN,
        want : BOOLEAN, rec : {"none", "sent", "synced", "unregistered"},
        quiesced : BOOLEAN, snap : Nat, moved : BOOLEAN,
        deferred : Nat, permits : Nat, waiting : Nat,
        claims : Nat, granted : Nat, denied : Nat, refused : Nat,
        releases : Nat, released : Nat,
        blocked : BOOLEAN, probing : BOOLEAN, retry : BOOLEAN]]
  /\ \A r \in Replica :
       LET s == sched[r]
       IN  s.permits + s.deferred + s.waiting + ops(s) <= scene.load[r]

\* What a scheduler in shared mode really holds, or will when its answers
\* are in: permits, slots granted to it, and slots given back but still on
\* the backend's books.
holding(s) == s.permits + s.granted + s.releases + s.deferred

\* SharedCtl::synced means what its comment says: every permit of a synced
\* replica is on the books and nothing else is, whatever interleaving of
\* answers, timeouts, mode changes and reconciles led there, unless a peer
\* reclaimed the replica's holdings after a late heartbeat.
SyncedIsExact ==
  \A r \in up \cap exact :
    sched[r].synced => recorded[r] = holding(sched[r])

\* A reconcile runs with no claim or release outstanding, and while a quiesced
\* one runs no permit is added: what it sent is what the replica then holds,
\* counting releases held back.
ReconcileUndisturbed ==
  \A r \in up :
    LET s == sched[r]
    IN  s.rec # "none" => /\ ops(s) = 0
                          /\ s.quiesced => s.snap = s.permits + s.deferred

\* A refused pool always has its retry armed ("correctness never depends on a
\* wakeup arriving"), and a due reconcile that has not started waits only for
\* calls whose answers will start it.
NobodyStuck ==
  \A r \in up :
    LET s == sched[r]
    IN  /\ s.blocked => s.retry
        /\ s.want /\ s.rec = "none" => ops(s) > 0
        /\ s.deferred > 0 => quiesced_running(s)

\* A waiter is passed over only for a reason that ends by itself: the pool or
\* the claim window is full, a refusal waits for its retry, or a reconcile is
\* on its way.
NoIdleSlot ==
  \A r \in up :
    LET s == sched[r]
    IN  s.waiting > 0 =>
          \/ in_flight(s) >= limit(s)
          \/ wanted_mode(s) = "shared" /\ (s.blocked \/ pending(s) >= max_pending(s))
          \/ quiescing(s)

\* With every running replica in shared mode and on the books, and the books
\* within the pool's size, no more requests run than the pool has slots.
SharedWithinCap ==
  (Taken <= Cap /\ \A r \in up : r \in exact /\ wanted_mode(sched[r]) = "shared")
  => Sum([r \in Replica |-> sched[r].permits], NReplicas) <= Cap

\* "Any replica can use a model's whole pool; the fleet never exceeds it."
FleetNeverExceedsPool ==
  (\A r \in up : wanted_mode(sched[r]) = "shared")
  => Sum([r \in Replica |-> sched[r].permits], NReplicas) <= Cap

\* Once no more requests arrive and no more replicas stop, every waiter is
\* served, whatever was lost or late before.
WaitersServed ==
  <>[][\A r \in Replica : ~Admit(r) /\ ~Stop(r)]_vars
  => \A r \in Replica : [](sched[r].waiting > 0 => <>(sched[r].waiting = 0))

\* A replica that knows of its peers ends up in shared mode and stays there.
SharedAgain ==
  \A r \in Replica :
    <>[](r \in up /\ sched[r].replicas > 1) => <>[](sched[r].synced)

\* What a process that ended was recorded as holding comes free while a
\* replica is left to reclaim it.
CrashedSlotsFreed ==
  \A r \in Replica :
    r \notin up /\ recorded[r] > 0 ~> recorded[r] = 0 \/ up = {}
=============================================================================
