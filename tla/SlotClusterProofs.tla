-------------------------- MODULE SlotClusterProofs --------------------------
(***************************************************************************)
(* Proofs about the schedulers that share a pool, for any number of        *)
(* replicas, any size of the pool and any number of requests and faults.   *)
(*                                                                         *)
(* Every handler ends by settling: a due reconcile starts once nothing     *)
(* else is in flight, and waiters are dispatched.  So the proofs are about *)
(* one scheduler's record first: what each helper does to it (Local and    *)
(* Books below), then the handlers as compositions of the helpers, and     *)
(* only then the fleet.                                                    *)
(***************************************************************************)
EXTENDS SlotCluster, SumsProofs, FiniteSetTheorems

\* The records of TypeOK.
Sched ==
  [open : BOOLEAN, replicas : 1..NReplicas,
   synced : BOOLEAN, failing : BOOLEAN,
   want : BOOLEAN, rec : {"none", "sent", "synced", "unregistered"},
   quiesced : BOOLEAN, snap : Nat, moved : BOOLEAN,
   deferred : Nat, permits : Nat, waiting : Nat,
   claims : Nat, granted : Nat, denied : Nat, refused : Nat,
   releases : Nat, released : Nat,
   blocked : BOOLEAN, probing : BOOLEAN, retry : BOOLEAN]

\* The requests and calls a scheduler has, each counted once.
load(s) == s.permits + s.deferred + s.waiting + ops(s)

\* What is true of a scheduler at every step of a handler.  A synced scheduler
\* knows of peers and of no failure; a reconcile runs alone; if it is quiesced,
\* or nothing moved, what it sent is what the replica has; a synced scheduler's
\* reconcile is quiesced; releases are held back by a quiesced one only; and a
\* refusal has its retry.
Local(s) ==
  /\ s.synced => s.replicas > 1 /\ ~s.failing
  /\ s.rec # "none" => ops(s) = 0
  /\ s.quiesced => s.rec # "none"
  /\ s.rec # "none" /\ s.synced => s.quiesced
  /\ s.rec # "none" /\ (s.quiesced \/ ~s.moved) => s.snap = s.permits + s.deferred
  /\ s.deferred > 0 => s.quiesced
  /\ s.blocked => s.retry

\* A due reconcile has started, or will once calls are answered.
Started(s) == s.want /\ s.rec = "none" => ops(s) > 0

\* No waiter is passed over without a reason.
Busy(s) ==
  s.waiting > 0 =>
    \/ in_flight(s) >= limit(s)
    \/ wanted_mode(s) = "shared" /\ (s.blocked \/ pending(s) >= max_pending(s))
    \/ quiescing(s)

\* The n slots on the books of a replica that no peer reclaimed: all it holds,
\* once synced, and what its reconcile sent, once that was applied.
Books(s, n) ==
  /\ s.synced => n = holding(s)
  /\ s.rec = "synced" => n = s.snap
-----------------------------------------------------------------------------
(* The helpers.                                                            *)

\* Counts are naturals.
LEMMA CountsNat ==
  ASSUME NEW s \in Sched
  PROVE  /\ pending(s) \in Nat /\ ops(s) \in Nat /\ in_flight(s) \in Nat
         /\ load(s) \in Nat /\ holding(s) \in Nat
BY DEF Sched, pending, ops, in_flight, load, holding

\* Nothing in flight: no call of any kind is.
LEMMA NoOps ==
  ASSUME NEW s \in Sched, ops(s) = 0
  PROVE  /\ s.claims = 0 /\ s.granted = 0 /\ s.denied = 0 /\ s.refused = 0
         /\ s.releases = 0 /\ s.released = 0
BY DEF Sched, ops, pending

\* note_unrecorded only sets moved.
LEMMA NoteUnrecorded ==
  ASSUME NEW s \in Sched
  PROVE  \E b \in BOOLEAN : /\ note_unrecorded(s) = [s EXCEPT !.moved = b]
                            /\ b <=> s.rec # "none"
BY Zenon DEF note_unrecorded

\* apply_mode drops a refusal with its retry, or changes nothing.
LEMMA ApplyMode ==
  ASSUME NEW old, NEW s
  PROVE  apply_mode(old, s) \in
           {s, [s EXCEPT !.blocked = FALSE, !.probing = FALSE, !.retry = FALSE]}
BY DEF apply_mode

\* The size of the pool as a replica enforces it is a natural.
LEMMA LimitNat ==
  ASSUME NEW s \in Sched PROVE limit(s) \in Int
<1>1. s.replicas \in Nat /\ s.replicas > 0 /\ Cap \in Nat
  BY LedgerAssumption DEF Sched
<1>2. (Cap + s.replicas - 1) \div s.replicas \in Int
  BY <1>1
<1> QED BY <1>1, <1>2 DEF limit, replica_share

\* maybe_start_reconcile leaves no due reconcile that could start, and starts one
\* with what the replica has.
LEMMA StartLocal ==
  ASSUME NEW s \in Sched, Local(s)
  PROVE  LET t == maybe_start_reconcile(s)
         IN  /\ t \in Sched /\ Local(t) /\ Started(t)
             /\ load(t) = load(s)
             /\ \A n : Books(s, n) => Books(t, n)
<1> DEFINE q == s.replicas > 1 /\ ~s.failing
           u == [s EXCEPT !.want = FALSE, !.rec = "sent", !.quiesced = q,
                          !.snap = s.permits, !.moved = FALSE]
<1>1. q \in BOOLEAN
  OBVIOUS
<1>2. CASE s.want /\ s.rec = "none" /\ ops(s) = 0
  <2>1. maybe_start_reconcile(s) = u
    BY <1>2 DEF maybe_start_reconcile
  <2>2. s.synced => q
    BY DEF Local
  <2> HIDE DEF q
  <2>3. u \in Sched
    BY <1>1 DEF Sched
  <2>4. ops(u) = 0 /\ load(u) = load(s) /\ holding(u) = holding(s)
    BY <1>2 DEF Sched, ops, pending, load, holding
  <2>5. s.deferred = 0
    BY <1>2 DEF Local, Sched
  <2>6. Local(u) /\ Started(u)
    BY <1>1, <1>2, <2>2, <2>4, <2>5 DEF Local, Started, Sched
  <2>7. \A n : Books(s, n) => Books(u, n)
    BY <2>4 DEF Books, Sched
  <2> QED BY <2>1, <2>3, <2>4, <2>6, <2>7
<1>3. CASE ~(s.want /\ s.rec = "none" /\ ops(s) = 0)
  <2>1. maybe_start_reconcile(s) = s
    BY <1>3 DEF maybe_start_reconcile
  <2>2. Started(s)
    BY <1>3, CountsNat DEF Started
  <2> QED BY <2>1, <2>2
<1> QED BY <1>2, <1>3

\* How many waiters go on.
LEMMA Dispatchable ==
  ASSUME NEW s \in Sched
  PROVE  LET n == dispatchable(s)
         IN  /\ n \in Nat /\ n <= s.waiting
             /\ n > 0 => ~quiescing(s)
             /\ n < s.waiting /\ ~quiescing(s) =>
                  \/ in_flight(s) + n >= limit(s)
                  \/ wanted_mode(s) = "shared" /\ (s.blocked \/ pending(s) + n >= max_pending(s))
<1>1. limit(s) \in Int /\ in_flight(s) \in Nat /\ pending(s) \in Nat /\ s.waiting \in Nat
  BY LimitNat, CountsNat DEF Sched
<1>2. max_pending(s) \in Nat
  BY ClusterAssumption DEF max_pending
<1> QED BY <1>1, <1>2 DEF dispatchable, Least

\* Waiters that became claims, or permits.
LEMMA MovedOn ==
  ASSUME NEW s \in Sched, NEW n \in Nat, n <= s.waiting
  PROVE  /\ [[s EXCEPT !.waiting = @ - n] EXCEPT !.claims = @ + n] \in Sched
         /\ [[s EXCEPT !.waiting = @ - n] EXCEPT !.permits = @ + n] \in Sched
<1>1. s.waiting - n \in Nat /\ s.claims + n \in Nat /\ s.permits + n \in Nat
  BY DEF Sched
<1>2. ASSUME NEW w \in Nat, NEW c \in Nat, NEW p \in Nat
      PROVE  /\ [[s EXCEPT !.waiting = w] EXCEPT !.claims = c] \in Sched
             /\ [[s EXCEPT !.waiting = w] EXCEPT !.permits = p] \in Sched
  BY DEF Sched
<1> QED BY <1>1, <1>2

\* dispatch_all moves waiters on, to claims in shared mode and to permits
\* otherwise, as many as there is room for.
LEMMA DispatchLocal ==
  ASSUME NEW s \in Sched, Local(s), Started(s)
  PROVE  LET t == dispatch_all(s)
         IN  /\ t \in Sched /\ Local(t) /\ Started(t) /\ Busy(t)
             /\ load(t) = load(s)
             /\ \A n : Books(s, n) => Books(t, n)
<1> DEFINE n == dispatchable(s)
           t == [s EXCEPT !.waiting = @ - n]
<1>1. /\ n \in Nat /\ n <= s.waiting
      /\ n > 0 => ~quiescing(s)
      /\ n < s.waiting /\ ~quiescing(s) =>
           \/ in_flight(s) + n >= limit(s)
           \/ wanted_mode(s) = "shared" /\ (s.blocked \/ pending(s) + n >= max_pending(s))
  BY Dispatchable
<1>2. dispatch_all(s) =
        IF n = 0 THEN s
        ELSE IF wanted_mode(s) = "shared" THEN [t EXCEPT !.claims = @ + n]
        ELSE note_unrecorded([t EXCEPT !.permits = @ + n])
  BY DEF dispatch_all
<1> HIDE DEF n
<1>3. CASE n = 0
  <2>1. Busy(s)
    BY <1>1, <1>3, CountsNat, LimitNat DEF Busy, Sched
  <2> QED BY <1>2, <1>3, <2>1
<1>4. CASE n # 0 /\ wanted_mode(s) = "shared"
  <2> DEFINE u == [t EXCEPT !.claims = @ + n]
  <2>1. dispatch_all(s) = u /\ ~quiescing(s)
    BY <1>1, <1>2, <1>4
  <2>2. u \in Sched
    BY <1>1, MovedOn
  <2>3. /\ ops(u) = ops(s) + n /\ load(u) = load(s) /\ holding(u) = holding(s)
        /\ pending(u) = pending(s) + n /\ in_flight(u) = in_flight(s) + n
        /\ u.waiting = s.waiting - n
    BY <1>1 DEF Sched, ops, pending, load, holding, in_flight
  <2>4. /\ limit(u) = limit(s) /\ max_pending(u) = max_pending(s) /\ u.blocked = s.blocked
        /\ wanted_mode(u) = "shared"
    BY <1>4 DEF limit, max_pending, wanted_mode, Sched
  <2>5. s.rec = "none"
    BY <1>4, <2>1 DEF Local, quiescing, quiesced_running, wanted_mode
  <2>6. Local(u) /\ Started(u)
    BY <1>1, <1>4, <2>3, <2>5, CountsNat DEF Local, Started, Sched
  <2>7. Busy(u)
    BY <1>1, <2>1, <2>3, <2>4 DEF Busy, Sched
  <2>8. \A m : Books(s, m) => Books(u, m)
    BY <2>3 DEF Books, Sched
  <2> QED BY <2>1, <2>2, <2>3, <2>6, <2>7, <2>8
<1>5. CASE n # 0 /\ wanted_mode(s) # "shared"
  <2>1. [t EXCEPT !.permits = @ + n] \in Sched
    BY <1>1, MovedOn
  <2>2. PICK b \in BOOLEAN : /\ dispatch_all(s) = [[t EXCEPT !.permits = @ + n] EXCEPT !.moved = b]
                             /\ b <=> s.rec # "none"
    BY <1>2, <1>5, <2>1, NoteUnrecorded DEF Sched
  <2> DEFINE u == [[t EXCEPT !.permits = @ + n] EXCEPT !.moved = b]
  <2>3. u \in Sched
    BY <2>1 DEF Sched
  <2>4. /\ ops(u) = ops(s) /\ load(u) = load(s)
        /\ pending(u) = pending(s) /\ in_flight(u) = in_flight(s) + n
        /\ u.waiting = s.waiting - n
    BY <1>1 DEF Sched, ops, pending, load, in_flight
  <2>5. limit(u) = limit(s) /\ wanted_mode(u) = wanted_mode(s)
    BY DEF limit, wanted_mode, Sched
  <2>6. ~s.synced
    BY <1>5 DEF Local, wanted_mode, Sched
  <2>7. ~quiescing(s) /\ ~s.quiesced
    BY <1>1, <1>5 DEF quiescing, quiesced_running, Local
  <2>8. Local(u) /\ Started(u)
    BY <2>2, <2>4, <2>6, <2>7 DEF Local, Started, Sched
  <2>9. Busy(u)
    BY <1>1, <1>5, <2>4, <2>5, <2>7 DEF Busy, Sched
  <2>10. \A m : Books(s, m) => Books(u, m)
    BY <2>6 DEF Books, Sched
  <2> QED BY <2>2, <2>3, <2>4, <2>8, <2>9, <2>10
<1> QED BY <1>3, <1>4, <1>5

\* A handler that settles.
LEMMA SettleLocal ==
  ASSUME NEW s \in Sched, Local(s)
  PROVE  LET t == settle(s)
         IN  /\ t \in Sched /\ Local(t) /\ Started(t) /\ Busy(t)
             /\ load(t) = load(s)
             /\ \A n : Books(s, n) => Books(t, n)
<1> DEFINE u == maybe_start_reconcile(s)
<1>1. /\ u \in Sched /\ Local(u) /\ Started(u) /\ load(u) = load(s)
      /\ \A n : Books(s, n) => Books(u, n)
  BY StartLocal
<1>2. settle(s) = dispatch_all(u)
  BY DEF settle
<1> HIDE DEF u
<1> QED BY <1>1, <1>2, DispatchLocal
-----------------------------------------------------------------------------
(* What the handlers do before they dispatch or settle.                    *)

\* A request arrives, or a waiter leaves.
LEMMA WaitersChange ==
  ASSUME NEW s \in Sched, NEW w \in Nat, Local(s), Started(s)
  PROVE  LET u == [s EXCEPT !.waiting = w]
         IN  /\ u \in Sched /\ Local(u) /\ Started(u)
             /\ load(u) = load(s) - s.waiting + w
             /\ \A n : Books(s, n) => Books(u, n)
<1> DEFINE u == [s EXCEPT !.waiting = w]
<1>1. u \in Sched
  BY DEF Sched
<1>2. ops(u) = ops(s) /\ holding(u) = holding(s) /\ load(u) = load(s) - s.waiting + w
  BY DEF Sched, ops, pending, holding, load
<1>3. Local(u) /\ Started(u)
  BY <1>2 DEF Local, Started, Sched
<1>4. \A n : Books(s, n) => Books(u, n)
  BY <1>2 DEF Books, Sched
<1> QED BY <1>1, <1>2, <1>3, <1>4

\* release_slot: the slot is held back, given back to the backend, or freed here.
LEMMA ReleaseLocal ==
  ASSUME NEW s \in Sched, Local(s), Started(s), s.permits > 0
  PROVE  LET u == release_slot(s)
         IN  /\ u \in Sched /\ Local(u) /\ Started(u)
             /\ load(u) <= load(s)
             /\ \A n : Books(s, n) => Books(u, n)
<1>1. s.permits - 1 \in Nat /\ s.deferred + 1 \in Nat /\ s.releases + 1 \in Nat
  BY DEF Sched
<1>2. ASSUME NEW p \in Nat, NEW d \in Nat, NEW e \in Nat, NEW b \in BOOLEAN
      PROVE  /\ [s EXCEPT !.permits = p] \in Sched
             /\ [[s EXCEPT !.permits = p] EXCEPT !.deferred = d] \in Sched
             /\ [[s EXCEPT !.permits = p] EXCEPT !.releases = e] \in Sched
             /\ [[s EXCEPT !.permits = p] EXCEPT !.moved = b] \in Sched
  BY DEF Sched
<1> DEFINE t == [s EXCEPT !.permits = @ - 1]
<1>3. CASE quiesced_running(s)
  <2> DEFINE u == [t EXCEPT !.deferred = @ + 1]
  <2>1. release_slot(s) = u
    BY <1>3 DEF release_slot
  <2>2. u \in Sched
    BY <1>1, <1>2 DEF Sched
  <2>3. ops(u) = ops(s) /\ load(u) = load(s) /\ holding(u) = holding(s)
    BY DEF Sched, ops, pending, load, holding
  <2>4. Local(u) /\ Started(u)
    BY <1>3, <2>3 DEF Local, Started, Sched, quiesced_running
  <2>5. \A n : Books(s, n) => Books(u, n)
    BY <2>3 DEF Books, Sched
  <2> QED BY <2>1, <2>2, <2>3, <2>4, <2>5, CountsNat
<1>4. CASE ~quiesced_running(s) /\ wanted_mode(s) = "shared"
  <2> DEFINE u == [t EXCEPT !.releases = @ + 1]
  <2>1. release_slot(s) = u
    BY <1>4 DEF release_slot
  <2>2. u \in Sched
    BY <1>1, <1>2 DEF Sched
  <2>3. ops(u) = ops(s) + 1 /\ load(u) = load(s) /\ holding(u) = holding(s)
    <3>1. /\ u.permits = s.permits - 1 /\ u.releases = s.releases + 1
          /\ u.claims = s.claims /\ u.granted = s.granted /\ u.denied = s.denied
          /\ u.refused = s.refused /\ u.released = s.released
          /\ u.deferred = s.deferred /\ u.waiting = s.waiting
      BY DEF Sched
    <3> HIDE DEF u
    <3> QED BY <3>1 DEF Sched, ops, pending, load, holding
  <2>4. s.rec = "none"
    BY <1>4 DEF Local, quiesced_running, wanted_mode
  <2>5. Local(u) /\ Started(u)
    BY <2>3, <2>4, CountsNat DEF Local, Started, Sched
  <2>6. \A n : Books(s, n) => Books(u, n)
    BY <2>3 DEF Books, Sched
  <2> QED BY <2>1, <2>2, <2>3, <2>5, <2>6, CountsNat
<1>5. CASE ~quiesced_running(s) /\ wanted_mode(s) # "shared"
  <2>1. t \in Sched
    BY <1>1, <1>2
  <2>2. PICK b \in BOOLEAN : /\ release_slot(s) = [t EXCEPT !.moved = b]
                             /\ b <=> s.rec # "none"
    BY <1>5, <2>1, NoteUnrecorded DEF release_slot, Sched
  <2> DEFINE u == [t EXCEPT !.moved = b]
  <2>3. u \in Sched
    BY <1>1, <1>2
  <2>4. ops(u) = ops(s) /\ load(u) = load(s) - 1
    BY DEF Sched, ops, pending, load
  <2>5. ~s.synced /\ ~s.quiesced
    BY <1>5 DEF Local, quiesced_running, wanted_mode, Sched
  <2>6. Local(u) /\ Started(u)
    BY <2>2, <2>4, <2>5 DEF Local, Started, Sched
  <2>7. \A n : Books(s, n) => Books(u, n)
    BY <2>5 DEF Books, Sched
  <2> QED BY <2>2, <2>3, <2>4, <2>6, <2>7, CountsNat
<1> QED BY <1>3, <1>4, <1>5

\* shared_failed, which handles an answer when no reconcile is in flight any more:
\* the scheduler is not synced, whatever was.
LEMMA FailedLocal ==
  ASSUME NEW s \in Sched, s.rec = "none", ~s.quiesced, s.blocked => s.retry
  PROVE  LET u == shared_failed(s)
         IN  /\ u \in Sched /\ Local(u)
             /\ load(u) <= load(s)
             /\ \A n : Books(u, n)
<1> DEFINE t == [s EXCEPT !.failing = TRUE, !.synced = FALSE, !.deferred = 0]
           m == IF s.deferred > 0 THEN note_unrecorded(t) ELSE t
<1>1. t \in Sched
  BY DEF Sched
<1>2. PICK b \in BOOLEAN : note_unrecorded(t) = [t EXCEPT !.moved = b]
  BY <1>1, NoteUnrecorded
<1>3. PICK c \in BOOLEAN : m = [t EXCEPT !.moved = c]
  <2>1. CASE s.deferred > 0
    BY <1>2, <2>1
  <2>2. CASE ~(s.deferred > 0)
    BY <2>2 DEF Sched
  <2> QED BY <2>1, <2>2
<1>4. m \in Sched
  <2> HIDE DEF t, m
  <2> QED BY <1>1, <1>3 DEF Sched
<1>5. /\ ops(m) = ops(s) /\ load(m) = load(s) - s.deferred
      /\ ~m.synced /\ m.rec = "none" /\ ~m.quiesced /\ m.deferred = 0
      /\ m.blocked => m.retry
  <2>1. /\ m.synced = FALSE /\ m.rec = s.rec /\ m.quiesced = s.quiesced /\ m.deferred = 0
        /\ m.blocked = s.blocked /\ m.retry = s.retry /\ m.permits = s.permits
        /\ m.waiting = s.waiting /\ m.claims = s.claims /\ m.granted = s.granted
        /\ m.denied = s.denied /\ m.refused = s.refused
        /\ m.releases = s.releases /\ m.released = s.released
    BY <1>3 DEF Sched
  <2> HIDE DEF m
  <2> QED BY <2>1 DEF ops, pending, load, Sched
<1>6. shared_failed(s) = apply_mode(s, m)
  BY DEF shared_failed
<1> HIDE DEF m
<1> DEFINE v == [m EXCEPT !.blocked = FALSE, !.probing = FALSE, !.retry = FALSE]
<1>7. v \in Sched
  BY <1>4 DEF Sched
<1>8. /\ ops(v) = ops(m) /\ load(v) = load(m) /\ v.blocked = FALSE
      /\ v.synced = m.synced /\ v.rec = m.rec /\ v.quiesced = m.quiesced
      /\ v.deferred = m.deferred
  BY <1>4 DEF Sched, ops, pending, load
<1>9. ASSUME NEW u \in {m, v} PROVE u \in Sched /\ Local(u) /\ load(u) <= load(s) /\ \A n : Books(u, n)
  <2>1. load(s) - s.deferred <= load(s)
    BY CountsNat DEF Sched
  <2>2. /\ ~u.synced /\ u.rec = "none" /\ ~u.quiesced /\ u.deferred = 0
        /\ u.blocked => u.retry
        /\ load(u) = load(s) - s.deferred
    BY <1>5, <1>8
  <2> HIDE DEF v
  <2>3. Local(u) /\ \A n : Books(u, n)
    BY <2>2 DEF Local, Books
  <2> QED BY <1>4, <1>7, <2>1, <2>2, <2>3
<1>10. shared_failed(s) \in {m, v}
  BY <1>6, ApplyMode, Zenon
<1> HIDE DEF v
<1> QED BY <1>9, <1>10, Zenon

\* reconcile_synced: releases held back are sent to the backend if the scheduler
\* is synced, and what was sent is then what is on the books.
LEMMA ReconciledLocal ==
  ASSUME NEW s \in Sched, Local(s), s.rec = "synced"
  PROVE  LET u == reconcile_synced(s)
         IN  /\ u \in Sched /\ Local(u)
             /\ load(u) <= load(s)
             /\ \A n : Books(s, n) => Books(u, n)
<1> DEFINE multi == s.replicas > 1
           good == multi /\ (s.quiesced \/ ~s.moved)
           y == s.synced \/ good
           w == s.want \/ (multi /\ ~good)
           z == [recd(s) EXCEPT !.failing = FALSE, !.synced = y, !.want = w]
           t == apply_mode(s, z)
           d == IF t.synced /\ multi THEN s.deferred ELSE 0
           u == [t EXCEPT !.releases = @ + d, !.deferred = 0, !.blocked = FALSE]
<1>1. reconcile_synced(s) = u
  BY DEF reconcile_synced, recd
<1>2. y \in BOOLEAN /\ w \in BOOLEAN
  BY DEF Sched
<1>3. y => multi
  BY DEF Local
<1>4. y /\ ~s.synced => s.snap = s.permits + s.deferred
  BY DEF Local
<1>5. ops(s) = 0
  BY DEF Local
<1> HIDE DEF y, w
<1>6. z \in Sched
  BY <1>2 DEF Sched, recd
<1>7. /\ z.permits = s.permits /\ z.waiting = s.waiting /\ z.deferred = s.deferred
      /\ z.claims = s.claims /\ z.granted = s.granted /\ z.denied = s.denied
      /\ z.refused = s.refused /\ z.releases = s.releases /\ z.released = s.released
      /\ z.synced = y /\ z.replicas = s.replicas /\ z.failing = FALSE
      /\ z.rec = "none" /\ z.quiesced = FALSE
  BY DEF Sched, recd
<1> DEFINE v == [z EXCEPT !.blocked = FALSE, !.probing = FALSE, !.retry = FALSE]
<1>8. t \in {z, v}
  BY ApplyMode, Zenon
<1> HIDE DEF z, t
<1>9. v \in Sched
  BY <1>6 DEF Sched
<1>10. /\ t \in Sched
       /\ t.permits = s.permits /\ t.waiting = s.waiting /\ t.deferred = s.deferred
       /\ t.claims = s.claims /\ t.granted = s.granted /\ t.denied = s.denied
       /\ t.refused = s.refused /\ t.releases = s.releases /\ t.released = s.released
       /\ t.synced = y /\ t.replicas = s.replicas /\ t.failing = FALSE
       /\ t.rec = "none" /\ t.quiesced = FALSE
  <2>1. CASE t = z
    BY <1>6, <1>7, <2>1
  <2>2. CASE t = v
    <3>1. /\ v.permits = z.permits /\ v.waiting = z.waiting /\ v.deferred = z.deferred
          /\ v.claims = z.claims /\ v.granted = z.granted /\ v.denied = z.denied
          /\ v.refused = z.refused /\ v.releases = z.releases /\ v.released = z.released
          /\ v.synced = z.synced /\ v.replicas = z.replicas /\ v.failing = z.failing
          /\ v.rec = z.rec /\ v.quiesced = z.quiesced
      BY <1>6 DEF Sched
    <3> HIDE DEF v
    <3> QED BY <1>7, <1>9, <2>2, <3>1
  <2> QED BY <1>8, <2>1, <2>2
<1>11. d = IF y THEN s.deferred ELSE 0
  BY <1>3, <1>10
<1> HIDE DEF d
<1>12. d \in Nat /\ d <= s.deferred
  BY <1>11 DEF Sched
<1>13. u \in Sched
  <2>1. t.releases + d \in Nat
    BY <1>10, <1>12 DEF Sched
  <2>2. ASSUME NEW e \in Nat
        PROVE  [t EXCEPT !.releases = e, !.deferred = 0, !.blocked = FALSE] \in Sched
    BY <1>10 DEF Sched
  <2> QED BY <2>1, <2>2
<1>14. /\ u.permits = s.permits /\ u.waiting = s.waiting /\ u.deferred = 0
       /\ u.claims = s.claims /\ u.granted = s.granted /\ u.denied = s.denied
       /\ u.refused = s.refused /\ u.releases = s.releases + d /\ u.released = s.released
       /\ u.synced = y /\ u.replicas = s.replicas /\ u.failing = FALSE
       /\ u.rec = "none" /\ u.quiesced = FALSE /\ u.blocked = FALSE
  BY <1>10 DEF Sched
<1> HIDE DEF u
<1>15. Local(u)
  BY <1>3, <1>14 DEF Local, Sched
<1>16. load(u) <= load(s)
  BY <1>12, <1>14 DEF load, ops, pending, Sched
<1>17. ASSUME NEW n, Books(s, n) PROVE Books(u, n)
  <2>1. holding(u) = s.permits + s.granted + s.releases + d
    BY <1>12, <1>14 DEF holding, Sched
  <2>2. s.granted = 0 /\ s.releases = 0
    BY <1>5, NoOps
  <2>3. y => n = holding(u)
    <3>1. CASE y /\ s.synced
      <4>1. n = s.permits + s.granted + s.releases + s.deferred
        BY <1>17, <3>1 DEF Books, holding
      <4>2. d = s.deferred
        BY <1>11, <3>1
      <4> QED BY <2>1, <4>1, <4>2
    <3>2. CASE y /\ ~s.synced
      <4>1. n = s.permits + s.deferred
        BY <1>4, <1>17, <3>2 DEF Books
      <4>2. d = s.deferred
        BY <1>11, <3>2
      <4> QED BY <2>1, <2>2, <4>1, <4>2 DEF Sched
    <3> QED BY <3>1, <3>2
  <2>4. u.synced = y /\ u.rec = "none"
    BY <1>14
  <2> QED BY <2>3, <2>4 DEF Books
<1> QED BY <1>1, <1>13, <1>15, <1>16, <1>17

\* A scheduler between two messages.
Settled(s) == s \in Sched /\ Local(s) /\ Started(s) /\ Busy(s)

\* The listeners open.
LEMMA OpenSettled ==
  ASSUME NEW s, Settled(s)
  PROVE  LET u == [s EXCEPT !.open = TRUE]
         IN  /\ Settled(u) /\ load(u) = load(s)
             /\ \A n : Books(s, n) => Books(u, n)
<1> DEFINE u == [s EXCEPT !.open = TRUE]
<1>1. s \in Sched
  BY DEF Settled
<1>2. u \in Sched
  BY <1>1 DEF Sched
<1>3. /\ ops(u) = ops(s) /\ pending(u) = pending(s) /\ load(u) = load(s)
      /\ holding(u) = holding(s) /\ in_flight(u) = in_flight(s)
      /\ wanted_mode(u) = wanted_mode(s) /\ max_pending(u) = max_pending(s)
  BY <1>1 DEF ops, pending, load, holding, in_flight, wanted_mode, max_pending, Sched
<1>4. limit(u) = limit(s) /\ quiescing(u) = quiescing(s)
  BY <1>1, <1>3 DEF limit, quiescing, quiesced_running, Sched
<1>5. Local(u) /\ Started(u)
  BY <1>1, <1>3 DEF Settled, Local, Started, Sched
<1>6. Busy(u)
  BY <1>1, <1>3, <1>4 DEF Settled, Busy, Sched
<1>7. \A n : Books(s, n) => Books(u, n)
  BY <1>1, <1>3 DEF Books, Sched
<1> QED BY <1>2, <1>3, <1>5, <1>6, <1>7 DEF Settled

\* set_replicas: a count that crosses between one and more ends being synced.
LEMMA ReplicasSettled ==
  ASSUME NEW s, Settled(s), NEW k \in 1..NReplicas
  PROVE  LET u == set_replicas(s, k)
         IN  /\ Settled(u) /\ load(u) = load(s)
             /\ \A n : Books(s, n) => Books(u, n)
<1> DEFINE y == s.synced /\ (s.replicas > 1 <=> k > 1)
           w == s.want \/ (k > 1 /\ ~y)
           t == [s EXCEPT !.replicas = k, !.synced = y, !.want = w]
           v == [t EXCEPT !.blocked = FALSE, !.probing = FALSE, !.retry = FALSE]
<1>1. s \in Sched /\ Local(s)
  BY DEF Settled
<1>2. CASE k = s.replicas
  BY <1>2 DEF set_replicas
<1>3. CASE k # s.replicas
  <2>1. set_replicas(s, k) = settle(apply_mode(s, t))
    BY <1>3 DEF set_replicas
  <2>2. y \in BOOLEAN /\ w \in BOOLEAN
    BY <1>1 DEF Sched
  <2>3. y => s.synced /\ k > 1
    BY <1>1 DEF Local
  <2> HIDE DEF y, w
  <2>4. t \in Sched /\ v \in Sched
    <3>1. t \in Sched
      BY <1>1, <2>2 DEF Sched
    <3> HIDE DEF t
    <3>2. v \in Sched
      BY <3>1 DEF Sched
    <3> QED BY <3>1, <3>2
  <2>5. ASSUME NEW x \in {t, v}
        PROVE  Local(x) /\ load(x) = load(s) /\ \A n : Books(s, n) => Books(x, n)
    <3>1. /\ x.permits = s.permits /\ x.waiting = s.waiting /\ x.deferred = s.deferred
          /\ x.claims = s.claims /\ x.granted = s.granted /\ x.denied = s.denied
          /\ x.refused = s.refused /\ x.releases = s.releases /\ x.released = s.released
          /\ x.synced = y /\ x.replicas = k /\ x.failing = s.failing
          /\ x.rec = s.rec /\ x.quiesced = s.quiesced /\ x.snap = s.snap /\ x.moved = s.moved
          /\ (x.blocked => x.retry) = (s.blocked => s.retry) \/ x.blocked = FALSE
      BY <1>1 DEF Sched
    <3> HIDE DEF t, v
    <3>2. ops(x) = ops(s) /\ load(x) = load(s) /\ holding(x) = holding(s)
      BY <3>1 DEF ops, pending, load, holding
    <3>3. Local(x)
      BY <1>1, <2>3, <3>1, <3>2 DEF Local
    <3>4. \A n : Books(s, n) => Books(x, n)
      BY <2>3, <3>1, <3>2 DEF Books
    <3> QED BY <3>2, <3>3, <3>4
  <2>6. apply_mode(s, t) \in {t, v}
    BY ApplyMode, Zenon
  <2> DEFINE x == apply_mode(s, t)
  <2>7. x \in Sched /\ Local(x) /\ load(x) = load(s) /\ \A n : Books(s, n) => Books(x, n)
    <3> HIDE DEF x, t, v
    <3>1. x \in {t, v}
      BY <2>6 DEF x
    <3> QED BY <2>4, <2>5, <3>1
  <2> HIDE DEF x
  <2>8. set_replicas(s, k) = settle(x)
    BY <2>1 DEF x
  <2>9. Settled(settle(x)) /\ load(settle(x)) = load(x) /\ \A n : Books(x, n) => Books(settle(x), n)
    BY <2>7, SettleLocal DEF Settled
  <2> QED BY <2>7, <2>8, <2>9
<1> QED BY <1>2, <1>3

\* An answer is in flight: no reconcile is.
LEMMA AnswerAlone ==
  ASSUME NEW s \in Sched, Local(s), ops(s) > 0
  PROVE  s.rec = "none" /\ ~s.quiesced /\ s.deferred = 0
<1>1. ops(s) # 0
  BY CountsNat
<1> QED BY <1>1 DEF Local, Sched

\* Every kind of call in flight counts.
LEMMA CallInFlight ==
  ASSUME NEW s \in Sched,
         \/ s.claims > 0 \/ s.granted > 0 \/ s.denied > 0 \/ s.refused > 0
         \/ s.releases > 0 \/ s.released > 0
  PROVE  ops(s) > 0
BY DEF Sched, ops, pending

\* While no reconcile is in flight, what Local asks depends on few fields.
LEMMA NoReconcileLocal ==
  ASSUME NEW s \in Sched, NEW t \in Sched, Local(s), s.rec = "none", t.rec = "none",
         t.quiesced = s.quiesced, t.synced = s.synced, t.replicas = s.replicas,
         t.failing = s.failing, t.deferred = s.deferred, t.blocked => t.retry
  PROVE  Local(t)
BY DEF Local

\* A reconcile that is over leaves a scheduler without one.
LEMMA RecdLocal ==
  ASSUME NEW s \in Sched
  PROVE  /\ recd(s) \in Sched /\ load(recd(s)) = load(s)
         /\ recd(s).rec = "none" /\ ~recd(s).quiesced
         /\ recd(s).blocked = s.blocked /\ recd(s).retry = s.retry
<1>1. recd(s) \in Sched
  BY DEF recd, Sched
<1>2. load(recd(s)) = load(s)
  BY DEF recd, Sched, load, ops, pending
<1> QED BY <1>1, <1>2 DEF recd, Sched

\* Ctl::AcquireDone with a grant.
LEMMA GrantedSettled ==
  ASSUME NEW s, Settled(s), s.granted > 0
  PROVE  LET t == [s EXCEPT !.granted = @ - 1, !.permits = @ + 1, !.probing = FALSE]
             u == settle(IF wanted_mode(s) = "shared" THEN t ELSE note_unrecorded(t))
         IN  /\ Settled(u) /\ load(u) = load(s)
             /\ \A n : Books(s, n) => Books(u, n)
<1> DEFINE t == [s EXCEPT !.granted = @ - 1, !.permits = @ + 1, !.probing = FALSE]
           v == IF wanted_mode(s) = "shared" THEN t ELSE note_unrecorded(t)
<1>1. s \in Sched /\ Local(s) /\ s.rec = "none"
  BY AnswerAlone, CallInFlight DEF Settled
<1>2. s.granted - 1 \in Nat /\ s.permits + 1 \in Nat
  BY <1>1 DEF Sched
<1>3. ASSUME NEW g \in Nat, NEW p \in Nat
      PROVE  [s EXCEPT !.granted = g, !.permits = p, !.probing = FALSE] \in Sched
  BY <1>1 DEF Sched
<1>4. t \in Sched
  BY <1>2, <1>3
<1>5. PICK b \in BOOLEAN : v = [t EXCEPT !.moved = b]
  <2>1. CASE wanted_mode(s) = "shared"
    <3>1. t = [t EXCEPT !.moved = t.moved] /\ t.moved \in BOOLEAN
      BY <1>4 DEF Sched
    <3> HIDE DEF t
    <3> QED BY <2>1, <3>1
  <2>2. CASE wanted_mode(s) # "shared"
    <3>1. v = note_unrecorded(t)
      BY <2>2
    <3> HIDE DEF t, v
    <3> QED BY <1>4, <3>1, NoteUnrecorded
  <2> QED BY <2>1, <2>2
<1>6. v \in Sched
  <2> HIDE DEF t, v
  <2> QED BY <1>4, <1>5 DEF Sched
<1>7. /\ v.permits = s.permits + 1 /\ v.granted = s.granted - 1
      /\ v.waiting = s.waiting /\ v.deferred = s.deferred
      /\ v.claims = s.claims /\ v.denied = s.denied
      /\ v.refused = s.refused /\ v.releases = s.releases /\ v.released = s.released
      /\ v.synced = s.synced /\ v.replicas = s.replicas /\ v.failing = s.failing
      /\ v.rec = s.rec /\ v.quiesced = s.quiesced
      /\ v.blocked = s.blocked /\ v.retry = s.retry
  <2> HIDE DEF v
  <2> QED BY <1>1, <1>5 DEF Sched
<1> HIDE DEF v
<1>8. Local(v)
  <2>1. s.blocked => s.retry
    BY <1>1 DEF Local
  <2> QED BY <1>1, <1>6, <1>7, <2>1, NoReconcileLocal
<1>9. load(v) = load(s) /\ holding(v) = holding(s)
  BY <1>1, <1>7 DEF load, ops, pending, holding, Sched
<1>10. \A n : Books(s, n) => Books(v, n)
  BY <1>1, <1>7, <1>9 DEF Books
<1>11. Settled(settle(v)) /\ load(settle(v)) = load(v) /\ \A n : Books(v, n) => Books(settle(v), n)
  BY <1>6, <1>8, SettleLocal DEF Settled
<1>12. Settled(settle(v)) /\ load(settle(v)) = load(s) /\ \A n : Books(s, n) => Books(settle(v), n)
  BY <1>9, <1>10, <1>11
<1> QED BY <1>12 DEF v

\* Ctl::AcquireDone with a refusal.
LEMMA DeniedSettled ==
  ASSUME NEW s, Settled(s), s.denied > 0
  PROVE  LET u == settle([s EXCEPT !.denied = @ - 1, !.waiting = @ + 1, !.probing = TRUE,
                                   !.blocked = TRUE, !.retry = TRUE])
         IN  /\ Settled(u) /\ load(u) = load(s)
             /\ \A n : Books(s, n) => Books(u, n)
<1> DEFINE v == [s EXCEPT !.denied = @ - 1, !.waiting = @ + 1, !.probing = TRUE,
                          !.blocked = TRUE, !.retry = TRUE]
<1>1. s \in Sched /\ Local(s) /\ s.rec = "none"
  BY AnswerAlone, CallInFlight DEF Settled
<1>2. s.denied - 1 \in Nat /\ s.waiting + 1 \in Nat
  BY <1>1 DEF Sched
<1>3. ASSUME NEW g \in Nat, NEW p \in Nat
      PROVE  [s EXCEPT !.denied = g, !.waiting = p, !.probing = TRUE,
                       !.blocked = TRUE, !.retry = TRUE] \in Sched
  BY <1>1 DEF Sched
<1>4. v \in Sched
  BY <1>2, <1>3
<1>5. /\ v.permits = s.permits /\ v.granted = s.granted
      /\ v.waiting = s.waiting + 1 /\ v.deferred = s.deferred
      /\ v.claims = s.claims /\ v.denied = s.denied - 1
      /\ v.refused = s.refused /\ v.releases = s.releases /\ v.released = s.released
      /\ v.synced = s.synced /\ v.replicas = s.replicas /\ v.failing = s.failing
      /\ v.rec = s.rec /\ v.quiesced = s.quiesced
      /\ v.blocked = TRUE /\ v.retry = TRUE
  BY <1>1 DEF Sched
<1> HIDE DEF v
<1>6. Local(v)
  BY <1>1, <1>4, <1>5, NoReconcileLocal
<1>7. load(v) = load(s) /\ holding(v) = holding(s)
  BY <1>1, <1>5 DEF load, ops, pending, holding, Sched
<1>8. \A n : Books(s, n) => Books(v, n)
  BY <1>1, <1>5, <1>7 DEF Books
<1>9. Settled(settle(v)) /\ load(settle(v)) = load(v) /\ \A n : Books(v, n) => Books(settle(v), n)
  BY <1>4, <1>6, SettleLocal DEF Settled
<1>10. Settled(settle(v)) /\ load(settle(v)) = load(s) /\ \A n : Books(s, n) => Books(settle(v), n)
  BY <1>7, <1>8, <1>9
<1> QED BY <1>10 DEF v

\* Ctl::ReleaseDone.
LEMMA ReleasedSettled ==
  ASSUME NEW s, Settled(s), s.released > 0
  PROVE  LET u == settle([s EXCEPT !.released = @ - 1,
                                   !.blocked = @ /\ wanted_mode(s) # "shared"])
         IN  /\ Settled(u) /\ load(u) <= load(s)
             /\ \A n : Books(s, n) => Books(u, n)
<1> DEFINE b == s.blocked /\ wanted_mode(s) # "shared"
           v == [s EXCEPT !.released = @ - 1, !.blocked = b]
<1>1. s \in Sched /\ Local(s) /\ s.rec = "none"
  BY AnswerAlone, CallInFlight DEF Settled
<1>2. s.released - 1 \in Nat
  BY <1>1 DEF Sched
<1>3. b \in BOOLEAN /\ (b => s.retry)
  BY <1>1 DEF Sched, Local
<1>4. v = [s EXCEPT !.released = @ - 1, !.blocked = @ /\ wanted_mode(s) # "shared"]
  OBVIOUS
<1> HIDE DEF b
<1>5. ASSUME NEW g \in Nat
      PROVE  [s EXCEPT !.released = g, !.blocked = b] \in Sched
  BY <1>1, <1>3 DEF Sched
<1>6. v \in Sched
  BY <1>2, <1>5
<1>7. /\ v.permits = s.permits /\ v.granted = s.granted
      /\ v.waiting = s.waiting /\ v.deferred = s.deferred
      /\ v.claims = s.claims /\ v.denied = s.denied
      /\ v.refused = s.refused /\ v.releases = s.releases /\ v.released = s.released - 1
      /\ v.synced = s.synced /\ v.replicas = s.replicas /\ v.failing = s.failing
      /\ v.rec = s.rec /\ v.quiesced = s.quiesced
      /\ v.blocked = b /\ v.retry = s.retry
  BY <1>1 DEF Sched
<1> HIDE DEF v
<1>8. Local(v)
  BY <1>1, <1>3, <1>6, <1>7, NoReconcileLocal
<1>9. load(v) <= load(s) /\ holding(v) = holding(s)
  BY <1>1, <1>7 DEF load, ops, pending, holding, Sched
<1>10. \A n : Books(s, n) => Books(v, n)
  BY <1>1, <1>7, <1>9 DEF Books
<1>11. Settled(settle(v)) /\ load(settle(v)) = load(v) /\ \A n : Books(v, n) => Books(settle(v), n)
  BY <1>6, <1>8, SettleLocal DEF Settled
<1>12. Settled(settle(v)) /\ load(settle(v)) <= load(s) /\ \A n : Books(s, n) => Books(settle(v), n)
  BY <1>9, <1>10, <1>11
<1> QED BY <1>4, <1>12

\* shared_timer.
LEMMA TimerSettled ==
  ASSUME NEW s, Settled(s), NEW retry \in BOOLEAN, NEW due \in BOOLEAN
  PROVE  LET u == settle([s EXCEPT !.retry = @ /\ ~retry, !.blocked = @ /\ ~retry,
                                   !.want = @ \/ due])
         IN  /\ Settled(u) /\ load(u) = load(s)
             /\ \A n : Books(s, n) => Books(u, n)
<1> DEFINE a == s.retry /\ ~retry
           b == s.blocked /\ ~retry
           w == s.want \/ due
           v == [s EXCEPT !.retry = a, !.blocked = b, !.want = w]
<1>1. s \in Sched /\ Local(s)
  BY DEF Settled
<1>2. a \in BOOLEAN /\ b \in BOOLEAN /\ w \in BOOLEAN /\ (b => a)
  BY <1>1 DEF Sched, Local
<1>3. v = [s EXCEPT !.retry = @ /\ ~retry, !.blocked = @ /\ ~retry, !.want = @ \/ due]
  OBVIOUS
<1> HIDE DEF a, b, w
<1>4. v \in Sched
  BY <1>1, <1>2 DEF Sched
<1>5. /\ v.permits = s.permits /\ v.granted = s.granted
      /\ v.waiting = s.waiting /\ v.deferred = s.deferred
      /\ v.claims = s.claims /\ v.denied = s.denied
      /\ v.refused = s.refused /\ v.releases = s.releases /\ v.released = s.released
      /\ v.synced = s.synced /\ v.replicas = s.replicas /\ v.failing = s.failing
      /\ v.rec = s.rec /\ v.quiesced = s.quiesced /\ v.snap = s.snap /\ v.moved = s.moved
      /\ v.blocked = b /\ v.retry = a
  BY <1>1 DEF Sched
<1> HIDE DEF v
<1>6. load(v) = load(s) /\ holding(v) = holding(s) /\ ops(v) = ops(s)
  BY <1>1, <1>5 DEF load, ops, pending, holding, Sched
<1>7. Local(v)
  BY <1>1, <1>2, <1>5, <1>6 DEF Local
<1>8. \A n : Books(s, n) => Books(v, n)
  BY <1>1, <1>5, <1>6 DEF Books
<1>9. Settled(settle(v)) /\ load(settle(v)) = load(v) /\ \A n : Books(v, n) => Books(settle(v), n)
  BY <1>4, <1>7, SettleLocal DEF Settled
<1>10. Settled(settle(v)) /\ load(settle(v)) = load(s) /\ \A n : Books(s, n) => Books(settle(v), n)
  BY <1>6, <1>8, <1>9
<1> QED BY <1>3, <1>10

\* An answer, or the call for it, is lost, or says the replica is not registered.
LEMMA FailedSettled ==
  ASSUME NEW s \in Sched, s.rec = "none", ~s.quiesced, s.blocked => s.retry
  PROVE  LET u == settle(shared_failed(s))
         IN  Settled(u) /\ load(u) <= load(s) /\ \A n : Books(u, n)
<1> DEFINE v == shared_failed(s)
<1>1. v \in Sched /\ Local(v) /\ load(v) <= load(s) /\ \A n : Books(v, n)
  BY FailedLocal
<1> HIDE DEF v
<1>2. Settled(settle(v)) /\ load(settle(v)) = load(v) /\ \A n : Books(v, n) => Books(settle(v), n)
  BY <1>1, SettleLocal DEF Settled
<1>3. Settled(settle(v)) /\ load(settle(v)) <= load(s) /\ \A n : Books(settle(v), n)
  BY <1>1, <1>2
<1> QED BY <1>3 DEF v
-----------------------------------------------------------------------------
(* The backend applying calls.                                             *)

\* A claim is answered: granted, denied or refused.
LEMMA ClaimApplied ==
  ASSUME NEW s, Settled(s), s.claims > 0, NEW g \in Nat, NEW d \in Nat, NEW f \in Nat,
         g + d + f = s.granted + s.denied + s.refused + 1
  PROVE  LET t == [s EXCEPT !.claims = @ - 1, !.granted = g, !.denied = d, !.refused = f]
         IN  /\ Settled(t) /\ load(t) = load(s)
             /\ \A n \in Nat : Books(s, n) => Books(t, n + g - s.granted)
<1> DEFINE c == s.claims - 1
           t == [s EXCEPT !.claims = c, !.granted = g, !.denied = d, !.refused = f]
<1>1. s \in Sched /\ Local(s) /\ Started(s) /\ Busy(s) /\ s.rec = "none"
  BY AnswerAlone, CallInFlight DEF Settled
<1>2. c \in Nat
  BY <1>1 DEF Sched
<1> HIDE DEF c
<1>3. t \in Sched
  BY <1>1, <1>2 DEF Sched
<1>4. /\ t.permits = s.permits /\ t.granted = g
      /\ t.waiting = s.waiting /\ t.deferred = s.deferred
      /\ t.claims = c /\ t.denied = d
      /\ t.refused = f /\ t.releases = s.releases /\ t.released = s.released
      /\ t.synced = s.synced /\ t.replicas = s.replicas /\ t.failing = s.failing
      /\ t.rec = s.rec /\ t.quiesced = s.quiesced /\ t.want = s.want
      /\ t.blocked = s.blocked /\ t.retry = s.retry /\ t.probing = s.probing
  BY <1>1 DEF Sched
<1> HIDE DEF t
<1>5. /\ pending(t) = pending(s) /\ ops(t) = ops(s) /\ load(t) = load(s)
      /\ in_flight(t) = in_flight(s)
      /\ holding(t) = holding(s) + g - s.granted
  BY <1>1, <1>4 DEF load, ops, pending, holding, in_flight, Sched, c
<1>6. Local(t)
  <2>1. s.blocked => s.retry
    BY <1>1 DEF Local
  <2> QED BY <1>1, <1>3, <1>4, <2>1, NoReconcileLocal
<1>7. Started(t)
  BY <1>1, <1>4, <1>5 DEF Started
<1>8. wanted_mode(t) = wanted_mode(s) /\ max_pending(t) = max_pending(s)
  BY <1>4 DEF wanted_mode, max_pending
<1>9. limit(t) = limit(s) /\ quiescing(t) = quiescing(s)
  BY <1>4, <1>8 DEF limit, quiescing, quiesced_running
<1>10. Busy(t)
  BY <1>1, <1>4, <1>5, <1>8, <1>9 DEF Busy
<1>11. \A n \in Nat : Books(s, n) => Books(t, n + g - s.granted)
  BY <1>1, <1>4, <1>5 DEF Books
<1>12. Settled(t)
  BY <1>3, <1>6, <1>7, <1>10 DEF Settled
<1> QED BY <1>5, <1>11, <1>12 DEF t, c

\* A release is answered.
LEMMA ReleaseApplied ==
  ASSUME NEW s, Settled(s), s.releases > 0
  PROVE  LET t == [s EXCEPT !.releases = @ - 1, !.released = @ + 1]
         IN  /\ Settled(t) /\ load(t) = load(s)
             /\ \A n \in Nat : Books(s, n) => Books(t, IF n > 0 THEN n - 1 ELSE 0)
<1> DEFINE c == s.releases - 1
           d == s.released + 1
           t == [s EXCEPT !.releases = c, !.released = d]
<1>1. s \in Sched /\ Local(s) /\ Started(s) /\ Busy(s) /\ s.rec = "none"
  BY AnswerAlone, CallInFlight DEF Settled
<1>2. c \in Nat /\ d \in Nat
  BY <1>1 DEF Sched
<1> HIDE DEF c, d
<1>3. t \in Sched
  BY <1>1, <1>2 DEF Sched
<1>4. /\ t.permits = s.permits /\ t.granted = s.granted
      /\ t.waiting = s.waiting /\ t.deferred = s.deferred
      /\ t.claims = s.claims /\ t.denied = s.denied
      /\ t.refused = s.refused /\ t.releases = c /\ t.released = d
      /\ t.synced = s.synced /\ t.replicas = s.replicas /\ t.failing = s.failing
      /\ t.rec = s.rec /\ t.quiesced = s.quiesced /\ t.want = s.want
      /\ t.blocked = s.blocked /\ t.retry = s.retry /\ t.probing = s.probing
  BY <1>1 DEF Sched
<1> HIDE DEF t
<1>5. /\ pending(t) = pending(s) /\ ops(t) = ops(s) /\ load(t) = load(s)
      /\ in_flight(t) = in_flight(s)
      /\ holding(t) = holding(s) - 1 /\ holding(s) > 0
  BY <1>1, <1>4 DEF load, ops, pending, holding, in_flight, Sched, c, d
<1>6. Local(t)
  <2>1. s.blocked => s.retry
    BY <1>1 DEF Local
  <2> QED BY <1>1, <1>3, <1>4, <2>1, NoReconcileLocal
<1>7. Started(t)
  BY <1>1, <1>4, <1>5 DEF Started
<1>8. wanted_mode(t) = wanted_mode(s) /\ max_pending(t) = max_pending(s)
  BY <1>4 DEF wanted_mode, max_pending
<1>9. limit(t) = limit(s) /\ quiescing(t) = quiescing(s)
  BY <1>4, <1>8 DEF limit, quiescing, quiesced_running
<1>10. Busy(t)
  BY <1>1, <1>4, <1>5, <1>8, <1>9 DEF Busy
<1>11. \A n \in Nat : Books(s, n) => Books(t, IF n > 0 THEN n - 1 ELSE 0)
  BY <1>1, <1>4, <1>5 DEF Books
<1>12. Settled(t)
  BY <1>3, <1>6, <1>7, <1>10 DEF Settled
<1> QED BY <1>5, <1>11, <1>12 DEF t, c, d

\* A reconcile is answered: what it sent is then on the books, if it was registered.
LEMMA ReconcileApplied ==
  ASSUME NEW s, Settled(s), s.rec = "sent", NEW answer \in {"synced", "unregistered"}
  PROVE  LET t == [s EXCEPT !.rec = answer]
         IN  /\ Settled(t) /\ load(t) = load(s)
             /\ Books(t, s.snap)
             /\ \A n : answer = "unregistered" /\ Books(s, n) => Books(t, n)
<1> DEFINE t == [s EXCEPT !.rec = answer]
<1>1. s \in Sched /\ Local(s) /\ Started(s) /\ Busy(s)
  BY DEF Settled
<1>2. t \in Sched
  BY <1>1 DEF Sched
<1>3. /\ t.permits = s.permits /\ t.granted = s.granted
      /\ t.waiting = s.waiting /\ t.deferred = s.deferred
      /\ t.claims = s.claims /\ t.denied = s.denied
      /\ t.refused = s.refused /\ t.releases = s.releases /\ t.released = s.released
      /\ t.synced = s.synced /\ t.replicas = s.replicas /\ t.failing = s.failing
      /\ t.rec = answer /\ t.quiesced = s.quiesced /\ t.want = s.want
      /\ t.snap = s.snap /\ t.moved = s.moved
      /\ t.blocked = s.blocked /\ t.retry = s.retry /\ t.probing = s.probing
  BY <1>1 DEF Sched
<1> HIDE DEF t
<1>4. /\ pending(t) = pending(s) /\ ops(t) = ops(s) /\ load(t) = load(s)
      /\ in_flight(t) = in_flight(s) /\ holding(t) = holding(s)
  BY <1>1, <1>3 DEF load, ops, pending, holding, in_flight, Sched
<1>5. ops(s) = 0 /\ Local(t) /\ Started(t)
  BY <1>1, <1>3, <1>4 DEF Local, Started
<1>6. wanted_mode(t) = wanted_mode(s) /\ max_pending(t) = max_pending(s)
  BY <1>3 DEF wanted_mode, max_pending
<1>7. limit(t) = limit(s) /\ quiescing(t) = quiescing(s)
  BY <1>3, <1>6 DEF limit, quiescing, quiesced_running
<1>8. Busy(t)
  BY <1>1, <1>3, <1>4, <1>6, <1>7 DEF Busy
<1>9. s.synced => s.snap = holding(s)
  <2>1. s.granted = 0 /\ s.releases = 0
    BY <1>1, <1>5, NoOps
  <2> QED BY <1>1, <2>1 DEF Local, holding, Sched
<1>10. Books(t, s.snap) /\ \A n : answer = "unregistered" /\ Books(s, n) => Books(t, n)
  BY <1>3, <1>4, <1>9 DEF Books
<1>11. Settled(t)
  BY <1>2, <1>5, <1>8 DEF Settled
<1> QED BY <1>4, <1>10, <1>11 DEF t
-----------------------------------------------------------------------------
(* The fleet.                                                              *)

\* The inductive invariant: every scheduler is settled, also one whose process
\* ended, and the books of every replica not reclaimed are right.
FleetInv ==
  /\ TypeOK
  /\ scene \in Scenes
  /\ \A r \in Replica : Settled(sched[r])
  /\ \A r \in exact : Books(sched[r], recorded[r])

\* A booted scheduler, and what stands for an ended one, are settled and idle.
LEMMA BootedSettled ==
  /\ Settled(Booted) /\ load(Booted) = 0
  /\ Settled(recd(Booted)) /\ load(recd(Booted)) = 0
<1>1. Booted \in Sched /\ recd(Booted) \in Sched
  <2>1. 1 \in 1..NReplicas
    BY LedgerAssumption
  <2>2. Booted \in Sched
    BY <2>1 DEF Booted, Sched
  <2> QED BY <2>2, RecdLocal
<1>2. /\ ops(Booted) = 0 /\ load(Booted) = 0
      /\ ops(recd(Booted)) = 0 /\ load(recd(Booted)) = 0
  BY DEF Booted, recd, ops, pending, load
<1>3. Local(Booted) /\ Local(recd(Booted))
  BY <1>2 DEF Local, Booted, recd
<1>4. Started(Booted) /\ Started(recd(Booted)) /\ Busy(Booted) /\ Busy(recd(Booted))
  BY DEF Started, Busy, Booted, recd
<1> QED BY <1>1, <1>2, <1>3, <1>4 DEF Settled

\* A step that changes the scheduler of r, and the books of r or of replicas that
\* were reclaimed.
LEMMA FleetStep ==
  ASSUME FleetInv, UNCHANGED scene, NEW r \in Replica, NEW t, Settled(t),
         load(t) <= scene.load[r],
         sched' = [sched EXCEPT ![r] = t],
         reg' \in [Replica -> {"absent", "live", "lapsed"}],
         recorded' \in [Replica -> Nat],
         parked' = 0, up' \subseteq Replica, exact' \subseteq Replica,
         faults' \in 0..scene.faults,
         \A q \in exact' : q # r => q \in exact /\ recorded'[q] = recorded[q],
         r \in exact' => Books(t, recorded'[r])
  PROVE  FleetInv'
<1>1. sched \in [Replica -> Sched]
  BY DEF FleetInv, TypeOK, Sched
<1>2. t \in Sched
  BY DEF Settled
<1>3. sched' \in [Replica -> Sched]
  BY <1>1, <1>2
<1>4. \A q \in Replica : sched'[q] = IF q = r THEN t ELSE sched[q]
  BY <1>1
<1>5. \A q \in Replica : load(sched'[q]) <= scene.load[q]
  BY <1>4 DEF FleetInv, TypeOK, load
<1>6. TypeOK'
  BY <1>3, <1>5 DEF TypeOK, Sched, load
<1>7. \A q \in Replica : Settled(sched'[q])
  BY <1>4 DEF FleetInv
<1>8. \A q \in exact' : Books(sched'[q], recorded'[q])
  BY <1>4 DEF FleetInv
<1> QED BY <1>6, <1>7, <1>8 DEF FleetInv

\* A scheduler handles a message that changes nothing but itself.
LEMMA MessageStep ==
  ASSUME FleetInv, UNCHANGED scene, NEW r \in Replica, NEW t, Settled(t),
         load(t) <= scene.load[r],
         r \in exact => \A n : Books(sched[r], n) => Books(t, n),
         sched' = [sched EXCEPT ![r] = t],
         faults' \in 0..scene.faults,
         UNCHANGED <<up, exact, lvars>>
  PROVE  FleetInv'
<1>1. /\ reg' \in [Replica -> {"absent", "live", "lapsed"}]
      /\ recorded' \in [Replica -> Nat]
      /\ parked' = 0 /\ up' \subseteq Replica /\ exact' \subseteq Replica
  BY DEF FleetInv, TypeOK, lvars
<1>2. \A q \in exact' : q # r => q \in exact /\ recorded'[q] = recorded[q]
  BY DEF lvars
<1>3. r \in exact' => Books(t, recorded'[r])
  BY DEF FleetInv, lvars
<1> QED BY <1>1, <1>2, <1>3, FleetStep

\* The initial state.
LEMMA InitFleet == Init => FleetInv
<1> SUFFICES ASSUME Init PROVE FleetInv
  OBVIOUS
<1>1. \A r \in Replica : sched[r] = Booted
  BY DEF Init
<1>2. sched \in [Replica -> Sched]
  BY BootedSettled DEF Init, Settled
<1>3. scene \in Scenes /\ scene.load \in [Replica -> Nat] /\ scene.faults \in Nat
  BY ClusterAssumption DEF Init
<1>4. \A r \in Replica : load(sched[r]) <= scene.load[r]
  BY <1>1, <1>3, BootedSettled
<1>5. TypeOK
  BY <1>2, <1>3, <1>4 DEF Init, LedgerInit, TypeOK, Sched, load
<1>6. exact = {}
  BY DEF Init
<1> QED BY <1>1, <1>3, <1>5, <1>6, BootedSettled DEF FleetInv

\* Facts of one replica.
LEMMA ReplicaFacts ==
  ASSUME FleetInv, NEW r \in Replica
  PROVE  /\ Settled(sched[r]) /\ sched[r] \in Sched
         /\ load(sched[r]) <= scene.load[r] /\ scene.load[r] \in Nat
         /\ load(sched[r]) \in Nat
         /\ recorded[r] \in Nat
         /\ faults \in 0..scene.faults /\ scene.faults \in Nat
<1>1. scene.load \in [Replica -> Nat] /\ scene.faults \in Nat
  BY ClusterAssumption DEF FleetInv
<1>2. sched[r] \in Sched
  BY DEF FleetInv, Settled
<1> QED BY <1>1, <1>2, CountsNat DEF FleetInv, TypeOK, load

\* Requests come, end and leave.
LEMMA RequestsFleet ==
  ASSUME FleetInv, UNCHANGED scene, NEW r \in Replica, Admit(r) \/ Finish(r) \/ Abandon(r)
  PROVE  FleetInv'
<1> DEFINE s == sched[r]
<1>1. /\ Settled(s) /\ s \in Sched /\ Local(s) /\ Started(s)
      /\ load(s) <= scene.load[r] /\ scene.load[r] \in Nat /\ load(s) \in Nat
      /\ faults \in 0..scene.faults
  BY ReplicaFacts DEF Settled
<1>2. PICK u \in Sched :
        /\ Local(u) /\ Started(u) /\ load(u) <= scene.load[r]
        /\ \A n : Books(s, n) => Books(u, n)
        /\ Becomes(r, dispatch_all(u))
  <2>1. CASE Admit(r)
    <3>1. load(s) + 1 <= scene.load[r] /\ Becomes(r, dispatch_all([s EXCEPT !.waiting = @ + 1]))
      BY <1>1, <2>1 DEF Admit, load
    <3>2. s.waiting + 1 \in Nat /\ s.waiting \in Nat
      BY <1>1 DEF Sched
    <3> HIDE DEF s
    <3>3. LET u == [s EXCEPT !.waiting = @ + 1]
          IN  /\ u \in Sched /\ Local(u) /\ Started(u)
              /\ load(u) = load(s) - s.waiting + (s.waiting + 1)
              /\ \A n : Books(s, n) => Books(u, n)
      BY <1>1, <3>2, WaitersChange
    <3>4. load([s EXCEPT !.waiting = @ + 1]) <= scene.load[r]
      BY <1>1, <3>1, <3>2, <3>3
    <3> QED BY <3>1, <3>3, <3>4
  <2>2. CASE Finish(r)
    <3>1. s.permits > 0 /\ Becomes(r, dispatch_all(release_slot(s)))
      BY <2>2 DEF Finish
    <3> HIDE DEF s
    <3>2. LET u == release_slot(s)
          IN  /\ u \in Sched /\ Local(u) /\ Started(u)
              /\ load(u) <= load(s)
              /\ \A n : Books(s, n) => Books(u, n)
      BY <1>1, <3>1, ReleaseLocal
    <3>3. load(release_slot(s)) <= scene.load[r]
      BY <1>1, <3>2, CountsNat
    <3> QED BY <3>1, <3>2, <3>3
  <2>3. CASE Abandon(r)
    <3>1. s.waiting > 0 /\ Becomes(r, dispatch_all([s EXCEPT !.waiting = @ - 1]))
      BY <2>3 DEF Abandon
    <3>2. s.waiting - 1 \in Nat /\ s.waiting \in Nat
      BY <1>1, <3>1 DEF Sched
    <3> HIDE DEF s
    <3>3. LET u == [s EXCEPT !.waiting = @ - 1]
          IN  /\ u \in Sched /\ Local(u) /\ Started(u)
              /\ load(u) = load(s) - s.waiting + (s.waiting - 1)
              /\ \A n : Books(s, n) => Books(u, n)
      BY <1>1, <3>2, WaitersChange
    <3>4. load([s EXCEPT !.waiting = @ - 1]) <= scene.load[r]
      BY <1>1, <3>2, <3>3
    <3> QED BY <3>1, <3>3, <3>4
  <2> QED BY <2>1, <2>2, <2>3
<1> DEFINE t == dispatch_all(u)
<1>3. /\ Settled(t) /\ load(t) = load(u)
      /\ \A n : Books(u, n) => Books(t, n)
  BY <1>2, DispatchLocal DEF Settled
<1>4. sched' = [sched EXCEPT ![r] = t] /\ UNCHANGED <<up, exact, lvars>> /\ faults' = faults
  BY <1>2 DEF Becomes
<1> HIDE DEF t
<1>5. load(t) <= scene.load[r] /\ \A n : Books(s, n) => Books(t, n)
  BY <1>2, <1>3
<1> QED BY <1>1, <1>3, <1>4, <1>5, MessageStep

\* A timer runs out, or a wakeup comes.
LEMMA TimersFleet ==
  ASSUME FleetInv, UNCHANGED scene, NEW r \in Replica, Timers(r) \/ Wake(r)
  PROVE  FleetInv'
<1> DEFINE s == sched[r]
<1>1. /\ Settled(s) /\ s \in Sched /\ Local(s) /\ Started(s)
      /\ load(s) <= scene.load[r] /\ scene.load[r] \in Nat /\ load(s) \in Nat
      /\ faults \in 0..scene.faults
  BY ReplicaFacts DEF Settled
<1>2. CASE Timers(r)
  <2>1. PICK retry \in BOOLEAN, due \in BOOLEAN : Timer(r, retry, due)
    BY <1>2 DEF Timers
  <2> DEFINE t == settle([s EXCEPT !.retry = @ /\ ~retry, !.blocked = @ /\ ~retry,
                                   !.want = @ \/ due])
  <2>2. /\ Settled(t) /\ load(t) = load(s)
        /\ \A n : Books(s, n) => Books(t, n)
    <3> HIDE DEF s
    <3> QED BY <1>1, TimerSettled
  <2>3. sched' = [sched EXCEPT ![r] = t] /\ UNCHANGED <<up, exact, lvars>> /\ faults' = faults
    BY <2>1 DEF Timer, Becomes
  <2> HIDE DEF t
  <2> QED BY <1>1, <2>2, <2>3, MessageStep
<1>3. CASE Wake(r)
  <2> DEFINE u == [s EXCEPT !.blocked = FALSE]
             t == dispatch_all(u)
  <2>1. u \in Sched
    BY <1>1 DEF Sched
  <2>2. ops(u) = ops(s) /\ load(u) = load(s) /\ holding(u) = holding(s)
    BY <1>1 DEF Sched, ops, pending, load, holding
  <2>3. Local(u) /\ Started(u)
    BY <1>1, <2>2 DEF Local, Started, Sched
  <2>4. \A n : Books(s, n) => Books(u, n)
    BY <1>1, <2>2 DEF Books, Sched
  <2>5. sched' = [sched EXCEPT ![r] = t] /\ UNCHANGED <<up, exact, lvars>> /\ faults' = faults
    BY <1>3 DEF Wake, Becomes
  <2> HIDE DEF u
  <2>6. Settled(t) /\ load(t) = load(u) /\ \A n : Books(u, n) => Books(t, n)
    BY <2>1, <2>3, DispatchLocal DEF Settled
  <2> HIDE DEF t
  <2>7. load(t) <= scene.load[r] /\ \A n : Books(s, n) => Books(t, n)
    BY <1>1, <2>2, <2>4, <2>6
  <2> QED BY <1>1, <2>5, <2>6, <2>7, MessageStep
<1> QED BY <1>2, <1>3

\* An answer of the backend is handled.
LEMMA AnswersFleet ==
  ASSUME FleetInv, UNCHANGED scene, NEW r \in Replica,
         \/ AcquireGranted(r) \/ AcquireDenied(r) \/ AcquireNotRegistered(r)
         \/ ReleaseDone(r) \/ ReconcileDone(r)
  PROVE  FleetInv'
<1> DEFINE s == sched[r]
<1>1. /\ Settled(s) /\ s \in Sched /\ Local(s)
      /\ s.blocked => s.retry
      /\ load(s) <= scene.load[r] /\ scene.load[r] \in Nat /\ load(s) \in Nat
      /\ faults \in 0..scene.faults
  BY ReplicaFacts DEF Settled, Local
<1>2. SUFFICES \E t : /\ Settled(t) /\ load(t) <= load(s)
                      /\ \A n : Books(s, n) => Books(t, n)
                      /\ Becomes(r, t)
  <2>1. ASSUME NEW t, Settled(t), load(t) <= load(s), \A n : Books(s, n) => Books(t, n),
               Becomes(r, t)
        PROVE  FleetInv'
    <3>1. sched' = [sched EXCEPT ![r] = t] /\ UNCHANGED <<up, exact, lvars>> /\ faults' = faults
      BY <2>1 DEF Becomes
    <3>2. load(t) \in Nat
      BY <2>1, CountsNat DEF Settled
    <3>3. load(t) <= scene.load[r]
      BY <1>1, <2>1, <3>2
    <3> QED BY <1>1, <2>1, <3>1, <3>3, MessageStep
  <2> QED BY <2>1
<1>3. CASE AcquireGranted(r)
  <2> DEFINE g == [s EXCEPT !.granted = @ - 1, !.permits = @ + 1, !.probing = FALSE]
             t == settle(IF wanted_mode(s) = "shared" THEN g ELSE note_unrecorded(g))
  <2>1. s.granted > 0 /\ Becomes(r, t)
    BY <1>3 DEF AcquireGranted
  <2>2. Settled(t) /\ load(t) = load(s) /\ \A n : Books(s, n) => Books(t, n)
    <3> HIDE DEF s
    <3> QED BY <1>1, <2>1, GrantedSettled
  <2> HIDE DEF t
  <2> QED BY <1>1, <2>1, <2>2
<1>4. CASE AcquireDenied(r)
  <2> DEFINE t == settle([s EXCEPT !.denied = @ - 1, !.waiting = @ + 1, !.probing = TRUE,
                                   !.blocked = TRUE, !.retry = TRUE])
  <2>1. s.denied > 0 /\ Becomes(r, t)
    BY <1>4 DEF AcquireDenied
  <2>2. Settled(t) /\ load(t) = load(s) /\ \A n : Books(s, n) => Books(t, n)
    <3> HIDE DEF s
    <3> QED BY <1>1, <2>1, DeniedSettled
  <2> HIDE DEF t
  <2> QED BY <1>1, <2>1, <2>2
<1>5. CASE AcquireNotRegistered(r)
  <2> DEFINE u == [s EXCEPT !.refused = @ - 1, !.waiting = @ + 1]
             t == settle(shared_failed(u))
  <2>1. s.refused > 0 /\ Becomes(r, t)
    BY <1>5 DEF AcquireNotRegistered
  <2>2. /\ u \in Sched /\ load(u) = load(s)
        /\ u.rec = "none" /\ ~u.quiesced
        /\ u.blocked => u.retry
    <3>1. s.refused - 1 \in Nat /\ s.waiting + 1 \in Nat
      BY <1>1, <2>1 DEF Sched
    <3>2. ASSUME NEW c \in Nat, NEW w \in Nat
          PROVE  [s EXCEPT !.refused = c, !.waiting = w] \in Sched
      BY <1>1 DEF Sched
    <3>3. u \in Sched
      BY <3>1, <3>2
    <3>4. s.rec = "none" /\ ~s.quiesced
      BY <1>1, <2>1, AnswerAlone, CallInFlight
    <3>5. load(u) = load(s)
      BY <1>1 DEF Sched, load, ops, pending
    <3> QED BY <1>1, <3>3, <3>4, <3>5 DEF Sched
  <2> HIDE DEF u
  <2>3. Settled(t) /\ load(t) <= load(u) /\ \A n : Books(t, n)
    BY <2>2, FailedSettled
  <2> HIDE DEF t
  <2> QED BY <2>1, <2>2, <2>3
<1>6. CASE ReleaseDone(r)
  <2> DEFINE t == settle([s EXCEPT !.released = @ - 1,
                                   !.blocked = @ /\ wanted_mode(s) # "shared"])
  <2>1. s.released > 0 /\ Becomes(r, t)
    BY <1>6 DEF ReleaseDone
  <2>2. Settled(t) /\ load(t) <= load(s) /\ \A n : Books(s, n) => Books(t, n)
    <3> HIDE DEF s
    <3> QED BY <1>1, <2>1, ReleasedSettled
  <2> HIDE DEF t
  <2> QED BY <2>1, <2>2
<1>7. CASE ReconcileDone(r)
  <2>1. CASE s.rec = "synced" /\ Becomes(r, settle(reconcile_synced(s)))
    <3> DEFINE u == reconcile_synced(s)
               t == settle(u)
    <3>1. /\ u \in Sched /\ Local(u) /\ load(u) <= load(s)
          /\ \A n : Books(s, n) => Books(u, n)
      <4> HIDE DEF s
      <4> QED BY <1>1, <2>1, ReconciledLocal
    <3>2. Becomes(r, t)
      BY <2>1
    <3> HIDE DEF u
    <3>3. Settled(t) /\ load(t) = load(u) /\ \A n : Books(u, n) => Books(t, n)
      BY <3>1, SettleLocal DEF Settled
    <3> HIDE DEF t
    <3> QED BY <3>1, <3>2, <3>3
  <2>2. CASE s.rec = "unregistered" /\ Becomes(r, settle(shared_failed(recd(s))))
    <3> DEFINE u == recd(s)
               t == settle(shared_failed(u))
    <3>1. /\ u \in Sched /\ load(u) = load(s)
          /\ u.rec = "none" /\ ~u.quiesced
          /\ u.blocked => u.retry
      BY <1>1, RecdLocal
    <3>2. Becomes(r, t)
      BY <2>2
    <3> HIDE DEF u
    <3>3. Settled(t) /\ load(t) <= load(u) /\ \A n : Books(t, n)
      BY <3>1, FailedSettled
    <3> HIDE DEF t
    <3> QED BY <3>1, <3>2, <3>3
  <2> QED BY <1>7, <2>1, <2>2 DEF ReconcileDone
<1> QED BY <1>3, <1>4, <1>5, <1>6, <1>7

\* What is left of the faults when one happens.
LEMMA FaultsLeft ==
  ASSUME NEW n \in Nat, faults \in 0..n, Fault
  PROVE  faults' \in 0..n
BY DEF Fault

\* A call errs or times out, or its answer is lost.
LEMMA CallFailsFleet ==
  ASSUME FleetInv, UNCHANGED scene, NEW r \in Replica, CallFails(r)
  PROVE  FleetInv'
<1> DEFINE s == sched[r]
<1>1. /\ Settled(s) /\ s \in Sched /\ Local(s)
      /\ s.blocked => s.retry
      /\ load(s) <= scene.load[r] /\ scene.load[r] \in Nat /\ load(s) \in Nat
      /\ faults \in 0..scene.faults /\ scene.faults \in Nat
  BY ReplicaFacts DEF Settled, Local
<1>2. SUFFICES \E u \in Sched : /\ load(u) <= load(s) /\ u.rec = "none" /\ ~u.quiesced
                                /\ u.blocked => u.retry
                                /\ Lost(r, u)
  <2>1. ASSUME NEW u \in Sched, load(u) <= load(s), u.rec = "none", ~u.quiesced,
               u.blocked => u.retry, Lost(r, u)
        PROVE  FleetInv'
    <3> DEFINE t == settle(shared_failed(u))
    <3>1. /\ sched' = [sched EXCEPT ![r] = t] /\ UNCHANGED <<up, exact, lvars>> /\ Fault
      BY <2>1 DEF Lost
    <3>2. Settled(t) /\ load(t) <= load(u) /\ \A n : Books(t, n)
      BY <2>1, FailedSettled
    <3> HIDE DEF t
    <3>3. faults' \in 0..scene.faults
      BY <1>1, <3>1, FaultsLeft
    <3>4. load(t) \in Nat /\ load(u) \in Nat
      BY <2>1, <3>2, CountsNat DEF Settled
    <3>5. load(t) <= scene.load[r]
      BY <1>1, <2>1, <3>2, <3>4
    <3> QED BY <3>1, <3>2, <3>3, <3>5, MessageStep
  <2> QED BY <2>1
<1>3. ops(s) > 0 => s.rec = "none" /\ ~s.quiesced
  BY <1>1, AnswerAlone
<1>4. CASE s.claims > 0 /\ Lost(r, [s EXCEPT !.claims = @ - 1, !.waiting = @ + 1])
  <2> DEFINE c == s.claims - 1
             w == s.waiting + 1
             u == [s EXCEPT !.claims = c, !.waiting = w]
  <2>1. c \in Nat /\ w \in Nat /\ s.rec = "none" /\ ~s.quiesced /\ Lost(r, u)
    BY <1>1, <1>3, <1>4, CallInFlight DEF Sched
  <2>2. load(u) = load(s)
    BY <1>1 DEF Sched, load, ops, pending
  <2> HIDE DEF c, w
  <2>3. /\ u \in Sched /\ u.rec = "none" /\ ~u.quiesced
        /\ u.blocked => u.retry
    BY <1>1, <2>1 DEF Sched
  <2> HIDE DEF u
  <2> QED BY <1>1, <2>1, <2>2, <2>3
<1>5. CASE s.granted > 0 /\ Lost(r, [s EXCEPT !.granted = @ - 1, !.waiting = @ + 1])
  <2> DEFINE c == s.granted - 1
             w == s.waiting + 1
             u == [s EXCEPT !.granted = c, !.waiting = w]
  <2>1. c \in Nat /\ w \in Nat /\ s.rec = "none" /\ ~s.quiesced /\ Lost(r, u)
    BY <1>1, <1>3, <1>5, CallInFlight DEF Sched
  <2>2. load(u) = load(s)
    BY <1>1 DEF Sched, load, ops, pending
  <2> HIDE DEF c, w
  <2>3. /\ u \in Sched /\ u.rec = "none" /\ ~u.quiesced
        /\ u.blocked => u.retry
    BY <1>1, <2>1 DEF Sched
  <2> HIDE DEF u
  <2> QED BY <1>1, <2>1, <2>2, <2>3
<1>6. CASE s.releases > 0 /\ Lost(r, [s EXCEPT !.releases = @ - 1])
  <2> DEFINE c == s.releases - 1
             u == [s EXCEPT !.releases = c]
  <2>1. c \in Nat /\ s.rec = "none" /\ ~s.quiesced /\ Lost(r, u)
    BY <1>1, <1>3, <1>6, CallInFlight DEF Sched
  <2>2. load(u) <= load(s)
    BY <1>1 DEF Sched, load, ops, pending
  <2> HIDE DEF c
  <2>3. /\ u \in Sched /\ u.rec = "none" /\ ~u.quiesced
        /\ u.blocked => u.retry
    BY <1>1, <2>1 DEF Sched
  <2> HIDE DEF u
  <2> QED BY <2>1, <2>2, <2>3
<1>7. CASE s.released > 0 /\ Lost(r, [s EXCEPT !.released = @ - 1])
  <2> DEFINE c == s.released - 1
             u == [s EXCEPT !.released = c]
  <2>1. c \in Nat /\ s.rec = "none" /\ ~s.quiesced /\ Lost(r, u)
    BY <1>1, <1>3, <1>7, CallInFlight DEF Sched
  <2>2. load(u) <= load(s)
    BY <1>1 DEF Sched, load, ops, pending
  <2> HIDE DEF c
  <2>3. /\ u \in Sched /\ u.rec = "none" /\ ~u.quiesced
        /\ u.blocked => u.retry
    BY <1>1, <2>1 DEF Sched
  <2> HIDE DEF u
  <2> QED BY <2>1, <2>2, <2>3
<1>8. CASE Lost(r, recd(s))
  BY <1>1, <1>8, RecdLocal
<1> QED BY <1>4, <1>5, <1>6, <1>7, <1>8 DEF CallFails

\* The backend applies a call and its answer is on the way.
LEMMA AppliesFleet ==
  ASSUME FleetInv, UNCHANGED scene, NEW r \in Replica,
         ApplyClaim(r) \/ ApplyRelease(r) \/ ApplyReconcile(r)
  PROVE  FleetInv'
<1> DEFINE s == sched[r]
<1>1. /\ Settled(s) /\ s \in Sched /\ recorded[r] \in Nat
      /\ load(s) <= scene.load[r] /\ scene.load[r] \in Nat /\ load(s) \in Nat
      /\ faults \in 0..scene.faults
      /\ parked = 0 /\ up \subseteq Replica /\ exact \subseteq Replica
      /\ reg \in [Replica -> {"absent", "live", "lapsed"}]
      /\ recorded \in [Replica -> Nat]
      /\ r \in exact => Books(s, recorded[r])
  BY ReplicaFacts DEF FleetInv, TypeOK
<1> DEFINE Good(t, n) ==
             /\ Settled(t) /\ load(t) = load(s) /\ n \in Nat
             /\ r \in exact' => Books(t, n)
             /\ Answered(r, t) /\ reg' = reg /\ parked' = parked
             /\ exact' \subseteq exact \cup {r}
             /\ recorded' = [recorded EXCEPT ![r] = n]
<1>2. SUFFICES \E t, n : Good(t, n)
  <2>1. ASSUME NEW t, NEW n, Good(t, n) PROVE FleetInv'
    <3> HIDE DEF s
    <3>1. /\ sched' = [sched EXCEPT ![r] = t]
          /\ up' = up /\ faults' = faults
      BY <2>1 DEF Answered
    <3>2. /\ recorded' \in [Replica -> Nat] /\ recorded'[r] = n
          /\ \A q \in Replica : q # r => recorded'[q] = recorded[q]
      BY <1>1, <2>1
    <3>3. \A q \in exact' : q # r => q \in exact /\ recorded'[q] = recorded[q]
      BY <1>1, <2>1, <3>2
    <3>4. r \in exact' => Books(t, recorded'[r])
      BY <2>1, <3>2
    <3>5. load(t) <= scene.load[r]
      BY <1>1, <2>1
    <3>6. /\ reg' \in [Replica -> {"absent", "live", "lapsed"}]
          /\ parked' = 0 /\ up' \subseteq Replica /\ exact' \subseteq Replica
          /\ faults' \in 0..scene.faults
      BY <1>1, <2>1, <3>1
    <3> QED BY <2>1, <3>1, <3>2, <3>3, <3>4, <3>5, <3>6, FleetStep
  <2> QED BY <2>1
<1>3. recorded = [recorded EXCEPT ![r] = recorded[r]]
  BY <1>1
<1>4. CASE ApplyClaim(r)
  <2> DEFINE c == [s EXCEPT !.claims = @ - 1]
             T(g, d, f) == [s EXCEPT !.claims = @ - 1, !.granted = g, !.denied = d, !.refused = f]
  <2>1. s.claims > 0 /\ exact' = exact
    BY <1>4 DEF ApplyClaim
  <2>2. /\ [c EXCEPT !.granted = @ + 1] = T(s.granted + 1, s.denied, s.refused)
        /\ [c EXCEPT !.denied = @ + 1] = T(s.granted, s.denied + 1, s.refused)
        /\ [c EXCEPT !.refused = @ + 1] = T(s.granted, s.denied, s.refused + 1)
    BY <1>1 DEF Sched
  <2>3. ASSUME NEW g \in Nat, NEW d \in Nat, NEW f \in Nat,
               g + d + f = s.granted + s.denied + s.refused + 1
        PROVE  /\ Settled(T(g, d, f)) /\ load(T(g, d, f)) = load(s)
               /\ \A n \in Nat : Books(s, n) => Books(T(g, d, f), n + g - s.granted)
    <3> HIDE DEF s
    <3> QED BY <1>1, <2>1, <2>3, ClaimApplied
  <2>4. s.granted \in Nat /\ s.denied \in Nat /\ s.refused \in Nat
    BY <1>1 DEF Sched
  <2>5. \/ /\ recorded' = [recorded EXCEPT ![r] = @ + 1] /\ parked' = parked /\ reg' = reg
           /\ Answered(r, [c EXCEPT !.granted = @ + 1])
        \/ /\ UNCHANGED lvars
           /\ \/ Answered(r, [c EXCEPT !.denied = @ + 1])
              \/ Answered(r, [c EXCEPT !.refused = @ + 1])
    BY <1>4 DEF ApplyClaim, Grant
  <2> HIDE DEF s, T, c
  <2>6. CASE /\ recorded' = [recorded EXCEPT ![r] = @ + 1] /\ parked' = parked /\ reg' = reg
             /\ Answered(r, [c EXCEPT !.granted = @ + 1])
    <3> DEFINE t == T(s.granted + 1, s.denied, s.refused)
               n == recorded[r] + 1
    <3>1. /\ Settled(t) /\ load(t) = load(s)
          /\ \A m \in Nat : Books(s, m) => Books(t, m + (s.granted + 1) - s.granted)
      BY <2>3, <2>4
    <3>2. recorded[r] + (s.granted + 1) - s.granted = n /\ n \in Nat
      BY <1>1, <2>4
    <3>3. Answered(r, t) /\ recorded' = [recorded EXCEPT ![r] = n]
      BY <2>2, <2>6
    <3>4. r \in exact => Books(t, n)
      BY <1>1, <3>1, <3>2
    <3> HIDE DEF t, n
    <3>5. Good(t, n)
      BY <1>1, <2>1, <2>6, <3>1, <3>2, <3>3, <3>4
    <3> QED BY <3>5, Zenon
  <2>7. CASE UNCHANGED lvars /\ Answered(r, [c EXCEPT !.denied = @ + 1])
    <3> DEFINE t == T(s.granted, s.denied + 1, s.refused)
               n == recorded[r]
    <3>1. /\ Settled(t) /\ load(t) = load(s)
          /\ \A m \in Nat : Books(s, m) => Books(t, m + s.granted - s.granted)
      BY <2>3, <2>4
    <3>2. recorded[r] + s.granted - s.granted = n /\ n \in Nat
      BY <1>1, <2>4
    <3>3. Answered(r, t) /\ recorded' = [recorded EXCEPT ![r] = n]
      BY <1>3, <2>2, <2>7 DEF lvars
    <3>4. r \in exact => Books(t, n)
      BY <1>1, <3>1, <3>2
    <3> HIDE DEF t, n
    <3>5. Good(t, n)
      BY <1>1, <2>1, <2>7, <3>1, <3>2, <3>3, <3>4 DEF lvars
    <3> QED BY <3>5, Zenon
  <2>8. CASE UNCHANGED lvars /\ Answered(r, [c EXCEPT !.refused = @ + 1])
    <3> DEFINE t == T(s.granted, s.denied, s.refused + 1)
               n == recorded[r]
    <3>1. /\ Settled(t) /\ load(t) = load(s)
          /\ \A m \in Nat : Books(s, m) => Books(t, m + s.granted - s.granted)
      BY <2>3, <2>4
    <3>2. recorded[r] + s.granted - s.granted = n /\ n \in Nat
      BY <1>1, <2>4
    <3>3. Answered(r, t) /\ recorded' = [recorded EXCEPT ![r] = n]
      BY <1>3, <2>2, <2>8 DEF lvars
    <3>4. r \in exact => Books(t, n)
      BY <1>1, <3>1, <3>2
    <3> HIDE DEF t, n
    <3>5. Good(t, n)
      BY <1>1, <2>1, <2>8, <3>1, <3>2, <3>3, <3>4 DEF lvars
    <3> QED BY <3>5, Zenon
  <2> QED BY <2>5, <2>6, <2>7, <2>8
<1>5. CASE ApplyRelease(r)
  <2> DEFINE t == [s EXCEPT !.releases = @ - 1, !.released = @ + 1]
             n == IF recorded[r] > 0 THEN recorded[r] - 1 ELSE 0
  <2>1. /\ s.releases > 0 /\ exact' = exact /\ Answered(r, t)
        /\ recorded' = [recorded EXCEPT ![r] = n] /\ parked' = parked /\ reg' = reg
    BY <1>5 DEF ApplyRelease, Release
  <2>2. /\ Settled(t) /\ load(t) = load(s)
        /\ Books(s, recorded[r]) => Books(t, n)
    <3> HIDE DEF s
    <3> QED BY <1>1, <2>1, ReleaseApplied
  <2>3. n \in Nat
    BY <1>1
  <2> HIDE DEF t, n
  <2>4. Good(t, n)
    BY <1>1, <2>1, <2>2, <2>3
  <2> QED BY <2>4, Zenon
<1>6. CASE ApplyReconcile(r)
  <2>1. /\ s.rec = "sent" /\ s.snap \in Nat
        /\ \/ /\ recorded' = [recorded EXCEPT ![r] = s.snap] /\ UNCHANGED <<reg, parked>>
              /\ exact' = exact \cup {r} /\ Answered(r, [s EXCEPT !.rec = "synced"])
           \/ /\ UNCHANGED <<exact, lvars>> /\ Answered(r, [s EXCEPT !.rec = "unregistered"])
    BY <1>1, <1>6 DEF ApplyReconcile, Reconcile, Sched
  <2> DEFINE T(a) == [s EXCEPT !.rec = a]
  <2>2. /\ Settled(T("synced")) /\ load(T("synced")) = load(s) /\ Books(T("synced"), s.snap)
        /\ Settled(T("unregistered")) /\ load(T("unregistered")) = load(s)
        /\ \A n : Books(s, n) => Books(T("unregistered"), n)
    <3> HIDE DEF s
    <3> QED BY <1>1, <2>1, ReconcileApplied
  <2>3. CASE /\ recorded' = [recorded EXCEPT ![r] = s.snap] /\ UNCHANGED <<reg, parked>>
             /\ exact' = exact \cup {r} /\ Answered(r, T("synced"))
    <3> HIDE DEF T, s
    <3>1. Good(T("synced"), s.snap)
      BY <1>1, <2>1, <2>2, <2>3
    <3> QED BY <3>1, Zenon
  <2>4. CASE UNCHANGED <<exact, lvars>> /\ Answered(r, T("unregistered"))
    <3> HIDE DEF T, s
    <3>1. Good(T("unregistered"), recorded[r])
      BY <1>1, <1>3, <2>1, <2>2, <2>4 DEF lvars
    <3> QED BY <3>1, Zenon
  <2> QED BY <2>1, <2>3, <2>4
<1> QED BY <1>4, <1>5, <1>6

\* A heartbeat counts its own replica and no more than there are.
LEMMA LiveCountBounds ==
  ASSUME NEW r \in Replica
  PROVE  LiveCount(r) \in 1..NReplicas
<1> DEFINE S == {q \in Replica : q = r \/ Live(q)}
<1>1. NReplicas \in Nat /\ NReplicas > 0
  BY LedgerAssumption
<1>2. IsFiniteSet(1..NReplicas) /\ Cardinality(1..NReplicas) = NReplicas
  BY <1>1, FS_Interval
<1>3. S \in SUBSET (1..NReplicas) /\ r \in S
  BY DEF Replica
<1> HIDE DEF S
<1>4. IsFiniteSet(S) /\ Cardinality(S) <= NReplicas
  BY <1>2, <1>3, FS_Subset
<1>5. Cardinality(S) \in Nat
  BY <1>4, FS_CardinalityType
<1>6. Cardinality(S) # 0
  BY <1>3, <1>4, FS_EmptySet
<1> QED BY <1>1, <1>4, <1>5, <1>6 DEF LiveCount, S

\* The heartbeat task registers the replica, reclaims what lapsed peers held and
\* tells the scheduler the count, unless it fails or the answer is lost.
LEMMA HeartbeatFleet ==
  ASSUME FleetInv, UNCHANGED scene, NEW r \in Replica, HeartbeatTask(r)
  PROVE  FleetInv'
<1> DEFINE s == sched[r]
           o == [s EXCEPT !.open = TRUE]
           k == LiveCount(r)
           t == set_replicas(o, k)
<1>1. /\ Settled(s) /\ s \in Sched /\ recorded[r] \in Nat
      /\ load(s) <= scene.load[r] /\ scene.load[r] \in Nat /\ load(s) \in Nat
      /\ faults \in 0..scene.faults /\ scene.faults \in Nat
      /\ parked = 0 /\ up \subseteq Replica /\ exact \subseteq Replica
      /\ reg \in [Replica -> {"absent", "live", "lapsed"}]
      /\ recorded \in [Replica -> Nat]
      /\ r \in exact => Books(s, recorded[r])
  BY ReplicaFacts DEF FleetInv, TypeOK
<1>2. k \in 1..NReplicas
  BY LiveCountBounds
<1>3. Settled(o) /\ load(o) = load(s) /\ \A n : Books(s, n) => Books(o, n)
  <2> HIDE DEF s
  <2> QED BY <1>1, OpenSettled
<1>4. up' = up
  BY DEF HeartbeatTask
<1>5. \/ /\ Heartbeat(r, parked) /\ exact' = exact \ Lapsed(r)
         /\ \/ sched' = [sched EXCEPT ![r] = t] /\ faults' = faults
            \/ Fault /\ sched' = [sched EXCEPT ![r] = o]
      \/ Fault /\ sched' = [sched EXCEPT ![r] = o] /\ UNCHANGED <<exact, lvars>>
  BY DEF HeartbeatTask
<1>6. Fault => faults' \in 0..scene.faults
  BY <1>1, FaultsLeft
<1> HIDE DEF o, k
<1>7. Settled(t) /\ load(t) = load(s) /\ \A n : Books(s, n) => Books(t, n)
  BY <1>2, <1>3, ReplicasSettled
<1> HIDE DEF t, s
<1>8. CASE Fault /\ sched' = [sched EXCEPT ![r] = o] /\ UNCHANGED <<exact, lvars>>
  <2>1. load(o) <= scene.load[r]
    BY <1>1, <1>3
  <2>2. r \in exact => \A n : Books(sched[r], n) => Books(o, n)
    BY <1>3 DEF s
  <2> QED BY <1>3, <1>4, <1>6, <1>8, <2>1, <2>2, MessageStep
<1>9. CASE Heartbeat(r, parked) /\ exact' = exact \ Lapsed(r)
  <2>1. /\ reg' \in [Replica -> {"absent", "live", "lapsed"}]
        /\ recorded' \in [Replica -> Nat] /\ parked' = 0
    BY <1>1, <1>9 DEF Heartbeat
  <2>2. /\ r \notin Lapsed(r) /\ recorded'[r] = recorded[r]
        /\ \A q \in exact' : q \in exact /\ recorded'[q] = recorded[q]
    BY <1>1, <1>9 DEF Heartbeat, Lapsed
  <2>3. exact' \subseteq Replica /\ up' \subseteq Replica
    BY <1>1, <1>4, <1>9
  <2>4. PICK z \in {o, t} : sched' = [sched EXCEPT ![r] = z] /\ faults' \in 0..scene.faults
    BY <1>1, <1>5, <1>6, Zenon
  <2>5. Settled(z) /\ load(z) <= scene.load[r] /\ \A n : Books(s, n) => Books(z, n)
    BY <1>1, <1>3, <1>7, <2>4
  <2>6. r \in exact' => Books(z, recorded'[r])
    BY <1>1, <2>2, <2>5
  <2>7. \A q \in exact' : q # r => q \in exact /\ recorded'[q] = recorded[q]
    BY <2>2
  <2> QED BY <2>1, <2>3, <2>4, <2>5, <2>6, <2>7, FleetStep
<1> QED BY <1>5, <1>8, <1>9

\* Processes end and start, and heartbeats are late.
LEMMA ProcessesFleet ==
  ASSUME FleetInv, UNCHANGED scene, NEW r \in Replica,
         Lapse(r) \/ Crash(r) \/ Stop(r) \/ Restart(r)
  PROVE  FleetInv'
<1>1. /\ recorded[r] \in Nat
      /\ load(sched[r]) <= scene.load[r] /\ scene.load[r] \in Nat
      /\ Settled(sched[r])
      /\ faults \in 0..scene.faults /\ scene.faults \in Nat
      /\ parked = 0 /\ up \subseteq Replica /\ exact \subseteq Replica
      /\ reg \in [Replica -> {"absent", "live", "lapsed"}]
      /\ recorded \in [Replica -> Nat]
      /\ sched \in [Replica -> Sched]
      /\ \A q \in exact : Books(sched[q], recorded[q])
  BY ReplicaFacts DEF FleetInv, TypeOK, Sched
<1>2. Fault => faults' \in 0..scene.faults
  BY <1>1, FaultsLeft
<1>3. CASE Lapse(r)
  <2>1. /\ sched' = [sched EXCEPT ![r] = sched[r]]
        /\ up' = up /\ exact' = exact /\ recorded' = recorded /\ parked' = parked
        /\ reg' = [reg EXCEPT ![r] = "lapsed"]
        /\ Fault \/ faults' = faults
    BY <1>1, <1>3 DEF Lapse, HeartbeatLapses
  <2>2. reg' \in [Replica -> {"absent", "live", "lapsed"}] /\ faults' \in 0..scene.faults
    BY <1>1, <1>2, <2>1
  <2>3. r \in exact' => Books(sched[r], recorded'[r])
    BY <1>1, <2>1
  <2> QED BY <1>1, <2>1, <2>2, <2>3, FleetStep
<1>4. CASE Crash(r) \/ Stop(r)
  <2>1. /\ sched' = [sched EXCEPT ![r] = recd(Booted)]
        /\ up' = up \ {r} /\ exact' = exact \ {r}
        /\ parked' = parked
        /\ recorded' = recorded \/ recorded' = [recorded EXCEPT ![r] = 0]
        /\ reg' = reg \/ reg' = [reg EXCEPT ![r] = "absent"]
        /\ Fault \/ faults' = faults
    BY <1>4 DEF Crash, Stop, Ends, Deregister, lvars
  <2>2. /\ reg' \in [Replica -> {"absent", "live", "lapsed"}] /\ faults' \in 0..scene.faults
        /\ recorded' \in [Replica -> Nat]
        /\ \A q \in Replica : q # r => recorded'[q] = recorded[q]
    BY <1>1, <1>2, <2>1
  <2>3. load(recd(Booted)) <= scene.load[r] /\ Settled(recd(Booted))
    BY <1>1, BootedSettled
  <2>4. /\ \A q \in exact' : q # r => q \in exact /\ recorded'[q] = recorded[q]
        /\ r \notin exact'
        /\ up' \subseteq Replica /\ exact' \subseteq Replica /\ parked' = 0
    BY <1>1, <2>1, <2>2
  <2> QED BY <2>1, <2>2, <2>3, <2>4, FleetStep
<1>5. CASE Restart(r)
  <2>1. /\ sched' = [sched EXCEPT ![r] = Booted]
        /\ up' = up \cup {r} /\ exact' = exact /\ faults' = faults
        /\ reg' = reg /\ recorded' = recorded /\ parked' = parked
    BY <1>5 DEF Restart, lvars
  <2>2. load(Booted) <= scene.load[r] /\ Settled(Booted)
    BY <1>1, BootedSettled
  <2>3. Books(Booted, recorded'[r])
    BY DEF Books, Booted
  <2>4. up' \subseteq Replica
    BY <1>1, <2>1
  <2> QED BY <1>1, <2>1, <2>2, <2>3, <2>4, FleetStep
<1> QED BY <1>3, <1>4, <1>5

\* Every step preserves the invariant.
LEMMA NextFleet == FleetInv /\ [Next]_vars => FleetInv'
<1> SUFFICES ASSUME FleetInv, [Next]_vars PROVE FleetInv'
  OBVIOUS
<1>1. CASE UNCHANGED vars
  <2>1. /\ reg' = reg /\ recorded' = recorded /\ parked' = parked /\ up' = up
        /\ sched' = sched /\ exact' = exact /\ faults' = faults /\ scene' = scene
    BY <1>1 DEF vars, cvars, lvars
  <2>2. TypeOK'
    BY <2>1 DEF FleetInv, TypeOK
  <2> QED BY <2>1, <2>2 DEF FleetInv
<1>2. CASE Next
  <2>1. PICK r \in Replica :
          \/ Admit(r) \/ Finish(r) \/ Abandon(r) \/ Timers(r) \/ Wake(r)
          \/ Calls(r) \/ CallFails(r)
          \/ HeartbeatTask(r) \/ Lapse(r)
          \/ Crash(r) \/ Stop(r) \/ Restart(r)
    BY <1>2 DEF Next
  <2>2. UNCHANGED scene
    BY <1>2 DEF Next
  <2>3. CASE Calls(r)
    BY <2>2, <2>3, AppliesFleet, AnswersFleet DEF Calls
  <2> QED BY <2>1, <2>2, <2>3, RequestsFleet, TimersFleet, CallFailsFleet, HeartbeatFleet,
             ProcessesFleet
<1> QED BY <1>1, <1>2
-----------------------------------------------------------------------------
(* The theorems.                                                           *)

\* The inductive invariant holds in every reachable state.
THEOREM FleetInvariant == Spec => []FleetInv
<1>1. Init => FleetInv
  BY InitFleet
<1>2. FleetInv /\ [Next]_vars => FleetInv'
  BY NextFleet
<1> QED BY <1>1, <1>2, PTL DEF Spec

\* Every scheduler's state is well formed and every request is in one place.
THEOREM ClusterTyped == Spec => []TypeOK
<1>1. FleetInv => TypeOK
  BY DEF FleetInv
<1> QED BY <1>1, FleetInvariant, PTL

\* What is on the books of a synced replica nobody reclaimed is what it holds.
THEOREM SyncedExact == Spec => []SyncedIsExact
<1>1. FleetInv => SyncedIsExact
  BY DEF FleetInv, Books, SyncedIsExact
<1> QED BY <1>1, FleetInvariant, PTL

\* A reconcile runs with nothing else in flight, and a quiesced one sends what
\* the replica has.
THEOREM ReconcileAlone == Spec => []ReconcileUndisturbed
<1>1. ASSUME FleetInv, NEW r \in up
      PROVE  sched[r].rec # "none" =>
               /\ ops(sched[r]) = 0
               /\ sched[r].quiesced => sched[r].snap = sched[r].permits + sched[r].deferred
  <2>1. Local(sched[r])
    BY <1>1 DEF FleetInv, TypeOK, Settled
  <2> QED BY <2>1 DEF Local
<1>2. FleetInv => ReconcileUndisturbed
  BY <1>1 DEF ReconcileUndisturbed
<1> QED BY <1>2, FleetInvariant, PTL

\* A refusal has its retry, a due reconcile waits for answers only and held back
\* releases for a quiesced reconcile.
THEOREM NoneStuck == Spec => []NobodyStuck
<1>1. ASSUME FleetInv, NEW r \in up
      PROVE  /\ sched[r].blocked => sched[r].retry
             /\ sched[r].want /\ sched[r].rec = "none" => ops(sched[r]) > 0
             /\ sched[r].deferred > 0 => quiesced_running(sched[r])
  <2>1. Local(sched[r]) /\ Started(sched[r])
    BY <1>1 DEF FleetInv, TypeOK, Settled
  <2> QED BY <2>1 DEF Local, Started, quiesced_running
<1>2. FleetInv => NobodyStuck
  BY <1>1 DEF NobodyStuck
<1> QED BY <1>2, FleetInvariant, PTL

\* A waiter is passed over only for a reason that ends by itself.
THEOREM SlotsUsed == Spec => []NoIdleSlot
<1>1. ASSUME FleetInv, NEW r \in up PROVE Busy(sched[r])
  BY <1>1 DEF FleetInv, TypeOK, Settled
<1>2. FleetInv => NoIdleSlot
  BY <1>1 DEF NoIdleSlot, Busy
<1> QED BY <1>2, FleetInvariant, PTL

\* The scheduler of a process that ended has nothing in flight.
Ended == \A r \in Replica \ up : sched[r] = recd(Booted)

\* The backend never applies a call of a process that has ended.
LEMMA EndedStays == FleetInv /\ Ended /\ [Next]_vars => Ended'
<1> SUFFICES ASSUME FleetInv, Ended, [Next]_vars, NEW q \in Replica, q \notin up'
             PROVE  sched'[q] = recd(Booted)
  BY DEF Ended
<1>1. sched \in [Replica -> Sched]
  BY DEF FleetInv, TypeOK, Sched
<1>2. /\ recd(Booted).claims = 0 /\ recd(Booted).releases = 0 /\ recd(Booted).rec = "none"
  BY DEF recd, Booted
<1>3. CASE UNCHANGED vars
  BY <1>3 DEF Ended, vars, cvars
<1>4. CASE Next
  <2>1. PICK r \in Replica :
          \/ Admit(r) \/ Finish(r) \/ Abandon(r) \/ Timers(r) \/ Wake(r)
          \/ Calls(r) \/ CallFails(r)
          \/ HeartbeatTask(r) \/ Lapse(r)
          \/ Crash(r) \/ Stop(r) \/ Restart(r)
    BY <1>4 DEF Next
  <2>2. \/ sched' = sched /\ up' = up
        \/ /\ r \in up \/ sched[r].claims > 0 \/ sched[r].releases > 0 \/ sched[r].rec = "sent"
           /\ up' = up /\ \E t : sched' = [sched EXCEPT ![r] = t]
        \/ up' = up \ {r} /\ sched' = [sched EXCEPT ![r] = recd(Booted)]
        \/ up' = up \cup {r} /\ \E t : sched' = [sched EXCEPT ![r] = t]
    <3>1. CASE Admit(r) \/ Finish(r) \/ Abandon(r) \/ Wake(r)
      BY <3>1, Zenon DEF Admit, Finish, Abandon, Wake, Becomes
    <3>2. CASE Timers(r)
      BY <3>2, Zenon DEF Timers, Timer, Becomes
    <3>3. CASE ApplyClaim(r) \/ ApplyRelease(r) \/ ApplyReconcile(r)
      BY <3>3, Zenon DEF ApplyClaim, ApplyRelease, ApplyReconcile, Answered
    <3>4. CASE \/ AcquireGranted(r) \/ AcquireDenied(r) \/ AcquireNotRegistered(r)
               \/ ReleaseDone(r) \/ ReconcileDone(r)
      BY <3>4, Zenon DEF AcquireGranted, AcquireDenied, AcquireNotRegistered, ReleaseDone,
                         ReconcileDone, Becomes
    <3>5. CASE CallFails(r)
      BY <3>5, Zenon DEF CallFails, Lost
    <3>6. CASE HeartbeatTask(r)
      BY <3>6, Zenon DEF HeartbeatTask
    <3>7. CASE Lapse(r) \/ Crash(r) \/ Stop(r) \/ Restart(r)
      BY <3>7, Zenon DEF Lapse, Crash, Stop, Restart, Ends
    <3> QED BY <2>1, <3>1, <3>2, <3>3, <3>4, <3>5, <3>6, <3>7 DEF Calls
  <2>3. CASE sched' = sched /\ up' = up
    BY <2>3 DEF Ended
  <2>4. CASE /\ r \in up \/ sched[r].claims > 0 \/ sched[r].releases > 0 \/ sched[r].rec = "sent"
             /\ up' = up /\ \E t : sched' = [sched EXCEPT ![r] = t]
    <3>1. r \in up
      BY <1>2, <2>4 DEF Ended
    <3> QED BY <1>1, <2>4, <3>1 DEF Ended
  <2>5. CASE up' = up \ {r} /\ sched' = [sched EXCEPT ![r] = recd(Booted)]
    BY <1>1, <2>5 DEF Ended
  <2>6. CASE up' = up \cup {r} /\ \E t : sched' = [sched EXCEPT ![r] = t]
    BY <1>1, <2>6 DEF Ended
  <2> QED BY <2>2, <2>3, <2>4, <2>5, <2>6
<1> QED BY <1>3, <1>4

\* With all running replicas shared and on the books, the books being within the
\* size of the pool, no more requests run than it has slots.
LEMMA BooksCoverPermits == FleetInv /\ Ended => SharedWithinCap
<1> SUFFICES ASSUME FleetInv, Ended, Taken <= Cap,
                    \A r \in up : r \in exact /\ wanted_mode(sched[r]) = "shared"
             PROVE  Sum([r \in Replica |-> sched[r].permits], NReplicas) <= Cap
  BY DEF SharedWithinCap
<1> DEFINE p == [r \in Replica |-> sched[r].permits]
<1>1. ASSUME NEW r \in Replica
      PROVE  p[r] \in Int /\ recorded[r] \in Int /\ p[r] <= recorded[r] /\ recorded[r] \in Nat
  <2>1. sched[r] \in Sched /\ recorded[r] \in Nat
    BY ReplicaFacts
  <2>2. CASE r \in up
    <3>1. sched[r].synced /\ Books(sched[r], recorded[r])
      BY <2>2 DEF wanted_mode, FleetInv
    <3> QED BY <2>1, <3>1 DEF Books, holding, Sched
  <2>3. CASE r \notin up
    <3>1. recd(Booted).permits = 0
      BY DEF recd, Booted
    <3>2. sched[r].permits = 0
      BY <2>3, <3>1 DEF Ended
    <3> QED BY <2>1, <3>2
  <2> QED BY <2>2, <2>3
<1>2. NReplicas \in Nat /\ Cap \in Nat /\ Replica = 1..NReplicas
  BY LedgerAssumption DEF Replica
<1> HIDE DEF p
<1>3. Sum(p, NReplicas) <= Sum(recorded, NReplicas)
  BY <1>1, <1>2, SumMonotone
<1>4. Sum(p, NReplicas) \in Int /\ Sum(recorded, NReplicas) \in Int
  BY <1>1, <1>2, SumInt
<1>5. Sum(recorded, NReplicas) <= Cap
  BY <1>2, <1>4 DEF Taken, FleetInv, TypeOK
<1>6. Sum(p, NReplicas) <= Cap
  BY <1>2, <1>3, <1>4, <1>5
<1> QED BY <1>6 DEF p

\* The fleet stays within the pool whenever the books do and every running
\* replica is synced and was not reclaimed.
THEOREM FleetWithinCap == Spec => []SharedWithinCap
<1>1. Init => Ended
  BY DEF Init, Ended
<1>2. FleetInv /\ Ended /\ [Next]_vars => Ended'
  BY EndedStays
<1>3. FleetInv /\ Ended => SharedWithinCap
  BY BooksCoverPermits
<1> QED BY <1>1, <1>2, <1>3, FleetInvariant, PTL DEF Spec
=============================================================================
