------------------------------- MODULE FairPool ------------------------------
(***************************************************************************)
(* One model's scheduling pool in one gateway replica: which waiting       *)
(* request gets a free slot.  The single scheduler task handles one        *)
(* message at a time; a handler is one action here, its dispatch included. *)
(* Operators on a pool p are the methods of Pool; where the code's answer  *)
(* depends on the order of a hash map they return the set of answers.      *)
(*                                                                         *)
(* In local mode a picked request has its slot at once.  In shared mode    *)
(* the pick is a claim on the slot backend, which grants or refuses it     *)
(* later; the backend is SlotLedger's business, here it just answers.      *)
(* Slots are held for sessions in local mode only: a shared pool runs with *)
(* holding off here, its held slots are the backend's (SlotBackend).  One  *)
(* pool, so the global ceiling is not below it and the effective size is   *)
(* the pool's.                                                             *)
(*                                                                         *)
(* Time is left out but for its effects: a request ages, a session cools,  *)
(* a held slot runs out.  Requests that wait are numbered by arrival.      *)
(*                                                                         *)
(* A definition that stands before the one it repeats with a mistake is a  *)
(* mutant.                                                                 *)
(***************************************************************************)
EXTENDS SequencesExt, Apportion, Sums

CONSTANTS
  Req,          \* each request's key, session (or NoSession) and cost
  Key,          \* each key's tenant, weight and cap (0: none)
  Tenant,       \* each tenant's group, weight and cap (0: none)
  GroupWeight,  \* each group's weight
  NoSession,
  Algorithms,   \* "weighted", "hierarchical"
  Modes,        \* "local", "shared"
  Sizes,        \* pool sizes, the first one and those it is set to
  MaxPending,   \* max_pending_per_pool, the claims a pool may have out
  Affinities,   \* settings of session affinity: MaxJumps, or 0 for off
  Holding,      \* whether slots are held for sessions (hold > 0)
  HeldPercent,  \* max_held_percent
  MaxEvents     \* bound: claims refused, callers that leave while they wait, and
                \* settings changed, together

Requests == DOMAIN Req
Keys == 1..Len(Key)
Tenants == 1..Len(Tenant)
Groups == 1..Len(GroupWeight)
Sessions == {Req[r].session : r \in Requests} \ {NoSession}

KeyOf(r) == Req[r].key
TenantOf(r) == Key[Req[r].key].tenant

ASSUME PoolAssumption ==
  /\ IsFiniteSet(Requests) /\ Len(Key) \in Nat /\ Len(Tenant) \in Nat /\ Len(GroupWeight) \in Nat
  /\ \A r \in Requests : KeyOf(r) \in Keys /\ Req[r].cost \in Nat \ {0}
  /\ \A q, r \in Requests : Req[q].session = Req[r].session /\ Req[r].session # NoSession =>
                              KeyOf(q) = KeyOf(r)
  /\ \A k \in Keys : Key[k].tenant \in Tenants /\ Key[k].weight \in Nat \ {0} /\ Key[k].cap \in Nat
  /\ \A t \in Tenants :
       Tenant[t].group \in Groups /\ Tenant[t].weight \in Nat \ {0} /\ Tenant[t].cap \in Nat
  /\ \A g \in Groups : GroupWeight[g] \in Nat \ {0}
  /\ Algorithms \subseteq {"weighted", "hierarchical"} /\ Modes \subseteq {"local", "shared"}
  /\ Sizes \subseteq Nat \ {0} /\ MaxPending \in Nat \ {0} 
  /\ IsFiniteSet(Affinities) /\ Affinities \subseteq Nat
  /\ Holding \in BOOLEAN /\ HeldPercent \in 0..100

VARIABLES
  pool,      \* the pool
  fresh,     \* requests that have not come yet
  gone,      \* waiting requests whose caller has left
  aged,      \* waiting requests that have waited max_bypass
  events     \* how many of MaxEvents are left

vars == <<pool, fresh, gone, aged, events>>
-----------------------------------------------------------------------------
(* The pool.  served, base and key_served: None where the code has no      *)
(* entry.  session: the session a request brought, if affinity was on when *)
(* it came.  sessions: each session's steps in flight (n), whether its     *)
(* last one ended less than warm_ttl ago (last), and whether its latest    *)
(* followed the one before within hold (chained).  running: permits out.   *)
(* held: finished requests whose slot is kept for the session they came    *)
(* with.                                                                   *)
(* History, for properties only: granted, the cost each tenant was granted *)
(* since its entry was made; left, its served when it was forgotten;       *)
(* joined, tenants that joined without debt and still wait, with how often *)
(* others were picked before them (over); refused, whether a claim was.    *)

None == -1
NoSteps == [n |-> 0, last |-> "none", chained |-> FALSE]

NewPool(algorithm, mode, size, jumps) ==
  [algorithm |-> algorithm, mode |-> mode, cap |-> size, max_jumps |-> jumps,
   queues |-> [k \in Keys |-> <<>>], arrived |-> [r \in Requests |-> 0],
   passed |-> [r \in Requests |-> 0],
   in_flight |-> 0, tenant_in_flight |-> [t \in Tenants |-> 0],
   key_in_flight |-> [k \in Keys |-> 0], running |-> {}, held |-> {},
   pending |-> {}, jumped |-> {}, probing |-> FALSE, blocked |-> FALSE,
   blocked_tenants |-> {}, blocked_keys |-> {},
   served |-> [t \in Tenants |-> None], base |-> [t \in Tenants |-> 0],
   key_served |-> [k \in Keys |-> None], virtual_time |-> 0,
   session |-> [r \in Requests |-> NoSession], sessions |-> [s \in Sessions |-> NoSteps],
   granted |-> [t \in Tenants |-> 0], left |-> [t \in Tenants |-> 0],
   joined |-> {}, over |-> [t \in Tenants |-> [u \in Tenants |-> 0]], refused |-> FALSE]

KeysOf(t) == {k \in Keys : Key[k].tenant = t}
TenantsOf(g) == {t \in Tenants : Tenant[t].group = g}

group_in_flight(p, g) ==
  Sum([t \in Tenants |-> IF Tenant[t].group = g THEN p.tenant_in_flight[t] ELSE 0], Len(Tenant))

Queued(p) == UNION {ToSet(p.queues[k]) : k \in Keys}
tenant_queued(p, t) == \E k \in KeysOf(t) : p.queues[k] # <<>>
is_active(p, t) == tenant_queued(p, t) \/ p.tenant_in_flight[t] > 0

orZero(n) == Max({0, n})
-----------------------------------------------------------------------------
(* Who may go.                                                             *)

has_slot(n, cap) == cap = 0 \/ n < cap

key_open(p, k) == has_slot(p.key_in_flight[k], Key[k].cap) /\ k \notin p.blocked_keys
tenant_open(p, t) ==
  has_slot(p.tenant_in_flight[t], Tenant[t].cap) /\ t \notin p.blocked_tenants

tenant_is_eligible(p, t) ==
  tenant_open(p, t) /\ \E k \in KeysOf(t) : p.queues[k] # <<>> /\ key_open(p, k)

\* Served by weight, compared as fractions.
lowest(S, served(_), weight(_)) ==
  {x \in S : \A y \in S : served(x) * weight(y) <= served(y) * weight(x)}

lowest_tenants(p, S) ==
  lowest(S, LAMBDA t : orZero(p.served[t]), LAMBDA t : Tenant[t].weight)

group_caps(p) ==
  LET active == {g \in Groups : \E t \in TenantsOf(g) : is_active(p, t)}
  IN  weighted_caps(p.cap, [g \in active |-> GroupWeight[g]])

tenant_slot_caps(p, g, cap) ==
  LET active == {t \in TenantsOf(g) : is_active(p, t)}
  IN  weighted_caps(cap, [t \in active |-> Tenant[t].weight])

group_service(p, g) ==
  Sum([t \in Tenants |->
         IF Tenant[t].group = g /\ p.served[t] # None THEN orZero(p.served[t] - p.base[t]) ELSE 0],
      Len(Tenant))

pick_heaviest_tenant(p) ==
  LET T == {t \in Tenants : tenant_is_eligible(p, t)}
  IN  {t \in T : \A u \in T : Tenant[u].weight <= Tenant[t].weight}
pick_tenant_weighted(p) == lowest_tenants(p, {t \in Tenants : tenant_is_eligible(p, t)})

\* Tenants within their group's cap and their own part of it, given one way of
\* splitting the pool and each group's part.
within_caps(p, T, caps, tenant_caps) ==
  {t \in T :
     LET g == Tenant[t].group
     IN  /\ group_in_flight(p, g) < caps[g]
         /\ t \in DOMAIN tenant_caps[g] => p.tenant_in_flight[t] < tenant_caps[g][t]}

\* When nobody is within their cap but a slot is free, it is lent.
lend_nothing(T, within) == within
lend(T, within) == IF within = {} THEN T ELSE within

pick_tenant_hierarchical(p) ==
  LET T == {t \in Tenants : tenant_is_eligible(p, t)}
      served(t) == group_service(p, Tenant[t].group)
      weight(t) == GroupWeight[Tenant[t].group]
      best(pot) == lowest_tenants(p, lowest(pot, served, weight))
      splits(caps) == {f \in [DOMAIN caps -> UNION {tenant_slot_caps(p, g, caps[g]) : g \in DOMAIN caps}] :
                         \A g \in DOMAIN caps : f[g] \in tenant_slot_caps(p, g, caps[g])}
  IN  UNION {UNION {best(lend(T, within_caps(p, T, caps, f))) : f \in splits(caps)} :
               caps \in group_caps(p)}

pick_tenant(p) ==
  IF p.algorithm = "weighted" THEN pick_tenant_weighted(p) ELSE pick_tenant_hierarchical(p)

\* Of the tenant's open keys with the least served for their weight, the one
\* whose head came first.
pick_key(p, t) ==
  LET open == {k \in KeysOf(t) : p.queues[k] # <<>> /\ key_open(p, k)}
      best == lowest(open, LAMBDA k : orZero(p.key_served[k]), LAMBDA k : Key[k].weight)
      head(k) == p.arrived[Head(p.queues[k])]
  IN  CHOOSE k \in best : \A j \in best : head(k) <= head(j)

can_grant_immediately(p, r) ==
  /\ p.in_flight < p.cap
  /\ Queued(p) = {}
  /\ has_slot(p.tenant_in_flight[TenantOf(r)], Tenant[TenantOf(r)].cap)
  /\ has_slot(p.key_in_flight[KeyOf(r)], Key[KeyOf(r)].cap)
-----------------------------------------------------------------------------
(* Session affinity.                                                       *)

affinity_on(p) == p.max_jumps > 0

favoured(p, r) ==
  /\ affinity_on(p)
  /\ p.session[r] # NoSession
  /\ LET steps == p.sessions[p.session[r]] IN steps.n > 0 \/ steps.last = "warm"

passed_out(p, r) == affinity_on(p) /\ p.passed[r] >= p.max_jumps
is_aged(p, r) == affinity_on(p) /\ r \in aged

\* Which of a queue goes next: the first of a favoured session, unless the head
\* has aged or been passed as often as it may be.
pick_ignoring_passes(p, q) ==
  LET favoured_at == {i \in DOMAIN q : favoured(p, q[i])}
  IN  IF is_aged(p, q[1]) \/ favoured_at = {} THEN 1 ELSE Min(favoured_at)
pick(p, q) ==
  LET favoured_at == {i \in DOMAIN q : favoured(p, q[i])}
  IN  IF is_aged(p, q[1]) \/ passed_out(p, q[1]) \/ favoured_at = {} THEN 1 ELSE Min(favoured_at)

key_passed_out(p, k) == \E r \in ToSet(p.queues[k]) \ gone : passed_out(p, r)

\* Requests with a caller that a free slot could go to; the oldest of them.
oldest_eligible(p) ==
  {r \in Queued(p) \ gone :
     /\ tenant_open(p, TenantOf(r)) /\ key_open(p, KeyOf(r))
     /\ \A x \in Queued(p) \ gone :
          tenant_open(p, TenantOf(x)) /\ key_open(p, KeyOf(x)) => p.arrived[r] <= p.arrived[x]}

someone_aged(p) == \E r \in oldest_eligible(p) : is_aged(p, r)

max_held(p) == IF Holding /\ p.mode = "local" THEN (p.cap * HeldPercent + 99) \div 100 ELSE 0
-----------------------------------------------------------------------------
(* Service accounts.                                                       *)

charge(p, r) ==
  LET t == TenantOf(r)
      k == KeyOf(r)
      new == p.served[t] = None
  IN  [p EXCEPT !.served[t] = (IF new THEN p.virtual_time ELSE @) + Req[r].cost,
                !.base[t] = IF new THEN p.virtual_time ELSE @,
                !.key_served[k] = (IF @ = None THEN p.virtual_time ELSE @) + Req[r].cost,
                !.joined = @ \ {t}]

occupy(p, r) ==
  charge([p EXCEPT !.in_flight = @ + 1, !.tenant_in_flight[TenantOf(r)] = @ + 1,
                   !.key_in_flight[KeyOf(r)] = @ + 1], r)

\* Virtual time is the least served of the tenants that wait.
advance_virtual_time(p) ==
  LET waiting == {p.served[t] : t \in {t \in Tenants : tenant_queued(p, t) /\ p.served[t] # None}}
  IN  IF waiting = {} THEN p ELSE [p EXCEPT !.virtual_time = Min(waiting)]

\* Of the keys K and their tenants, those idle and at or below virtual time are
\* forgotten.
forgotten(p, keys, tenants) ==
  [p EXCEPT !.key_served = [k \in Keys |-> IF k \in keys THEN None ELSE @[k]],
            !.served = [t \in Tenants |-> IF t \in tenants THEN None ELSE @[t]],
            !.base = [t \in Tenants |-> IF t \in tenants THEN 0 ELSE @[t]],
            !.left = [t \in Tenants |-> IF t \in tenants THEN Max({@[t], p.served[t]}) ELSE @[t]],
            !.granted = [t \in Tenants |-> IF t \in tenants THEN 0 ELSE @[t]]]

forget_always(p, K) == forgotten(p, {}, {t \in Tenants : K \cap KeysOf(t) # {} /\ ~is_active(p, t)})
forget_if_quiet(p, K) ==
  forgotten(p,
    {k \in K : p.queues[k] = <<>> /\ p.key_in_flight[k] = 0 /\ p.key_served[k] <= p.virtual_time},
    {t \in Tenants : K \cap KeysOf(t) # {} /\ ~is_active(p, t) /\ p.served[t] <= p.virtual_time})

\* An idle pool forgets everybody.  (Not the sessions.)
settle_idle(p) ==
  IF p.in_flight > 0 \/ Queued(p) # {} THEN p
  ELSE [p EXCEPT !.served = [t \in Tenants |-> None], !.base = [t \in Tenants |-> 0],
                 !.key_served = [k \in Keys |-> None], !.virtual_time = 0,
                 !.granted = [t \in Tenants |-> 0], !.left = [t \in Tenants |-> 0]]

\* The slots of the requests R are given back: one after the other in the code, and
\* only the last can leave a key, a tenant or the pool idle.
vacate(p, R) ==
  [p EXCEPT !.in_flight = @ - Cardinality(R),
            !.tenant_in_flight = [t \in Tenants |-> @[t] - Cardinality({r \in R : TenantOf(r) = t})],
            !.key_in_flight = [k \in Keys |-> @[k] - Cardinality({r \in R : KeyOf(r) = k})]]

release(p, R) == settle_idle(forget_if_quiet(vacate(p, R), {KeyOf(r) : r \in R}))
-----------------------------------------------------------------------------
(* Queueing.                                                               *)

\* A tenant or key that was not waiting joins at virtual time at the earliest.
join_at(p, n) == Max({p.virtual_time, n})

enqueue(p, r) ==
  LET t == TenantOf(r)
      k == KeyOf(r)
      was == p.served[t]
      now == IF tenant_queued(p, t) THEN was ELSE join_at(p, was)
      moved == IF was = None THEN now ELSE p.base[t] + (now - was)
      clear == ~tenant_queued(p, t) /\ now = p.virtual_time
  IN  [p EXCEPT !.served[t] = now,
                !.base[t] = moved,
                !.key_served[k] = IF p.queues[k] = <<>> THEN Max({p.virtual_time, @}) ELSE @,
                !.queues[k] = Append(@, r),
                !.arrived[r] = 1 + Max({p.arrived[x] : x \in Requests}),
                !.joined = IF clear THEN @ \union {t} ELSE IF tenant_queued(p, t) THEN @ ELSE @ \ {t},
                !.over[t] = IF clear THEN [u \in Tenants |-> 0] ELSE @]

\* A queue without the requests D.
retain(q, D) ==
  LET kept[n \in 0..Len(q)] ==
        IF n = 0 THEN <<>> ELSE IF q[n] \in D THEN kept[n - 1] ELSE Append(kept[n - 1], q[n])
  IN  kept[Len(q)]

without(p, D) == [p EXCEPT !.queues = [k \in Keys |-> retain(@[k], D)]]

\* A waiter leaves its queue for good: its caller is gone, or it is served.
served_out(p, R) ==
  [p EXCEPT !.arrived = [r \in Requests |-> IF r \in R THEN 0 ELSE @[r]],
            !.passed = [r \in Requests |-> IF r \in R THEN 0 ELSE @[r]]]

\* Requests whose caller is gone take their session with them.
cast_off(p, R) ==
  [served_out(p, R) EXCEPT !.session = [r \in Requests |-> IF r \in R THEN NoSession ELSE @[r]]]

\* A request gets its permit: affinity notes a step of its session, and those of
\* its key it went ahead of have been passed.  Whether the step came soon enough
\* after the last one to chain onto it is up to the clock.
send(p, r, ahead) ==
  LET s == p.session[r]
      earlier == {x \in ToSet(p.queues[KeyOf(r)]) :
                    p.arrived[r] = 0 \/ p.arrived[x] < p.arrived[r]}
      sent == [p EXCEPT !.running = @ \union {r},
                        !.granted[TenantOf(r)] = @ + Req[r].cost,
                        !.passed = [x \in Requests |->
                           IF affinity_on(p) /\ ahead /\ x \in earlier THEN @[x] + 1 ELSE @[x]]]
      step(c) == [p.sessions[s] EXCEPT !.n = @ + 1, !.chained = c]
  IN  IF ~affinity_on(p) \/ s = NoSession THEN {served_out(sent, {r})}
      ELSE {served_out([sent EXCEPT !.sessions[s] = step(c)], {r}) :
              c \in {FALSE, p.sessions[s].last # "none"}}

\* Take the next waiter the limits allow: [r, p], whose r is its request and p the
\* pool without it in the queue.
picked(p) ==
  {LET k == pick_key(p, t)
       at == pick(p, p.queues[k])
       joined == {j \in p.joined \ {t} : tenant_is_eligible(p, j)}
       r == p.queues[k][at]
   IN  [r |-> r,
        p |-> [without(p, {r}) EXCEPT
                        !.jumped = IF at > 1 THEN p.jumped \union {r} ELSE p.jumped \ {r},
                        !.joined = IF r \in gone THEN p.joined ELSE joined,
                        !.over = [j \in Tenants |->
                           IF r \notin gone /\ j \in joined THEN [p.over[j] EXCEPT ![t] = @ + 1]
                           ELSE p.over[j]]]] :
     t \in pick_tenant(p)}

dropped(x) == forget_if_quiet(cast_off(x.p, {x.r}), {KeyOf(x.r)})
taken(x) == advance_virtual_time(occupy(x.p, x.r))

\* One turn of the dispatch loop: a waiter whose caller is gone is dropped, another
\* is granted, or claimed.  A pool with no turn left stays as it is.
limit(p) == IF p.probing THEN 1 ELSE MaxPending
may_take(p) ==
  /\ p.in_flight < p.cap
  /\ p.mode = "shared" => ~p.blocked /\ Cardinality(p.pending) < limit(p)

granted_and_released(p, r) ==
  LET sent == send([p EXCEPT !.jumped = @ \ {r}], r, r \in p.jumped)
  IN  IF r \in gone THEN {release(q, {r}) : q \in sent} ELSE sent
granted(p, r) == LET q == [p EXCEPT !.jumped = @ \ {r}] IN send(q, r, r \in p.jumped)

turn(p) ==
  IF ~may_take(p) \/ pick_tenant(p) = {} THEN {p}
  ELSE UNION {IF x.r \in gone THEN {dropped(x)}
              ELSE IF p.mode = "shared"
                   THEN {[taken(x) EXCEPT !.pending = @ \union {x.r}]}
                   ELSE granted(taken(x), x.r) :
                x \in picked(p)}

turns(p) ==
  LET after[n \in 0..Cardinality(Requests)] ==
        IF n = 0 THEN {p} ELSE UNION {turn(q) : q \in after[n - 1]}
  IN  after[Cardinality(Queued(p))]
-----------------------------------------------------------------------------
(* Held slots.                                                             *)

holds_to_give_up(p) ==
  IF someone_aged(p) THEN p.held ELSE {h \in p.held : key_passed_out(p, KeyOf(h))}

\* The slot held after h goes to the first waiting request of its session.
redeem(p, h) ==
  LET s == Req[h].session
      k == KeyOf(h)
      mine == {i \in DOMAIN p.queues[k] : p.session[p.queues[k][i]] = s}
      live == {i \in mine : p.queues[k][i] \notin gone}
      at == Min(live)
      r == p.queues[k][at]
      dead == {p.queues[k][i] : i \in {i \in mine : live = {} \/ i < at}}
      rest == cast_off(without(p, dead), dead)
      free == [without(rest, {r}) EXCEPT !.held = @ \ {h}]
      ahead == \/ rest.queues[k][1] # r
               \/ \E x \in oldest_eligible(free) : p.arrived[x] < p.arrived[r]
  IN  IF key_passed_out(p, k) \/ mine = {} THEN {p}
      ELSE IF live = {} THEN {rest}
      ELSE send(advance_virtual_time(charge(free, r)), r, ahead)

\* One held slot after another, in any order.
redeem_queued(p) ==
  LET after[n \in 0..Cardinality(p.held)] ==
        IF n = 0 THEN {[p |-> p, left |-> p.held]}
        ELSE UNION {UNION {{[p |-> q, left |-> x.left \ {h}] : q \in redeem(x.p, h)} : h \in x.left} :
                      x \in after[n - 1]}
  IN  {x.p : x \in after[Cardinality(p.held)]}

serve_holds(p) ==
  LET given == holds_to_give_up(p)
  IN  {release(q, given) : q \in redeem_queued([p EXCEPT !.held = @ \ given])}

dispatch_all(p) ==
  {settle_idle(q) : q \in UNION {turns(q) : q \in serve_holds(p)}}
-----------------------------------------------------------------------------
(* The messages the scheduler handles.                                     *)

\* Arrivals are numbered anew, in their order.
Renumbered(p) ==
  [p EXCEPT !.arrived = [r \in Requests |-> Cardinality({x \in Requests : 0 < @[x] /\ @[x] <= @[r]})]]

Handle(P) ==
  /\ \E p \in P : pool' = Renumbered(p)
  /\ aged' = {r \in aged : pool'.arrived[r] > 0}
  /\ gone' = {r \in gone : pool'.arrived[r] > 0}

Admit(r) ==
  LET s == IF affinity_on(pool) THEN Req[r].session ELSE NoSession
      p == [pool EXCEPT !.session[r] = s]
      holds == {h \in pool.held : s # NoSession /\ Req[h].session = s}
      redeems == holds # {} /\ ~key_passed_out(pool, KeyOf(r))
      group == Tenant[TenantOf(r)].group
      roomy(caps) == group \in DOMAIN caps => group_in_flight(pool, group) < caps[group]
      queue == dispatch_all(enqueue(p, r))
      fast == send(occupy(p, r), r, FALSE)
  IN  /\ r \in fresh
      /\ fresh' = fresh \ {r}
      /\ Handle(
           IF redeems
           THEN UNION {send(charge([p EXCEPT !.held = @ \ {h}], r), r, Queued(pool) # {}) : h \in holds}
           ELSE IF pool.mode = "shared" \/ ~can_grant_immediately(pool, r) THEN queue
           ELSE IF pool.algorithm = "weighted" THEN fast
           ELSE UNION {IF roomy(caps) THEN fast ELSE queue : caps \in group_caps(pool)})
      /\ UNCHANGED events

\* A permit is dropped: what becomes of the slot is finish_step's decision.
finish_step(p, r) ==
  LET s == p.session[r]
      steps == p.sessions[s]
      known == affinity_on(p) /\ s # NoSession /\ steps # NoSteps
      alone == steps.n <= 1
      q == [p EXCEPT !.running = @ \ {r}, !.session[r] = NoSession]
      done == IF known THEN [q EXCEPT !.sessions[s] = [steps EXCEPT !.n = orZero(@ - 1), !.last = "warm"]]
              ELSE q
      hold == /\ known /\ alone /\ steps.chained
              /\ ~someone_aged(p) /\ ~key_passed_out(p, KeyOf(r))
              /\ Cardinality(p.held) < max_held(p)
  IN  IF hold THEN [done EXCEPT !.held = @ \union {r}] ELSE release(done, {r})

Release(r) ==
  /\ r \in pool.running
  /\ Handle(dispatch_all(finish_step(pool, r)))
  /\ UNCHANGED <<fresh, events>>

\* The hold timer: a held slot ran out, or a request in line has aged.
ExpireHolds(S) ==
  /\ S \subseteq pool.held
  /\ S # {} \/ (pool.held # {} /\ someone_aged(pool))
  /\ Handle(dispatch_all(release([pool EXCEPT !.held = @ \ S], S)))
  /\ UNCHANGED <<fresh, events>>

\* Housekeeping: drops waiters whose caller has gone, forgets sessions gone cold,
\* and forgets the pool itself when it has been idle for long: the next request
\* makes a new one.
Sweep ==
  LET dead == Queued(pool) \cap gone
      cold == {s \in Sessions : pool.sessions[s].n = 0 /\ pool.sessions[s].last = "cold"}
      pruned == [cast_off(without(pool, dead), dead) EXCEPT
                   !.sessions = [s \in Sessions |-> IF s \in cold THEN NoSteps ELSE @[s]]]
      swept == settle_idle(forget_if_quiet(pruned, {KeyOf(r) : r \in dead}))
  IN  /\ dead # {} \/ swept # pool
      /\ Handle(IF dead = {} THEN {swept} ELSE dispatch_all(swept))
      /\ UNCHANGED <<fresh, events>>

DropIdlePool ==
  /\ pool.in_flight = 0 /\ Queued(pool) = {}
  /\ pool' = NewPool(pool.algorithm, pool.mode, pool.cap, pool.max_jumps)
  /\ UNCHANGED <<fresh, gone, aged, events>>

SetModelCaps(size) ==
  /\ events > 0
  /\ size # pool.cap
  /\ events' = events - 1
  /\ Handle(dispatch_all([pool EXCEPT !.cap = size]))
  /\ UNCHANGED fresh

\* Turning affinity off forgets the sessions and gives back the slots held.
SetSessionAffinity(jumps) ==
  LET off == [pool EXCEPT !.max_jumps = 0, !.held = {}, !.sessions = [s \in Sessions |-> NoSteps]]
  IN  /\ events > 0
      /\ jumps # pool.max_jumps
      /\ events' = events - 1
      /\ Handle(dispatch_all(IF jumps = 0 THEN release(off, pool.held)
                             ELSE [pool EXCEPT !.max_jumps = jumps]))
      /\ UNCHANGED fresh

\* acquire_done: a claim is granted.
ClaimGranted(r) ==
  /\ r \in pool.pending
  /\ Handle(UNION {dispatch_all(q) :
       q \in granted([pool EXCEPT !.pending = @ \ {r}, !.probing = FALSE], r)})
  /\ UNCHANGED <<fresh, events>>

\* Undo the take of a waiter whose claim was refused: its place in the queue is by
\* arrival, its charge is taken back.
reinsert_last(p, k, r) == Append(p.queues[k], r)
reinsert(p, k, r) ==
  LET q == p.queues[k]
      later == {i \in DOMAIN q : p.arrived[q[i]] > p.arrived[r]}
  IN  IF later = {} THEN Append(q, r) ELSE InsertAt(q, Min(later), r)

refund_nothing(p, r) == p
refund(p, r) ==
  [p EXCEPT !.served[TenantOf(r)] = @ - Req[r].cost, !.key_served[KeyOf(r)] = @ - Req[r].cost]

requeue(p, r) ==
  LET k == KeyOf(r)
  IN  refund([vacate(p, {r}) EXCEPT !.queues[k] = reinsert(p, k, r), !.jumped = @ \ {r}], r)

\* acquire_done: a claim is refused, for the pool or the ceiling, its tenant or key.
ClaimDenied(r, why) ==
  LET p == requeue([pool EXCEPT !.pending = @ \ {r}], r)
  IN  /\ r \in pool.pending
      /\ why = "tenant" => Tenant[TenantOf(r)].cap > 0
      /\ why = "key" => Key[KeyOf(r)].cap > 0
      /\ events > 0
      /\ events' = events - 1
      /\ Handle(dispatch_all(
           [p EXCEPT !.probing = TRUE, !.refused = TRUE,
                     !.blocked = @ \/ why = "pool",
                     !.blocked_tenants = IF why = "tenant" THEN @ \union {TenantOf(r)} ELSE @,
                     !.blocked_keys = IF why = "key" THEN @ \union {KeyOf(r)} ELSE @]))
      /\ UNCHANGED fresh

\* A wakeup, the retry timer or an answered release: refusals are forgotten.
Wake ==
  /\ pool.blocked \/ pool.blocked_tenants # {} \/ pool.blocked_keys # {}
  /\ Handle(dispatch_all([pool EXCEPT !.blocked = FALSE, !.blocked_tenants = {},
                                      !.blocked_keys = {}]))
  /\ UNCHANGED <<fresh, events>>
-----------------------------------------------------------------------------
(* What happens around the scheduler.                                      *)

Waiting(r) == r \in Queued(pool) \union pool.pending

\* The caller's connection or its admission timeout ends.
CallerGone(r) ==
  /\ Waiting(r) /\ r \notin gone
  /\ events > 0
  /\ events' = events - 1
  /\ gone' = gone \union {r}
  /\ UNCHANGED <<pool, fresh, aged>>

\* A waiting request has waited max_bypass: the older ones had before it.
Ages(r) ==
  /\ Waiting(r) /\ r \notin aged
  /\ affinity_on(pool)
  /\ \A x \in Requests : Waiting(x) /\ pool.arrived[x] < pool.arrived[r] => x \in aged
  /\ events > 0
  /\ events' = events - 1
  /\ aged' = aged \union {r}
  /\ UNCHANGED <<pool, fresh, gone>>

\* A session's last step ended warm_ttl ago.
Cools(s) ==
  /\ pool.sessions[s].last = "warm"
  /\ events > 0
  /\ events' = events - 1
  /\ pool' = [pool EXCEPT !.sessions[s].last = "cold"]
  /\ UNCHANGED <<fresh, gone, aged>>
-----------------------------------------------------------------------------
Init ==
  /\ \E a \in Algorithms, m \in Modes, size \in Sizes, jumps \in Affinities :
       pool = NewPool(a, m, size, jumps)
  /\ fresh = Requests
  /\ gone = {}
  /\ aged = {}
  /\ events = MaxEvents

Next ==
  \/ \E r \in Requests :
       \/ Admit(r) \/ Release(r) \/ CallerGone(r) \/ Ages(r) \/ ClaimGranted(r)
       \/ \E why \in {"pool", "tenant", "key"} : ClaimDenied(r, why)
  \/ \E S \in SUBSET Requests : ExpireHolds(S)
  \/ \E s \in Sessions : Cools(s)
  \/ \E size \in Sizes : SetModelCaps(size)
  \/ \E jumps \in Affinities : SetSessionAffinity(jumps)
  \/ Sweep \/ DropIdlePool \/ Wake

Spec == Init /\ [][Next]_vars
-----------------------------------------------------------------------------
(* Properties.                                                             *)

\* The cost of a set of requests.
RequestList == SetToSeq(Requests)
CostOf(R) ==
  Sum([i \in 1..Cardinality(Requests) |-> IF RequestList[i] \in R THEN Req[RequestList[i]].cost ELSE 0],
      Cardinality(Requests))

\* Requests that occupy a slot: by a permit, a claim or, finished, for their session.
Occupied(p) == p.running \union p.pending \union p.held

\* Counters stay in range: a slot and what a tenant was served are only ever taken
\* back once (the saturating_sub of release and requeue never saturates).
TypeOK ==
  /\ pool.queues \in [Keys -> Seq(Requests)]
  /\ pool.in_flight \in Nat
  /\ pool.tenant_in_flight \in [Tenants -> Nat] /\ pool.key_in_flight \in [Keys -> Nat]
  /\ pool.served \in [Tenants -> Nat \union {None}] /\ pool.base \in [Tenants -> Nat]
  /\ pool.key_served \in [Keys -> Nat \union {None}]
  /\ pool.virtual_time \in Nat
  /\ pool.passed \in [Requests -> Nat]
  /\ Occupied(pool) \union gone \union aged \subseteq Requests

\* Every slot the pool, a tenant or a key counts has one holder (a permit, a claim
\* or a session's hold), no request is in two places, and no tenant or key is past
\* its cap: whatever order claims are answered in, holds are made, redeemed or given
\* up, and callers leave.
SlotsAccounted ==
  /\ TypeOK
  /\ pool.in_flight = Cardinality(Occupied(pool))
  /\ \A t \in Tenants :
       pool.tenant_in_flight[t] = Cardinality({r \in Occupied(pool) : TenantOf(r) = t})
  /\ \A k \in Keys : pool.key_in_flight[k] = Cardinality({r \in Occupied(pool) : KeyOf(r) = k})
  /\ LET places == <<fresh, Queued(pool), pool.pending, pool.running, pool.held>>
     IN  \A i, j \in 1..5 : i < j => places[i] \cap places[j] = {}
  /\ \A k \in Keys : Key[k].cap > 0 => pool.key_in_flight[k] <= Key[k].cap
  /\ \A t \in Tenants : Tenant[t].cap > 0 => pool.tenant_in_flight[t] <= Tenant[t].cap

\* No slot is left free beside a request it could go to: group and tenant shares
\* are not reservations (dispatch_all after every message, and the lending of
\* pick_tenant_hierarchical).
NoIdleSlot == may_take(pool) => \A t \in Tenants : ~tenant_is_eligible(pool, t)

\* Each key's queue is in order of arrival, also after refused claims are put back
\* in an order of their own: pass_earlier and pick read it so.
QueuesInOrder ==
  \A k \in Keys : \A i, j \in DOMAIN pool.queues[k] :
    i < j => pool.arrived[pool.queues[k][i]] < pool.arrived[pool.queues[k][j]]

\* served - served_base is what the tenant was granted or has claimed since its
\* entry was made: a refused claim costs nothing, and being placed at virtual time
\* is not service (the groups' scores rest on it).
ServiceMatchesGrants ==
  \A t \in Tenants :
    pool.served[t] # None =>
      pool.served[t] - pool.base[t] =
        pool.granted[t] + CostOf({r \in pool.pending : TenantOf(r) = t})

\* A tenant gains nothing by going quiet: when it returns it is not placed before
\* where it was when it was forgotten.  (A refusal may set virtual time back, and a
\* pool that was idle starts anew.)
NoGainByLeaving ==
  ~pool.refused => \A t \in Tenants : pool.served[t] # None => pool.served[t] >= pool.left[t]

\* A tenant that joins without debt and could be served is not passed over by
\* another more often than their weights explain: once for a tenant of its weight.
NewcomersServed ==
  pool.mode = "local" /\ pool.algorithm = "weighted" =>
    \A t \in pool.joined, u \in Tenants :
      pool.over[t][u] * Tenant[t].weight < Tenant[u].weight + Tenant[t].weight

\* No request whose caller waits is passed by its key's sessions more than
\* max_jumps times, as Affinity::pick says of itself.
PassedAtMostMaxJumps ==
  affinity_on(pool) => \A r \in Queued(pool) \ gone : pool.passed[r] <= pool.max_jumps

\* What does hold while no claim was refused, for the largest max_jumps ever set: it
\* is passed at most that often where a pick is a grant, and in shared mode by no
\* more than the other claims that may be out beside the last one.
PassesBounded ==
  affinity_on(pool) /\ ~pool.refused =>
    \A r \in Queued(pool) \ gone :
      pool.passed[r] < Max(Affinities) + (IF pool.mode = "shared" THEN MaxPending ELSE 1)

\* weighted_caps gives out every slot by weight, whichever way it breaks ties, for
\* up to four groups or tenants and seven slots, and where three raises are paid for
\* by two heavy ones.  No state matters: it is evaluated before the first request
\* comes.
SlotsSplitByWeight ==
  fresh = Requests =>
    /\ \A n \in 1..4, max \in 0..7 : \A w \in [1..n -> {0, 2, 5}] : Splits(max, w)
    /\ Splits(6, <<90, 87, 1, 1, 1>>)
=============================================================================
