----------------------------- MODULE TokenBudget -----------------------------
(***************************************************************************)
(* Token budgets: the Redis scripts RESERVE_WITH_TERM, RECONCILE,          *)
(* TERM_RECONCILE and TERM_USAGE_ADD, and the requests of the proxy that   *)
(* call them.  A request reserves its estimate at its API key's term       *)
(* budget, then at its tenant's (with the tenant's per-minute bucket in    *)
(* the same script), is served, and settles: bucket, tenant, key.  Every   *)
(* call is an await, at which the client may leave, the call or its answer *)
(* may be lost, or the process may die.                                    *)
(*                                                                         *)
(* Cost in dollars is gated, reserved and committed side by side with      *)
(* tokens and in the same way; tokens stand for both.  One tenant with one *)
(* key.  Requests of all pods share the clock.                             *)
(*                                                                         *)
(* A definition that stands before the one it repeats with a mistake       *)
(* (rejected_unreleased, ...) is a mutant.                                       *)
(***************************************************************************)
EXTENDS Sums, Sequences, FiniteSetsExt

CONSTANTS
  NRequests,   \* names for requests
  Armed,       \* scopes, of "key" and "tenant", that have a term budget
  TermCap,     \* the cap of each scope, tokens per period
  Capacity,    \* tokens_per_minute: the bucket's size, 0 without a limiter
  Rate,        \* tokens the bucket regains in a tick
  Ttl,         \* ticks after which the reserved hash, and an idle bucket, expire
  FailOpen,    \* values of OBLETH_FAIL_OPEN among the pods
  Ests,        \* bound: estimates of requests
  Actuals,     \* bound: tokens requests really use
  MaxPeriod,   \* bound: budget periods
  MaxTime,     \* bound: ticks of the clock of the bucket
  MaxFaults,   \* bound: lost calls, lost answers and crashes
  Reuse        \* bound: whether names of ended requests are used again

Requests == 1..NRequests
Scopes == {"key", "tenant"}

ASSUME BudgetAssumption ==
  /\ NRequests \in Nat
  /\ Armed \subseteq Scopes
  /\ TermCap \in [Scopes -> Nat]
  /\ Capacity \in Nat /\ Rate \in Nat
  /\ Ttl \in Nat \ {0}
  /\ Rate * (Ttl - 1) >= 2 * Capacity
  /\ FailOpen \subseteq BOOLEAN /\ Reuse \in BOOLEAN
  /\ Ests \subseteq Nat \ {0} /\ Actuals \subseteq Nat
  /\ MaxPeriod \in Nat \ {0} /\ MaxTime \in Nat /\ MaxFaults \in Nat

VARIABLES
  bucket,     \* the tenant's bucket: tokens, ts, ticks to live (0: no such key)
  usage,      \* committed term usage of each scope (period 0: no such key)
  reserved,   \* reservations of each scope in flight, with the ticks to live
  req,        \* the requests
  now,        \* the pods' clock, in ticks
  period,     \* the budget period on the pods' calendar
  disturbed,  \* history: scopes of which a reserved hash went with reservations
  slack,      \* history: bucket tokens forgiven, refunded untaken or regained twice
  deleted,    \* history: usage of each scope and period that a roll deleted
  faults      \* faults that may still happen

vars == <<bucket, usage, reserved, req, now, period, disturbed, slack, deleted, faults>>
-----------------------------------------------------------------------------
(* What a request does, in order.                                          *)

Path == <<"idle", "key", "tenant", "serving", "refund", "commitTenant", "commitKey", "done">>

Does(stage) ==
  CASE stage = "key" -> "key" \in Armed
    [] stage = "tenant" -> Capacity > 0 \/ "tenant" \in Armed
    [] stage = "refund" -> Capacity > 0
    [] stage = "commitTenant" -> "tenant" \in Armed
    [] stage = "commitKey" -> "key" \in Armed
    [] OTHER -> TRUE

\* The next stage that this configuration has.
Onward(stage) ==
  LET at == CHOOSE i \in DOMAIN Path : Path[i] = stage
  IN  Path[Min({i \in DOMAIN Path : i > at /\ Does(Path[i])})]

\* held: key_term_held and tenant_term_held, what the request knows it reserved.
\* In Redis, as history: counted, the scopes whose reserved hash has its
\* reservation; charged, the period its usage was committed to (0: not yet);
\* bucket, what became of its estimate there.  excused: scopes where a fault, or
\* a client that left during that very call, parted it from its reservation.
Fresh ==
  [stage |-> "idle", est |-> 0, actual |-> 0, period |-> 0, at |-> 0, answer |-> "none",
   held |-> {}, counted |-> {}, charged |-> [s \in Scopes |-> 0], bucket |-> "untouched",
   excused |-> {}]

Awaiting(r) == req[r].stage \in Scopes

\* The end of a request that is not admitted.  An armed PendingTermHold is
\* released, by a task of its own.
rejected_unreleased(q) == [q EXCEPT !.stage = "done", !.answer = "none", !.at = 0]
rejected(q) ==
  [q EXCEPT !.stage = IF "key" \in q.held THEN "releasing" ELSE "done",
            !.answer = "none", !.at = 0]

\* The request goes on from a call.  reserve_inner reads the clock for the next.
goes_on(q) ==
  LET next == Onward(q.stage)
  IN  [q EXCEPT !.stage = next, !.answer = "none", !.at = IF next = "tenant" THEN now ELSE 0]
-----------------------------------------------------------------------------
(* RESERVE_WITH_TERM: the term gate, then the bucket, then the reservation. *)

NoKey == [period |-> 0, tokens |-> 0, ttl |-> 0]

\* The counters the script finds, those of another period deleted.
rolled(u, p) == IF u.period = p THEN u ELSE [period |-> p, tokens |-> 0]
current(v, p) == IF v.period = p THEN v ELSE NoKey

\* Counters of another period are deleted with the usage in them.
DeletedFor(s, p) ==
  IF usage[s].period \in {0, p} THEN deleted
  ELSE [deleted EXCEPT ![s][usage[s].period] = @ + usage[s].tokens]

exhausted_committed(s, p) == rolled(usage[s], p).tokens >= TermCap[s]
exhausted(s, p) == rolled(usage[s], p).tokens + current(reserved[s], p).tokens >= TermCap[s]

\* The bucket before the request is charged, by the caller's clock, which may be
\* behind that of the last call.
refilled_back(at) ==
  IF bucket.ttl = 0 THEN Capacity
  ELSE Min({Capacity, bucket.tokens + (at - bucket.ts) * Rate})
refilled(at) ==
  IF bucket.ttl = 0 THEN Capacity
  ELSE Min({Capacity, bucket.tokens + Max({0, at - bucket.ts}) * Rate})

admits(tokens, est) == tokens >= est \/ (est > Capacity /\ tokens >= Capacity)

\* The time to live is set when the hash is made, and never again.
rearmed(v) == Ttl
armed(v) == IF v.ttl = 0 THEN Ttl ELSE v.ttl

\* The reserved hash after the script, which admits the request or not.
reservation_anyway(v, p, est, ok) ==
  [period |-> p, tokens |-> v.tokens + est, ttl |-> armed(v)]
reservation(v, p, est, ok) ==
  IF ok THEN [period |-> p, tokens |-> v.tokens + est, ttl |-> armed(v)] ELSE v

\* Reservations disappear from the hash of s.
Uncounted(s, q) == [x \in Requests |-> [q[x] EXCEPT !.counted = @ \ {s}]]

Reserve(r) ==
  LET q == req[r]
      s == q.stage
      p == q.period
      gated == s \in Armed
      limited == s = "tenant" /\ Capacity > 0
      denied == gated /\ exhausted(s, p)
      tokens == refilled(q.at)
      left == IF q.est > Capacity THEN Max({tokens - q.est, -Capacity}) ELSE tokens - q.est
      ok == ~denied /\ (limited => admits(tokens, q.est))
      found == current(reserved[s], p)
      wiped == gated /\ found # reserved[s]
      kept == IF wiped THEN Uncounted(s, req) ELSE req
  IN  /\ Awaiting(r)
      /\ q.answer = "none"
      /\ usage' = IF gated THEN [usage EXCEPT ![s] = rolled(@, p)] ELSE usage
      /\ deleted' = IF gated THEN DeletedFor(s, p) ELSE deleted
      /\ reserved' =
           IF ~gated THEN reserved
           ELSE [reserved EXCEPT ![s] =
                   IF denied THEN found ELSE reservation(found, p, q.est, ok)]
      /\ bucket' =
           IF ~limited \/ denied THEN bucket
           ELSE [tokens |-> IF ok THEN left ELSE tokens, ts |-> q.at, ttl |-> Ttl]
      /\ slack' =
           IF ~limited \/ denied THEN slack
           ELSE slack + (IF ok THEN left - (tokens - q.est) ELSE 0)
                      + (IF bucket.ttl = 0 THEN 0 ELSE Rate * Max({0, bucket.ts - q.at}))
      /\ disturbed' =
           IF wiped /\ \E x \in Requests : s \in req[x].counted THEN disturbed \union {s} ELSE disturbed
      /\ req' = [kept EXCEPT
           ![r].answer = IF denied THEN "exhausted" ELSE IF ok THEN "reserved" ELSE "limited",
           ![r].counted = IF ok /\ gated THEN @ \union {s} ELSE @,
           ![r].bucket = IF ok /\ limited THEN "taken" ELSE @]
      /\ UNCHANGED <<now, period, faults>>
-----------------------------------------------------------------------------
(* Admission of a request by the proxy.                                    *)

Arrive(r) ==
  /\ \/ req[r].stage = "idle"
     \/ Reuse /\ req[r].stage = "done" /\ req[r].counted = {}
  /\ \E e \in Ests :
       req' = [req EXCEPT ![r] = goes_on([Fresh EXCEPT !.est = e, !.period = period])]
  /\ UNCHANGED <<bucket, usage, reserved, now, period, disturbed, slack, deleted, faults>>

\* A reserved answer is kept as a hold; the others reject the request.
Answered(r) ==
  LET q == req[r] IN
  /\ Awaiting(r)
  /\ q.answer # "none"
  /\ req' = [req EXCEPT ![r] =
       IF q.answer = "reserved"
       THEN goes_on([q EXCEPT !.held = @ \union ({q.stage} \cap Armed)])
       ELSE rejected(q)]
  /\ UNCHANGED <<bucket, usage, reserved, now, period, disturbed, slack, deleted, faults>>

\* The call failed, before or after Redis ran the script: a pod that fails open
\* goes on without a hold, another rejects.
ReserveFails(r) ==
  LET q == [req[r] EXCEPT !.excused = @ \union (req[r].counted \cap {req[r].stage})] IN
  /\ Awaiting(r)
  /\ faults > 0
  /\ faults' = faults - 1
  /\ \E open \in FailOpen :
       req' = [req EXCEPT ![r] = IF open THEN goes_on(q) ELSE rejected(q)]
  /\ UNCHANGED <<bucket, usage, reserved, now, period, disturbed, slack, deleted>>

\* The client leaves while a reserve call is awaited: the future is dropped, and
\* with it the key's hold, whose Drop releases it.
ClientLeaves(r) ==
  LET q == [req[r] EXCEPT !.excused = @ \union (req[r].counted \cap {req[r].stage})] IN
  /\ Awaiting(r)
  /\ req' = [req EXCEPT ![r] = rejected(q)]
  /\ UNCHANGED <<bucket, usage, reserved, now, period, disturbed, slack, deleted, faults>>

\* The process dies.
Crash(r) ==
  /\ req[r].stage \notin {"idle", "done"}
  /\ faults > 0
  /\ faults' = faults - 1
  /\ req' = [req EXCEPT ![r].stage = "done", ![r].answer = "none", ![r].at = 0,
                        ![r].excused = req[r].counted]
  /\ UNCHANGED <<bucket, usage, reserved, now, period, disturbed, slack, deleted>>
-----------------------------------------------------------------------------
(* Settlement.                                                             *)

\* TERM_RECONCILE's release, of a reservation of est made under period p.
released(v, p, est) ==
  IF v.period = p THEN [v EXCEPT !.tokens = Max({0, @ - est})] ELSE v

\* TERM_RECONCILE's commit: to whichever period the counters are in.
committed_if_held(u, v, p, n) ==
  IF u.period = 0 THEN [period |-> p, tokens |-> n]
  ELSE IF v.period = p THEN [u EXCEPT !.tokens = @ + n] ELSE u
committed(u, v, p, n) ==
  IF u.period = 0 THEN [period |-> p, tokens |-> n] ELSE [u EXCEPT !.tokens = @ + n]

\* TERM_RECONCILE for scope s of request r, with n tokens used.
TermReconcile(s, r, n) ==
  LET q == req[r] IN
  /\ reserved' = [reserved EXCEPT ![s] = released(@, q.period, q.est)]
  /\ usage' = [usage EXCEPT ![s] = committed(@, reserved[s], q.period, n)]
  /\ UNCHANGED deleted

\* TERM_USAGE_ADD for scope s of request r: rolls to its period first.
TermUsageAdd(s, r, n) ==
  /\ usage' = [usage EXCEPT ![s] = [period |-> req[r].period,
                                    tokens |-> rolled(@, req[r].period).tokens + n]]
  /\ deleted' = DeletedFor(s, req[r].period)
  /\ UNCHANGED reserved

\* release_term_hold.
ReleaseHold(r) ==
  /\ req[r].stage = "releasing"
  /\ TermReconcile("key", r, 0)
  /\ req' = [req EXCEPT ![r].stage = "done", ![r].held = {}, ![r].counted = @ \ {"key"}]
  /\ UNCHANGED <<bucket, now, period, disturbed, slack, faults>>

\* The answer ends, or the client leaves it: the settle guard settles, by a task
\* of its own, with the usage seen (nothing, or the estimate, if the client left).
Finish(r) ==
  /\ req[r].stage = "serving"
  /\ \E n \in Actuals \union {0, req[r].est} :
       req' = [req EXCEPT ![r] = [goes_on(req[r]) EXCEPT !.actual = n]]
  /\ UNCHANGED <<bucket, usage, reserved, now, period, disturbed, slack, deleted, faults>>

\* RECONCILE: refunds the estimate's surplus or charges more, within the bounds
\* of the bucket.
refund_unbounded(tokens) == Min({Capacity, tokens})
refund(tokens) == Max({-Capacity, Min({Capacity, tokens})})

SettleBucket(r) ==
  LET q == req[r]
      there == bucket.ttl > 0
      tokens == (IF there THEN bucket.tokens ELSE Capacity) + q.est - q.actual
  IN  /\ q.stage = "refund"
      /\ bucket' = [tokens |-> refund(tokens), ts |-> IF there THEN bucket.ts ELSE now, ttl |-> Ttl]
      /\ slack' = slack + Max({0, -Capacity - tokens}) + (IF q.bucket = "taken" THEN 0 ELSE q.est)
      /\ req' = [req EXCEPT ![r] = [goes_on(q) EXCEPT !.bucket = "settled"]]
      /\ UNCHANGED <<usage, reserved, now, period, disturbed, deleted, faults>>

\* The commit to a scope's term counters.
SettleTerm(r) ==
  LET q == req[r]
      s == IF q.stage = "commitTenant" THEN "tenant" ELSE "key"
  IN  /\ q.stage \in {"commitTenant", "commitKey"}
      /\ IF s \in q.held THEN TermReconcile(s, r, q.actual) ELSE TermUsageAdd(s, r, q.actual)
      /\ req' = [req EXCEPT ![r] =
           [goes_on(q) EXCEPT !.held = @ \ {s},
                              !.counted = IF s \in q.held THEN @ \ {s} ELSE @,
                              !.charged[s] = usage'[s].period]]
      /\ UNCHANGED <<bucket, now, period, disturbed, slack, faults>>

\* A release or a settlement call that never reaches Redis is not tried again.
\* (One whose answer is lost has done its work.)
SettleFails(r) ==
  LET q == req[r]
      s == [x \in {"releasing", "refund", "commitTenant", "commitKey"} |->
              IF x = "refund" THEN {} ELSE IF x = "commitTenant" THEN {"tenant"} ELSE {"key"}]
  IN  /\ q.stage \in DOMAIN s
      /\ faults > 0
      /\ faults' = faults - 1
      /\ req' = [req EXCEPT ![r] =
           [q EXCEPT !.stage = IF q.stage = "releasing" THEN "done" ELSE Onward(q.stage),
                     !.held = @ \ s[q.stage],
                     !.excused = @ \union (q.counted \cap s[q.stage])]]
      /\ UNCHANGED <<bucket, usage, reserved, now, period, disturbed, slack, deleted>>
-----------------------------------------------------------------------------
(* Time.                                                                   *)

\* A tick: keys whose time has come expire.  A reserve call is answered, or given
\* up, within a tick (the connection's response timeout); the clock itself is kept
\* only for the bucket.
Tick ==
  LET expired == {s \in Scopes : reserved[s].ttl = 1}
      aged(n) == Max({0, n - 1})
  IN  /\ Capacity > 0 =>
           /\ now < MaxTime
           /\ \A r \in Requests : req[r].stage = "tenant" => req[r].at = now
      /\ now' = IF Capacity > 0 THEN now + 1 ELSE now
      /\ bucket' = IF bucket.ttl > 1 THEN [bucket EXCEPT !.ttl = @ - 1]
                   ELSE [tokens |-> 0, ts |-> 0, ttl |-> 0]
      /\ reserved' = [s \in Scopes |-> IF s \in expired THEN NoKey
                                       ELSE [reserved[s] EXCEPT !.ttl = aged(@)]]
      /\ disturbed' = disturbed \union {s \in expired : \E r \in Requests : s \in req[r].counted}
      /\ req' = [r \in Requests |-> [req[r] EXCEPT !.counted = @ \ expired]]
      /\ UNCHANGED <<usage, period, slack, deleted, faults>>

\* A new month or term begins.
PeriodRolls ==
  /\ period < MaxPeriod
  /\ period' = period + 1
  /\ UNCHANGED <<bucket, usage, reserved, req, now, disturbed, slack, deleted, faults>>
-----------------------------------------------------------------------------
Init ==
  /\ bucket = [tokens |-> 0, ts |-> 0, ttl |-> 0]
  /\ usage = [s \in Scopes |-> [period |-> 0, tokens |-> 0]]
  /\ reserved = [s \in Scopes |-> NoKey]
  /\ req = [r \in Requests |-> Fresh]
  /\ now = 0
  /\ period = 1
  /\ disturbed = {}
  /\ slack = 0
  /\ deleted = [s \in Scopes |-> [p \in 1..MaxPeriod |-> 0]]
  /\ faults = MaxFaults

Next ==
  \/ \E r \in Requests :
       \/ Arrive(r) \/ Reserve(r) \/ Answered(r) \/ ReserveFails(r) \/ ClientLeaves(r) \/ Crash(r)
       \/ Finish(r) \/ ReleaseHold(r) \/ SettleBucket(r) \/ SettleTerm(r) \/ SettleFails(r)
  \/ Tick
  \/ PeriodRolls

Spec == Init /\ [][Next]_vars

\* Time passes.  Nothing is assumed of requests: they may last, and keep coming.
FairSpec == Spec /\ WF_vars(Tick)
-----------------------------------------------------------------------------
(* Properties.                                                             *)

\* The tokens g[r] of the requests r in R, together.
Total(g, R) == Sum([r \in Requests |-> IF r \in R THEN g[r] ELSE 0], NRequests)

Estimates == [r \in Requests |-> req[r].est]
Used == [r \in Requests |-> req[r].actual]

\* The requests a scope's reserved hash counts, and those whose usage went to
\* its counters for period p.
CountedAt(s) == {r \in Requests : s \in req[r].counted}
ChargedTo(s, p) == {r \in Requests : req[r].charged[s] = p}

\* The bucket stays between its debt floor and its size, counters never belong to
\* a period to come, and a scope without a budget is never reserved at.
TypeOK ==
  /\ bucket.tokens \in (-Capacity)..Capacity /\ bucket.ts \in 0..now /\ bucket.ttl \in 0..Ttl
  /\ \A s \in Scopes :
       /\ usage[s].period \in 0..period /\ usage[s].tokens \in Nat
       /\ reserved[s].period \in 0..period /\ reserved[s].tokens \in Nat
       /\ reserved[s].ttl \in 0..Ttl
       /\ (reserved[s].period = 0) = (reserved[s].ttl = 0)
  /\ \A r \in Requests :
       /\ req[r].stage \in {Path[i] : i \in DOMAIN Path} \union {"releasing"}
       /\ req[r].held \subseteq Armed /\ req[r].counted \subseteq Armed
  /\ disturbed \subseteq Armed
  /\ slack \in Nat
  /\ faults \in 0..MaxFaults

\* A scope's reserved hash never counts a reservation nobody made, and until one
\* goes with reservations in it (its time to live is over, or the period rolled)
\* counts each exactly: none released twice, none forgotten, whatever the order
\* of answers, rejections, departures and settlements.
ReservedMatchesInFlight ==
  \A s \in Scopes :
    /\ reserved[s].tokens <= Total(Estimates, CountedAt(s))
    /\ s \notin disturbed => reserved[s].tokens = Total(Estimates, CountedAt(s))

\* All the usage committed to a period is in the counters, once, or was deleted
\* with them when they were rolled to another period.
CommitsExact ==
  \A s \in Scopes, p \in 1..MaxPeriod :
    Total(Used, ChargedTo(s, p))
      = deleted[s][p] + (IF usage[s].period = p THEN usage[s].tokens ELSE 0)

\* Usage committed to the present period stays in the counters while the period
\* lasts.
PresentUsageKept ==
  \A s \in Scopes :
    Total(Used, ChargedTo(s, period))
      <= IF usage[s].period = period THEN usage[s].tokens ELSE 0

\* A reservation outlives its request only where a fault, or a client that left
\* during that very call, parted them; a rejection at the tenant, an error or a
\* departure there never strands the key's.
ReservationsReturned ==
  \A r \in Requests : req[r].stage = "done" => req[r].counted \subseteq req[r].excused

\* What each request has taken from the bucket, or used of it in the end.
BucketCharges ==
  [r \in Requests |-> CASE req[r].bucket = "taken" -> req[r].est
                       [] req[r].bucket = "settled" -> req[r].actual
                       [] OTHER -> 0]

\* The bucket never holds more than its size and its refill pay for, net of what
\* requests took and really used, and never less than those take away.  The
\* exceptions are counted: debt forgiven at the floor, an interval refilled twice
\* when a late call moves ts back, and the estimate of a request that was let
\* through without a reservation, which its settlement refunds all the same.
BucketConserves ==
  LET charges == Total(BucketCharges, Requests)
  IN  bucket.ttl > 0 =>
        /\ bucket.tokens <= Capacity + Rate * bucket.ts - charges + slack
        /\ bucket.tokens >= Capacity - charges

\* A request is admitted by a term gate only while what is committed and what is
\* in flight are under the cap: concurrent requests cannot pass on the same
\* headroom.
AdmittedUnderCap ==
  [][\A r \in Requests, s \in Armed \ disturbed :
       s \notin req[r].counted /\ s \in req'[r].counted =>
         rolled(usage[s], req[r].period).tokens
           + Total(Estimates, {x \in CountedAt(s) : req[x].period = req[r].period})
         < TermCap[s]]_vars

Orphan(r, s) == req[r].stage = "done" /\ s \in req[r].counted

\* A reservation without an owner blocks headroom only until its hash expires,
\* however many requests come in the meantime.
OrphansLapse ==
  \A r \in Requests, s \in Scopes : Orphan(r, s) ~> ~Orphan(r, s)

=============================================================================
