------------------------- MODULE TokenBudgetProofs ---------------------------
(***************************************************************************)
(* Token budgets, proved for any number of requests, any estimates and     *)
(* caps and any number of faults.                                          *)
(***************************************************************************)
EXTENDS TokenBudget, SumsProofs, TLAPS

-----------------------------------------------------------------------------
(* Operators.                                                              *)

\* The larger of two.
LEMMA MaxTwo ==
  ASSUME NEW a \in Int, NEW b \in Int
  PROVE  Max({a, b}) = IF a >= b THEN a ELSE b
<1> DEFINE m == IF a >= b THEN a ELSE b
<1>1. m \in {a, b} /\ \A y \in {a, b} : m >= y
  OBVIOUS
<1>2. \A x \in {a, b} : (\A y \in {a, b} : x >= y) => x = m
  OBVIOUS
<1> HIDE DEF m
<1>3. Max({a, b}) = m
  BY <1>1, <1>2 DEF Max
<1> QED BY <1>3 DEF m

\* The smaller of two.
LEMMA MinTwo ==
  ASSUME NEW a \in Int, NEW b \in Int
  PROVE  Min({a, b}) = IF a <= b THEN a ELSE b
<1> DEFINE m == IF a <= b THEN a ELSE b
<1>1. m \in {a, b} /\ \A y \in {a, b} : m <= y
  OBVIOUS
<1>2. \A x \in {a, b} : (\A y \in {a, b} : x <= y) => x = m
  OBVIOUS
<1> HIDE DEF m
<1>3. Min({a, b}) = m
  BY <1>1, <1>2 DEF Min
<1> QED BY <1>3 DEF m

\* Stage j follows stage i when nothing between them is configured.
LEMMA OnwardIs ==
  ASSUME NEW i \in 1..8, NEW j \in 1..8, i < j, Does(Path[j]),
         \A k \in 1..8 : i < k /\ k < j => ~Does(Path[k])
  PROVE  Onward(Path[i]) = Path[j]
<1> DEFINE S == {k \in DOMAIN Path : k > i /\ Does(Path[k])}
           at == CHOOSE k \in DOMAIN Path : Path[k] = Path[i]
<1>1. DOMAIN Path = 1..8
  BY DEF Path
<1>2. \A k \in 1..8 : Path[k] = Path[i] => k = i
  BY DEF Path
<1>3. at = i
  BY <1>1, <1>2
<1>4. j \in S /\ \A k \in S : j <= k
  BY <1>1
<1>5. Min(S) = j
  <2>1. S \subseteq Int
    BY <1>1
  <2> HIDE DEF S
  <2>2. \A x \in S : (\A k \in S : x <= k) => x = j
    BY <1>4, <2>1
  <2> QED BY <1>4, <2>2 DEF Min
<1>6. Onward(Path[i]) = Path[Min({k \in DOMAIN Path : k > at /\ Does(Path[k])})]
  BY DEF Onward
<1> QED BY <1>3, <1>5, <1>6

\* What follows each stage.
LEMMA OnwardTable ==
  /\ Onward("idle") = IF "key" \in Armed THEN "key"
                      ELSE IF Capacity > 0 \/ "tenant" \in Armed THEN "tenant" ELSE "serving"
  /\ Onward("key") = IF Capacity > 0 \/ "tenant" \in Armed THEN "tenant" ELSE "serving"
  /\ Onward("tenant") = "serving"
  /\ Onward("serving") = IF Capacity > 0 THEN "refund"
                         ELSE IF "tenant" \in Armed THEN "commitTenant"
                         ELSE IF "key" \in Armed THEN "commitKey" ELSE "done"
  /\ Onward("refund") = IF "tenant" \in Armed THEN "commitTenant"
                        ELSE IF "key" \in Armed THEN "commitKey" ELSE "done"
  /\ Onward("commitTenant") = IF "key" \in Armed THEN "commitKey" ELSE "done"
  /\ Onward("commitKey") = "done"
<1>1. /\ Path[1] = "idle" /\ Path[2] = "key" /\ Path[3] = "tenant" /\ Path[4] = "serving"
      /\ Path[5] = "refund" /\ Path[6] = "commitTenant" /\ Path[7] = "commitKey"
      /\ Path[8] = "done"
  BY DEF Path
<1>2. /\ Does("key") <=> "key" \in Armed
      /\ Does("tenant") <=> Capacity > 0 \/ "tenant" \in Armed
      /\ Does("serving")
      /\ Does("refund") <=> Capacity > 0
      /\ Does("commitTenant") <=> "tenant" \in Armed
      /\ Does("commitKey") <=> "key" \in Armed
      /\ Does("done")
  BY DEF Does
<1>3. Onward(Path[1]) = IF "key" \in Armed THEN Path[2]
                        ELSE IF Capacity > 0 \/ "tenant" \in Armed THEN Path[3] ELSE Path[4]
  BY <1>1, <1>2, OnwardIs
<1>4. Onward(Path[2]) = IF Capacity > 0 \/ "tenant" \in Armed THEN Path[3] ELSE Path[4]
  BY <1>1, <1>2, OnwardIs
<1>5. Onward(Path[3]) = Path[4]
  BY <1>1, <1>2, OnwardIs
<1>6. Onward(Path[4]) = IF Capacity > 0 THEN Path[5]
                        ELSE IF "tenant" \in Armed THEN Path[6]
                        ELSE IF "key" \in Armed THEN Path[7] ELSE Path[8]
  BY <1>1, <1>2, OnwardIs
<1>7. Onward(Path[5]) = IF "tenant" \in Armed THEN Path[6]
                        ELSE IF "key" \in Armed THEN Path[7] ELSE Path[8]
  BY <1>1, <1>2, OnwardIs
<1>8. Onward(Path[6]) = IF "key" \in Armed THEN Path[7] ELSE Path[8]
  BY <1>1, <1>2, OnwardIs
<1>9. Onward(Path[7]) = Path[8]
  BY <1>1, <1>2, OnwardIs
<1> QED BY <1>1, <1>3, <1>4, <1>5, <1>6, <1>7, <1>8, <1>9

-----------------------------------------------------------------------------
(* Totals over requests.                                                   *)

USE DEF Requests

\* There are finitely many requests.
LEMMA RequestsCounted == NRequests \in Nat
BY BudgetAssumption

\* The summand of each request.
Terms(g, R) == [r \in Requests |-> IF r \in R THEN g[r] ELSE 0]

\* A total over requests is a sum over their numbers.
LEMMA TotalIs == \A g, R : Total(g, R) = Sum(Terms(g, R), NRequests)
BY DEF Total, Terms

\* Totals of naturals are naturals.
LEMMA TotalNat ==
  ASSUME NEW g \in [Requests -> Nat], NEW R
  PROVE  Total(g, R) \in Nat
<1> DEFINE a == Terms(g, R)
<1>1. \A i \in 1..NRequests : a[i] \in Nat
  BY DEF Terms
<1> HIDE DEF a
<1> QED BY <1>1, RequestsCounted, SumNat, TotalIs DEF a

\* Only the summand of r changes.
LEMMA TotalChange ==
  ASSUME NEW g \in [Requests -> Nat], NEW R, NEW h \in [Requests -> Nat], NEW S,
         NEW r \in Requests,
         \A x \in Requests : x # r => Terms(h, S)[x] = Terms(g, R)[x]
  PROVE  Total(h, S) = Total(g, R) + ((IF r \in S THEN h[r] ELSE 0) - (IF r \in R THEN g[r] ELSE 0))
<1> DEFINE a == Terms(g, R)
           b == Terms(h, S)
<1>1. \A i \in 1..NRequests : a[i] \in Int /\ b[i] \in Int
  BY DEF Terms
<1>2. /\ a[r] = IF r \in R THEN g[r] ELSE 0
      /\ b[r] = IF r \in S THEN h[r] ELSE 0
  BY DEF Terms
<1>3. Total(g, R) = Sum(a, NRequests) /\ Total(h, S) = Sum(b, NRequests)
  BY TotalIs
<1>4. \A i \in 1..NRequests : i # r => b[i] = a[i]
  OBVIOUS
<1> HIDE DEF a, b
<1>5. Sum(b, NRequests) = Sum(a, NRequests) + (b[r] - a[r])
  <2>1. r \in 1..NRequests
    OBVIOUS
  <2> QED BY <1>1, <1>4, <2>1, RequestsCounted, SumChange
<1> QED BY <1>2, <1>3, <1>5

\* No summand changes.
LEMMA TotalSame ==
  ASSUME NEW g \in [Requests -> Nat], NEW R, NEW h \in [Requests -> Nat], NEW S,
         \A x \in Requests : Terms(h, S)[x] = Terms(g, R)[x]
  PROVE  Total(h, S) = Total(g, R)
<1> DEFINE a == Terms(g, R)
           b == Terms(h, S)
<1>1. \A i \in 1..NRequests : b[i] \in Int /\ b[i] = a[i]
  BY DEF Terms
<1>2. Total(g, R) = Sum(a, NRequests) /\ Total(h, S) = Sum(b, NRequests)
  BY TotalIs
<1> HIDE DEF a, b
<1> QED BY <1>1, <1>2, RequestsCounted, SumEqual

\* The total over no request.
LEMMA TotalNone ==
  ASSUME NEW g, NEW R, \A x \in Requests : x \notin R
  PROVE  Total(g, R) = 0
<1> DEFINE a == Terms(g, R)
<1>1. \A i \in 1..NRequests : a[i] = 0
  BY DEF Terms
<1> HIDE DEF a
<1> QED BY <1>1, RequestsCounted, SumZero, TotalIs DEF a

\* More requests, a larger total.
LEMMA TotalSubset ==
  ASSUME NEW g \in [Requests -> Nat], NEW R, NEW S, R \subseteq S
  PROVE  Total(g, R) <= Total(g, S)
<1> DEFINE a == Terms(g, R)
           b == Terms(g, S)
<1>1. \A i \in 1..NRequests : a[i] \in Int /\ b[i] \in Int /\ a[i] <= b[i]
  BY DEF Terms
<1>2. Total(g, R) = Sum(a, NRequests) /\ Total(g, S) = Sum(b, NRequests)
  BY TotalIs
<1> HIDE DEF a, b
<1> QED BY <1>1, <1>2, RequestsCounted, SumMonotone

\* A request counts for no more than the total.
LEMMA TotalAtLeast ==
  ASSUME NEW g \in [Requests -> Nat], NEW R, NEW r \in Requests, r \in R
  PROVE  g[r] <= Total(g, R)
<1> DEFINE a == Terms(g, R)
<1>1. \A i \in 1..NRequests : a[i] \in Nat
  BY DEF Terms
<1>2. a[r] = g[r] /\ Total(g, R) = Sum(a, NRequests)
  BY TotalIs DEF Terms
<1> HIDE DEF a
<1> QED BY <1>1, <1>2, RequestsCounted, TermAtMostSum

HIDE DEF Requests
-----------------------------------------------------------------------------
(* What is true of a request by itself.                                    *)

Stages == {"idle", "key", "tenant", "serving", "refund", "commitTenant", "commitKey", "done",
           "releasing"}
Answers == {"none", "reserved", "exhausted", "limited"}

Request ==
  [stage : Stages, est : Nat, actual : Nat, period : 0..MaxPeriod, at : Nat, answer : Answers,
   held : SUBSET Armed, counted : SUBSET Armed, charged : [Scopes -> 0..MaxPeriod],
   bucket : {"untouched", "taken", "settled"}, excused : SUBSET Scopes]

\* Stages at which nothing is committed yet.
Early == {"idle", "key", "tenant", "serving", "refund", "commitTenant"}

\* What the request knows it reserved: its holds, and the reservation whose answer
\* is on its way.
Known(q) == q.held \union (IF q.answer = "reserved" THEN {q.stage} ELSE {})

\* The request q keeps to its path, at time n in period p.
OnPath(q, n, p) ==
  /\ q.stage = "idle" => q.counted = {} /\ q.held = {}
  /\ q.stage # "idle" => q.period \in 1..p
  /\ q.answer # "none" => q.stage \in Scopes
  /\ q.stage = "tenant" => q.at <= n /\ n <= q.at + 1
  /\ q.stage \in {"key", "tenant", "releasing"} => q.held \subseteq {"key"}
  /\ q.stage = "releasing" => "key" \in q.held
  /\ q.stage = "key" => q.held = {} /\ "tenant" \notin q.counted
  /\ q.stage \in Scopes /\ q.answer # "reserved" => q.stage \notin q.counted
  /\ q.stage = "commitKey" => "tenant" \notin q.held
  /\ q.stage = "refund" => Capacity > 0

\* Its bucket charge and its commits come when they are due.
OnTime(q) ==
  /\ q.stage \in {"idle", "key"} => q.bucket = "untouched"
  /\ q.stage = "tenant" /\ q.answer # "reserved" => q.bucket = "untouched"
  /\ q.stage \in {"tenant", "serving", "refund"} => q.bucket # "settled"
  /\ q.stage \in Early => \A s \in Scopes : q.charged[s] = 0
  /\ q.stage = "commitKey" => q.charged["key"] = 0

\* It knows of every reservation a hash counts for it, or is excused; what it knows
\* of is counted, unless the hash of that scope, in d, went with reservations.
Owns(q, d) ==
  /\ q.stage = "done" => q.counted \subseteq q.excused
  /\ q.stage # "done" => q.counted \subseteq q.excused \union Known(q)
  /\ (Known(q) \intersect Armed) \ q.counted \subseteq d

Proper(q, n, p, d) == q \in Request /\ OnPath(q, n, p) /\ OnTime(q) /\ Owns(q, d)

-----------------------------------------------------------------------------
(* The inductive invariant.                                                *)

Typed ==
  /\ bucket \in [tokens : (-Capacity)..Capacity, ts : 0..now, ttl : 0..Ttl]
  /\ usage \in [Scopes -> [period : 0..period, tokens : Nat]]
  /\ reserved \in [Scopes -> [period : 0..period, tokens : Nat, ttl : 0..Ttl]]
  /\ \A s \in Scopes : (reserved[s].period = 0) <=> (reserved[s].ttl = 0)
  /\ \A s \in Scopes : usage[s].period = 0 => usage[s].tokens = 0
  /\ now \in Nat /\ period \in 1..MaxPeriod
  /\ disturbed \subseteq Armed
  /\ slack \in Nat
  /\ deleted \in [Scopes -> [1..MaxPeriod -> Nat]]
  /\ faults \in 0..MaxFaults

\* Every request is in order.
AllProper ==
  /\ req \in [Requests -> Request]
  /\ \A r \in Requests : Proper(req[r], now, period, disturbed)

\* The reservations a hash counts were made for its period.
OnePeriod ==
  \A s \in Scopes, r \in Requests : s \in req[r].counted => reserved[s].period = req[r].period

Inv == Typed /\ AllProper /\ OnePeriod /\ ReservedMatchesInFlight

-----------------------------------------------------------------------------
(* What the steps of a request do to it.                                   *)

\* goes_on, field by field.
LEMMA GoesOn ==
  ASSUME NEW q \in Request, q.stage \notin {"done", "releasing"}, now \in Nat
  PROVE  LET next == goes_on(q) IN
         /\ next \in Request
         /\ next.stage = Onward(q.stage) /\ next.answer = "none"
         /\ next.at = IF next.stage = "tenant" THEN now ELSE 0
         /\ next.est = q.est /\ next.actual = q.actual /\ next.period = q.period
         /\ next.held = q.held /\ next.counted = q.counted /\ next.charged = q.charged
         /\ next.bucket = q.bucket /\ next.excused = q.excused
<1>1. PICK stage : stage = Onward(q.stage)
  OBVIOUS
<1>2. stage \in Stages
  BY <1>1, OnwardTable DEF Request, Stages
<1>3. PICK at \in Nat : at = IF stage = "tenant" THEN now ELSE 0
  OBVIOUS
<1>4. goes_on(q) = [q EXCEPT !.stage = stage, !.answer = "none", !.at = at]
  BY <1>1, <1>3 DEF goes_on
<1>5. [q EXCEPT !.stage = stage, !.answer = "none", !.at = at] \in Request
  BY <1>2 DEF Request, Answers
<1> QED BY <1>1, <1>3, <1>4, <1>5 DEF Request

\* rejected, field by field.
LEMMA Rejected ==
  ASSUME NEW q \in Request
  PROVE  LET next == rejected(q) IN
         /\ next \in Request
         /\ next.stage = IF "key" \in q.held THEN "releasing" ELSE "done"
         /\ next.answer = "none" /\ next.at = 0
         /\ next.est = q.est /\ next.actual = q.actual /\ next.period = q.period
         /\ next.held = q.held /\ next.counted = q.counted /\ next.charged = q.charged
         /\ next.bucket = q.bucket /\ next.excused = q.excused
BY DEF rejected, Request, Answers, Stages

\* q1 is q, at a call, but for the holds it takes and what it is excused of.
Learns(q, q1) ==
  /\ q1 \in Request
  /\ q1.stage = q.stage /\ q1.est = q.est /\ q1.period = q.period
  /\ q1.counted = q.counted /\ q1.charged = q.charged /\ q1.bucket = q.bucket
  /\ q.stage \in Scopes
  /\ q.held \subseteq q1.held /\ q1.held \subseteq Known(q) /\ q.excused \subseteq q1.excused
  /\ q.answer = "reserved" /\ q.stage \in q.counted => q.stage \in q1.held \union q1.excused

\* A request that is rejected at a call, its answer lost or not what it wanted.
LEMMA RejectedProper ==
  ASSUME NEW q \in Request, NEW n, NEW p, NEW d, OnPath(q, n, p), OnTime(q), Owns(q, d),
         NEW q1, Learns(q, q1), q1.held = q.held
  PROVE  Proper(rejected(q1), n, p, d)
<1> DEFINE next == rejected(q1)
<1>1. /\ next \in Request
      /\ next.stage = IF "key" \in q.held THEN "releasing" ELSE "done"
      /\ next.answer = "none"
      /\ next.period = q.period
      /\ next.held = q.held /\ next.counted = q.counted /\ next.charged = q.charged
      /\ next.bucket = q.bucket /\ next.excused = q1.excused
  BY Rejected DEF Learns
<1>2. q.held \subseteq {"key"} /\ q.period \in 1..p
  BY DEF OnPath, Scopes, Learns
<1> HIDE DEF next
<1>3. OnPath(next, n, p)
  BY <1>1, <1>2 DEF OnPath, Scopes
<1>4. OnTime(next)
  BY <1>1 DEF OnTime, Early
<1>5. Owns(next, d)
  <2>1. q.counted \subseteq q1.excused \union q.held
    BY DEF Owns, Known, Scopes, Learns
  <2>2. Known(next) = q.held
    BY <1>1 DEF Known
  <2>3. (q.held \intersect Armed) \ q.counted \subseteq d
    BY DEF Owns, Known
  <2> QED BY <1>1, <1>2, <2>1, <2>2, <2>3 DEF Owns
<1> QED BY <1>1, <1>3, <1>4, <1>5 DEF Proper, next

\* A request that is admitted at a call.
LEMMA AdmittedProper ==
  ASSUME Typed, NEW q \in Request, NEW d, OnPath(q, now, period), OnTime(q), Owns(q, d),
         NEW q1, Learns(q, q1)
  PROVE  Proper(goes_on(q1), now, period, d)
<1> DEFINE next == goes_on(q1)
<1>1. /\ q1 \in Request /\ q1.stage = q.stage /\ q1.period = q.period
      /\ q1.counted = q.counted /\ q1.charged = q.charged /\ q1.bucket = q.bucket
      /\ q.held \subseteq q1.held /\ q1.held \subseteq Known(q) /\ q.excused \subseteq q1.excused
  BY DEF Learns
<1>2. now \in Nat /\ q.stage \in {"key", "tenant"}
  BY DEF Typed, Scopes, Learns
<1>3. /\ next \in Request /\ next.stage = Onward(q.stage) /\ next.answer = "none"
      /\ next.at = IF next.stage = "tenant" THEN now ELSE 0
      /\ next.period = q.period /\ next.held = q1.held
      /\ next.counted = q.counted /\ next.charged = q.charged /\ next.bucket = q.bucket
      /\ next.excused = q1.excused
  BY <1>1, <1>2, GoesOn
<1> HIDE DEF next
<1>4. next.stage \in {"tenant", "serving"} /\ (q.stage = "tenant" => next.stage = "serving")
  BY <1>2, <1>3, OnwardTable
<1>5. q.period \in 1..period /\ q.held \subseteq {"key"}
  BY <1>2 DEF OnPath
<1>6. next.stage = "tenant" => /\ q.stage = "key" /\ q.held = {} /\ "tenant" \notin q.counted
                               /\ q1.held \subseteq {"key"} /\ q.bucket = "untouched"
  BY <1>1, <1>2, <1>4 DEF OnPath, OnTime, Known
<1>7. OnPath(next, now, period)
  BY <1>2, <1>3, <1>4, <1>5, <1>6 DEF OnPath, Scopes
<1>8. OnTime(next)
  BY <1>2, <1>3, <1>4, <1>6 DEF OnTime, Early
<1>9. Owns(next, d)
  <2>1. q.counted \subseteq q1.excused \union q1.held
    BY <1>1, <1>2 DEF Owns, Known, Learns
  <2>2. Known(next) = q1.held
    BY <1>3 DEF Known
  <2>3. (q1.held \intersect Armed) \ q.counted \subseteq d
    BY <1>1 DEF Owns
  <2> QED BY <1>3, <1>4, <2>1, <2>2, <2>3 DEF Owns
<1> QED BY <1>3, <1>7, <1>8, <1>9 DEF Proper, next

\* A request before it arrives.
LEMMA FreshProper ==
  ASSUME NEW n, NEW p, NEW d
  PROVE  /\ Proper(Fresh, n, p, d)
         /\ Fresh.stage = "idle" /\ Fresh.held = {} /\ Fresh.counted = {}
         /\ Fresh.bucket = "untouched" /\ Fresh.excused = {} /\ Fresh.est = 0
         /\ \A s \in Scopes : Fresh.charged[s] = 0
<1> DEFINE z == [s \in Scopes |-> 0]
<1>1. z \in [Scopes -> 0..MaxPeriod] /\ \A s \in Scopes : z[s] = 0
  BY BudgetAssumption
<1>2. Fresh = [stage |-> "idle", est |-> 0, actual |-> 0, period |-> 0, at |-> 0,
               answer |-> "none", held |-> {}, counted |-> {}, charged |-> z,
               bucket |-> "untouched", excused |-> {}]
  BY DEF Fresh
<1> HIDE DEF z
<1>3. Fresh \in Request
  BY <1>1, <1>2, BudgetAssumption DEF Request, Stages, Answers
<1>4. OnPath(Fresh, n, p) /\ OnTime(Fresh) /\ Owns(Fresh, d)
  BY <1>1, <1>2 DEF OnPath, OnTime, Owns, Known, Scopes
<1> QED BY <1>1, <1>2, <1>3, <1>4 DEF Proper

\* A request that arrives.
LEMMA ArrivedProper ==
  ASSUME Typed, NEW e \in Nat, NEW d
  PROVE  LET next == goes_on([Fresh EXCEPT !.est = e, !.period = period])
         IN  /\ Proper(next, now, period, d) /\ next.counted = {} /\ next.est = e
             /\ next.period = period /\ next.bucket = "untouched"
             /\ \A s \in Scopes : next.charged[s] = 0
<1> DEFINE q == [Fresh EXCEPT !.est = e, !.period = period]
           next == goes_on(q)
<1>0. now \in Nat /\ period \in 1..MaxPeriod /\ MaxPeriod \in Nat
  BY BudgetAssumption DEF Typed
<1>1. /\ q \in Request /\ q.stage = "idle" /\ q.est = e /\ q.period = period /\ q.held = {}
      /\ q.counted = {} /\ q.bucket = "untouched" /\ q.excused = {}
      /\ \A s \in Scopes : q.charged[s] = 0
  <2>1. /\ Fresh \in Request /\ Fresh.stage = "idle" /\ Fresh.held = {} /\ Fresh.counted = {}
        /\ Fresh.bucket = "untouched" /\ Fresh.excused = {}
        /\ \A s \in Scopes : Fresh.charged[s] = 0
    BY FreshProper DEF Proper
  <2>2. PICK p \in 0..MaxPeriod : p = period
    BY <1>0
  <2>3. ASSUME NEW x \in Request PROVE [x EXCEPT !.est = e, !.period = p] \in Request
    BY DEF Request
  <2>4. q \in Request
    BY <2>1, <2>2, <2>3
  <2>5. /\ q.stage = Fresh.stage /\ q.est = e /\ q.period = period /\ q.held = Fresh.held
        /\ q.counted = Fresh.counted /\ q.bucket = Fresh.bucket /\ q.excused = Fresh.excused
        /\ q.charged = Fresh.charged
    BY <2>1 DEF Request
  <2> QED BY <2>1, <2>4, <2>5
<1> HIDE DEF q
<1>2. /\ next \in Request /\ next.stage = Onward("idle") /\ next.answer = "none"
      /\ next.at = IF next.stage = "tenant" THEN now ELSE 0
      /\ next.est = e /\ next.period = period /\ next.held = {} /\ next.counted = {}
      /\ next.bucket = "untouched" /\ next.excused = {}
      /\ \A s \in Scopes : next.charged[s] = 0
  BY <1>0, <1>1, GoesOn
<1> HIDE DEF next
<1>3. next.stage \in {"key", "tenant", "serving"}
  BY <1>2, OnwardTable
<1>4. OnPath(next, now, period)
  BY <1>0, <1>2, <1>3 DEF OnPath
<1>5. OnTime(next)
  BY <1>2, <1>3 DEF OnTime
<1>6. Owns(next, d)
  BY <1>2, <1>3 DEF Owns, Known
<1> QED BY <1>2, <1>4, <1>5, <1>6 DEF Proper, next, q

\* What a settlement stage leaves to be known.
LEMMA SettlesInOrder ==
  ASSUME NEW stage \in {"serving", "refund", "commitTenant", "commitKey"},
         NEW h \in SUBSET Armed,
         stage = "commitTenant" => "tenant" \notin h,
         stage = "commitKey" => h = {}
  PROVE  /\ Onward(stage) = "commitKey" => "tenant" \notin h
         /\ Onward(stage) = "done" => h = {}
         /\ Onward(stage) \in {"refund", "commitTenant", "commitKey", "done"}
         /\ Onward(stage) = "refund" => stage = "serving" /\ Capacity > 0
         /\ Onward(stage) = "commitTenant" => stage \in {"serving", "refund"}
<1>1. h \subseteq {"key", "tenant"} \intersect Armed
  BY BudgetAssumption DEF Scopes
<1> QED BY <1>1, OnwardTable

\* A request that goes on to its next settlement call: with holds h left and its
\* commits, its charge and its usage brought up to date.
LEMMA SettledProper ==
  ASSUME Typed, NEW q \in Request, NEW d, OnPath(q, now, period), OnTime(q), Owns(q, d),
         q.stage \in {"serving", "refund", "commitTenant", "commitKey"},
         NEW next \in Request, next.stage = Onward(q.stage), next.answer = "none",
         next.period = q.period, next.held \subseteq q.held,
         next.counted \subseteq q.counted,
         (q.held \ next.held) \intersect next.counted \subseteq next.excused,
         q.excused \subseteq next.excused,
         q.counted \ next.counted \subseteq q.held \ next.held,
         q.stage = "commitTenant" => "tenant" \notin next.held,
         q.stage = "commitKey" => "key" \notin next.held,
         next.bucket = q.bucket \/ q.stage \notin {"serving"},
         next.charged = q.charged \/ q.stage = "commitKey"
           \/ (q.stage = "commitTenant" /\ next.charged["key"] = q.charged["key"])
  PROVE  Proper(next, now, period, d)
<1>1. q.answer = "none" /\ Known(q) = q.held /\ Known(next) = next.held
  BY DEF OnPath, Scopes, Known
<1>2. q.period \in 1..period
  BY DEF OnPath
<1>3. q.held \subseteq Armed /\ next.held \subseteq Armed /\ q.counted \subseteq Armed
  BY DEF Request
<1>4. Armed \subseteq {"key", "tenant"}
  BY BudgetAssumption DEF Scopes
<1>5. q.stage = "commitKey" => next.held = {}
  BY <1>3, <1>4 DEF OnPath
<1>6. /\ next.stage = "commitKey" => "tenant" \notin next.held
      /\ next.stage = "done" => next.held = {}
      /\ next.stage \in {"refund", "commitTenant", "commitKey", "done"}
      /\ next.stage = "refund" => q.stage = "serving" /\ Capacity > 0
      /\ next.stage = "commitTenant" => q.stage \in {"serving", "refund"}
  BY <1>3, <1>5, SettlesInOrder
<1>7. OnPath(next, now, period)
  BY <1>2, <1>6 DEF OnPath, Scopes
<1>8. OnTime(next)
  <2>1. next.stage = "refund" => next.bucket # "settled"
    BY <1>6 DEF OnTime
  <2>2. next.stage \in Early => \A s \in Scopes : next.charged[s] = 0
    BY <1>6 DEF OnTime, Early
  <2>3. next.stage = "commitKey" => next.charged["key"] = 0
    <3>1. next.stage = "commitKey" => q.stage # "commitKey"
      BY OnwardTable
    <3> QED BY <3>1 DEF OnTime, Early, Scopes
  <2> QED BY <1>6, <2>1, <2>2, <2>3 DEF OnTime
<1>9. Owns(next, d)
  <2>1. q.counted \subseteq q.excused \union q.held
    BY <1>1 DEF Owns
  <2>2. next.counted \subseteq next.excused \union next.held
    BY <2>1
  <2>3. (q.held \intersect Armed) \ q.counted \subseteq d
    BY <1>1 DEF Owns
  <2>4. (next.held \intersect Armed) \ next.counted \subseteq d
    BY <2>3
  <2> QED BY <1>1, <1>6, <2>2, <2>4 DEF Owns
<1> QED BY <1>7, <1>8, <1>9 DEF Proper

\* A hold released, or one whose release was lost.
LEMMA ReleasedProper ==
  ASSUME NEW q \in Request, NEW n, NEW p, NEW d, OnPath(q, n, p), OnTime(q), Owns(q, d),
         q.stage = "releasing",
         NEW next \in Request, next.stage = "done", next.answer = "none",
         next.period = q.period, next.held = {}, next.counted \subseteq q.counted,
         next.charged = q.charged, next.bucket = q.bucket,
         q.excused \subseteq next.excused, "key" \notin next.counted \ next.excused
  PROVE  Proper(next, n, p, d)
<1>1. q.answer = "none" /\ Known(q) = q.held /\ Known(next) = {} /\ q.held \subseteq {"key"}
  BY DEF OnPath, Scopes, Known
<1>2. OnPath(next, n, p)
  BY DEF OnPath, Scopes
<1>3. OnTime(next)
  BY DEF OnTime, Early
<1>4. Owns(next, d)
  BY <1>1 DEF Owns
<1> QED BY <1>2, <1>3, <1>4 DEF Proper

\* A request whose process died.
LEMMA CrashedProper ==
  ASSUME NEW q \in Request, NEW n, NEW p, NEW d, OnPath(q, n, p), OnTime(q), Owns(q, d),
         q.stage # "idle",
         NEW next \in Request, next.stage = "done", next.answer = "none",
         next.period = q.period, next.held = q.held, next.counted = q.counted,
         next.charged = q.charged, next.bucket = q.bucket, next.excused = q.counted
  PROVE  Proper(next, n, p, d)
<1>1. OnPath(next, n, p)
  BY DEF OnPath, Scopes
<1>2. OnTime(next)
  BY DEF OnTime, Early
<1>3. Owns(next, d)
  BY DEF Owns, Known
<1> QED BY <1>1, <1>2, <1>3 DEF Proper

\* Reservations of scopes in lost are counted no more; time and periods go on.
LEMMA UncountedProper ==
  ASSUME NEW q, NEW n \in Nat, NEW p \in Nat, NEW d, Proper(q, n, p, d),
         NEW lost, NEW m \in Nat, NEW o \in Nat, NEW e,
         n <= m, q.stage = "tenant" => m <= q.at + 1, p <= o, d \subseteq e,
         lost \intersect q.counted \subseteq e
  PROVE  Proper([q EXCEPT !.counted = @ \ lost], m, o, e)
<1> DEFINE next == [q EXCEPT !.counted = @ \ lost]
<1>1. q \in Request /\ OnPath(q, n, p) /\ OnTime(q) /\ Owns(q, d)
  BY DEF Proper
<1>2. /\ next \in Request /\ next.stage = q.stage /\ next.answer = q.answer /\ next.at = q.at
      /\ next.period = q.period /\ next.held = q.held /\ next.counted = q.counted \ lost
      /\ next.charged = q.charged /\ next.bucket = q.bucket /\ next.excused = q.excused
  BY <1>1 DEF Request
<1>3. Known(next) = Known(q)
  BY <1>2 DEF Known
<1>4. q.at \in Nat /\ q.period \in Nat
  BY <1>1, BudgetAssumption DEF Request
<1> HIDE DEF next
<1>5. OnPath(next, m, o)
  BY <1>1, <1>2, <1>4 DEF OnPath
<1>6. OnTime(next)
  BY <1>1, <1>2 DEF OnTime
<1>7. Owns(next, e)
  BY <1>1, <1>2, <1>3 DEF Owns
<1> QED BY <1>2, <1>5, <1>6, <1>7 DEF Proper, next

-----------------------------------------------------------------------------
(* What the steps do to the reserved hashes.                               *)

\* The types of a reserved hash, as the proofs below use them.
LEMMA ReservedTokens ==
  ASSUME Typed, NEW s \in Scopes
  PROVE  /\ reserved[s].tokens \in Nat /\ reserved[s].period \in Nat /\ reserved[s].ttl \in Nat
         /\ reserved[s] \in [period : 0..period, tokens : Nat, ttl : 0..Ttl]
BY BudgetAssumption DEF Typed

\* What AllProper says of one request.
LEMMA RequestOf ==
  ASSUME AllProper, NEW r \in Requests
  PROVE  /\ req[r] \in Request
         /\ OnPath(req[r], now, period) /\ OnTime(req[r]) /\ Owns(req[r], disturbed)
         /\ req[r].est \in Nat /\ req[r].actual \in Nat /\ req[r].period \in Nat
         /\ req[r].held \subseteq Armed /\ req[r].counted \subseteq Armed
<1>1. req[r] \in Request
  BY DEF AllProper, Proper
<1> QED BY <1>1, BudgetAssumption DEF AllProper, Proper, Request

\* Estimates and usage are numbers.
LEMMA EstimatesNat ==
  ASSUME NEW f \in [Requests -> Request]
  PROVE  /\ [r \in Requests |-> f[r].est] \in [Requests -> Nat]
         /\ [r \in Requests |-> f[r].actual] \in [Requests -> Nat]
<1>1. \A r \in Requests : f[r] \in Request
  OBVIOUS
<1>2. \A x \in Request : x.est \in Nat /\ x.actual \in Nat
  BY DEF Request
<1> QED BY <1>1, <1>2

\* Requests other than r are as they were.
LEMMA OthersSame ==
  ASSUME AllProper, NEW r \in Requests, NEW q \in Request, req' = [req EXCEPT ![r] = q]
  PROVE  /\ req' \in [Requests -> Request] /\ req'[r] = q
         /\ \A x \in Requests : x # r => req'[x] = req[x]
BY DEF AllProper

\* A step of r that leaves the hashes and what they count for it alone.
LEMMA OneRequest ==
  ASSUME Inv, NEW r \in Requests, NEW q, req' = [req EXCEPT ![r] = q],
         Proper(q, now, period, disturbed), q.counted = req[r].counted,
         q.counted # {} => q.est = req[r].est /\ q.period = req[r].period,
         UNCHANGED <<reserved, now, period, disturbed>>, Typed'
  PROVE  Inv'
<1>0. AllProper /\ q \in Request
  BY DEF Inv, Proper
<1>1. /\ req' \in [Requests -> Request] /\ req'[r] = q
      /\ \A x \in Requests : x # r => req'[x] = req[x]
  BY <1>0, OthersSame
<1>2. AllProper'
  BY <1>0, <1>1 DEF AllProper
<1>3. OnePeriod'
  BY <1>1 DEF Inv, OnePeriod
<1>4. ASSUME NEW s \in Scopes
      PROVE  Total(Estimates', CountedAt(s)') = Total(Estimates, CountedAt(s))
  <2>1. ASSUME NEW x \in Requests
        PROVE  Terms(Estimates', CountedAt(s)')[x] = Terms(Estimates, CountedAt(s))[x]
    BY <1>1 DEF Terms, CountedAt, Estimates
  <2>2. Estimates' \in [Requests -> Nat] /\ Estimates \in [Requests -> Nat]
    BY <1>0, <1>1, EstimatesNat DEF Estimates, AllProper
  <2> QED BY <2>1, <2>2, TotalSame
<1>5. ReservedMatchesInFlight'
  BY <1>4 DEF Inv, ReservedMatchesInFlight
<1> QED BY <1>2, <1>3, <1>5 DEF Inv

\* released, field by field.
LEMMA Released ==
  ASSUME Typed, NEW s \in Scopes, NEW p, NEW e \in Nat
  PROVE  /\ released(reserved[s], p, e) \in [period : 0..period, tokens : Nat, ttl : 0..Ttl]
         /\ released(reserved[s], p, e).period = reserved[s].period
         /\ released(reserved[s], p, e).ttl = reserved[s].ttl
         /\ released(reserved[s], p, e).tokens =
                       IF reserved[s].period # p THEN reserved[s].tokens
                       ELSE IF reserved[s].tokens >= e THEN reserved[s].tokens - e ELSE 0
<1>1. PICK w : w = reserved[s]
  OBVIOUS
<1>2. w \in [period : 0..period, tokens : Nat, ttl : 0..Ttl]
  BY <1>1, ReservedTokens
<1>3. PICK n : n = Max({0, w.tokens - e})
  OBVIOUS
<1>4. n = IF w.tokens >= e THEN w.tokens - e ELSE 0
  BY <1>2, <1>3, MaxTwo
<1>5. released(w, p, e) = IF w.period = p THEN [w EXCEPT !.tokens = n] ELSE w
  BY <1>3 DEF released
<1>6. n \in Nat
  BY <1>2, <1>4
<1>7. [w EXCEPT !.tokens = n] \in [period : 0..period, tokens : Nat, ttl : 0..Ttl]
  BY <1>2, <1>6
<1> QED BY <1>1, <1>2, <1>4, <1>5, <1>7

\* A reservation that r knows of is given back, and r becomes q.
GivesBack(r, s, q) ==
  /\ req' = [req EXCEPT ![r] = q]
  /\ s \in req[r].held
  /\ q.counted = req[r].counted \ {s} /\ q.est = req[r].est /\ q.period = req[r].period
  /\ reserved' = [reserved EXCEPT ![s] = released(@, req[r].period, req[r].est)]
  /\ UNCHANGED <<now, period, disturbed>>

\* A request's reservation goes back: the hash counts it no more, and neither does the
\* request.
LEMMA Returned ==
  ASSUME Inv, NEW r \in Requests, NEW q, NEW s \in Scopes, GivesBack(r, s, q),
         Proper(q, now, period, disturbed), Typed'
  PROVE  Inv'
<1>0. AllProper /\ Typed /\ q \in Request
  BY DEF Inv, Proper
<1>1. /\ req' \in [Requests -> Request] /\ req'[r] = q
      /\ \A x \in Requests : x # r => req'[x] = req[x]
  BY <1>0, OthersSame DEF GivesBack
<1>2. AllProper'
  BY <1>0, <1>1 DEF AllProper, GivesBack
<1>3. PICK p, e : p = req[r].period /\ e = req[r].est
  OBVIOUS
<1>4. e \in Nat /\ reserved[s].tokens \in Nat
  BY <1>0, <1>3, RequestOf, ReservedTokens
<1>5. /\ reserved'[s] = released(reserved[s], p, e)
      /\ \A t \in Scopes : t # s => reserved'[t] = reserved[t]
  BY <1>0, <1>3 DEF Typed, GivesBack
<1>6. /\ released(reserved[s], p, e).period = reserved[s].period
      /\ released(reserved[s], p, e).tokens =
           IF reserved[s].period # p THEN reserved[s].tokens
           ELSE IF reserved[s].tokens >= e THEN reserved[s].tokens - e ELSE 0
  BY <1>0, <1>4, Released
<1>7. q.counted = req[r].counted \ {s} /\ q.est = e /\ q.period = p
  BY <1>3 DEF GivesBack
<1>8. OnePeriod'
  BY <1>1, <1>3, <1>5, <1>6, <1>7 DEF Inv, OnePeriod
<1>9. Estimates' \in [Requests -> Nat] /\ Estimates \in [Requests -> Nat]
  BY <1>0, <1>1, EstimatesNat DEF Estimates, AllProper
<1>10. ASSUME NEW t \in Scopes, t # s \/ s \notin req[r].counted
       PROVE  Total(Estimates', CountedAt(t)') = Total(Estimates, CountedAt(t))
  <2>1. ASSUME NEW x \in Requests
        PROVE  Terms(Estimates', CountedAt(t)')[x] = Terms(Estimates, CountedAt(t))[x]
    BY <1>1, <1>3, <1>7, <1>10 DEF Terms, CountedAt, Estimates
  <2> QED BY <1>9, <2>1, TotalSame
<1>11. ASSUME NEW t \in Scopes, t # s
       PROVE  /\ reserved'[t].tokens <= Total(Estimates', CountedAt(t)')
              /\ t \notin disturbed' => reserved'[t].tokens = Total(Estimates', CountedAt(t)')
  BY <1>5, <1>10, <1>11 DEF Inv, ReservedMatchesInFlight, GivesBack
<1>12. /\ reserved'[s].tokens <= Total(Estimates', CountedAt(s)')
       /\ s \notin disturbed' => reserved'[s].tokens = Total(Estimates', CountedAt(s)')
  <2>1. /\ reserved[s].tokens <= Total(Estimates, CountedAt(s))
        /\ s \notin disturbed => reserved[s].tokens = Total(Estimates, CountedAt(s))
    BY DEF Inv, ReservedMatchesInFlight
  <2>2. Total(Estimates, CountedAt(s)) \in Nat /\ Total(Estimates', CountedAt(s)') \in Nat
    BY <1>9, TotalNat
  <2>3. disturbed' = disturbed
    BY DEF GivesBack
  <2>4. CASE s \in req[r].counted
    <3>1. reserved[s].period = p
      BY <1>3, <2>4 DEF Inv, OnePeriod
    <3>2. r \in CountedAt(s) /\ r \notin CountedAt(s)' /\ Estimates[r] = e
      BY <1>1, <1>3, <1>7, <2>4 DEF CountedAt, Estimates
    <3>3. \A x \in Requests : x # r =>
            Terms(Estimates', CountedAt(s)')[x] = Terms(Estimates, CountedAt(s))[x]
      BY <1>1 DEF Terms, CountedAt, Estimates
    <3>4. Total(Estimates', CountedAt(s)')
            = Total(Estimates, CountedAt(s))
              + ((IF r \in CountedAt(s)' THEN Estimates'[r] ELSE 0)
                 - (IF r \in CountedAt(s) THEN Estimates[r] ELSE 0))
      BY <1>9, <3>3, TotalChange
    <3>5. Total(Estimates', CountedAt(s)') = Total(Estimates, CountedAt(s)) - e
      BY <1>4, <2>2, <3>2, <3>4
    <3> QED BY <1>4, <1>5, <1>6, <2>1, <2>2, <2>3, <3>1, <3>5
  <2>5. CASE s \notin req[r].counted
    <3>1. s \in disturbed
      BY <1>0, <2>5, RequestOf DEF Owns, Known, GivesBack
    <3>2. Total(Estimates', CountedAt(s)') = Total(Estimates, CountedAt(s))
      BY <1>10, <2>5
    <3> QED BY <1>4, <1>5, <1>6, <2>1, <2>2, <2>3, <3>1, <3>2
  <2> QED BY <2>4, <2>5
<1>13. ReservedMatchesInFlight'
  BY <1>11, <1>12 DEF ReservedMatchesInFlight
<1> QED BY <1>2, <1>8, <1>13 DEF Inv

-----------------------------------------------------------------------------
(* Every action preserves the invariant.                                   *)

\* Steps that change the requests and faults only.
LEMMA TypedSame ==
  ASSUME Typed, UNCHANGED <<bucket, usage, reserved, now, period, disturbed, slack, deleted>>,
         faults' \in 0..MaxFaults
  PROVE  Typed'
BY DEF Typed

\* Arrive: nothing is reserved for a new request.
LEMMA ArriveKeeps ==
  ASSUME Inv, NEW r \in Requests, Arrive(r)
  PROVE  Inv'
<1>1. AllProper /\ Typed
  BY DEF Inv
<1>2. PICK e \in Nat : req' = [req EXCEPT ![r] = goes_on([Fresh EXCEPT !.est = e, !.period = period])]
  BY BudgetAssumption DEF Arrive
<1>3. PICK next : next = goes_on([Fresh EXCEPT !.est = e, !.period = period])
  OBVIOUS
<1>4. Proper(next, now, period, disturbed) /\ next.counted = {}
  BY <1>1, <1>3, ArrivedProper
<1>5. req[r].counted = {}
  BY <1>1, RequestOf DEF Arrive, OnPath
<1>6. UNCHANGED <<bucket, usage, reserved, now, period, disturbed, slack, deleted, faults>>
  BY DEF Arrive
<1>7. Typed'
  BY <1>1, <1>6, TypedSame DEF Typed
<1>8. UNCHANGED <<reserved, now, period, disturbed>>
  BY <1>6
<1> QED BY <1>2, <1>3, <1>4, <1>5, <1>7, <1>8, OneRequest

\* Answered: the request takes hold of what was reserved, or is rejected.
LEMMA AnsweredKeeps ==
  ASSUME Inv, NEW r \in Requests, Answered(r)
  PROVE  Inv'
<1> DEFINE q == req[r]
<1>1. AllProper /\ Typed
  BY DEF Inv
<1>2. /\ q \in Request /\ OnPath(q, now, period) /\ OnTime(q) /\ Owns(q, disturbed)
  BY <1>1, RequestOf
<1>3. UNCHANGED <<bucket, usage, reserved, now, period, disturbed, slack, deleted, faults>>
  BY DEF Answered
<1>4. Typed'
  BY <1>1, <1>3, TypedSame DEF Typed
<1>5. UNCHANGED <<reserved, now, period, disturbed>>
  BY <1>3
<1>6. q.stage \in Scopes
  BY DEF Answered, Awaiting
<1>7. CASE q.answer = "reserved"
  <2>1. PICK q1 : q1 = [q EXCEPT !.held = @ \union ({q.stage} \cap Armed)]
    OBVIOUS
  <2>2. /\ q1 \in Request /\ q1.stage = q.stage /\ q1.est = q.est /\ q1.period = q.period
        /\ q1.counted = q.counted /\ q1.charged = q.charged /\ q1.bucket = q.bucket
        /\ q1.held = q.held \union ({q.stage} \cap Armed) /\ q1.excused = q.excused
        /\ q.counted \subseteq Armed
    BY <1>2, <2>1 DEF Request
  <2>3. Learns(q, q1)
    BY <1>6, <1>7, <2>2 DEF Learns, Known
  <2>4. req' = [req EXCEPT ![r] = goes_on(q1)]
    BY <1>7, <2>1 DEF Answered
  <2>5. PICK next : next = goes_on(q1)
    OBVIOUS
  <2>6. Proper(next, now, period, disturbed)
    BY <1>1, <1>2, <2>3, <2>5, AdmittedProper
  <2>7. next.counted = q.counted /\ next.est = q.est /\ next.period = q.period
    BY <1>1, <1>6, <2>2, <2>5, GoesOn DEF Typed, Scopes
  <2> QED BY <1>4, <1>5, <2>4, <2>5, <2>6, <2>7, OneRequest
<1>8. CASE q.answer # "reserved"
  <2>1. req' = [req EXCEPT ![r] = rejected(q)]
    BY <1>8 DEF Answered
  <2>2. PICK next : next = rejected(q)
    OBVIOUS
  <2>3. Learns(q, q)
    BY <1>2, <1>6, <1>8 DEF Learns, Known
  <2>4. Proper(next, now, period, disturbed)
    BY <1>2, <2>2, <2>3, RejectedProper
  <2>5. next.counted = q.counted /\ next.est = q.est /\ next.period = q.period
    BY <1>2, <2>2, Rejected
  <2> QED BY <1>4, <1>5, <2>1, <2>2, <2>4, <2>5, OneRequest
<1> QED BY <1>7, <1>8

\* A call that failed, or was given up: what is counted for it is excused.
LEMMA LostAnswer ==
  ASSUME AllProper, NEW r \in Requests, Awaiting(r), NEW q1,
         q1 = [req[r] EXCEPT !.excused = @ \union (req[r].counted \cap {req[r].stage})]
  PROVE  Learns(req[r], q1) /\ q1.held = req[r].held
<1> DEFINE q == req[r]
<1>1. q \in Request /\ q.stage \in Scopes
  BY RequestOf DEF Awaiting
<1>2. /\ q1 \in Request /\ q1.stage = q.stage /\ q1.est = q.est /\ q1.period = q.period
      /\ q1.counted = q.counted /\ q1.charged = q.charged /\ q1.bucket = q.bucket
      /\ q1.held = q.held /\ q1.excused = q.excused \union (q.counted \cap {q.stage})
  BY <1>1 DEF Request
<1> QED BY <1>1, <1>2 DEF Learns, Known

\* A request is rejected or left at a call: what it was reserved stays known or excused.
LEMMA RejectKeeps ==
  ASSUME Inv, NEW r \in Requests, Awaiting(r), NEW q1,
         q1 = [req[r] EXCEPT !.excused = @ \union (req[r].counted \cap {req[r].stage})],
         NEW open \in BOOLEAN,
         req' = [req EXCEPT ![r] = IF open THEN goes_on(q1) ELSE rejected(q1)],
         UNCHANGED <<reserved, now, period, disturbed>>, Typed'
  PROVE  Inv'
<1>1. AllProper /\ Typed
  BY DEF Inv
<1>2. /\ req[r] \in Request /\ OnPath(req[r], now, period) /\ OnTime(req[r])
      /\ Owns(req[r], disturbed)
  BY <1>1, RequestOf
<1>3. Learns(req[r], q1) /\ q1.held = req[r].held
  BY <1>1, LostAnswer
<1>4. PICK next : next = IF open THEN goes_on(q1) ELSE rejected(q1)
  OBVIOUS
<1>5. Proper(next, now, period, disturbed)
  BY <1>1, <1>2, <1>3, <1>4, AdmittedProper, RejectedProper
<1>6. next.counted = q1.counted /\ next.est = q1.est /\ next.period = q1.period
  BY <1>1, <1>3, <1>4, GoesOn, Rejected DEF Typed, Scopes, Learns
<1>7. next.counted = req[r].counted /\ next.est = req[r].est /\ next.period = req[r].period
  BY <1>3, <1>6 DEF Learns
<1>8. req' = [req EXCEPT ![r] = next]
  BY <1>4
<1> QED BY <1>5, <1>7, <1>8, OneRequest

\* ReserveFails: a lost answer excuses the reservation it was about.
LEMMA ReserveFailsKeeps ==
  ASSUME Inv, NEW r \in Requests, ReserveFails(r)
  PROVE  Inv'
<1>1. Typed
  BY DEF Inv
<1>2. PICK q1 : q1 = [req[r] EXCEPT !.excused = @ \union (req[r].counted \cap {req[r].stage})]
  OBVIOUS
<1>3. /\ Awaiting(r) /\ faults > 0 /\ faults' = faults - 1
      /\ UNCHANGED <<bucket, usage, reserved, now, period, disturbed, slack, deleted>>
  BY DEF ReserveFails
<1>4. PICK open \in BOOLEAN :
        req' = [req EXCEPT ![r] = IF open THEN goes_on(q1) ELSE rejected(q1)]
  BY <1>2, BudgetAssumption DEF ReserveFails
<1>5. faults' \in 0..MaxFaults
  BY <1>1, <1>3, BudgetAssumption DEF Typed
<1>6. Typed'
  BY <1>1, <1>3, <1>5, TypedSame
<1>7. UNCHANGED <<reserved, now, period, disturbed>>
  BY <1>3
<1>8. Awaiting(r)
  BY <1>3
<1> QED BY <1>2, <1>4, <1>6, <1>7, <1>8, RejectKeeps

\* ClientLeaves: the reservation of the call that was under way is excused.
LEMMA ClientLeavesKeeps ==
  ASSUME Inv, NEW r \in Requests, ClientLeaves(r)
  PROVE  Inv'
<1>1. Typed
  BY DEF Inv
<1>2. PICK q1 : q1 = [req[r] EXCEPT !.excused = @ \union (req[r].counted \cap {req[r].stage})]
  OBVIOUS
<1>3. /\ Awaiting(r) /\ req' = [req EXCEPT ![r] = rejected(q1)]
      /\ UNCHANGED <<bucket, usage, reserved, now, period, disturbed, slack, deleted, faults>>
  BY <1>2 DEF ClientLeaves
<1>4. PICK open \in BOOLEAN : ~open
  OBVIOUS
<1>5. req' = [req EXCEPT ![r] = IF open THEN goes_on(q1) ELSE rejected(q1)]
  BY <1>3, <1>4
<1>6. Typed'
  BY <1>1, <1>3, TypedSame DEF Typed
<1>7. UNCHANGED <<reserved, now, period, disturbed>>
  BY <1>3
<1>8. Awaiting(r)
  BY <1>3
<1> QED BY <1>2, <1>5, <1>6, <1>7, <1>8, RejectKeeps

\* Crash: all that is reserved for the request is excused.
LEMMA CrashKeeps ==
  ASSUME Inv, NEW r \in Requests, Crash(r)
  PROVE  Inv'
<1> DEFINE q == req[r]
<1>1. AllProper /\ Typed
  BY DEF Inv
<1>2. /\ q \in Request /\ OnPath(q, now, period) /\ OnTime(q) /\ Owns(q, disturbed)
  BY <1>1, RequestOf
<1>3. /\ q.stage \notin {"idle", "done"} /\ faults > 0 /\ faults' = faults - 1
      /\ UNCHANGED <<bucket, usage, reserved, now, period, disturbed, slack, deleted>>
  BY DEF Crash
<1>4. faults' \in 0..MaxFaults
  BY <1>1, <1>3, BudgetAssumption DEF Typed
<1>5. Typed'
  BY <1>1, <1>3, <1>4, TypedSame
<1>6. PICK next : next = [q EXCEPT !.stage = "done", !.answer = "none", !.at = 0,
                                   !.excused = q.counted]
  OBVIOUS
<1>7. /\ next \in Request /\ next.stage = "done" /\ next.answer = "none"
      /\ next.est = q.est /\ next.period = q.period /\ next.held = q.held
      /\ next.counted = q.counted /\ next.charged = q.charged /\ next.bucket = q.bucket
      /\ next.excused = q.counted
  BY <1>2, <1>6, BudgetAssumption DEF Request, Stages, Answers
<1>8. req' = [req EXCEPT ![r] = next]
  BY <1>1, <1>6 DEF Crash, AllProper
<1>9. Proper(next, now, period, disturbed)
  BY <1>2, <1>3, <1>7, CrashedProper
<1>10. UNCHANGED <<reserved, now, period, disturbed>>
  BY <1>3
<1> QED BY <1>5, <1>7, <1>8, <1>9, <1>10, OneRequest

\* The request is served and its settlement begins.
LEMMA FinishKeeps ==
  ASSUME Inv, NEW r \in Requests, Finish(r)
  PROVE  Inv'
<1> DEFINE q == req[r]
<1>1. AllProper /\ Typed
  BY DEF Inv
<1>2. /\ q \in Request /\ OnPath(q, now, period) /\ OnTime(q) /\ Owns(q, disturbed)
      /\ q.est \in Nat
  BY <1>1, RequestOf
<1>3. q.stage = "serving"
      /\ UNCHANGED <<bucket, usage, reserved, now, period, disturbed, slack, deleted, faults>>
  BY DEF Finish
<1>4. PICK n \in Nat : req' = [req EXCEPT ![r] = [goes_on(q) EXCEPT !.actual = n]]
  BY <1>2, BudgetAssumption DEF Finish
<1>5. PICK q1 : q1 = goes_on(q)
  OBVIOUS
<1>6. /\ q1 \in Request /\ q1.stage = Onward(q.stage) /\ q1.answer = "none"
      /\ q1.est = q.est /\ q1.period = q.period /\ q1.held = q.held /\ q1.counted = q.counted
      /\ q1.charged = q.charged /\ q1.bucket = q.bucket /\ q1.excused = q.excused
  BY <1>1, <1>2, <1>3, <1>5, GoesOn DEF Typed
<1>7. PICK next : next = [q1 EXCEPT !.actual = n]
  OBVIOUS
<1>8. /\ next \in Request /\ next.stage = Onward(q.stage) /\ next.answer = "none"
      /\ next.est = q.est /\ next.period = q.period /\ next.held = q.held
      /\ next.counted = q.counted
      /\ next.charged = q.charged /\ next.bucket = q.bucket /\ next.excused = q.excused
  BY <1>6, <1>7 DEF Request
<1>9. Proper(next, now, period, disturbed)
  BY <1>1, <1>2, <1>3, <1>8, SettledProper
<1>10. Typed'
  BY <1>1, <1>3, TypedSame DEF Typed
<1>11. UNCHANGED <<reserved, now, period, disturbed>>
  BY <1>3
<1>12. req' = [req EXCEPT ![r] = next]
  BY <1>4, <1>5, <1>7
<1> QED BY <1>8, <1>9, <1>10, <1>11, <1>12, OneRequest

\* refund, as cases.
LEMMA RefundIs ==
  ASSUME NEW n \in Int
  PROVE  /\ refund(n) = IF n > Capacity THEN Capacity ELSE IF n < -Capacity THEN -Capacity ELSE n
         /\ refund(n) \in (-Capacity)..Capacity
<1>1. Capacity \in Nat
  BY BudgetAssumption
<1>2. PICK m \in Int : m = Min({Capacity, n}) /\ m = IF Capacity <= n THEN Capacity ELSE n
  BY <1>1, MinTwo
<1>3. Max({-Capacity, m}) = IF -Capacity >= m THEN -Capacity ELSE m
  BY <1>1, MaxTwo
<1>4. refund(n) = IF -Capacity >= m THEN -Capacity ELSE m
  BY <1>2, <1>3 DEF refund
<1> QED BY <1>1, <1>2, <1>4

\* What RECONCILE does to the bucket, and r's next stage, by name.
LEMMA SettleBucketIs ==
  ASSUME Inv, NEW r \in Requests, SettleBucket(r)
  PROVE  \E next \in Request, t \in Int :
         /\ req' = [req EXCEPT ![r] = next]
         /\ next.stage = Onward("refund") /\ next.answer = "none" /\ next.bucket = "settled"
         /\ next.est = req[r].est /\ next.actual = req[r].actual /\ next.period = req[r].period
         /\ next.held = req[r].held /\ next.counted = req[r].counted
         /\ next.charged = req[r].charged /\ next.excused = req[r].excused
         /\ t = (IF bucket.ttl > 0 THEN bucket.tokens ELSE Capacity) + req[r].est - req[r].actual
         /\ bucket' = [tokens |-> refund(t), ttl |-> Ttl,
                       ts |-> IF bucket.ttl > 0 THEN bucket.ts ELSE now]
         /\ slack' = slack + (IF t < -Capacity THEN -Capacity - t ELSE 0)
                           + (IF req[r].bucket = "taken" THEN 0 ELSE req[r].est)
<1> DEFINE q == req[r]
<1>1. AllProper /\ Typed
  BY DEF Inv
<1>2. q \in Request /\ q.est \in Nat /\ q.actual \in Nat /\ q.stage = "refund"
  BY <1>1, RequestOf DEF SettleBucket
<1>3. bucket.tokens \in Int /\ Capacity \in Nat
  BY <1>1, BudgetAssumption DEF Typed
<1>4. PICK t \in Int :
        t = (IF bucket.ttl > 0 THEN bucket.tokens ELSE Capacity) + q.est - q.actual
  BY <1>2, <1>3
<1>5. PICK q1 : q1 = goes_on(q)
  OBVIOUS
<1>6. /\ q1 \in Request /\ q1.stage = Onward(q.stage) /\ q1.answer = "none"
      /\ q1.est = q.est /\ q1.actual = q.actual /\ q1.period = q.period
      /\ q1.held = q.held /\ q1.counted = q.counted
      /\ q1.charged = q.charged /\ q1.bucket = q.bucket /\ q1.excused = q.excused
  BY <1>1, <1>2, <1>5, GoesOn DEF Typed
<1>7. PICK next : next = [q1 EXCEPT !.bucket = "settled"]
  OBVIOUS
<1>8. /\ next \in Request /\ next.stage = Onward("refund") /\ next.answer = "none"
      /\ next.est = q.est /\ next.actual = q.actual /\ next.period = q.period
      /\ next.held = q.held /\ next.counted = q.counted /\ next.bucket = "settled"
      /\ next.charged = q.charged /\ next.excused = q.excused
  BY <1>2, <1>6, <1>7 DEF Request
<1>9. req' = [req EXCEPT ![r] = next]
  BY <1>5, <1>7 DEF SettleBucket
<1>10. Max({0, -Capacity - t}) = IF t < -Capacity THEN -Capacity - t ELSE 0
  BY <1>3, <1>4, MaxTwo
<1>11. slack' = slack + Max({0, -Capacity - t}) + (IF q.bucket = "taken" THEN 0 ELSE q.est)
  BY <1>4 DEF SettleBucket
<1>12. bucket' = [tokens |-> refund(t), ttl |-> Ttl,
                  ts |-> IF bucket.ttl > 0 THEN bucket.ts ELSE now]
  BY <1>4 DEF SettleBucket
<1> QED BY <1>4, <1>8, <1>9, <1>10, <1>11, <1>12

\* SettleBucket touches the bucket only.
LEMMA SettleBucketKeeps ==
  ASSUME Inv, NEW r \in Requests, SettleBucket(r)
  PROVE  Inv'
<1> DEFINE q == req[r]
<1>1. AllProper /\ Typed
  BY DEF Inv
<1>2. /\ q \in Request /\ OnPath(q, now, period) /\ OnTime(q) /\ Owns(q, disturbed)
      /\ q.est \in Nat
  BY <1>1, RequestOf
<1>3. PICK next \in Request, t \in Int :
         /\ req' = [req EXCEPT ![r] = next]
         /\ next.stage = Onward("refund") /\ next.answer = "none" /\ next.bucket = "settled"
         /\ next.est = q.est /\ next.actual = q.actual /\ next.period = q.period
         /\ next.held = q.held /\ next.counted = q.counted
         /\ next.charged = q.charged /\ next.excused = q.excused
         /\ bucket' = [tokens |-> refund(t), ttl |-> Ttl,
                       ts |-> IF bucket.ttl > 0 THEN bucket.ts ELSE now]
         /\ slack' = slack + (IF t < -Capacity THEN -Capacity - t ELSE 0)
                           + (IF req[r].bucket = "taken" THEN 0 ELSE req[r].est)
  BY SettleBucketIs
<1>4. q.stage = "refund" /\ UNCHANGED <<usage, reserved, now, period, disturbed, deleted, faults>>
  BY DEF SettleBucket
<1>5. Proper(next, now, period, disturbed)
  BY <1>1, <1>2, <1>3, <1>4, SettledProper
<1>6. Typed'
  <2>1. PICK m \in (-Capacity)..Capacity : m = refund(t)
    BY RefundIs
  <2>2. PICK at \in 0..now : at = IF bucket.ttl > 0 THEN bucket.ts ELSE now
    BY <1>1 DEF Typed
  <2>3. bucket' = [tokens |-> m, ttl |-> Ttl, ts |-> at]
    BY <1>3, <2>1, <2>2
  <2>4. bucket' \in [tokens : (-Capacity)..Capacity, ts : 0..now, ttl : 0..Ttl]
    BY <2>3, BudgetAssumption
  <2>5. slack' \in Nat
    BY <1>1, <1>2, <1>3, BudgetAssumption DEF Typed
  <2> QED BY <1>1, <1>4, <2>4, <2>5 DEF Typed
<1>7. UNCHANGED <<reserved, now, period, disturbed>>
  BY <1>4
<1> QED BY <1>3, <1>5, <1>6, <1>7, OneRequest

-----------------------------------------------------------------------------
(* Term counters.                                                          *)

\* The usage of scope t in period o that u and d have: in the counters, or deleted.
InAll(u, d, t, o) == d[t][o] + (IF u[t].period = o THEN u[t].tokens ELSE 0)

\* The types of a scope's counters.
LEMMA UsageOf ==
  ASSUME Typed, NEW s \in Scopes
  PROVE  /\ usage[s] \in [period : 0..period, tokens : Nat]
         /\ usage[s].period \in 0..MaxPeriod /\ usage[s].tokens \in Nat
         /\ usage[s].period \in Nat
         /\ usage[s].period = 0 => usage[s].tokens = 0
         /\ \A o \in 1..MaxPeriod : deleted[s][o] \in Nat
<1>1. usage \in [Scopes -> [period : 0..period, tokens : Nat]] /\ period \in 1..MaxPeriod
  BY DEF Typed
<1>2. deleted \in [Scopes -> [1..MaxPeriod -> Nat]]
  BY DEF Typed
<1>3. usage[s].period = 0 => usage[s].tokens = 0
  BY DEF Typed
<1>4. MaxPeriod \in Nat
  BY BudgetAssumption
<1>5. usage[s] \in [period : 0..period, tokens : Nat]
  BY <1>1
<1>6. \A o \in 1..MaxPeriod : deleted[s][o] \in Nat
  BY <1>2
<1> QED BY <1>1, <1>3, <1>4, <1>5, <1>6

\* rolled, field by field.
LEMMA RolledIs ==
  ASSUME Typed, NEW s \in Scopes, NEW p \in 1..period
  PROVE  /\ rolled(usage[s], p) \in [period : 0..period, tokens : Nat]
         /\ rolled(usage[s], p).period = p
         /\ rolled(usage[s], p).tokens = IF usage[s].period = p THEN usage[s].tokens ELSE 0
<1>1. usage[s] \in [period : 0..period, tokens : Nat] /\ period \in Nat
  BY UsageOf, BudgetAssumption DEF Typed
<1> QED BY <1>1 DEF rolled

\* DeletedFor, entry by entry.
LEMMA DeletedIs ==
  ASSUME Typed, NEW s \in Scopes, NEW p \in 1..period
  PROVE  /\ DeletedFor(s, p) \in [Scopes -> [1..MaxPeriod -> Nat]]
         /\ \A t \in Scopes, o \in 1..MaxPeriod :
              DeletedFor(s, p)[t][o] =
                deleted[t][o] + (IF t = s /\ o # p /\ o = usage[s].period THEN usage[s].tokens ELSE 0)
<1>1. deleted \in [Scopes -> [1..MaxPeriod -> Nat]]
  BY DEF Typed
<1>2. PICK c, n : c = usage[s].period /\ n = usage[s].tokens
  OBVIOUS
<1>3. c \in 0..MaxPeriod /\ n \in Nat
  BY <1>2, UsageOf
<1>4. CASE c \in {0, p}
  <2>1. DeletedFor(s, p) = deleted
    BY <1>2, <1>4 DEF DeletedFor
  <2>2. \A t \in Scopes, o \in 1..MaxPeriod : deleted[t][o] \in Nat
    BY <1>1
  <2> QED BY <1>1, <1>2, <1>3, <1>4, <2>1, <2>2
<1>5. CASE c \notin {0, p}
  <2>1. PICK row : row = deleted[s]
    OBVIOUS
  <2>2. row \in [1..MaxPeriod -> Nat]
    BY <1>1, <2>1
  <2>3. PICK now1 : now1 = [row EXCEPT ![c] = @ + n]
    OBVIOUS
  <2>4. now1 \in [1..MaxPeriod -> Nat]
        /\ \A o \in 1..MaxPeriod : now1[o] = row[o] + IF o = c THEN n ELSE 0
    BY <1>3, <2>2, <2>3, <1>5
  <2>5. DeletedFor(s, p) = [deleted EXCEPT ![s] = now1]
    BY <1>1, <1>2, <1>5, <2>1, <2>3 DEF DeletedFor
  <2>6. DeletedFor(s, p) \in [Scopes -> [1..MaxPeriod -> Nat]]
    BY <1>1, <2>4, <2>5
  <2>7. DeletedFor(s, p)[s] = now1 /\ \A t \in Scopes : t # s => DeletedFor(s, p)[t] = deleted[t]
    BY <1>1, <2>5
  <2>8. \A t \in Scopes, o \in 1..MaxPeriod : deleted[t][o] \in Nat
    BY <1>1
  <2>9. ASSUME NEW t \in Scopes, NEW o \in 1..MaxPeriod
        PROVE  DeletedFor(s, p)[t][o] =
                 deleted[t][o] + (IF t = s /\ o # p /\ o = c THEN n ELSE 0)
    <3>1. CASE t = s
      BY <1>3, <1>5, <2>1, <2>4, <2>7, <2>8, <3>1
    <3>2. CASE t # s
      BY <2>7, <2>8, <3>2
    <3> QED BY <3>1, <3>2
  <2> QED BY <1>2, <2>6, <2>9
<1> QED BY <1>4, <1>5

\* A commit of n tokens to scope s, of a request of period p: the counters' next
\* entry c, and that nothing else is gained or lost.
Commits(s, p, n, c) ==
  /\ usage' = [usage EXCEPT ![s] = c]
  /\ c \in [period : 0..period, tokens : Nat]
  /\ c.period \in 1..period
  /\ deleted' \in [Scopes -> [1..MaxPeriod -> Nat]]
  /\ \A t \in Scopes, o \in 1..MaxPeriod :
       InAll(usage', deleted', t, o)
         = InAll(usage, deleted, t, o) + (IF t = s /\ o = c.period THEN n ELSE 0)

\* TERM_RECONCILE commits once: to the stored period, to the request's only if none is.
LEMMA TermReconcileCommits ==
  ASSUME Typed, NEW r \in Requests, NEW s \in Scopes, NEW n \in Nat,
         TermReconcile(s, r, n), req[r].period \in 1..period
  PROVE  \E c : /\ Commits(s, req[r].period, n, c)
                /\ usage[s].period # 0 => c.period = usage[s].period
                /\ usage[s].period = 0 => c.period = req[r].period
<1>1. PICK u, p : u = usage[s] /\ p = req[r].period
  OBVIOUS
<1>2. /\ u \in [period : 0..period, tokens : Nat] /\ u.period \in Nat /\ u.tokens \in Nat
      /\ u.period = 0 => u.tokens = 0
      /\ p \in 1..period /\ period \in Nat
  <2>1. period \in Nat
    BY BudgetAssumption DEF Typed
  <2> QED BY <1>1, <2>1, UsageOf
<1>3. PICK c : c = committed(u, reserved[s], p, n)
  OBVIOUS
<1>4. c = IF u.period = 0 THEN [period |-> p, tokens |-> n] ELSE [u EXCEPT !.tokens = @ + n]
  BY <1>3 DEF committed
<1>5. /\ c \in [period : 0..period, tokens : Nat]
      /\ c.period = IF u.period = 0 THEN p ELSE u.period
      /\ c.tokens = u.tokens + n
  BY <1>2, <1>4
<1>6. usage' = [usage EXCEPT ![s] = c] /\ deleted' = deleted
  BY <1>1, <1>3 DEF TermReconcile
<1>7. usage'[s] = c /\ \A t \in Scopes : t # s => usage'[t] = usage[t]
  BY <1>6 DEF Typed
<1>8. deleted' \in [Scopes -> [1..MaxPeriod -> Nat]]
  BY <1>6 DEF Typed
<1>9. c.period \in 1..period
  BY <1>2, <1>5
<1>10. ASSUME NEW t \in Scopes, NEW o \in 1..MaxPeriod
       PROVE  InAll(usage', deleted', t, o)
                = InAll(usage, deleted, t, o) + (IF t = s /\ o = c.period THEN n ELSE 0)
  <2>1. deleted[t][o] \in Nat /\ usage[t].tokens \in Nat
    BY UsageOf
  <2> QED BY <1>1, <1>2, <1>5, <1>6, <1>7, <2>1 DEF InAll
<1> QED BY <1>1, <1>5, <1>6, <1>8, <1>9, <1>10 DEF Commits

\* TERM_USAGE_ADD commits once, to the request's period, and deletes what it rolls over.
LEMMA TermUsageAddCommits ==
  ASSUME Typed, NEW r \in Requests, NEW s \in Scopes, NEW n \in Nat,
         TermUsageAdd(s, r, n), req[r].period \in 1..period
  PROVE  \E c : Commits(s, req[r].period, n, c) /\ c.period = req[r].period
<1>1. PICK u, p : u = rolled(usage[s], req[r].period) /\ p = req[r].period
  OBVIOUS
<1>2. /\ u \in [period : 0..period, tokens : Nat] /\ u.period = p
      /\ u.tokens = IF usage[s].period = p THEN usage[s].tokens ELSE 0
      /\ p \in 1..period /\ period \in Nat
  <2>1. period \in Nat
    BY BudgetAssumption DEF Typed
  <2> QED BY <1>1, <2>1, RolledIs
<1>3. PICK c : c = [period |-> p, tokens |-> u.tokens + n]
  OBVIOUS
<1>4. c \in [period : 0..period, tokens : Nat] /\ c.period = p /\ c.tokens = u.tokens + n
  BY <1>2, <1>3
<1>5. usage' = [usage EXCEPT ![s] = c] /\ deleted' = DeletedFor(s, p)
  BY <1>1, <1>3 DEF TermUsageAdd
<1>6. usage'[s] = c /\ \A t \in Scopes : t # s => usage'[t] = usage[t]
  BY <1>5 DEF Typed
<1>7. /\ deleted' \in [Scopes -> [1..MaxPeriod -> Nat]]
      /\ \A t \in Scopes, o \in 1..MaxPeriod :
           deleted'[t][o] =
             deleted[t][o] + (IF t = s /\ o # p /\ o = usage[s].period THEN usage[s].tokens ELSE 0)
  BY <1>2, <1>5, DeletedIs
<1>8. ASSUME NEW t \in Scopes, NEW o \in 1..MaxPeriod
      PROVE  InAll(usage', deleted', t, o)
                = InAll(usage, deleted, t, o) + (IF t = s /\ o = c.period THEN n ELSE 0)
  <2>1. deleted[t][o] \in Nat /\ usage[t].tokens \in Nat
    BY UsageOf
  <2>2. InAll(usage', deleted', t, o) = deleted'[t][o] + (IF usage'[t].period = o THEN usage'[t].tokens ELSE 0)
    BY DEF InAll
  <2>3. InAll(usage, deleted, t, o) = deleted[t][o] + (IF usage[t].period = o THEN usage[t].tokens ELSE 0)
    BY DEF InAll
  <2>4. CASE t = s
    <3>1. deleted'[s][o] = deleted[s][o] + (IF o # p /\ o = usage[s].period THEN usage[s].tokens ELSE 0)
      BY <1>7
    <3> QED BY <1>2, <1>4, <1>6, <2>1, <2>2, <2>3, <2>4, <3>1
  <2>5. CASE t # s
    <3>1. deleted'[t][o] = deleted[t][o] /\ usage'[t] = usage[t]
      BY <1>6, <1>7, <2>1, <2>5
    <3> QED BY <2>1, <2>2, <2>3, <2>5, <3>1
  <2> QED BY <2>4, <2>5
<1> QED BY <1>1, <1>2, <1>4, <1>5, <1>7, <1>8 DEF Commits

\* The tenant's or the key's commit, by name: request r becomes next, and its usage
\* goes to the entry c of scope s.
SettlesTerm(r, s, next, c) ==
  /\ req[r].stage = IF s = "tenant" THEN "commitTenant" ELSE "commitKey"
  /\ req' = [req EXCEPT ![r] = next]
  /\ next \in Request /\ next.stage = Onward(req[r].stage) /\ next.answer = "none"
  /\ next.est = req[r].est /\ next.actual = req[r].actual /\ next.period = req[r].period
  /\ next.held = req[r].held \ {s}
  /\ next.counted = IF s \in req[r].held THEN req[r].counted \ {s} ELSE req[r].counted
  /\ next.charged \in [Scopes -> 0..MaxPeriod] /\ next.charged[s] = c.period
  /\ \A t \in Scopes : t # s => next.charged[t] = req[r].charged[t]
  /\ next.bucket = req[r].bucket /\ next.excused = req[r].excused
  /\ Commits(s, req[r].period, req[r].actual, c)
  /\ s \in req[r].held =>
       reserved' = [reserved EXCEPT ![s] = released(@, req[r].period, req[r].est)]
  /\ s \notin req[r].held => reserved' = reserved
  /\ UNCHANGED <<bucket, now, period, disturbed, slack, faults>>

\* SettleTerm, by its effects.
LEMMA SettleTermIs ==
  ASSUME Inv, NEW r \in Requests, SettleTerm(r)
  PROVE  \E s \in Scopes : \E next, c : SettlesTerm(r, s, next, c)
<1> DEFINE q == req[r]
<1>1. AllProper /\ Typed
  BY DEF Inv
<1>2. /\ q \in Request /\ OnPath(q, now, period) /\ q.actual \in Nat
      /\ q.stage \in {"commitTenant", "commitKey"}
  BY <1>1, RequestOf DEF SettleTerm
<1>3. q.period \in 1..period
  BY <1>2 DEF OnPath
<1>4. PICK s \in Scopes : s = IF q.stage = "commitTenant" THEN "tenant" ELSE "key"
  BY DEF Scopes
<1>5. q.stage = IF s = "tenant" THEN "commitTenant" ELSE "commitKey"
  BY <1>2, <1>4
<1>6. /\ s \in q.held => TermReconcile(s, r, q.actual)
      /\ s \notin q.held => TermUsageAdd(s, r, q.actual)
  BY <1>4 DEF SettleTerm
<1>7. PICK c : Commits(s, q.period, q.actual, c)
  BY <1>1, <1>2, <1>3, <1>6, TermReconcileCommits, TermUsageAddCommits
<1>8. usage'[s] = c /\ c.period \in 0..MaxPeriod
  <2>1. period \in 1..MaxPeriod /\ usage \in [Scopes -> [period : 0..period, tokens : Nat]]
    BY <1>1 DEF Typed
  <2> QED BY <1>7, <2>1, BudgetAssumption DEF Commits
<1>9. PICK q1 : q1 = goes_on(q)
  OBVIOUS
<1>10. /\ q1 \in Request /\ q1.stage = Onward(q.stage) /\ q1.answer = "none"
       /\ q1.est = q.est /\ q1.actual = q.actual /\ q1.period = q.period
       /\ q1.held = q.held /\ q1.counted = q.counted
       /\ q1.charged = q.charged /\ q1.bucket = q.bucket /\ q1.excused = q.excused
  BY <1>1, <1>2, <1>9, GoesOn DEF Typed
<1>11. PICK k : k = IF s \in q.held THEN q1.counted \ {s} ELSE q1.counted
  OBVIOUS
<1>12. PICK z : z = [q1.charged EXCEPT ![s] = c.period]
  OBVIOUS
<1>13. /\ z \in [Scopes -> 0..MaxPeriod] /\ z[s] = c.period
       /\ \A t \in Scopes : t # s => z[t] = q.charged[t]
  BY <1>8, <1>10, <1>12 DEF Request
<1>14. k \subseteq Armed
  BY <1>10, <1>11 DEF Request
<1>15. PICK next : next = [q1 EXCEPT !.held = q1.held \ {s}, !.counted = k, !.charged = z]
  OBVIOUS
<1>16. /\ next \in Request /\ next.stage = Onward(q.stage) /\ next.answer = "none"
       /\ next.est = q.est /\ next.actual = q.actual /\ next.period = q.period
       /\ next.held = q.held \ {s} /\ next.counted = k /\ next.charged = z
       /\ next.bucket = q.bucket /\ next.excused = q.excused
  BY <1>10, <1>13, <1>14, <1>15 DEF Request
<1>17. req' = [req EXCEPT ![r] = next]
  <2>1. next = [q1 EXCEPT !.held = @ \ {s},
                          !.counted = IF s \in q.held THEN @ \ {s} ELSE @,
                          !.charged[s] = usage'[s].period]
    BY <1>8, <1>10, <1>11, <1>12, <1>15 DEF Request
  <2>2. req' = [req EXCEPT ![r] = [q1 EXCEPT !.held = @ \ {s},
                          !.counted = IF s \in q.held THEN @ \ {s} ELSE @,
                          !.charged[s] = usage'[s].period]]
    BY <1>4, <1>9 DEF SettleTerm
  <2> QED BY <2>1, <2>2
<1>18. /\ s \in q.held => reserved' = [reserved EXCEPT ![s] = released(@, q.period, q.est)]
       /\ s \notin q.held => reserved' = reserved
  BY <1>6 DEF TermReconcile, TermUsageAdd
<1>19. UNCHANGED <<bucket, now, period, disturbed, slack, faults>>
  BY DEF SettleTerm
<1>20. SettlesTerm(r, s, next, c)
  BY <1>5, <1>7, <1>10, <1>11, <1>13, <1>16, <1>17, <1>18, <1>19 DEF SettlesTerm
<1> QED BY <1>20

\* The types hold after a commit.
LEMMA CommitTyped ==
  ASSUME Typed, NEW s \in Scopes, NEW p, NEW n, NEW c, Commits(s, p, n, c),
         UNCHANGED <<bucket, now, period, disturbed, slack, faults>>,
         reserved' \in [Scopes -> [period : 0..period, tokens : Nat, ttl : 0..Ttl]],
         \A t \in Scopes : (reserved'[t].period = 0) <=> (reserved'[t].ttl = 0)
  PROVE  Typed'
<1>1. usage' = [usage EXCEPT ![s] = c] /\ c \in [period : 0..period, tokens : Nat]
      /\ c.period \in 1..period /\ deleted' \in [Scopes -> [1..MaxPeriod -> Nat]]
  BY DEF Commits
<1>2. usage' \in [Scopes -> [period : 0..period, tokens : Nat]]
  BY <1>1 DEF Typed
<1>3. \A t \in Scopes : usage'[t] = usage[t] \/ usage'[t] = c
  BY <1>1 DEF Typed
<1>4. period \in Nat
  BY BudgetAssumption DEF Typed
<1>5. \A t \in Scopes : usage'[t].period = 0 => usage'[t].tokens = 0
  <2>1. c.period # 0
    BY <1>1, <1>4
  <2> QED BY <1>3, <2>1 DEF Typed
<1> QED BY <1>1, <1>2, <1>5 DEF Typed

\* The reserved hashes after a release.
LEMMA ReleaseTyped ==
  ASSUME Typed, NEW s \in Scopes, NEW p, NEW e \in Nat,
         reserved' = [reserved EXCEPT ![s] = released(@, p, e)]
  PROVE  /\ reserved' \in [Scopes -> [period : 0..period, tokens : Nat, ttl : 0..Ttl]]
         /\ \A t \in Scopes : (reserved'[t].period = 0) <=> (reserved'[t].ttl = 0)
<1>1. PICK v : v = released(reserved[s], p, e)
  OBVIOUS
<1>2. /\ v \in [period : 0..period, tokens : Nat, ttl : 0..Ttl]
      /\ v.period = reserved[s].period /\ v.ttl = reserved[s].ttl
  BY <1>1, Released
<1>3. reserved' = [reserved EXCEPT ![s] = v]
  BY <1>1
<1>4. reserved \in [Scopes -> [period : 0..period, tokens : Nat, ttl : 0..Ttl]]
      /\ \A t \in Scopes : (reserved[t].period = 0) <=> (reserved[t].ttl = 0)
  BY DEF Typed
<1>5. reserved'[s] = v /\ \A t \in Scopes : t # s => reserved'[t] = reserved[t]
  BY <1>3, <1>4
<1>6. reserved' \in [Scopes -> [period : 0..period, tokens : Nat, ttl : 0..Ttl]]
  BY <1>2, <1>3, <1>4
<1> QED BY <1>2, <1>4, <1>5, <1>6

\* SettleTerm: the commit gives the reservation back.
LEMMA SettleTermKeeps ==
  ASSUME Inv, NEW r \in Requests, SettleTerm(r)
  PROVE  Inv'
<1> DEFINE q == req[r]
<1>1. AllProper /\ Typed
  BY DEF Inv
<1>2. /\ q \in Request /\ OnPath(q, now, period) /\ OnTime(q) /\ Owns(q, disturbed)
      /\ q.est \in Nat
  BY <1>1, RequestOf
<1>3. PICK s \in Scopes : \E next, c : SettlesTerm(r, s, next, c)
  BY SettleTermIs
<1>4. PICK next, c : SettlesTerm(r, s, next, c)
  BY <1>3
<1>5. /\ s \in {"tenant", "key"} /\ q.stage = IF s = "tenant" THEN "commitTenant" ELSE "commitKey"
  BY <1>4 DEF SettlesTerm, Scopes
<1>6. Proper(next, now, period, disturbed)
  <2>1. /\ next \in Request /\ next.stage = Onward(q.stage) /\ next.answer = "none"
        /\ next.period = q.period /\ next.held = q.held \ {s}
        /\ next.counted = IF s \in q.held THEN q.counted \ {s} ELSE q.counted
        /\ next.bucket = q.bucket /\ next.excused = q.excused
    BY <1>4 DEF SettlesTerm
  <2>2. (q.held \ next.held) \intersect next.counted \subseteq next.excused
    BY <2>1
  <2>3. q.counted \ next.counted \subseteq q.held \ next.held
    BY <2>1
  <2>4. q.stage \in {"serving", "refund", "commitTenant", "commitKey"}
    BY <1>5
  <2>5. /\ q.stage = "commitTenant" => "tenant" \notin next.held
        /\ q.stage = "commitKey" => "key" \notin next.held
    BY <1>5, <2>1
  <2>6. \/ q.stage = "commitKey"
        \/ q.stage = "commitTenant" /\ next.charged["key"] = q.charged["key"]
    BY <1>4, <1>5 DEF SettlesTerm, Scopes
  <2>7. next.held \subseteq q.held /\ next.counted \subseteq q.counted
    BY <2>1
  <2> QED BY <1>1, <1>2, <2>1, <2>2, <2>3, <2>4, <2>5, <2>6, <2>7, SettledProper
<1>7. Commits(s, q.period, q.actual, c) /\ UNCHANGED <<bucket, now, period, disturbed, slack, faults>>
  BY <1>4 DEF SettlesTerm
<1>8. CASE s \in q.held
  <2>1. GivesBack(r, s, next)
    BY <1>4, <1>8 DEF SettlesTerm, GivesBack
  <2>2. Typed'
    BY <1>1, <1>2, <1>7, <2>1, CommitTyped, ReleaseTyped DEF GivesBack
  <2> QED BY <1>6, <2>1, <2>2, Returned
<1>9. CASE s \notin q.held
  <2>1. /\ req' = [req EXCEPT ![r] = next] /\ reserved' = reserved
        /\ next.counted = q.counted /\ next.est = q.est /\ next.period = q.period
    BY <1>4, <1>9 DEF SettlesTerm
  <2>2. Typed'
    <3>1. /\ reserved' \in [Scopes -> [period : 0..period, tokens : Nat, ttl : 0..Ttl]]
          /\ \A t \in Scopes : (reserved'[t].period = 0) <=> (reserved'[t].ttl = 0)
      BY <1>1, <2>1 DEF Typed
    <3> QED BY <1>1, <1>7, <3>1, CommitTyped
  <2>3. UNCHANGED <<reserved, now, period, disturbed>>
    BY <1>7, <2>1
  <2> QED BY <1>6, <2>1, <2>2, <2>3, OneRequest
<1> QED BY <1>8, <1>9

\* ReleaseHold: a rejected request gives the key's reservation back.
LEMMA ReleaseHoldKeeps ==
  ASSUME Inv, NEW r \in Requests, ReleaseHold(r)
  PROVE  Inv'
<1> DEFINE q == req[r]
<1>1. AllProper /\ Typed
  BY DEF Inv
<1>2. /\ q \in Request /\ OnPath(q, now, period) /\ OnTime(q) /\ Owns(q, disturbed)
      /\ q.est \in Nat /\ q.stage = "releasing"
  BY <1>1, RequestOf DEF ReleaseHold
<1>3. q.period \in 1..period /\ "key" \in q.held /\ q.answer = "none"
  BY <1>2 DEF OnPath, Scopes
<1>4. /\ TermReconcile("key", r, 0)
      /\ UNCHANGED <<bucket, now, period, disturbed, slack, faults>>
  BY DEF ReleaseHold
<1>5. PICK next : next = [q EXCEPT !.stage = "done", !.held = {}, !.counted = q.counted \ {"key"}]
  OBVIOUS
<1>6. /\ next \in Request /\ next.stage = "done" /\ next.answer = "none"
      /\ next.est = q.est /\ next.period = q.period /\ next.held = {}
      /\ next.counted = q.counted \ {"key"} /\ next.charged = q.charged
      /\ next.bucket = q.bucket /\ next.excused = q.excused
  BY <1>2, <1>3, <1>5 DEF Request, Stages
<1>7. req' = [req EXCEPT ![r] = next]
  BY <1>1, <1>5 DEF ReleaseHold, AllProper
<1>8. Proper(next, now, period, disturbed)
  BY <1>2, <1>6, ReleasedProper
<1>9. "key" \in Scopes
  BY DEF Scopes
<1>10. GivesBack(r, "key", next)
  BY <1>3, <1>4, <1>6, <1>7 DEF GivesBack, TermReconcile
<1>11. PICK c : Commits("key", q.period, 0, c)
  BY <1>1, <1>3, <1>4, <1>9, TermReconcileCommits
<1>12. /\ reserved' \in [Scopes -> [period : 0..period, tokens : Nat, ttl : 0..Ttl]]
       /\ \A t \in Scopes : (reserved'[t].period = 0) <=> (reserved'[t].ttl = 0)
  BY <1>1, <1>2, <1>9, <1>10, ReleaseTyped DEF GivesBack
<1>13. Typed'
  BY <1>1, <1>4, <1>9, <1>11, <1>12, CommitTyped
<1> QED BY <1>8, <1>9, <1>10, <1>13, Returned

\* SettleFails: what a lost settlement leaves reserved is excused.
LEMMA SettleFailsKeeps ==
  ASSUME Inv, NEW r \in Requests, SettleFails(r)
  PROVE  Inv'
<1> DEFINE q == req[r]
           lost == IF q.stage = "refund" THEN {}
                   ELSE IF q.stage = "commitTenant" THEN {"tenant"} ELSE {"key"}
           stage == IF q.stage = "releasing" THEN "done" ELSE Onward(q.stage)
<1>1. AllProper /\ Typed
  BY DEF Inv
<1>2. /\ q \in Request /\ OnPath(q, now, period) /\ OnTime(q) /\ Owns(q, disturbed)
  BY <1>1, RequestOf
<1>3. /\ q.stage \in {"releasing", "refund", "commitTenant", "commitKey"}
      /\ faults > 0 /\ faults' = faults - 1
      /\ UNCHANGED <<bucket, usage, reserved, now, period, disturbed, slack, deleted>>
  BY DEF SettleFails
<1>4. req' = [req EXCEPT ![r] = [q EXCEPT !.stage = stage, !.held = @ \ lost,
                                          !.excused = @ \union (q.counted \cap lost)]]
  BY <1>3 DEF SettleFails
<1>5. q.answer = "none"
  BY <1>2, <1>3 DEF OnPath, Scopes
<1>6. stage \in Stages /\ lost \subseteq Scopes
  BY <1>3, OnwardTable DEF Stages, Scopes
<1> HIDE DEF lost, stage
<1>7. PICK next : next = [q EXCEPT !.stage = stage, !.held = q.held \ lost,
                                   !.excused = q.excused \union (q.counted \cap lost)]
  OBVIOUS
<1>8. /\ next \in Request /\ next.stage = stage /\ next.answer = "none"
      /\ next.est = q.est /\ next.period = q.period /\ next.held = q.held \ lost
      /\ next.counted = q.counted /\ next.charged = q.charged /\ next.bucket = q.bucket
      /\ next.excused = q.excused \union (q.counted \cap lost)
  BY <1>2, <1>5, <1>6, <1>7 DEF Request
<1>9. req' = [req EXCEPT ![r] = next]
  BY <1>4, <1>7
<1>10. Proper(next, now, period, disturbed)
  <2>1. CASE q.stage = "releasing"
    <3>1. stage = "done" /\ lost = {"key"} /\ q.held \subseteq {"key"}
      BY <1>2, <2>1 DEF OnPath, stage, lost
    <3> QED BY <1>2, <1>8, <2>1, <3>1, ReleasedProper
  <2>2. CASE q.stage # "releasing"
    <3>1. /\ q.stage = "commitTenant" => "tenant" \notin next.held
          /\ q.stage = "commitKey" => "key" \notin next.held
      BY <1>8 DEF lost
    <3>2. next.stage = Onward(q.stage)
      BY <1>8, <2>2 DEF stage
    <3>3. (q.held \ next.held) \intersect next.counted \subseteq next.excused
      BY <1>8
    <3> QED BY <1>1, <1>2, <1>3, <1>8, <2>2, <3>1, <3>2, <3>3, SettledProper
  <2> QED BY <2>1, <2>2
<1>11. faults' \in 0..MaxFaults
  BY <1>1, <1>3, BudgetAssumption DEF Typed
<1>12. Typed'
  BY <1>1, <1>3, <1>11, TypedSame
<1>13. UNCHANGED <<reserved, now, period, disturbed>>
  BY <1>3
<1> QED BY <1>8, <1>9, <1>10, <1>12, <1>13, OneRequest

-----------------------------------------------------------------------------
(* Reservations that appear or disappear.  Requests f, reserved hashes v and *)
(* scopes d that lost reservations fit together, at time n in period p.     *)

Consistent(f, v, d, n, p) ==
  /\ f \in [Requests -> Request]
  /\ \A r \in Requests : Proper(f[r], n, p, d)
  /\ \A s \in Scopes, r \in Requests : s \in f[r].counted => v[s].period = f[r].period
  /\ \A s \in Scopes :
       LET counted == Total([r \in Requests |-> f[r].est], {r \in Requests : s \in f[r].counted})
       IN  v[s].tokens <= counted /\ (s \notin d => v[s].tokens = counted)

\* The invariant as a statement about values.
LEMMA InvIs == Inv <=> Typed /\ Consistent(req, reserved, disturbed, now, period)
BY DEF Inv, Consistent, AllProper, OnePeriod, ReservedMatchesInFlight, Estimates, CountedAt

\* The same for the next state.
LEMMA InvNext ==
  ASSUME Typed', Consistent(req', reserved', disturbed', now', period')
  PROVE  Inv'
BY DEF Inv, Consistent, AllProper, OnePeriod, ReservedMatchesInFlight, Estimates, CountedAt

\* The hashes v of the scopes in lost go, and with them what they count of the
\* requests f; the scopes that lost reservations are e now.
Wipes(lost, f, g, v, w, d, e) ==
  /\ g = [r \in Requests |-> [f[r] EXCEPT !.counted = @ \ lost]]
  /\ \A s \in Scopes : s \in lost => w[s].tokens = 0
  /\ \A s \in Scopes : s \notin lost => w[s].tokens = v[s].tokens /\ w[s].period = v[s].period
  /\ e = d \union {s \in lost : \E r \in Requests : s \in f[r].counted}

\* Hashes that go take their reservations with them, and their scopes are marked.
LEMMA WipeConsistent ==
  ASSUME NEW f, NEW v, NEW d, NEW n \in Nat, NEW p \in Nat, Consistent(f, v, d, n, p),
         NEW lost \in SUBSET Scopes, NEW g, NEW w, NEW e, NEW m \in Nat,
         Wipes(lost, f, g, v, w, d, e), n <= m,
         \A r \in Requests : f[r].stage = "tenant" => m <= f[r].at + 1
  PROVE  Consistent(g, w, e, m, p)
<1> USE DEF Wipes
<1>1. \A r \in Requests : f[r] \in Request /\ Proper(f[r], n, p, d)
  BY DEF Consistent
<1>2. ASSUME NEW r \in Requests
      PROVE  /\ Proper(g[r], m, p, e)
             /\ g[r] \in Request /\ g[r].counted = f[r].counted \ lost
             /\ g[r].est = f[r].est /\ g[r].period = f[r].period
  <2>1. PICK q : q = f[r]
    OBVIOUS
  <2>2. q \in Request /\ Proper(q, n, p, d)
    BY <1>1, <2>1
  <2>3. g[r] = [q EXCEPT !.counted = @ \ lost]
    BY <2>1
  <2>4. lost \intersect q.counted \subseteq e
    BY <2>1
  <2>5. d \subseteq e /\ p <= p /\ (q.stage = "tenant" => m <= q.at + 1)
    BY <2>1
  <2>6. Proper([q EXCEPT !.counted = @ \ lost], m, p, e)
    BY <2>2, <2>4, <2>5, UncountedProper
  <2>7. /\ [q EXCEPT !.counted = @ \ lost].counted = q.counted \ lost
        /\ [q EXCEPT !.counted = @ \ lost].est = q.est
        /\ [q EXCEPT !.counted = @ \ lost].period = q.period
    BY <2>2 DEF Request
  <2> QED BY <2>1, <2>3, <2>6, <2>7 DEF Proper
<1>3. g \in [Requests -> Request]
  BY <1>2
<1>4. ASSUME NEW s \in Scopes, NEW r \in Requests, s \in g[r].counted
      PROVE  w[s].period = g[r].period
  <2>1. s \in f[r].counted /\ s \notin lost /\ g[r].period = f[r].period
    BY <1>2, <1>4
  <2>2. v[s].period = f[r].period
    BY <2>1 DEF Consistent
  <2> QED BY <2>1, <2>2
<1>5. ASSUME NEW s \in Scopes
      PROVE  LET counted == Total([r \in Requests |-> g[r].est], {r \in Requests : s \in g[r].counted})
             IN  w[s].tokens <= counted /\ (s \notin e => w[s].tokens = counted)
  <2> DEFINE G == [r \in Requests |-> g[r].est]
             F == [r \in Requests |-> f[r].est]
             R == {r \in Requests : s \in f[r].counted}
             S == {r \in Requests : s \in g[r].counted}
  <2>1. G \in [Requests -> Nat] /\ F \in [Requests -> Nat]
    BY <1>3, EstimatesNat DEF Consistent
  <2>2. v[s].tokens <= Total(F, R) /\ (s \notin d => v[s].tokens = Total(F, R))
    BY DEF Consistent
  <2>3. CASE s \in lost
    <3>1. \A x \in Requests : x \notin S
      BY <1>2, <2>3
    <3> HIDE DEF G, S
    <3>2. Total(G, S) = 0
      BY <3>1, TotalNone
    <3>3. w[s].tokens = 0
      BY <2>3
    <3> QED BY <3>2, <3>3 DEF G, S
  <2>4. CASE s \notin lost
    <3>1. \A x \in Requests : Terms(G, S)[x] = Terms(F, R)[x]
      BY <1>2, <2>4 DEF Terms
    <3> HIDE DEF G, S, F, R
    <3>2. Total(G, S) = Total(F, R)
      BY <2>1, <3>1, TotalSame
    <3>3. s \notin e => s \notin d
      OBVIOUS
    <3> QED BY <2>2, <2>4, <3>2, <3>3 DEF G, S
  <2> QED BY <2>3, <2>4
<1> QED BY <1>2, <1>3, <1>4, <1>5 DEF Consistent

\* A request becomes next with its reservations as they were.
LEMMA SameConsistent ==
  ASSUME NEW f, NEW v, NEW d, NEW n, NEW p, Consistent(f, v, d, n, p),
         NEW r \in Requests, NEW next, Proper(next, n, p, d),
         next.est = f[r].est, next.period = f[r].period, next.counted = f[r].counted
  PROVE  Consistent([f EXCEPT ![r] = next], v, d, n, p)
<1>1. PICK g : g = [f EXCEPT ![r] = next]
  OBVIOUS
<1>2. f \in [Requests -> Request] /\ next \in Request
  BY DEF Consistent, Proper
<1>3. /\ g \in [Requests -> Request] /\ g[r] = next
      /\ \A x \in Requests : x # r => g[x] = f[x]
  BY <1>1, <1>2
<1>4. \A x \in Requests : Proper(g[x], n, p, d)
  BY <1>3 DEF Consistent
<1>5. \A x \in Requests : g[x].est = f[x].est /\ g[x].period = f[x].period /\ g[x].counted = f[x].counted
  BY <1>3
<1>6. [x \in Requests |-> g[x].est] = [x \in Requests |-> f[x].est]
  BY <1>5
<1>7. \A s \in Scopes : {x \in Requests : s \in g[x].counted} = {x \in Requests : s \in f[x].counted}
  BY <1>5
<1>8. Consistent(g, v, d, n, p)
  BY <1>3, <1>4, <1>5, <1>6, <1>7 DEF Consistent
<1> QED BY <1>1, <1>8

\* Of requests f and hashes v, r becomes next with a reservation more, at s, and
\* the hashes w.
Adds(r, s, next, f, v, w) ==
  /\ next.est = f[r].est /\ next.period = f[r].period
  /\ s \notin f[r].counted /\ next.counted = f[r].counted \union {s}
  /\ \A x \in Requests : s \in f[x].counted => f[x].period = next.period
  /\ v[s].tokens \in Nat
  /\ w[s].tokens = v[s].tokens + next.est /\ w[s].period = next.period
  /\ \A t \in Scopes : t # s => w[t] = v[t]

\* A reservation is made: hash and request count it alike.
LEMMA MoreConsistent ==
  ASSUME NEW f, NEW v, NEW d, NEW n, NEW p, Consistent(f, v, d, n, p),
         NEW r \in Requests, NEW next, Proper(next, n, p, d), NEW s \in Scopes, NEW w,
         Adds(r, s, next, f, v, w)
  PROVE  Consistent([f EXCEPT ![r] = next], w, d, n, p)
<1> USE DEF Adds
<1>1. PICK g : g = [f EXCEPT ![r] = next]
  OBVIOUS
<1>2. f \in [Requests -> Request] /\ next \in Request
  BY DEF Consistent, Proper
<1>3. /\ g \in [Requests -> Request] /\ g[r] = next
      /\ \A x \in Requests : x # r => g[x] = f[x]
  BY <1>1, <1>2
<1>4. \A x \in Requests : Proper(g[x], n, p, d)
  BY <1>3 DEF Consistent
<1>5. \A x \in Requests : g[x].est = f[x].est /\ g[x].period = f[x].period
  BY <1>3
<1>6. /\ \A x \in Requests, t \in Scopes : t # s => (t \in g[x].counted <=> t \in f[x].counted)
      /\ \A x \in Requests : x # r => (s \in g[x].counted <=> s \in f[x].counted)
  BY <1>3
<1>7. ASSUME NEW t \in Scopes, NEW x \in Requests, t \in g[x].counted
      PROVE  w[t].period = g[x].period
  <2>1. CASE t = s
    BY <1>3, <1>5, <1>6, <1>7, <2>1
  <2>2. CASE t # s
    <3>1. t \in f[x].counted
      BY <1>6, <1>7, <2>2
    <3> QED BY <1>5, <2>2, <3>1 DEF Consistent
  <2> QED BY <2>1, <2>2
<1> DEFINE F == [x \in Requests |-> f[x].est]
           G == [x \in Requests |-> g[x].est]
<1>8. G = F /\ F \in [Requests -> Nat] /\ F[r] = next.est /\ next.est \in Nat
  BY <1>2, <1>5, EstimatesNat DEF Request
<1> HIDE DEF F, G
<1>9. ASSUME NEW t \in Scopes
      PROVE  LET counted == Total(G, {x \in Requests : t \in g[x].counted})
             IN  w[t].tokens <= counted /\ (t \notin d => w[t].tokens = counted)
  <2> DEFINE R == {x \in Requests : t \in f[x].counted}
             S == {x \in Requests : t \in g[x].counted}
  <2>1. v[t].tokens <= Total(F, R) /\ (t \notin d => v[t].tokens = Total(F, R))
    BY DEF Consistent, F
  <2>2. CASE t = s
    <3>1. r \in S /\ r \notin R
      BY <1>3, <2>2
    <3>2. \A x \in Requests : x # r => Terms(F, S)[x] = Terms(F, R)[x]
      BY <1>6, <2>2 DEF Terms
    <3> HIDE DEF R, S
    <3>3. Total(F, S) = Total(F, R) + ((IF r \in S THEN F[r] ELSE 0) - (IF r \in R THEN F[r] ELSE 0))
      BY <1>8, <3>2, TotalChange
    <3>4. Total(F, R) \in Nat
      BY <1>8, TotalNat
    <3>5. Total(F, S) = Total(F, R) + next.est
      BY <1>8, <3>1, <3>3, <3>4
    <3>6. w[t].tokens <= Total(F, S) /\ (t \notin d => w[t].tokens = Total(F, S))
      BY <1>8, <2>1, <2>2, <3>4, <3>5
    <3> QED BY <1>8, <3>6 DEF S
  <2>3. CASE t # s
    <3>1. S = R
      BY <1>6, <2>3
    <3> QED BY <1>8, <2>1, <2>3, <3>1
  <2> QED BY <2>2, <2>3
<1>10. Consistent(g, w, d, n, p)
  BY <1>3, <1>4, <1>7, <1>9 DEF Consistent, G
<1> QED BY <1>1, <1>10

\* Tick: hashes whose time to live is over go.
LEMMA TickKeeps ==
  ASSUME Inv, Tick
  PROVE  Inv'
<1> DEFINE expired == {s \in Scopes : reserved[s].ttl = 1}
<1>1. Typed /\ Consistent(req, reserved, disturbed, now, period)
  BY InvIs
<1>2. now \in Nat /\ period \in Nat /\ Capacity \in Nat /\ Ttl \in Nat
  BY <1>1, BudgetAssumption DEF Typed
<1>3. now' \in Nat /\ now <= now' /\ UNCHANGED <<usage, period, slack, deleted, faults>>
  BY <1>2 DEF Tick
<1>4. ASSUME NEW r \in Requests, req[r].stage = "tenant"
      PROVE  now' <= req[r].at + 1
  <2>1. now <= req[r].at + 1
    BY <1>1, <1>4 DEF Consistent, Proper, OnPath
  <2> QED BY <1>2, <1>4, <2>1 DEF Tick
<1>5. ASSUME NEW s \in Scopes
      PROVE  /\ reserved'[s] \in [period : 0..period, tokens : Nat, ttl : 0..Ttl]
             /\ (reserved'[s].period = 0) <=> (reserved'[s].ttl = 0)
             /\ s \in expired => reserved'[s].tokens = 0
             /\ s \notin expired => /\ reserved'[s].tokens = reserved[s].tokens
                                    /\ reserved'[s].period = reserved[s].period
  <2>1. PICK v : v = reserved[s]
    OBVIOUS
  <2>2. v \in [period : 0..period, tokens : Nat, ttl : 0..Ttl] /\ ((v.period = 0) <=> (v.ttl = 0))
    BY <1>1, <2>1 DEF Typed
  <2>3. PICK k : k = Max({0, v.ttl - 1})
    OBVIOUS
  <2>4. v.ttl \in Nat /\ v.ttl <= Ttl
    BY <1>2, <2>2
  <2>5. k = (IF 0 >= v.ttl - 1 THEN 0 ELSE v.ttl - 1)
    BY <2>3, <2>4, MaxTwo
  <2>6. reserved'[s] = IF s \in expired THEN NoKey ELSE [v EXCEPT !.ttl = k]
    BY <2>1, <2>3 DEF Tick
  <2>7. CASE s \in expired
    BY <1>2, <2>6, <2>7 DEF NoKey
  <2>8. CASE s \notin expired
    <3>1. v.ttl # 1
      BY <2>1, <2>8
    <3>2. k \in 0..Ttl /\ (k = 0 <=> v.ttl = 0)
      BY <1>2, <2>4, <2>5, <3>1
    <3>3. reserved'[s] = [v EXCEPT !.ttl = k]
      BY <2>6, <2>8
    <3> QED BY <2>1, <2>2, <2>8, <3>2, <3>3
  <2> QED BY <2>7, <2>8
<1>6. reserved' \in [Scopes -> [period : 0..period, tokens : Nat, ttl : 0..Ttl]]
  <2>1. PICK g : g = reserved'
    OBVIOUS
  <2>2. g = [s \in Scopes |-> g[s]]
    BY <2>1 DEF Tick
  <2> QED BY <1>5, <2>1, <2>2
<1>7. bucket' \in [tokens : (-Capacity)..Capacity, ts : 0..now', ttl : 0..Ttl]
  <2>1. bucket \in [tokens : (-Capacity)..Capacity, ts : 0..now, ttl : 0..Ttl]
    BY <1>1 DEF Typed
  <2>2. bucket' = IF bucket.ttl > 1 THEN [bucket EXCEPT !.ttl = @ - 1]
                  ELSE [tokens |-> 0, ts |-> 0, ttl |-> 0]
    BY DEF Tick
  <2> QED BY <1>2, <1>3, <2>1, <2>2
<1>8. disturbed' = disturbed \union {s \in expired : \E r \in Requests : s \in req[r].counted}
  BY DEF Tick
<1>9. disturbed' \subseteq Armed
  <2>1. disturbed \subseteq Armed
    BY <1>1 DEF Typed
  <2>2. \A r \in Requests : req[r].counted \subseteq Armed
    BY RequestOf DEF Inv
  <2> QED BY <1>8, <2>1, <2>2
<1>10. Typed'
  BY <1>1, <1>3, <1>5, <1>6, <1>7, <1>9 DEF Typed
<1>11. req' = [r \in Requests |-> [req[r] EXCEPT !.counted = @ \ expired]]
  BY DEF Tick
<1>12. expired \in SUBSET Scopes
  OBVIOUS
<1> HIDE DEF expired
<1>13. /\ \A s \in Scopes : s \in expired => reserved'[s].tokens = 0
       /\ \A s \in Scopes : s \notin expired => /\ reserved'[s].tokens = reserved[s].tokens
                                                /\ reserved'[s].period = reserved[s].period
  BY <1>5
<1>14. Wipes(expired, req, req', reserved, reserved', disturbed, disturbed')
  BY <1>8, <1>11, <1>13 DEF Wipes
<1>15. Consistent(req', reserved', disturbed', now', period)
  BY <1>1, <1>2, <1>3, <1>4, <1>12, <1>14, WipeConsistent
<1> QED BY <1>3, <1>10, <1>15, InvNext

\* PeriodRolls moves the clock's period only.
LEMMA PeriodRollsKeeps ==
  ASSUME Inv, PeriodRolls
  PROVE  Inv'
<1>1. AllProper /\ Typed
  BY DEF Inv
<1>2. /\ period' = period + 1 /\ period < MaxPeriod /\ period \in 1..MaxPeriod
      /\ MaxPeriod \in Nat /\ period \in Nat
      /\ UNCHANGED <<bucket, usage, reserved, req, now, disturbed, slack, deleted, faults>>
  BY <1>1, BudgetAssumption DEF PeriodRolls, Typed
<1>3. Typed'
  <2>1. period' \in 1..MaxPeriod /\ 0..period \subseteq 0..period'
    BY <1>2
  <2>2. usage' \in [Scopes -> [period : 0..period', tokens : Nat]]
    <3>1. \A s \in Scopes : usage[s] \in [period : 0..period', tokens : Nat]
      BY <1>1, <2>1 DEF Typed
    <3> QED BY <1>1, <1>2, <3>1 DEF Typed
  <2>3. reserved' \in [Scopes -> [period : 0..period', tokens : Nat, ttl : 0..Ttl]]
    <3>1. \A s \in Scopes : reserved[s] \in [period : 0..period', tokens : Nat, ttl : 0..Ttl]
      BY <1>1, <2>1 DEF Typed
    <3> QED BY <1>1, <1>2, <3>1 DEF Typed
  <2> QED BY <1>1, <1>2, <2>1, <2>2, <2>3 DEF Typed
<1>4. AllProper'
  <2>1. ASSUME NEW r \in Requests
        PROVE  Proper(req[r], now, period', disturbed)
    <3>1. Proper(req[r], now, period, disturbed)
      BY <1>1 DEF AllProper
    <3>2. req[r].period \in Nat
      BY <1>1, RequestOf
    <3>3. OnPath(req[r], now, period')
      BY <1>2, <3>1, <3>2 DEF Proper, OnPath
    <3> QED BY <3>1, <3>3 DEF Proper
  <2> QED BY <1>1, <1>2, <2>1 DEF AllProper
<1>5. OnePeriod' /\ ReservedMatchesInFlight'
  BY <1>2 DEF Inv, OnePeriod, ReservedMatchesInFlight, Estimates, CountedAt
<1> QED BY <1>3, <1>4, <1>5 DEF Inv

\* The invariant holds at first.
LEMMA InitInv == Init => Inv
<1> SUFFICES ASSUME Init PROVE Inv
  OBVIOUS
<1>1. Typed
  <2>1. bucket \in [tokens : (-Capacity)..Capacity, ts : 0..now, ttl : 0..Ttl]
    BY BudgetAssumption DEF Init
  <2>2. usage \in [Scopes -> [period : 0..period, tokens : Nat]]
    BY DEF Init
  <2>3. reserved \in [Scopes -> [period : 0..period, tokens : Nat, ttl : 0..Ttl]]
    BY BudgetAssumption DEF Init, NoKey
  <2>4. deleted \in [Scopes -> [1..MaxPeriod -> Nat]]
    BY DEF Init
  <2>5. /\ \A s \in Scopes : (reserved[s].period = 0) <=> (reserved[s].ttl = 0)
        /\ \A s \in Scopes : usage[s].period = 0 => usage[s].tokens = 0
    BY DEF Init, NoKey
  <2> QED BY <2>1, <2>2, <2>3, <2>4, <2>5, BudgetAssumption DEF Init, Typed
<1>2. req = [r \in Requests |-> Fresh] /\ Fresh \in Request /\ Fresh.counted = {}
      /\ Proper(Fresh, now, period, disturbed)
  BY FreshProper DEF Init, Proper
<1>3. AllProper
  BY <1>2 DEF AllProper
<1>4. \A r \in Requests : req[r].counted = {}
  BY <1>2
<1>5. OnePeriod
  BY <1>4 DEF OnePeriod
<1>6. ReservedMatchesInFlight
  <2>1. ASSUME NEW s \in Scopes
        PROVE  reserved[s].tokens = 0 /\ Total(Estimates, CountedAt(s)) = 0
    <3>1. \A x \in Requests : x \notin CountedAt(s)
      BY <1>4 DEF CountedAt
    <3>2. Total(Estimates, CountedAt(s)) = 0
      BY <3>1, TotalNone
    <3> QED BY <3>2 DEF Init, NoKey
  <2> QED BY <2>1 DEF ReservedMatchesInFlight
<1> QED BY <1>1, <1>3, <1>5, <1>6 DEF Inv

-----------------------------------------------------------------------------
(* RESERVE_WITH_TERM.                                                      *)

\* A request q with the script's answer: it becomes next.
LEMMA ReservedProper ==
  ASSUME NEW q, NEW n, NEW p, NEW d, Proper(q, n, p, d), q.stage \in Scopes, q.answer = "none",
         NEW next \in Request,
         next.stage = q.stage, next.period = q.period, next.at = q.at, next.held = q.held,
         next.charged = q.charged, next.excused = q.excused, next.answer # "none",
         next.counted = IF next.answer = "reserved" /\ q.stage \in Armed
                        THEN q.counted \union {q.stage} ELSE q.counted,
         next.bucket = q.bucket
           \/ (next.answer = "reserved" /\ q.stage = "tenant" /\ next.bucket = "taken")
  PROVE  Proper(next, n, p, d)
<1>1. q \in Request /\ OnPath(q, n, p) /\ OnTime(q) /\ Owns(q, d)
  BY DEF Proper
<1>2. q.stage \in {"key", "tenant"}
  BY DEF Scopes
<1>3. q.stage \notin q.counted
  BY <1>1 DEF OnPath
<1>4. OnPath(next, n, p)
  BY <1>1, <1>2, <1>3 DEF OnPath, Scopes
<1>5. OnTime(next)
  BY <1>1, <1>2 DEF OnTime, Early
<1>6. Owns(next, d)
  <2>1. Known(q) = q.held
    BY DEF Known
  <2>2. Known(next) = q.held \union (IF next.answer = "reserved" THEN {q.stage} ELSE {})
    BY DEF Known
  <2>3. q.counted \subseteq q.excused \union q.held /\ (q.held \intersect Armed) \ q.counted \subseteq d
    BY <1>1, <1>2, <2>1 DEF Owns
  <2>4. next.counted \subseteq next.excused \union Known(next)
    BY <2>2, <2>3
  <2>5. (Known(next) \intersect Armed) \ next.counted \subseteq d
    BY <2>2, <2>3
  <2> QED BY <1>2, <2>4, <2>5 DEF Owns
<1> QED BY <1>4, <1>5, <1>6 DEF Proper

\* refilled, as cases.
LEMMA RefilledIs ==
  ASSUME Typed, NEW at \in Nat
  PROVE  LET m == IF at >= bucket.ts THEN at - bucket.ts ELSE 0
         IN  /\ refilled(at) = IF bucket.ttl = 0 \/ bucket.tokens + m * Rate >= Capacity
                               THEN Capacity ELSE bucket.tokens + m * Rate
             /\ refilled(at) \in (-Capacity)..Capacity
<1>1. Capacity \in Nat /\ Rate \in Nat /\ bucket.tokens \in (-Capacity)..Capacity /\ bucket.ts \in Nat
  BY BudgetAssumption DEF Typed
<1>2. PICK m \in Nat : m = IF at >= bucket.ts THEN at - bucket.ts ELSE 0
  BY <1>1
<1>3. Max({0, at - bucket.ts}) = m
  <2>1. at - bucket.ts \in Int
    BY <1>1
  <2>2. Max({0, at - bucket.ts}) = IF 0 >= at - bucket.ts THEN 0 ELSE at - bucket.ts
    BY <2>1, MaxTwo
  <2> QED BY <1>1, <1>2, <2>2
<1>4. m * Rate \in Nat
  BY <1>1, <1>2
<1>5. PICK k : k = m * Rate
  OBVIOUS
<1>6. Min({Capacity, bucket.tokens + k}) =
        IF Capacity <= bucket.tokens + k THEN Capacity ELSE bucket.tokens + k
  BY <1>1, <1>4, <1>5, MinTwo
<1>7. refilled(at) = IF bucket.ttl = 0 THEN Capacity ELSE Min({Capacity, bucket.tokens + k})
  BY <1>3, <1>5 DEF refilled
<1> QED BY <1>1, <1>2, <1>4, <1>5, <1>6, <1>7

\* What an admitted request of est leaves of t tokens.
Left(t, est) == IF est > Capacity /\ t - est < -Capacity THEN -Capacity ELSE t - est

\* The script finds t tokens and admits the request, or not, and the bucket and
\* slack follow.
ChargesBucket(r, ok, t) ==
  /\ t = refilled(req[r].at)
  /\ bucket' = [tokens |-> IF ok THEN Left(t, req[r].est) ELSE t, ts |-> req[r].at, ttl |-> Ttl]
  /\ slack' = slack + (IF ok THEN Left(t, req[r].est) - (t - req[r].est) ELSE 0)
                    + (IF bucket.ttl = 0 THEN 0
                       ELSE Rate * (IF bucket.ts > req[r].at THEN bucket.ts - req[r].at ELSE 0))
  /\ ok => t >= req[r].est \/ (req[r].est > Capacity /\ t >= Capacity)

\* The reservations of scope s that a script of period p finds gone are in no hash
\* from now on.
Forgets(s, p) == s \in Armed /\ current(reserved[s], p) # reserved[s]

\* The script for request r at scope s, by name: r becomes next.
Reserves(r, s, next, ok) ==
  LET q == req[r]
      p == req[r].period
      found == current(reserved[s], p)
      kept == IF Forgets(s, p) THEN Uncounted(s, req) ELSE req
  IN  /\ s = q.stage /\ s \in Scopes /\ q.answer = "none" /\ ok \in BOOLEAN
      /\ usage' = IF s \in Armed THEN [usage EXCEPT ![s] = rolled(@, p)] ELSE usage
      /\ deleted' = IF s \in Armed THEN DeletedFor(s, p) ELSE deleted
      /\ reserved' = IF s \in Armed
                     THEN [reserved EXCEPT ![s] = IF ok THEN reservation(found, p, q.est, TRUE) ELSE found]
                     ELSE reserved
      /\ disturbed' = IF Forgets(s, p) /\ \E x \in Requests : s \in req[x].counted
                      THEN disturbed \union {s} ELSE disturbed
      /\ \/ (bucket' = bucket /\ slack' = slack /\ (ok => s # "tenant" \/ Capacity = 0))
         \/ (s = "tenant" /\ Capacity > 0 /\ \E t : ChargesBucket(r, ok, t))
      /\ s \in Armed /\ ok => ~exhausted(s, p)
      /\ req' = [kept EXCEPT ![r] = next]
      /\ next \in Request /\ next.stage = s /\ next.period = p /\ next.at = q.at
      /\ next.est = q.est /\ next.actual = q.actual /\ next.held = q.held
      /\ next.charged = q.charged /\ next.excused = q.excused
      /\ next.answer # "none" /\ (next.answer = "reserved" <=> ok)
      /\ next.counted = IF ok /\ s \in Armed THEN kept[r].counted \union {s} ELSE kept[r].counted
      /\ next.bucket = IF ok /\ s = "tenant" /\ Capacity > 0 THEN "taken" ELSE q.bucket
      /\ UNCHANGED <<now, period, faults>>

\* Reserve, by its effects.
LEMMA ReserveIs ==
  ASSUME Inv, NEW r \in Requests, Reserve(r)
  PROVE  \E s, next, ok : Reserves(r, s, next, ok)
<1> DEFINE q == req[r]
           s == q.stage
           p == q.period
           gated == s \in Armed
           limited == s = "tenant" /\ Capacity > 0
           denied == gated /\ exhausted(s, p)
           tokens == refilled(q.at)
           left == IF q.est > Capacity THEN Max({tokens - q.est, -Capacity}) ELSE tokens - q.est
           ok == ~denied /\ (limited => admits(tokens, q.est))
           found == current(reserved[s], p)
           wiped == gated /\ found # reserved[s]
           kept == IF wiped THEN Uncounted(s, req) ELSE req
<1>1. AllProper /\ Typed /\ Capacity \in Nat
  BY BudgetAssumption DEF Inv
<1>2. q \in Request /\ q.est \in Nat /\ q.at \in Nat /\ s \in Scopes /\ q.answer = "none"
  BY <1>1, RequestOf DEF Reserve, Awaiting, Request
<1>3. PICK okay \in BOOLEAN : okay <=> ok
  OBVIOUS
<1>4. usage' = (IF gated THEN [usage EXCEPT ![s] = rolled(@, p)] ELSE usage)
      /\ deleted' = (IF gated THEN DeletedFor(s, p) ELSE deleted)
      /\ disturbed' = (IF wiped /\ \E x \in Requests : s \in req[x].counted
                       THEN disturbed \union {s} ELSE disturbed)
      /\ UNCHANGED <<now, period, faults>>
  BY DEF Reserve
<1>5. reserved' = IF ~gated THEN reserved
                  ELSE [reserved EXCEPT ![s] = IF denied THEN found ELSE reservation(found, p, q.est, ok)]
  BY DEF Reserve
<1>6. bucket' = IF ~limited \/ denied THEN bucket
                ELSE [tokens |-> IF ok THEN left ELSE tokens, ts |-> q.at, ttl |-> Ttl]
  BY DEF Reserve
<1>7. slack' = IF ~limited \/ denied THEN slack
               ELSE slack + (IF ok THEN left - (tokens - q.est) ELSE 0)
                          + (IF bucket.ttl = 0 THEN 0 ELSE Rate * Max({0, bucket.ts - q.at}))
  BY DEF Reserve
<1>8. req' = [kept EXCEPT
           ![r].answer = IF denied THEN "exhausted" ELSE IF ok THEN "reserved" ELSE "limited",
           ![r].counted = IF ok /\ gated THEN @ \union {s} ELSE @,
           ![r].bucket = IF ok /\ limited THEN "taken" ELSE @]
  BY DEF Reserve
<1>9. /\ kept \in [Requests -> Request]
      /\ kept[r].stage = s /\ kept[r].period = p /\ kept[r].at = q.at
      /\ kept[r].est = q.est /\ kept[r].actual = q.actual /\ kept[r].held = q.held
      /\ kept[r].charged = q.charged /\ kept[r].excused = q.excused /\ kept[r].bucket = q.bucket
  <2>1. req \in [Requests -> Request]
    BY <1>1 DEF AllProper
  <2>2. Uncounted(s, req) \in [Requests -> Request]
    <3>1. ASSUME NEW z \in Request PROVE [z EXCEPT !.counted = @ \ {s}] \in Request
      BY DEF Request
    <3> HIDE DEF s
    <3> QED BY <2>1, <3>1 DEF Uncounted
  <2>3. Uncounted(s, req)[r] = [q EXCEPT !.counted = @ \ {s}]
    BY DEF Uncounted
  <2>4. kept = req \/ kept = Uncounted(s, req)
    OBVIOUS
  <2> HIDE DEF kept
  <2>5. CASE kept = req
    BY <2>1, <2>5
  <2>6. CASE kept = Uncounted(s, req)
    <3>1. kept[r] = [q EXCEPT !.counted = @ \ {s}]
      BY <2>3, <2>6
    <3> QED BY <1>2, <2>2, <2>6, <3>1 DEF Request
  <2> QED BY <2>4, <2>5, <2>6
<1>10. gated => s \in Armed
  OBVIOUS
<1>11. /\ wiped <=> Forgets(s, p)
       /\ gated /\ ok => ~exhausted(s, p)
       /\ denied => ~ok
       /\ ok /\ limited => tokens >= q.est \/ (q.est > Capacity /\ tokens >= Capacity)
  BY DEF Forgets, admits
<1>12. left = Left(tokens, q.est)
  <2>1. tokens \in Int /\ -Capacity \in Int
    BY <1>1, <1>2, RefilledIs
  <2> HIDE DEF tokens
  <2>2. PICK k \in Int : k = tokens - q.est
    BY <1>2, <2>1
  <2>3. Max({k, -Capacity}) = IF k >= -Capacity THEN k ELSE -Capacity
    BY <2>1, <2>2, MaxTwo
  <2> QED BY <2>1, <2>2, <2>3 DEF Left
<1>13. Max({0, bucket.ts - q.at}) = IF bucket.ts > q.at THEN bucket.ts - q.at ELSE 0
  <2>1. bucket.ts \in Int
    BY <1>1 DEF Typed
  <2>2. PICK k \in Int : k = bucket.ts - q.at
    BY <1>2, <2>1
  <2>3. Max({0, k}) = IF 0 >= k THEN 0 ELSE k
    BY <2>2, MaxTwo
  <2> QED BY <1>2, <2>1, <2>2, <2>3
<1>14. reservation(found, p, q.est, ok) = IF ok THEN reservation(found, p, q.est, TRUE) ELSE found
  BY DEF reservation
<1> DEFINE answer == IF denied THEN "exhausted" ELSE IF ok THEN "reserved" ELSE "limited"
           counted == IF okay /\ gated THEN kept[r].counted \union {s} ELSE kept[r].counted
           taken == IF okay /\ limited THEN "taken" ELSE kept[r].bucket
<1>15. answer \in Answers /\ answer # "none" /\ (answer = "reserved" <=> okay)
  BY <1>3 DEF Answers
<1>16. counted \subseteq Armed /\ taken \in {"untouched", "taken", "settled"}
  <2> HIDE DEF kept, limited, ok, denied
  <2> QED BY <1>9 DEF Request
<1>17. req' = [kept EXCEPT ![r].answer = answer, ![r].counted = counted, ![r].bucket = taken]
  BY <1>3, <1>8
<1>18. limited <=> s = "tenant" /\ Capacity > 0
  OBVIOUS
<1>19. kept = IF wiped THEN Uncounted(s, req) ELSE req
  OBVIOUS
<1>20. \/ (bucket' = bucket /\ slack' = slack /\ (okay => s # "tenant" \/ Capacity = 0))
       \/ (s = "tenant" /\ Capacity > 0 /\ \E t : ChargesBucket(r, okay, t))
  <2>1. CASE ~limited \/ denied
    BY <1>1, <1>3, <1>6, <1>7, <1>11, <2>1
  <2>2. CASE limited /\ ~denied
    <3> HIDE DEF ok, left, denied
    <3>1. ChargesBucket(r, okay, tokens)
      BY <1>3, <1>6, <1>7, <1>11, <1>12, <1>13, <2>2 DEF ChargesBucket
    <3> QED BY <2>2, <3>1
  <2> QED BY <2>1, <2>2
<1>21. reserved' = IF s \in Armed
                   THEN [reserved EXCEPT ![s] = IF okay THEN reservation(found, p, q.est, TRUE) ELSE found]
                   ELSE reserved
  <2> HIDE DEF ok, found, denied
  <2> QED BY <1>3, <1>5, <1>11, <1>14
<1> HIDE DEF answer, counted, taken, kept, ok, denied, left, tokens, found
<1>22. PICK next : next = [kept[r] EXCEPT !.answer = answer, !.counted = counted, !.bucket = taken]
  OBVIOUS
<1>23. /\ next \in Request /\ next.stage = s /\ next.period = p /\ next.at = q.at
       /\ next.est = q.est /\ next.actual = q.actual /\ next.held = q.held
       /\ next.charged = q.charged /\ next.excused = q.excused
       /\ next.answer = answer /\ next.counted = counted /\ next.bucket = taken
  <2>1. kept[r] \in Request
    BY <1>9
  <2>2. next \in Request
    BY <1>15, <1>16, <1>22, <2>1 DEF Request
  <2> QED BY <1>9, <1>22, <2>1, <2>2 DEF Request
<1>24. req' = [kept EXCEPT ![r] = next]
  BY <1>9, <1>17, <1>22 DEF Request
<1>25. Reserves(r, s, next, okay)
  <2>1. /\ usage' = IF s \in Armed THEN [usage EXCEPT ![s] = rolled(@, p)] ELSE usage
        /\ deleted' = IF s \in Armed THEN DeletedFor(s, p) ELSE deleted
    BY <1>4
  <2>2. disturbed' = IF Forgets(s, p) /\ \E x \in Requests : s \in req[x].counted
                     THEN disturbed \union {s} ELSE disturbed
    BY <1>4, <1>11
  <2>3. s \in Armed /\ okay => ~exhausted(s, p)
    BY <1>3, <1>11
  <2>4. kept = IF Forgets(s, p) THEN Uncounted(s, req) ELSE req
    BY <1>11, <1>19
  <2>5. UNCHANGED <<now, period, faults>>
    BY <1>4
  <2>6. next.answer # "none" /\ (next.answer = "reserved" <=> okay)
    BY <1>15, <1>23
  <2>7. next.counted = IF okay /\ s \in Armed THEN kept[r].counted \union {s} ELSE kept[r].counted
    BY <1>23 DEF counted
  <2>8. next.bucket = IF okay /\ s = "tenant" /\ Capacity > 0 THEN "taken" ELSE q.bucket
    BY <1>9, <1>23 DEF taken
  <2> QED BY <1>2, <1>20, <1>21, <1>23, <1>24, <2>1, <2>2, <2>3, <2>4, <2>5, <2>6, <2>7, <2>8
          DEF Reserves, found
<1> QED BY <1>25

\* The hash a script of period p finds.
LEMMA FoundIs ==
  ASSUME Typed, NEW s \in Scopes, NEW p \in 1..period
  PROVE  LET found == current(reserved[s], p) IN
         /\ found \in [period : 0..period, tokens : Nat, ttl : 0..Ttl]
         /\ (found.period = 0) <=> (found.ttl = 0)
         /\ found.period = p \/ (found.period = 0 /\ found.tokens = 0)
                             \/ (reserved[s].period = 0 /\ found = reserved[s])
         /\ Forgets(s, p) => found.tokens = 0
         /\ s \in Armed /\ ~Forgets(s, p) => found = reserved[s]
         /\ found.period \in {0, p}
<1>1. /\ reserved[s] \in [period : 0..period, tokens : Nat, ttl : 0..Ttl]
      /\ (reserved[s].period = 0) <=> (reserved[s].ttl = 0)
  BY DEF Typed
<1>2. period \in Nat /\ Ttl \in Nat
  BY BudgetAssumption DEF Typed
<1> QED BY <1>1, <1>2 DEF current, NoKey, Forgets

\* The bucket a script leaves.
LEMMA ChargedTyped ==
  ASSUME Typed, NEW r \in Requests, req[r].at \in 0..now, req[r].est \in Nat, NEW ok \in BOOLEAN,
         NEW t, ChargesBucket(r, ok, t)
  PROVE  /\ bucket' \in [tokens : (-Capacity)..Capacity, ts : 0..now, ttl : 0..Ttl]
         /\ slack' \in Nat /\ t \in (-Capacity)..Capacity
<1>1. PICK e, at : e = req[r].est /\ at = req[r].at
  OBVIOUS
<1>2. /\ e \in Nat /\ at \in 0..now /\ now \in Nat /\ Capacity \in Nat /\ Rate \in Nat
      /\ slack \in Nat /\ bucket.ts \in Nat /\ Ttl \in Nat
  BY <1>1, BudgetAssumption DEF Typed
<1>3. t = refilled(at)
  BY <1>1 DEF ChargesBucket
<1>4. at \in Nat
  BY <1>2
<1>5. t \in (-Capacity)..Capacity
  BY <1>3, <1>4, RefilledIs
<1>6. ok => t >= e \/ (e > Capacity /\ t >= Capacity)
  BY <1>1 DEF ChargesBucket
<1>7. PICK m : m = Left(t, e)
  OBVIOUS
<1>8. m = IF e > Capacity /\ t - e < -Capacity THEN -Capacity ELSE t - e
  BY <1>7 DEF Left
<1>9. ok => m \in (-Capacity)..Capacity /\ m >= t - e
  BY <1>2, <1>5, <1>6, <1>8
<1>10. bucket' = [tokens |-> IF ok THEN m ELSE t, ts |-> at, ttl |-> Ttl]
  BY <1>1, <1>7 DEF ChargesBucket
<1>11. PICK k \in Nat : k = IF bucket.ttl = 0 THEN 0
                           ELSE Rate * (IF bucket.ts > at THEN bucket.ts - at ELSE 0)
  BY <1>2
<1>12. slack' = slack + (IF ok THEN m - (t - e) ELSE 0) + k
  BY <1>1, <1>7, <1>11 DEF ChargesBucket
<1>13. slack' \in Nat
  BY <1>2, <1>5, <1>9, <1>12
<1>14. PICK b : b = IF ok THEN m ELSE t
  OBVIOUS
<1>15. b \in (-Capacity)..Capacity
  BY <1>5, <1>9, <1>14
<1>16. bucket' = [tokens |-> b, ts |-> at, ttl |-> Ttl]
  BY <1>10, <1>14
<1>17. Ttl \in 0..Ttl
  BY <1>2
<1>18. bucket' \in [tokens : (-Capacity)..Capacity, ts : 0..now, ttl : 0..Ttl]
  BY <1>2, <1>15, <1>16, <1>17
<1> QED BY <1>5, <1>13, <1>18

\* The requests and hashes once what the script finds gone is counted no more.
LEMMA KeptConsistent ==
  ASSUME Inv, NEW r \in Requests, NEW s, NEW next, NEW ok, Reserves(r, s, next, ok),
         s \in Armed, NEW found, found = current(reserved[s], req[r].period),
         NEW kept, kept = IF Forgets(s, req[r].period) THEN Uncounted(s, req) ELSE req
  PROVE  Consistent(kept, [reserved EXCEPT ![s] = found], disturbed', now, period)
<1>1. Typed /\ AllProper /\ Consistent(req, reserved, disturbed, now, period)
  BY InvIs DEF Inv
<1>2. PICK p : p = req[r].period
  OBVIOUS
<1>3. s \in Scopes /\ req[r].stage = s
  BY DEF Reserves
<1>4. p \in 1..period /\ now \in Nat /\ period \in Nat
  <2>1. now \in Nat /\ period \in Nat
    BY <1>1, BudgetAssumption DEF Typed
  <2>2. OnPath(req[r], now, period) /\ s # "idle"
    BY <1>1, <1>3, RequestOf DEF Scopes
  <2> QED BY <1>2, <1>3, <2>1, <2>2 DEF OnPath
<1>5. PICK w : w = [reserved EXCEPT ![s] = found]
  OBVIOUS
<1>6. w[s] = found /\ \A t \in Scopes : t # s => w[t] = reserved[t]
  BY <1>1, <1>3, <1>5 DEF Typed
<1>7. disturbed' = IF Forgets(s, p) /\ \E x \in Requests : s \in req[x].counted
                   THEN disturbed \union {s} ELSE disturbed
  BY <1>2 DEF Reserves
<1>8. CASE Forgets(s, p)
  <2>1. kept = [x \in Requests |-> [req[x] EXCEPT !.counted = @ \ {s}]]
    BY <1>2, <1>8 DEF Uncounted
  <2>2. disturbed' = disturbed \union {t \in {s} : \E x \in Requests : t \in req[x].counted}
    BY <1>7, <1>8
  <2>3. found.tokens = 0
    BY <1>1, <1>2, <1>3, <1>4, <1>8, FoundIs
  <2>4. \A x \in Requests : req[x].stage = "tenant" => now <= req[x].at + 1
    BY <1>1, RequestOf DEF OnPath
  <2>5. {s} \in SUBSET Scopes /\ now <= now
    BY <1>3, <1>4
  <2>6. /\ \A t \in Scopes : t \in {s} => w[t].tokens = 0
        /\ \A t \in Scopes : t \notin {s} => w[t].tokens = reserved[t].tokens /\ w[t].period = reserved[t].period
    BY <1>6, <2>3
  <2>7. PICK e : e = disturbed'
    OBVIOUS
  <2>8. e = disturbed \union {t \in {s} : \E x \in Requests : t \in req[x].counted}
    BY <2>2, <2>7
  <2>9. Consistent(req, reserved, disturbed, now, period)
    BY <1>1
  <2>10. PICK lost \in SUBSET Scopes : lost = {s}
    BY <1>3
  <2>11. Consistent(kept, w, e, now, period)
    <3>1. kept = [x \in Requests |-> [req[x] EXCEPT !.counted = @ \ lost]]
      BY <2>1, <2>10
    <3>2. e = disturbed \union {t \in lost : \E x \in Requests : t \in req[x].counted}
      BY <2>8, <2>10
    <3>3. /\ \A t \in Scopes : t \in lost => w[t].tokens = 0
          /\ \A t \in Scopes : t \notin lost => /\ w[t].tokens = reserved[t].tokens
                                                /\ w[t].period = reserved[t].period
      BY <2>6, <2>10
    <3>4. Wipes(lost, req, kept, reserved, w, disturbed, e)
      BY <3>1, <3>2, <3>3 DEF Wipes
    <3> QED BY <1>4, <2>4, <2>5, <2>9, <3>4, WipeConsistent
  <2> QED BY <1>5, <2>7, <2>11
<1>9. CASE ~Forgets(s, p)
  <2>1. kept = req /\ disturbed' = disturbed
    BY <1>2, <1>7, <1>9
  <2>2. found = reserved[s]
    BY <1>1, <1>2, <1>3, <1>4, <1>9, FoundIs
  <2>3. w = reserved
    BY <1>1, <1>3, <1>5, <2>2 DEF Typed
  <2> QED BY <1>1, <1>5, <2>1, <2>3
<1> QED BY <1>8, <1>9

\* Reserve leaves bucket, counters and hashes well typed.
LEMMA ReserveTyped ==
  ASSUME Inv, NEW r \in Requests, NEW s, NEW next, NEW ok, Reserves(r, s, next, ok)
  PROVE  Typed'
<1> DEFINE q == req[r]
           p == q.period
           found == current(reserved[s], p)
           made == [period |-> p, tokens |-> found.tokens + q.est, ttl |-> armed(found)]
<1>1. Typed /\ AllProper
  BY DEF Inv
<1>2. s = q.stage /\ s \in Scopes /\ ok \in BOOLEAN /\ UNCHANGED <<now, period, faults>>
  BY DEF Reserves
<1>3. q \in Request /\ OnPath(q, now, period) /\ q.est \in Nat /\ q.at \in Nat
  BY <1>1, RequestOf DEF Request
<1>4. p \in 1..period /\ (s = "tenant" => q.at \in 0..now) /\ period \in Nat /\ Ttl \in Nat /\ Ttl # 0
  <2>1. now \in Nat /\ period \in Nat /\ Ttl \in Nat /\ Ttl # 0
    BY <1>1, BudgetAssumption DEF Typed
  <2>2. s # "idle"
    BY <1>2 DEF Scopes
  <2> QED BY <1>2, <1>3, <2>1, <2>2 DEF OnPath
<1>5. /\ found \in [period : 0..period, tokens : Nat, ttl : 0..Ttl]
      /\ (found.period = 0) <=> (found.ttl = 0)
  BY <1>1, <1>2, <1>4, FoundIs
<1> HIDE DEF found
<1>6. armed(found) \in 0..Ttl /\ armed(found) # 0
  BY <1>4, <1>5 DEF armed
<1>7. /\ made \in [period : 0..period, tokens : Nat, ttl : 0..Ttl]
      /\ made.period # 0 /\ made.ttl # 0
  <2>1. PICK k \in 0..Ttl : k = armed(found) /\ k # 0
    BY <1>6
  <2>2. PICK n \in Nat : n = found.tokens + q.est
    BY <1>3, <1>5
  <2>3. made = [period |-> p, tokens |-> n, ttl |-> k]
    BY <2>1, <2>2
  <2> HIDE DEF made
  <2> QED BY <1>4, <2>1, <2>3
<1>8. reservation(found, p, q.est, TRUE) = made
  BY DEF reservation
<1> HIDE DEF made
<1>9. PICK v : v = IF ok THEN made ELSE found
  OBVIOUS
<1>10. /\ v \in [period : 0..period, tokens : Nat, ttl : 0..Ttl]
       /\ (v.period = 0) <=> (v.ttl = 0)
  BY <1>5, <1>7, <1>9
<1>11. reserved' = IF s \in Armed THEN [reserved EXCEPT ![s] = v] ELSE reserved
  <2>1. reserved' = IF s \in Armed
                    THEN [reserved EXCEPT ![s] = IF ok THEN reservation(found, p, q.est, TRUE) ELSE found]
                    ELSE reserved
    BY DEF Reserves, found
  <2> QED BY <1>8, <1>9, <2>1
<1>12. reserved' \in [Scopes -> [period : 0..period, tokens : Nat, ttl : 0..Ttl]]
       /\ \A t \in Scopes : (reserved'[t].period = 0) <=> (reserved'[t].ttl = 0)
  <2>1. reserved \in [Scopes -> [period : 0..period, tokens : Nat, ttl : 0..Ttl]]
        /\ \A t \in Scopes : (reserved[t].period = 0) <=> (reserved[t].ttl = 0)
    BY <1>1 DEF Typed
  <2>2. CASE s \in Armed
    <3>1. reserved' = [reserved EXCEPT ![s] = v]
      BY <1>11, <2>2
    <3>2. reserved'[s] = v /\ \A t \in Scopes : t # s => reserved'[t] = reserved[t]
      BY <1>2, <2>1, <3>1
    <3>3. reserved' \in [Scopes -> [period : 0..period, tokens : Nat, ttl : 0..Ttl]]
      BY <1>10, <2>1, <3>1
    <3> QED BY <1>10, <2>1, <3>2, <3>3
  <2>3. CASE s \notin Armed
    BY <1>11, <2>1, <2>3
  <2> QED BY <2>2, <2>3
<1>13. PICK u : u = rolled(usage[s], p)
  OBVIOUS
<1>14. u \in [period : 0..period, tokens : Nat] /\ u.period = p
  BY <1>1, <1>2, <1>4, <1>13, RolledIs
<1>15. usage' = IF s \in Armed THEN [usage EXCEPT ![s] = u] ELSE usage
  BY <1>13 DEF Reserves
<1>16. usage' \in [Scopes -> [period : 0..period, tokens : Nat]]
       /\ \A t \in Scopes : usage'[t].period = 0 => usage'[t].tokens = 0
  <2>1. usage \in [Scopes -> [period : 0..period, tokens : Nat]]
        /\ \A t \in Scopes : usage[t].period = 0 => usage[t].tokens = 0
    BY <1>1 DEF Typed
  <2>2. CASE s \in Armed
    <3>1. usage' = [usage EXCEPT ![s] = u] /\ u.period # 0
      BY <1>4, <1>14, <1>15, <2>2
    <3> QED BY <1>2, <1>14, <2>1, <3>1
  <2>3. CASE s \notin Armed
    BY <1>15, <2>1, <2>3
  <2> QED BY <2>2, <2>3
<1>17. deleted' \in [Scopes -> [1..MaxPeriod -> Nat]]
  <2>1. deleted' = IF s \in Armed THEN DeletedFor(s, p) ELSE deleted
    BY DEF Reserves
  <2>2. DeletedFor(s, p) \in [Scopes -> [1..MaxPeriod -> Nat]]
    BY <1>1, <1>2, <1>4, DeletedIs
  <2> QED BY <1>1, <2>1, <2>2 DEF Typed
<1>18. bucket' \in [tokens : (-Capacity)..Capacity, ts : 0..now, ttl : 0..Ttl] /\ slack' \in Nat
  <2>1. CASE bucket' = bucket /\ slack' = slack
    BY <1>1, <2>1 DEF Typed
  <2>2. CASE s = "tenant" /\ \E t : ChargesBucket(r, ok, t)
    <3>1. PICK t : ChargesBucket(r, ok, t)
      BY <2>2
    <3>2. q.at \in 0..now
      BY <1>4, <2>2
    <3> QED BY <1>1, <1>2, <1>3, <3>1, <3>2, ChargedTyped
  <2> QED BY <2>1, <2>2 DEF Reserves
<1>19. disturbed' \subseteq Armed
  <2>1. disturbed' = disturbed \/ (s \in Armed /\ disturbed' = disturbed \union {s})
    BY DEF Reserves, Forgets
  <2> QED BY <1>1, <2>1 DEF Typed
<1> QED BY <1>1, <1>2, <1>12, <1>16, <1>17, <1>18, <1>19 DEF Typed

\* Reserve: a hash of another period goes first, then the reservation is counted.
LEMMA ReserveKeeps ==
  ASSUME Inv, NEW r \in Requests, Reserve(r)
  PROVE  Inv'
<1> DEFINE q == req[r]
<1>1. Typed /\ AllProper /\ Consistent(req, reserved, disturbed, now, period)
  BY InvIs DEF Inv
<1>2. PICK s, next, ok : Reserves(r, s, next, ok)
  BY ReserveIs
<1>3. PICK p : p = q.period
  OBVIOUS
<1>4. PICK kept : kept = IF Forgets(s, p) THEN Uncounted(s, req) ELSE req
  OBVIOUS
<1>5. /\ s \in Scopes /\ q.stage = s /\ q.answer = "none" /\ ok \in BOOLEAN
      /\ UNCHANGED <<now, period>>
      /\ req' = [kept EXCEPT ![r] = next]
      /\ next \in Request /\ next.stage = s /\ next.period = p /\ next.at = q.at
      /\ next.est = q.est /\ next.held = q.held
      /\ next.charged = q.charged /\ next.excused = q.excused
      /\ next.answer # "none" /\ (next.answer = "reserved" <=> ok)
      /\ next.counted = (IF ok /\ s \in Armed THEN kept[r].counted \union {s} ELSE kept[r].counted)
      /\ next.bucket = (IF ok /\ s = "tenant" /\ Capacity > 0 THEN "taken" ELSE q.bucket)
  BY <1>2, <1>3, <1>4 DEF Reserves
<1>6. Typed'
  BY <1>2, ReserveTyped
<1>7. /\ q \in Request /\ OnPath(q, now, period) /\ q.est \in Nat
  BY <1>1, RequestOf
<1>8. p \in 1..period
  BY <1>3, <1>5, <1>7 DEF OnPath, Scopes
<1>9. /\ kept[r].stage = s /\ kept[r].answer = "none" /\ kept[r].period = p /\ kept[r].at = q.at
      /\ kept[r].est = q.est /\ kept[r].held = q.held /\ kept[r].charged = q.charged
      /\ kept[r].excused = q.excused /\ kept[r].bucket = q.bucket
      /\ s \notin kept[r].counted
  <2>1. s \notin q.counted
    BY <1>5, <1>7 DEF OnPath
  <2>2. kept[r] = q \/ kept[r] = [q EXCEPT !.counted = @ \ {s}]
    BY <1>4 DEF Uncounted
  <2> QED BY <1>3, <1>5, <1>7, <2>1, <2>2 DEF Request
<1>10. ASSUME NEW d, Proper(kept[r], now, period, d)
       PROVE  Proper(next, now, period, d)
  BY <1>5, <1>9, <1>10, ReservedProper
<1>11. PICK d : d = disturbed'
  OBVIOUS
<1>12. CASE s \in Armed
  <2>1. PICK found : found = current(reserved[s], p)
    OBVIOUS
  <2>2. PICK w : w = [reserved EXCEPT ![s] = found]
    OBVIOUS
  <2>3. Consistent(kept, w, d, now, period)
    BY <1>2, <1>3, <1>4, <1>11, <1>12, <2>1, <2>2, KeptConsistent
  <2>4. Proper(next, now, period, d)
    BY <1>10, <2>3 DEF Consistent
  <2>5. w[s] = found /\ \A t \in Scopes : t # s => w[t] = reserved[t]
    BY <1>1, <1>5, <2>2 DEF Typed
  <2>6. found.tokens \in Nat /\ found.period \in {0, p}
    BY <1>1, <1>5, <1>8, <2>1, FoundIs
  <2>7. PICK v : v = IF ok THEN reservation(found, p, q.est, TRUE) ELSE found
    OBVIOUS
  <2>8. reserved' = [reserved EXCEPT ![s] = v]
    BY <1>2, <1>3, <1>12, <2>1, <2>7 DEF Reserves
  <2>9. reserved'[s] = v /\ \A t \in Scopes : t # s => reserved'[t] = reserved[t]
    BY <1>1, <1>5, <2>8 DEF Typed
  <2>10. CASE ok
    <3>1. v.tokens = found.tokens + q.est /\ v.period = p
      BY <2>7, <2>10 DEF reservation
    <3>2. ASSUME NEW x \in Requests, s \in kept[x].counted
          PROVE  kept[x].period = p
      <4>1. found.period = kept[x].period
        BY <1>5, <2>3, <2>5, <3>2 DEF Consistent
      <4>2. Proper(kept[x], now, period, d)
        BY <2>3 DEF Consistent
      <4>3. kept[x].period # 0
        BY <3>2, <4>2 DEF Proper, OnPath
      <4> QED BY <2>6, <4>1, <4>3
    <3>3. PICK v1 : v1 = reserved'
      OBVIOUS
    <3>4. /\ v1[s].tokens = w[s].tokens + next.est /\ v1[s].period = next.period
          /\ \A t \in Scopes : t # s => v1[t] = w[t]
      BY <1>5, <2>5, <2>9, <3>1, <3>3
    <3>5. next.counted = kept[r].counted \union {s}
      BY <1>5, <1>12, <2>10
    <3>6. next.est = kept[r].est /\ next.period = kept[r].period /\ w[s].tokens \in Nat
      BY <1>5, <1>9, <2>5, <2>6
    <3>7. Consistent([kept EXCEPT ![r] = next], v1, d, now, period)
      <4>1. Adds(r, s, next, kept, w, v1)
        BY <1>5, <1>9, <3>2, <3>4, <3>5, <3>6 DEF Adds
      <4> QED BY <1>5, <2>3, <2>4, <4>1, MoreConsistent
    <3> QED BY <1>5, <1>6, <1>11, <3>3, <3>7, InvNext
  <2>11. CASE ~ok
    <3>1. reserved' = w
      BY <2>2, <2>7, <2>8, <2>11
    <3>2. next.est = kept[r].est /\ next.period = kept[r].period /\ next.counted = kept[r].counted
      BY <1>5, <1>9, <2>11
    <3>3. Consistent([kept EXCEPT ![r] = next], w, d, now, period)
      BY <2>3, <2>4, <3>2, SameConsistent
    <3> QED BY <1>5, <1>6, <1>11, <3>1, <3>3, InvNext
  <2> QED BY <1>5, <2>10, <2>11
<1>13. CASE s \notin Armed
  <2>1. kept = req /\ d = disturbed /\ reserved' = reserved
    BY <1>2, <1>4, <1>11, <1>13 DEF Reserves, Forgets
  <2>2. Proper(next, now, period, d)
    BY <1>1, <1>10, <2>1 DEF Consistent
  <2>3. next.est = kept[r].est /\ next.period = kept[r].period /\ next.counted = kept[r].counted
    BY <1>5, <1>9, <1>13
  <2>4. Consistent([kept EXCEPT ![r] = next], reserved, d, now, period)
    BY <1>1, <2>1, <2>2, <2>3, SameConsistent
  <2> QED BY <1>5, <1>6, <1>11, <2>1, <2>4, InvNext
<1> QED BY <1>12, <1>13

-----------------------------------------------------------------------------
(* The theorems.                                                           *)

\* Nothing changes.
LEMMA StutterKeeps ==
  ASSUME Inv, UNCHANGED vars
  PROVE  Inv'
BY DEF Inv, Typed, AllProper, OnePeriod, ReservedMatchesInFlight, Estimates, CountedAt, vars

\* The invariant is inductive.
LEMMA NextKeeps == Inv /\ [Next]_vars => Inv'
<1> SUFFICES ASSUME Inv, [Next]_vars PROVE Inv'
  OBVIOUS
<1>1. ASSUME NEW r \in Requests,
             \/ Arrive(r) \/ Reserve(r) \/ Answered(r) \/ ReserveFails(r) \/ ClientLeaves(r)
             \/ Crash(r) \/ Finish(r) \/ ReleaseHold(r) \/ SettleBucket(r) \/ SettleTerm(r)
             \/ SettleFails(r)
      PROVE  Inv'
  BY <1>1, ArriveKeeps, ReserveKeeps, AnsweredKeeps, ReserveFailsKeeps, ClientLeavesKeeps,
     CrashKeeps, FinishKeeps, ReleaseHoldKeeps, SettleBucketKeeps, SettleTermKeeps,
     SettleFailsKeeps
<1>2. CASE Tick
  BY <1>2, TickKeeps
<1>3. CASE PeriodRolls
  BY <1>3, PeriodRollsKeeps
<1>4. CASE UNCHANGED vars
  BY <1>4, StutterKeeps
<1> QED BY <1>1, <1>2, <1>3, <1>4 DEF Next

\* Every request keeps to its path, every hash counts reservations of one period,
\* and it counts those that requests know of or are excused of.
THEOREM BudgetInvariant == Spec => []Inv
BY InitInv, NextKeeps, PTL DEF Spec

\* The bucket stays within its floor and its size, counters never belong to a
\* period to come, and scopes without a budget are never reserved at.
THEOREM BudgetTyped == Spec => []TypeOK
<1>1. Inv => TypeOK
  <2> SUFFICES ASSUME Inv PROVE TypeOK
    OBVIOUS
  <2>1. Typed /\ AllProper
    BY DEF Inv
  <2>2. {Path[i] : i \in DOMAIN Path} \union {"releasing"} = Stages
    <3>1. DOMAIN Path = 1..8
      BY DEF Path
    <3>2. /\ Path[1] = "idle" /\ Path[2] = "key" /\ Path[3] = "tenant" /\ Path[4] = "serving"
          /\ Path[5] = "refund" /\ Path[6] = "commitTenant" /\ Path[7] = "commitKey"
          /\ Path[8] = "done"
      BY DEF Path
    <3>3. \A i \in 1..8 : i \in {1, 2, 3, 4, 5, 6, 7, 8}
      OBVIOUS
    <3> QED BY <3>1, <3>2, <3>3 DEF Stages
  <2>3. \A r \in Requests :
          /\ req[r].stage \in {Path[i] : i \in DOMAIN Path} \union {"releasing"}
          /\ req[r].held \subseteq Armed /\ req[r].counted \subseteq Armed
    BY <2>1, <2>2, RequestOf DEF Request
  <2>4. \A s \in Scopes :
          /\ usage[s].period \in 0..period /\ usage[s].tokens \in Nat
          /\ reserved[s].period \in 0..period /\ reserved[s].tokens \in Nat
          /\ reserved[s].ttl \in 0..Ttl
          /\ (reserved[s].period = 0) = (reserved[s].ttl = 0)
    BY <2>1 DEF Typed
  <2>5. bucket.tokens \in (-Capacity)..Capacity /\ bucket.ts \in 0..now /\ bucket.ttl \in 0..Ttl
    BY <2>1 DEF Typed
  <2> QED BY <2>1, <2>3, <2>4, <2>5 DEF TypeOK, Typed
<1> QED BY <1>1, BudgetInvariant, PTL

\* TERM_RECONCILE and RESERVE_WITH_TERM together never count a reservation twice,
\* release one twice or forget one, whatever fails and in whatever order requests
\* are answered, rejected, left and settled.
THEOREM ReservedMatches == Spec => []ReservedMatchesInFlight
<1>1. Inv => ReservedMatchesInFlight
  BY DEF Inv
<1> QED BY <1>1, BudgetInvariant, PTL

\* A request that ended holds no reservation, but for faults and departures during
\* the very call that made it: PendingTermHold and the settle guard give back the
\* others.
THEOREM NoReservationStranded == Spec => []ReservationsReturned
<1>1. Inv => ReservationsReturned
  <2> SUFFICES ASSUME Inv, NEW r \in Requests, req[r].stage = "done"
               PROVE  req[r].counted \subseteq req[r].excused
    BY DEF ReservationsReturned
  <2> QED BY RequestOf DEF Inv, Owns
<1> QED BY <1>1, BudgetInvariant, PTL

-----------------------------------------------------------------------------
(* Steps that leave a request's place in the books alone.                  *)

\* q, as next, is counted nowhere new, and what it took from the bucket or
\* committed to the counters is what it was.
SameBooks(q, next) ==
  /\ next.counted \subseteq q.counted
  /\ \A s \in Scopes : next.charged[s] = q.charged[s]
  /\ next.bucket = q.bucket
  /\ q.bucket = "taken" => next.est = q.est
  /\ q.bucket = "settled" => next.actual = q.actual
  /\ \A s \in Scopes : q.charged[s] # 0 => next.actual = q.actual

\* Steps of a request between its calls, and the failures of calls.
BesidesRedis(r) ==
  \/ Answered(r) \/ ReserveFails(r) \/ ClientLeaves(r) \/ Crash(r) \/ Finish(r) \/ SettleFails(r)

\* goes_on and rejected leave a request's books alone.
LEMMA GoesOnBooks ==
  ASSUME NEW q \in Request
  PROVE  /\ goes_on(q).counted = q.counted /\ goes_on(q).charged = q.charged
         /\ goes_on(q).bucket = q.bucket /\ goes_on(q).est = q.est /\ goes_on(q).actual = q.actual
         /\ rejected(q).counted = q.counted /\ rejected(q).charged = q.charged
         /\ rejected(q).bucket = q.bucket /\ rejected(q).est = q.est /\ rejected(q).actual = q.actual
BY DEF goes_on, rejected, Request

\* So do all steps that do not reach Redis.
LEMMA BesidesRedisBooks ==
  ASSUME Inv, NEW r \in Requests, BesidesRedis(r)
  PROVE  /\ \E next : req' = [req EXCEPT ![r] = next] /\ SameBooks(req[r], next)
         /\ UNCHANGED <<bucket, usage, reserved, now, period, disturbed, slack, deleted>>
<1> DEFINE q == req[r]
<1>1. AllProper /\ q \in Request /\ OnTime(q) /\ req \in [Requests -> Request]
  BY RequestOf DEF Inv, AllProper
<1>2. CASE Answered(r)
  <2>1. PICK q1 : q1 = [q EXCEPT !.held = @ \union ({q.stage} \cap Armed)]
    OBVIOUS
  <2>2. /\ q1 \in Request /\ q1.counted = q.counted /\ q1.charged = q.charged
        /\ q1.bucket = q.bucket /\ q1.est = q.est /\ q1.actual = q.actual
    BY <1>1, <2>1 DEF Request
  <2>3. PICK next : next = IF q.answer = "reserved" THEN goes_on(q1) ELSE rejected(q)
    OBVIOUS
  <2>4. SameBooks(q, next)
    BY <1>1, <2>2, <2>3, GoesOnBooks DEF SameBooks
  <2>5. req' = [req EXCEPT ![r] = next]
    BY <1>2, <2>1, <2>3 DEF Answered
  <2>6. UNCHANGED <<bucket, usage, reserved, now, period, disturbed, slack, deleted>>
    BY <1>2 DEF Answered
  <2> QED BY <2>4, <2>5, <2>6
<1>3. CASE ReserveFails(r) \/ ClientLeaves(r)
  <2>1. PICK q1 : q1 = [q EXCEPT !.excused = @ \union (q.counted \cap {q.stage})]
    OBVIOUS
  <2>2. /\ q1 \in Request /\ q1.counted = q.counted /\ q1.charged = q.charged
        /\ q1.bucket = q.bucket /\ q1.est = q.est /\ q1.actual = q.actual
    <3>1. q.stage \in Scopes
      BY <1>3 DEF ReserveFails, ClientLeaves, Awaiting
    <3> QED BY <1>1, <2>1, <3>1 DEF Request
  <2>3. PICK open \in BOOLEAN : req' = [req EXCEPT ![r] = IF open THEN goes_on(q1) ELSE rejected(q1)]
    BY <1>3, <2>1, BudgetAssumption DEF ReserveFails, ClientLeaves
  <2>4. PICK next : next = IF open THEN goes_on(q1) ELSE rejected(q1)
    OBVIOUS
  <2>5. SameBooks(q, next)
    BY <2>2, <2>4, GoesOnBooks DEF SameBooks
  <2>6. UNCHANGED <<bucket, usage, reserved, now, period, disturbed, slack, deleted>>
    BY <1>3 DEF ReserveFails, ClientLeaves
  <2> QED BY <2>3, <2>4, <2>5, <2>6
<1>4. CASE Crash(r)
  <2>1. PICK next : next = [q EXCEPT !.stage = "done", !.answer = "none", !.at = 0, !.excused = q.counted]
    OBVIOUS
  <2>2. SameBooks(q, next)
    BY <1>1, <2>1 DEF Request, SameBooks
  <2>3. req' = [req EXCEPT ![r] = next]
    BY <1>1, <1>4, <2>1 DEF Crash
  <2>4. UNCHANGED <<bucket, usage, reserved, now, period, disturbed, slack, deleted>>
    BY <1>4 DEF Crash
  <2> QED BY <2>2, <2>3, <2>4
<1>5. CASE Finish(r)
  <2>1. PICK n : req' = [req EXCEPT ![r] = [goes_on(q) EXCEPT !.actual = n]]
    BY <1>5 DEF Finish
  <2>2. PICK next : next = [goes_on(q) EXCEPT !.actual = n]
    OBVIOUS
  <2>3. q.bucket # "settled" /\ \A s \in Scopes : q.charged[s] = 0
    BY <1>1, <1>5 DEF Finish, OnTime, Early
  <2>4. /\ next.counted = q.counted /\ next.charged = q.charged /\ next.bucket = q.bucket
        /\ next.est = q.est
    BY <1>1, <2>2 DEF goes_on, Request
  <2>5. SameBooks(q, next)
    BY <2>3, <2>4 DEF SameBooks
  <2>6. UNCHANGED <<bucket, usage, reserved, now, period, disturbed, slack, deleted>>
    BY <1>5 DEF Finish
  <2> QED BY <2>1, <2>2, <2>5, <2>6
<1>6. CASE SettleFails(r)
  <2>1. PICK stage, held, excused :
          req' = [req EXCEPT ![r] = [q EXCEPT !.stage = stage, !.held = held, !.excused = excused]]
    BY <1>6 DEF SettleFails
  <2>2. PICK next : next = [q EXCEPT !.stage = stage, !.held = held, !.excused = excused]
    OBVIOUS
  <2>3. SameBooks(q, next)
    BY <1>1, <2>2 DEF Request, SameBooks
  <2>4. UNCHANGED <<bucket, usage, reserved, now, period, disturbed, slack, deleted>>
    BY <1>6 DEF SettleFails
  <2> QED BY <2>1, <2>2, <2>3, <2>4
<1> QED BY <1>2, <1>3, <1>4, <1>5, <1>6 DEF BesidesRedis

\* The reset of a request that arrives under a name not used before.
LEMMA ArriveBooks ==
  ASSUME Inv, NEW r \in Requests, Arrive(r)
  PROVE  /\ \E next : /\ req' = [req EXCEPT ![r] = next] /\ next.counted = {}
                      /\ req[r].stage = "idle" => SameBooks(req[r], next)
         /\ UNCHANGED <<bucket, usage, reserved, now, period, disturbed, slack, deleted>>
<1>1. Typed /\ AllProper /\ OnTime(req[r])
  BY RequestOf DEF Inv
<1>2. PICK e \in Nat : req' = [req EXCEPT ![r] = goes_on([Fresh EXCEPT !.est = e, !.period = period])]
  BY BudgetAssumption DEF Arrive
<1>3. PICK next : next = goes_on([Fresh EXCEPT !.est = e, !.period = period])
  OBVIOUS
<1>4. next.counted = {} /\ next.bucket = "untouched" /\ \A s \in Scopes : next.charged[s] = 0
  BY <1>1, <1>3, ArrivedProper
<1>5. req[r].stage = "idle" => SameBooks(req[r], next)
  BY <1>1, <1>4 DEF OnTime, Early, SameBooks
<1>6. UNCHANGED <<bucket, usage, reserved, now, period, disturbed, slack, deleted>>
  BY DEF Arrive
<1> QED BY <1>2, <1>3, <1>4, <1>5, <1>6

\* Where one request's reservations do not grow, none's do.
LEMMA CountedOf ==
  ASSUME AllProper, NEW x \in Requests, NEW next, req' = [req EXCEPT ![x] = next],
         next.counted \subseteq req[x].counted, NEW r \in Requests
  PROVE  req'[r].counted \subseteq req[r].counted
BY DEF AllProper

\* Only RESERVE_WITH_TERM makes a reservation, and for its own request.
LEMMA OnlyReserveCounts ==
  ASSUME Inv, [Next]_vars, NEW r \in Requests, NEW s, s \notin req[r].counted, s \in req'[r].counted
  PROVE  Reserve(r)
<1>1. AllProper /\ req \in [Requests -> Request] /\ \A x \in Requests : req[x] \in Request
  BY DEF Inv, AllProper
<1>2. ~ \E x \in Requests : Answered(x) \/ ReserveFails(x) \/ ClientLeaves(x) \/ Crash(x)
                            \/ Finish(x) \/ SettleFails(x)
  <2> SUFFICES ASSUME NEW x \in Requests, BesidesRedis(x) PROVE FALSE
    BY DEF BesidesRedis
  <2>1. PICK next : req' = [req EXCEPT ![x] = next] /\ next.counted \subseteq req[x].counted
    BY BesidesRedisBooks DEF SameBooks
  <2> QED BY <1>1, <2>1, CountedOf
<1>3. ASSUME NEW x \in Requests, Arrive(x) PROVE FALSE
  <2>1. PICK next : req' = [req EXCEPT ![x] = next] /\ next.counted = {}
    BY <1>3, ArriveBooks
  <2> QED BY <1>1, <2>1, CountedOf
<1>4. ASSUME NEW x \in Requests, ReleaseHold(x) PROVE FALSE
  <2>1. PICK next : next = [req[x] EXCEPT !.stage = "done", !.held = {}, !.counted = @ \ {"key"}]
    OBVIOUS
  <2>2. next.counted \subseteq req[x].counted
    BY <1>1, <2>1 DEF Request
  <2>3. req' = [req EXCEPT ![x] = next]
    BY <1>1, <1>4, <2>1 DEF ReleaseHold
  <2> QED BY <1>1, <2>2, <2>3, CountedOf
<1>5. ASSUME NEW x \in Requests, SettleBucket(x) PROVE FALSE
  <2>1. PICK next \in Request : req' = [req EXCEPT ![x] = next] /\ next.counted = req[x].counted
    BY <1>5, SettleBucketIs
  <2> QED BY <1>1, <2>1, CountedOf
<1>6. ASSUME NEW x \in Requests, SettleTerm(x) PROVE FALSE
  <2>1. PICK t \in Scopes : \E next, c : SettlesTerm(x, t, next, c)
    BY <1>6, SettleTermIs
  <2>2. PICK next, c : SettlesTerm(x, t, next, c)
    BY <2>1
  <2>3. req' = [req EXCEPT ![x] = next] /\ next.counted \subseteq req[x].counted
    BY <2>2 DEF SettlesTerm
  <2> QED BY <1>1, <2>3, CountedOf
<1>7. ASSUME NEW x \in Requests, Reserve(x), x # r PROVE FALSE
  <2>1. PICK t, next, ok : Reserves(x, t, next, ok)
    BY <1>7, ReserveIs
  <2>2. PICK kept : kept = IF Forgets(t, req[x].period) THEN Uncounted(t, req) ELSE req
    OBVIOUS
  <2>3. req' = [kept EXCEPT ![x] = next]
    BY <2>1, <2>2 DEF Reserves
  <2>4. kept[r] = req[r] \/ kept[r] = [req[r] EXCEPT !.counted = @ \ {t}]
    BY <2>2 DEF Uncounted
  <2>5. kept[r].counted \subseteq req[r].counted
    BY <1>1, <2>4 DEF Request
  <2>6. req'[r] = kept[r]
    <3>1. r \in DOMAIN kept
      BY <1>1, <2>2 DEF Uncounted
    <3> QED BY <1>7, <2>3, <3>1
  <2> QED BY <2>5, <2>6
<1>8. ASSUME Tick PROVE FALSE
  <2>1. PICK lost : req' = [x \in Requests |-> [req[x] EXCEPT !.counted = @ \ lost]]
    BY <1>8 DEF Tick
  <2>2. req'[r] = [req[r] EXCEPT !.counted = @ \ lost]
    BY <2>1
  <2>3. req'[r].counted \subseteq req[r].counted
    BY <1>1, <2>2 DEF Request
  <2> QED BY <2>3
<1>9. ASSUME PeriodRolls \/ UNCHANGED vars PROVE FALSE
  BY <1>9 DEF PeriodRolls, vars
<1> QED BY <1>2, <1>3, <1>4, <1>5, <1>6, <1>7, <1>8, <1>9 DEF Next

\* Concurrent requests cannot pass a term gate on the same headroom: the reserved
\* hash, as long as it lost nothing, stands for every reservation in flight.
THEOREM AdmissionUnderCap == Spec => AdmittedUnderCap
<1> DEFINE A == \A r \in Requests, s \in Armed \ disturbed :
                  s \notin req[r].counted /\ s \in req'[r].counted =>
                    rolled(usage[s], req[r].period).tokens
                      + Total(Estimates, {x \in CountedAt(s) : req[x].period = req[r].period})
                    < TermCap[s]
<1>1. Inv /\ [Next]_vars => A
  <2> SUFFICES ASSUME Inv, [Next]_vars, NEW r \in Requests, NEW s \in Armed \ disturbed,
                      s \notin req[r].counted, s \in req'[r].counted
               PROVE  rolled(usage[s], req[r].period).tokens
                        + Total(Estimates, {x \in CountedAt(s) : req[x].period = req[r].period})
                      < TermCap[s]
    OBVIOUS
  <2>1. Reserve(r)
    BY OnlyReserveCounts
  <2>2. PICK t, next, ok : Reserves(r, t, next, ok)
    BY <2>1, ReserveIs
  <2>3. Typed /\ AllProper /\ OnePeriod /\ ReservedMatchesInFlight
    BY DEF Inv
  <2>4. s \in Scopes /\ TermCap[s] \in Nat
    BY BudgetAssumption
  <2>5. PICK p : p = req[r].period
    OBVIOUS
  <2>6. /\ req[r] \in Request /\ OnPath(req[r], now, period)
        /\ req \in [Requests -> Request]
    BY <2>3, RequestOf DEF AllProper
  <2>7. t = s /\ ok
    <3>1. PICK kept : kept = IF Forgets(t, p) THEN Uncounted(t, req) ELSE req
      OBVIOUS
    <3>2. /\ req' = [kept EXCEPT ![r] = next]
          /\ next.counted = IF ok /\ t \in Armed THEN kept[r].counted \union {t} ELSE kept[r].counted
          /\ ok \in BOOLEAN
      BY <2>2, <2>5, <3>1 DEF Reserves
    <3>3. kept[r] = req[r] \/ kept[r] = [req[r] EXCEPT !.counted = @ \ {t}]
      BY <3>1 DEF Uncounted
    <3>4. kept[r].counted \subseteq req[r].counted
      BY <2>6, <3>3 DEF Request
    <3>5. req'[r] = next
      <4>1. r \in DOMAIN kept
        BY <2>6, <3>1 DEF Uncounted
      <4> QED BY <3>2, <4>1
    <3> QED BY <3>2, <3>4, <3>5
  <2>8. p \in 1..period /\ ~exhausted(s, p)
    BY <2>2, <2>5, <2>6, <2>7 DEF Reserves, OnPath, Scopes
  <2>9. rolled(usage[s], p).tokens \in Nat
    BY <2>3, <2>4, <2>8, RolledIs
  <2> DEFINE R == {x \in CountedAt(s) : req[x].period = p}
             total == Total(Estimates, R)
  <2>10. Estimates \in [Requests -> Nat]
    BY <2>6, EstimatesNat DEF Estimates
  <2>11. total \in Nat /\ total <= current(reserved[s], p).tokens /\ current(reserved[s], p).tokens \in Nat
    <3>1. CASE reserved[s].period = p
      <4>1. current(reserved[s], p) = reserved[s]
        BY <3>1 DEF current
      <4>2. reserved[s].tokens = Total(Estimates, CountedAt(s)) /\ reserved[s].tokens \in Nat
        BY <2>3, <2>4, ReservedTokens DEF ReservedMatchesInFlight
      <4>3. R \subseteq CountedAt(s)
        OBVIOUS
      <4> HIDE DEF R
      <4>4. total <= Total(Estimates, CountedAt(s)) /\ total \in Nat
        BY <2>10, <4>3, TotalSubset, TotalNat
      <4> QED BY <4>1, <4>2, <4>4
    <3>2. CASE reserved[s].period # p
      <4>1. \A x \in Requests : x \notin R
        BY <2>3, <2>4, <3>2 DEF OnePeriod, CountedAt
      <4> HIDE DEF R
      <4>2. total = 0
        BY <4>1, TotalNone
      <4>3. current(reserved[s], p).tokens \in Nat
        BY <2>3, <2>4, <2>8, FoundIs
      <4> QED BY <4>2, <4>3
    <3> QED BY <3>1, <3>2
  <2> HIDE DEF total
  <2>12. ~(rolled(usage[s], p).tokens + current(reserved[s], p).tokens >= TermCap[s])
    BY <2>8 DEF exhausted
  <2>13. rolled(usage[s], p).tokens + total < TermCap[s]
    BY <2>4, <2>9, <2>11, <2>12
  <2> QED BY <2>5, <2>13 DEF total
<1>2. Inv /\ [Next]_vars => [A]_vars
  BY <1>1
<1> QED BY <1>2, BudgetInvariant, PTL DEF Spec, AdmittedUnderCap

-----------------------------------------------------------------------------
(* Commits.                                                                *)

\* The usage that requests f committed to scope s for period p.
UsedIn(f, s, p) ==
  Total([r \in Requests |-> f[r].actual], {r \in Requests : f[r].charged[s] = p})

\* CommitsExact as a statement about values.
LEMMA CommitsExactIs ==
  CommitsExact <=> \A s \in Scopes, p \in 1..MaxPeriod : UsedIn(req, s, p) = InAll(usage, deleted, s, p)
BY DEF CommitsExact, UsedIn, InAll, Used, ChargedTo

\* The same for the next state.
LEMMA CommitsExactNext ==
  ASSUME \A s \in Scopes, p \in 1..MaxPeriod : UsedIn(req', s, p) = InAll(usage', deleted', s, p)
  PROVE  CommitsExact'
BY DEF CommitsExact, UsedIn, InAll, Used, ChargedTo

\* No request's commits change.
SameCommits(f, g) ==
  \A x \in Requests, s \in Scopes :
    g[x].charged[s] = f[x].charged[s] /\ (f[x].charged[s] # 0 => g[x].actual = f[x].actual)

\* The usage committed depends on the commits only.
LEMMA UsedInSame ==
  ASSUME NEW f \in [Requests -> Request], NEW g \in [Requests -> Request], SameCommits(f, g),
         NEW s \in Scopes, NEW p \in 1..MaxPeriod
  PROVE  UsedIn(g, s, p) = UsedIn(f, s, p)
<1> DEFINE F == [r \in Requests |-> f[r].actual]
           G == [r \in Requests |-> g[r].actual]
           R == {r \in Requests : f[r].charged[s] = p}
           S == {r \in Requests : g[r].charged[s] = p}
<1>1. F \in [Requests -> Nat] /\ G \in [Requests -> Nat]
  BY EstimatesNat
<1>2. \A x \in Requests : x \in S <=> x \in R
  BY DEF SameCommits
<1>3. \A x \in Requests : x \in R => G[x] = F[x]
  BY DEF SameCommits
<1> HIDE DEF F, G, R, S
<1>4. \A x \in Requests : Terms(G, S)[x] = Terms(F, R)[x]
  BY <1>2, <1>3 DEF Terms
<1>5. Total(G, S) = Total(F, R)
  BY <1>1, <1>4, TotalSame
<1> QED BY <1>5 DEF UsedIn, F, G, R, S

\* Steps that touch no commit and no counter, or move usage only from the counters
\* to what was deleted.
LEMMA CommitsKept ==
  ASSUME Inv, Inv', CommitsExact, SameCommits(req, req'),
         \A s \in Scopes, p \in 1..MaxPeriod : InAll(usage', deleted', s, p) = InAll(usage, deleted, s, p)
  PROVE  CommitsExact'
<1>1. req \in [Requests -> Request] /\ req' \in [Requests -> Request]
  BY DEF Inv, AllProper
<1>2. \A s \in Scopes, p \in 1..MaxPeriod : UsedIn(req', s, p) = UsedIn(req, s, p)
  BY <1>1, UsedInSame
<1> QED BY <1>2, CommitsExactIs, CommitsExactNext

\* A step that leaves a request's books alone leaves all commits.
LEMMA SameBooksCommits ==
  ASSUME Inv, NEW r \in Requests, NEW next, req' = [req EXCEPT ![r] = next], SameBooks(req[r], next)
  PROVE  SameCommits(req, req')
BY DEF Inv, AllProper, SameBooks, SameCommits

\* A gate rolls the counters: what they had is deleted.
LEMMA ReserveBalance ==
  ASSUME Inv, NEW r \in Requests, Reserve(r)
  PROVE  /\ SameCommits(req, req')
         /\ \A t \in Scopes, o \in 1..MaxPeriod :
              InAll(usage', deleted', t, o) = InAll(usage, deleted, t, o)
<1>1. Typed /\ AllProper /\ req \in [Requests -> Request]
  BY DEF Inv, AllProper
<1>2. PICK s, next, ok : Reserves(r, s, next, ok)
  BY ReserveIs
<1>3. PICK p : p = req[r].period
  OBVIOUS
<1>4. /\ s \in Scopes /\ s = req[r].stage
      /\ usage' = IF s \in Armed THEN [usage EXCEPT ![s] = rolled(@, p)] ELSE usage
      /\ deleted' = IF s \in Armed THEN DeletedFor(s, p) ELSE deleted
  BY <1>2, <1>3 DEF Reserves
<1>5. p \in 1..period
  BY <1>1, <1>3, <1>4, RequestOf DEF OnPath, Scopes
<1>6. SameCommits(req, req')
  <2>1. PICK kept : kept = IF Forgets(s, p) THEN Uncounted(s, req) ELSE req
    OBVIOUS
  <2>2. /\ req' = [kept EXCEPT ![r] = next]
        /\ next.charged = req[r].charged /\ next.actual = req[r].actual
    BY <1>2, <1>3, <2>1 DEF Reserves
  <2>3. ASSUME NEW x \in Requests
        PROVE  req'[x].charged = req[x].charged /\ req'[x].actual = req[x].actual
    <3>1. kept[x] = req[x] \/ kept[x] = [req[x] EXCEPT !.counted = @ \ {s}]
      BY <2>1 DEF Uncounted
    <3>2. kept[x].charged = req[x].charged /\ kept[x].actual = req[x].actual
      BY <1>1, <3>1 DEF Request
    <3>3. DOMAIN kept = Requests
      BY <1>1, <2>1 DEF Uncounted
    <3> QED BY <2>2, <3>2, <3>3
  <2> QED BY <2>3 DEF SameCommits
<1>7. ASSUME NEW t \in Scopes, NEW o \in 1..MaxPeriod
      PROVE  InAll(usage', deleted', t, o) = InAll(usage, deleted, t, o)
  <2>1. CASE s \in Armed /\ t = s
    <3>1. PICK u : u = rolled(usage[s], p)
      OBVIOUS
    <3>2. u.period = p /\ u.tokens = IF usage[s].period = p THEN usage[s].tokens ELSE 0
      BY <1>1, <1>4, <1>5, <3>1, RolledIs
    <3>3. usage'[t] = u
      BY <1>1, <1>4, <2>1, <3>1 DEF Typed
    <3>4. deleted'[t][o] = deleted[t][o] + (IF o # p /\ o = usage[s].period THEN usage[s].tokens ELSE 0)
      BY <1>1, <1>4, <1>5, <2>1, DeletedIs
    <3>5. deleted[t][o] \in Nat /\ usage[t].tokens \in Nat
      BY <1>1, UsageOf
    <3> QED BY <2>1, <3>2, <3>3, <3>4, <3>5 DEF InAll
  <2>2. CASE s \in Armed /\ t # s
    <3>1. usage'[t] = usage[t]
      BY <1>1, <1>4, <2>2 DEF Typed
    <3>2. deleted[t][o] \in Nat
      BY <1>1, UsageOf
    <3>3. deleted'[t][o] = deleted[t][o]
      BY <1>1, <1>4, <1>5, <2>2, <3>2, DeletedIs
    <3> QED BY <3>1, <3>3 DEF InAll
  <2>3. CASE s \notin Armed
    BY <1>4, <2>3 DEF InAll
  <2> QED BY <2>1, <2>2, <2>3
<1> QED BY <1>6, <1>7

\* A commit is a request's first to that scope, and adds its usage once.
LEMMA SettleTermCommits ==
  ASSUME Inv, Inv', CommitsExact, NEW r \in Requests, SettleTerm(r)
  PROVE  CommitsExact'
<1>1. AllProper /\ Typed /\ req \in [Requests -> Request] /\ req' \in [Requests -> Request]
  BY DEF Inv, AllProper
<1>2. PICK s \in Scopes : \E next, c : SettlesTerm(r, s, next, c)
  BY SettleTermIs
<1>3. PICK next, c : SettlesTerm(r, s, next, c)
  BY <1>2
<1>4. PICK n : n = req[r].actual
  OBVIOUS
<1>5. n \in Nat /\ OnTime(req[r])
  BY <1>1, <1>4, RequestOf
<1>6. /\ req' = [req EXCEPT ![r] = next] /\ next.actual = n /\ next.charged[s] = c.period
      /\ \A t \in Scopes : t # s => next.charged[t] = req[r].charged[t]
      /\ Commits(s, req[r].period, n, c)
  BY <1>3, <1>4 DEF SettlesTerm
<1>7. req'[r] = next /\ \A x \in Requests : x # r => req'[x] = req[x]
  BY <1>1, <1>6
<1>8. req[r].charged[s] = 0
  BY <1>3, <1>5 DEF SettlesTerm, OnTime, Early, Scopes
<1>9. ASSUME NEW t \in Scopes, NEW o \in 1..MaxPeriod
      PROVE  UsedIn(req', t, o) = InAll(usage', deleted', t, o)
  <2> DEFINE F == [x \in Requests |-> req[x].actual]
             G == [x \in Requests |-> req'[x].actual]
             R == {x \in Requests : req[x].charged[t] = o}
             S == {x \in Requests : req'[x].charged[t] = o}
  <2>1. F \in [Requests -> Nat] /\ G \in [Requests -> Nat]
    BY <1>1, EstimatesNat
  <2>2. /\ G[r] = n /\ F[r] = n
        /\ \A x \in Requests : G[x] = F[x]
        /\ \A x \in Requests : x # r => (x \in S <=> x \in R)
    BY <1>4, <1>6, <1>7
  <2>3. t # s => (r \in S <=> r \in R)
    BY <1>6, <1>7
  <2>4. t = s => r \notin R /\ (r \in S <=> o = c.period)
    BY <1>6, <1>7, <1>8
  <2>5. UsedIn(req, t, o) = Total(F, R) /\ UsedIn(req', t, o) = Total(G, S)
    BY DEF UsedIn
  <2> HIDE DEF F, G, R, S
  <2>6. \A x \in Requests : x # r => Terms(G, S)[x] = Terms(F, R)[x]
    BY <2>2 DEF Terms
  <2>7. Total(G, S) = Total(F, R) + ((IF r \in S THEN G[r] ELSE 0) - (IF r \in R THEN F[r] ELSE 0))
    BY <2>1, <2>6, TotalChange
  <2>8. Total(F, R) \in Nat
    BY <2>1, TotalNat
  <2>9. Total(G, S) = Total(F, R) + (IF t = s /\ o = c.period THEN n ELSE 0)
    BY <1>5, <2>2, <2>3, <2>4, <2>7, <2>8
  <2>10. InAll(usage', deleted', t, o)
           = InAll(usage, deleted, t, o) + (IF t = s /\ o = c.period THEN n ELSE 0)
    BY <1>6 DEF Commits
  <2>11. UsedIn(req, t, o) = InAll(usage, deleted, t, o)
    BY CommitsExactIs
  <2> QED BY <2>5, <2>9, <2>10, <2>11
<1> QED BY <1>9, CommitsExactNext

\* A release commits nothing.
LEMMA ReleaseHoldCommits ==
  ASSUME Inv, Inv', CommitsExact, NEW r \in Requests, ReleaseHold(r)
  PROVE  CommitsExact'
<1>1. AllProper /\ Typed /\ req \in [Requests -> Request] /\ \A x \in Requests : req[x] \in Request
  BY DEF Inv, AllProper
<1>2. req[r].period \in 1..period /\ "key" \in Scopes
  BY <1>1, RequestOf DEF ReleaseHold, OnPath, Scopes
<1>3. PICK c : Commits("key", req[r].period, 0, c)
  BY <1>1, <1>2, TermReconcileCommits DEF ReleaseHold
<1>4. ASSUME NEW t \in Scopes, NEW o \in 1..MaxPeriod
      PROVE  InAll(usage', deleted', t, o) = InAll(usage, deleted, t, o)
  <2>1. InAll(usage, deleted, t, o) \in Nat
    BY <1>1, UsageOf DEF InAll
  <2>2. InAll(usage', deleted', t, o)
          = InAll(usage, deleted, t, o) + (IF t = "key" /\ o = c.period THEN 0 ELSE 0)
    BY <1>3 DEF Commits
  <2>3. (IF t = "key" /\ o = c.period THEN 0 ELSE 0) = 0
    OBVIOUS
  <2> QED BY <2>1, <2>2, <2>3
<1>5. PICK next : next = [req[r] EXCEPT !.stage = "done", !.held = {}, !.counted = @ \ {"key"}]
  OBVIOUS
<1>6. next.charged = req[r].charged /\ next.actual = req[r].actual
  BY <1>1, <1>5 DEF Request
<1>7. req' = [req EXCEPT ![r] = next]
  BY <1>1, <1>5 DEF ReleaseHold
<1>8. SameCommits(req, req')
  BY <1>1, <1>6, <1>7 DEF SameCommits
<1> QED BY <1>4, <1>8, CommitsKept

\* Every step keeps CommitsExact, as long as request names are not used again.
LEMMA NextCommits ==
  ASSUME ~Reuse, Inv, Inv', CommitsExact, [Next]_vars
  PROVE  CommitsExact'
<1>1. req \in [Requests -> Request] /\ \A x \in Requests : req[x] \in Request
  BY DEF Inv, AllProper
<1>2. ASSUME UNCHANGED <<usage, deleted>>, SameCommits(req, req')
      PROVE  CommitsExact'
  BY <1>2, CommitsKept
<1>3. ASSUME NEW r \in Requests, BesidesRedis(r) PROVE CommitsExact'
  <2>1. PICK next : req' = [req EXCEPT ![r] = next] /\ SameBooks(req[r], next)
    BY <1>3, BesidesRedisBooks
  <2>2. SameCommits(req, req')
    BY <2>1, SameBooksCommits
  <2>3. UNCHANGED <<usage, deleted>>
    BY <1>3, BesidesRedisBooks
  <2> QED BY <1>2, <2>2, <2>3
<1>4. ASSUME NEW r \in Requests, Arrive(r) PROVE CommitsExact'
  <2>1. req[r].stage = "idle"
    BY <1>4 DEF Arrive
  <2>2. PICK next : req' = [req EXCEPT ![r] = next] /\ SameBooks(req[r], next)
    BY <1>4, <2>1, ArriveBooks
  <2>3. SameCommits(req, req')
    BY <2>2, SameBooksCommits
  <2>4. UNCHANGED <<usage, deleted>>
    BY <1>4 DEF Arrive
  <2> QED BY <1>2, <2>3, <2>4
<1>5. ASSUME NEW r \in Requests, SettleBucket(r) PROVE CommitsExact'
  <2>1. PICK next \in Request : /\ req' = [req EXCEPT ![r] = next]
                                /\ next.charged = req[r].charged /\ next.actual = req[r].actual
    BY <1>5, SettleBucketIs
  <2>2. SameCommits(req, req')
    BY <1>1, <2>1 DEF SameCommits
  <2>3. UNCHANGED <<usage, deleted>>
    BY <1>5 DEF SettleBucket
  <2> QED BY <1>2, <2>2, <2>3
<1>6. ASSUME NEW r \in Requests, Reserve(r) PROVE CommitsExact'
  BY <1>6, ReserveBalance, CommitsKept
<1>7. ASSUME NEW r \in Requests, SettleTerm(r) \/ ReleaseHold(r) PROVE CommitsExact'
  BY <1>7, SettleTermCommits, ReleaseHoldCommits
<1>8. ASSUME Tick PROVE CommitsExact'
  <2>1. PICK lost : req' = [x \in Requests |-> [req[x] EXCEPT !.counted = @ \ lost]]
    BY <1>8 DEF Tick
  <2>2. ASSUME NEW x \in Requests
        PROVE  req'[x].charged = req[x].charged /\ req'[x].actual = req[x].actual
    <3>1. req'[x] = [req[x] EXCEPT !.counted = @ \ lost] /\ req[x] \in Request
      BY <1>1, <2>1
    <3> QED BY <3>1 DEF Request
  <2>3. SameCommits(req, req')
    BY <2>2 DEF SameCommits
  <2>4. UNCHANGED <<usage, deleted>>
    BY <1>8 DEF Tick
  <2> QED BY <1>2, <2>3, <2>4
<1>9. ASSUME PeriodRolls \/ UNCHANGED vars PROVE CommitsExact'
  <2>1. UNCHANGED <<usage, deleted, req>>
    BY <1>9 DEF PeriodRolls, vars
  <2>2. SameCommits(req, req')
    BY <2>1 DEF SameCommits
  <2> QED BY <1>2, <2>1, <2>2
<1> QED BY <1>3, <1>4, <1>5, <1>6, <1>7, <1>8, <1>9 DEF Next, BesidesRedis

\* Nothing is committed at first.
LEMMA InitCommits == Init => CommitsExact
<1> SUFFICES ASSUME Init, NEW s \in Scopes, NEW p \in 1..MaxPeriod
             PROVE  Total(Used, ChargedTo(s, p))
                      = deleted[s][p] + (IF usage[s].period = p THEN usage[s].tokens ELSE 0)
  BY DEF CommitsExact
<1>1. req = [r \in Requests |-> Fresh] /\ Fresh.charged[s] = 0
  BY FreshProper DEF Init
<1>2. \A x \in Requests : x \notin ChargedTo(s, p)
  BY <1>1 DEF ChargedTo
<1>3. Total(Used, ChargedTo(s, p)) = 0
  BY <1>2, TotalNone
<1>4. deleted[s][p] = 0 /\ usage[s].tokens = 0
  BY DEF Init
<1> QED BY <1>3, <1>4

\* All the usage committed to a period is in the counters, once, or was deleted when
\* they were rolled, whatever fails.  Requests have names of their own.
THEOREM CommitsAreExact == ~Reuse => (Spec => []CommitsExact)
<1> SUFFICES ASSUME ~Reuse PROVE Spec => []CommitsExact
  OBVIOUS
<1>1. Inv /\ Inv' /\ CommitsExact /\ [Next]_vars => CommitsExact'
  BY NextCommits
<1> QED BY <1>1, InitCommits, BudgetInvariant, PTL DEF Spec

-----------------------------------------------------------------------------
(* The bucket.                                                             *)

\* What a request took or used of the bucket, and all of them.
Charge(q) ==
  IF q.bucket = "taken" THEN q.est ELSE IF q.bucket = "settled" THEN q.actual ELSE 0
ChargesOf(f) == Total([r \in Requests |-> Charge(f[r])], Requests)

\* A bucket b of known tokens is balanced against charges c and slack k, as
\* BucketConserves says; one that is not touched for its time to live has refilled,
\* whatever it owed, by time n: it may be forgotten and start anew as a full one.
Balanced(b, n, c, k) ==
  /\ Capacity = 0 => b.ttl = 0
  /\ b.ttl > 0 => b.ts + (Ttl - b.ttl) <= n
  /\ b.ttl > 0 => b.tokens <= Capacity + Rate * b.ts - c + k /\ b.tokens >= Capacity - c
  /\ b.ttl = 0 => c <= k + Rate * (IF n = 0 THEN 0 ELSE n - 1)

BucketBalanced == Balanced(bucket, now, ChargesOf(req), slack)

\* Charges are numbers.
LEMMA ChargeNat ==
  ASSUME NEW f \in [Requests -> Request]
  PROVE  /\ \A r \in Requests : Charge(f[r]) \in Nat
         /\ [r \in Requests |-> Charge(f[r])] \in [Requests -> Nat]
         /\ ChargesOf(f) \in Nat
<1>1. \A x \in Request : Charge(x) \in Nat
  BY DEF Request, Charge
<1>2. \A r \in Requests : Charge(f[r]) \in Nat
  BY <1>1
<1> DEFINE g == [r \in Requests |-> Charge(f[r])]
<1>3. g \in [Requests -> Nat]
  BY <1>2
<1>4. ChargesOf(f) = Total(g, Requests)
  BY DEF ChargesOf
<1> HIDE DEF g
<1>5. Total(g, Requests) \in Nat
  BY <1>3, TotalNat
<1> QED BY <1>2, <1>3, <1>4, <1>5 DEF g

\* Only the charge of r changes.
LEMMA ChargesChange ==
  ASSUME NEW f \in [Requests -> Request], NEW g \in [Requests -> Request], NEW r \in Requests,
         \A x \in Requests : x # r => Charge(g[x]) = Charge(f[x])
  PROVE  ChargesOf(g) = ChargesOf(f) + (Charge(g[r]) - Charge(f[r]))
<1> DEFINE F == [x \in Requests |-> Charge(f[x])]
           G == [x \in Requests |-> Charge(g[x])]
<1>1. F \in [Requests -> Nat] /\ G \in [Requests -> Nat]
  BY ChargeNat
<1>2. \A x \in Requests : x # r => Terms(G, Requests)[x] = Terms(F, Requests)[x]
  BY DEF Terms
<1>3. F[r] = Charge(f[r]) /\ G[r] = Charge(g[r])
  OBVIOUS
<1>4. ChargesOf(f) = Total(F, Requests) /\ ChargesOf(g) = Total(G, Requests)
  BY DEF ChargesOf
<1> HIDE DEF F, G
<1>5. Total(G, Requests) = Total(F, Requests)
        + ((IF r \in Requests THEN G[r] ELSE 0) - (IF r \in Requests THEN F[r] ELSE 0))
  BY <1>1, <1>2, TotalChange
<1> QED BY <1>3, <1>4, <1>5

\* The total charge depends on each request's only.
LEMMA ChargesSame ==
  ASSUME NEW f \in [Requests -> Request], NEW g \in [Requests -> Request],
         \A x \in Requests : Charge(g[x]) = Charge(f[x])
  PROVE  ChargesOf(g) = ChargesOf(f)
<1>1. [x \in Requests |-> Charge(f[x])] = [x \in Requests |-> Charge(g[x])]
  OBVIOUS
<1> QED BY <1>1 DEF ChargesOf

\* The bucket's type, as the lemmas on numbers below use it.
Bucket == [tokens : (-Capacity)..Capacity, ts : Nat, ttl : 0..Ttl]

\* RESERVE_WITH_TERM by a clock at: t tokens are found, m ticks having refilled b,
\* and l are left of them if e are taken; b1, c1 and k1 follow.
Takes(b, n, c, k, at, e, ok, m, t, l, late, b1, c1, k1) ==
  /\ b \in Bucket /\ n \in Nat /\ c \in Nat /\ k \in Nat /\ Capacity > 0
  /\ at \in Nat /\ at <= n /\ n <= at + 1 /\ e \in Nat /\ ok \in BOOLEAN
  /\ m \in Nat /\ t \in Int /\ l \in Int /\ late \in Nat
  /\ m = IF at >= b.ts THEN at - b.ts ELSE 0
  /\ t = IF b.ttl = 0 \/ b.tokens + m * Rate >= Capacity THEN Capacity ELSE b.tokens + m * Rate
  /\ l >= t - e
  /\ late = IF b.ts > at THEN b.ts - at ELSE 0
  /\ b1 = [tokens |-> IF ok THEN l ELSE t, ts |-> at, ttl |-> Ttl]
  /\ k1 = k + (IF ok THEN l - (t - e) ELSE 0) + (IF b.ttl = 0 THEN 0 ELSE Rate * late)
  /\ c1 = c + IF ok THEN e ELSE 0

\* RESERVE_WITH_TERM's arithmetic keeps the balance: refill, cap, take, clamp.
LEMMA TakenBalanced ==
  ASSUME NEW b, NEW n, NEW c, NEW k, NEW at, NEW e, NEW ok, NEW m, NEW t, NEW l, NEW late,
         NEW b1, NEW c1, NEW k1, Takes(b, n, c, k, at, e, ok, m, t, l, late, b1, c1, k1),
         Balanced(b, n, c, k)
  PROVE  Balanced(b1, n, c1, k1)
<1> USE DEF Takes
<1>1. /\ Rate \in Nat /\ Capacity \in Nat /\ Ttl \in Nat /\ Ttl > 0
      /\ b.tokens \in Int /\ b.tokens <= Capacity /\ b.ts \in Nat /\ b.ttl \in Nat
  BY BudgetAssumption DEF Bucket
<1>2. b1.ttl = Ttl /\ b1.ts = at /\ b1.tokens = IF ok THEN l ELSE t
  OBVIOUS
<1>3. PICK a \in Nat : a = Rate * at
  BY <1>1
<1>4. t <= Capacity + a - c + (k + (IF b.ttl = 0 THEN 0 ELSE Rate * late))
  <2>1. CASE b.ttl = 0
    <3>1. c <= k + Rate * (IF n = 0 THEN 0 ELSE n - 1)
      BY <2>1 DEF Balanced
    <3>2. PICK o \in Nat : o = IF n = 0 THEN 0 ELSE n - 1
      OBVIOUS
    <3>3. o <= at
      BY <3>2
    <3>4. Rate * o <= a
      BY <1>1, <1>3, <3>2, <3>3
    <3>5. c <= k + a
      BY <1>1, <1>3, <3>1, <3>2, <3>4
    <3> QED BY <1>1, <2>1, <3>5
  <2>2. CASE b.ttl # 0
    <3>1. b.tokens <= Capacity + Rate * b.ts - c + k
      BY <1>1, <2>2 DEF Balanced
    <3>2. b.ts + m = at + late
      BY <1>1
    <3>3. Rate * b.ts + m * Rate = a + Rate * late
      <4>1. Rate * (b.ts + m) = Rate * (at + late)
        BY <3>2
      <4>2. Rate * (b.ts + m) = Rate * b.ts + m * Rate /\ Rate * (at + late) = Rate * at + Rate * late
        BY <1>1
      <4> QED BY <1>3, <4>1, <4>2
    <3>4. t <= b.tokens + m * Rate
      BY <1>1, <2>2
    <3>5. PICK x \in Nat : x = Rate * b.ts
      BY <1>1
    <3>6. PICK y \in Nat : y = m * Rate
      BY <1>1
    <3>7. PICK z \in Nat : z = Rate * late
      BY <1>1
    <3> QED BY <1>1, <2>2, <3>1, <3>3, <3>4, <3>5, <3>6, <3>7
  <2> QED BY <2>1, <2>2
<1>5. t >= Capacity - c
  <2>1. CASE b.ttl = 0
    BY <1>1, <2>1
  <2>2. CASE b.ttl # 0
    <3>1. b.tokens >= Capacity - c
      BY <1>1, <2>2 DEF Balanced
    <3>2. m * Rate \in Nat
      BY <1>1
    <3> QED BY <1>1, <3>1, <3>2
  <2> QED BY <2>1, <2>2
<1>6. PICK z \in Nat : z = IF b.ttl = 0 THEN 0 ELSE Rate * late
  BY <1>1
<1>7. b1.tokens <= Capacity + a - c1 + k1 /\ b1.tokens >= Capacity - c1
  <2>1. CASE ok
    BY <1>1, <1>2, <1>4, <1>5, <1>6, <2>1
  <2>2. CASE ~ok
    BY <1>1, <1>2, <1>4, <1>5, <1>6, <2>2
  <2> QED BY <2>1, <2>2
<1> QED BY <1>1, <1>2, <1>3, <1>7 DEF Balanced

\* RECONCILE at time n, of a request that took e, or was let through without, and
\* used u: t tokens are there, l within the bounds; b1 and k1 follow.
Reconciles(b, k, n, e, u, taken, t, l, b1, k1) ==
  /\ t = (IF b.ttl > 0 THEN b.tokens ELSE Capacity) + e - u
  /\ l = IF t > Capacity THEN Capacity ELSE IF t < -Capacity THEN -Capacity ELSE t
  /\ b1 = [tokens |-> l, ttl |-> Ttl, ts |-> IF b.ttl > 0 THEN b.ts ELSE n]
  /\ k1 = k + (IF t < -Capacity THEN -Capacity - t ELSE 0) + (IF taken THEN 0 ELSE e)

\* RECONCILE's arithmetic keeps the balance: the difference is charged or refunded, down
\* to the floor and up to the size.
LEMMA SettledBalanced ==
  ASSUME NEW b \in Bucket, NEW n \in Nat, NEW c \in Nat, NEW k \in Nat, Balanced(b, n, c, k),
         b.ts <= n, NEW e \in Nat, NEW u \in Nat, NEW taken \in BOOLEAN, Capacity > 0,
         NEW t \in Int, NEW l \in Int, NEW b1, NEW k1,
         Reconciles(b, k, n, e, u, taken, t, l, b1, k1),
         NEW c1 \in Nat, c1 = c + (u - IF taken THEN e ELSE 0)
  PROVE  Balanced(b1, n, c1, k1)
<1> USE DEF Reconciles
<1>1. /\ Rate \in Nat /\ Capacity \in Nat /\ Ttl \in Nat /\ Ttl > 0
      /\ b.tokens \in Int /\ b.tokens <= Capacity /\ b.ts \in Nat /\ b.ttl \in Nat
  BY BudgetAssumption DEF Bucket
<1>2. PICK s \in Nat : s = IF b.ttl > 0 THEN b.ts ELSE n
  BY <1>1
<1>3. b1.ttl = Ttl /\ b1.ts = s /\ b1.tokens = l /\ s <= n
  BY <1>1, <1>2
<1>4. PICK a \in Nat : a = Rate * s
  BY <1>1
<1>5. PICK h \in Int : h = IF b.ttl > 0 THEN b.tokens ELSE Capacity
  BY <1>1
<1>6. h <= Capacity + a - c + k /\ h >= Capacity - c
  <2>1. CASE b.ttl > 0
    BY <1>2, <1>4, <1>5, <2>1 DEF Balanced
  <2>2. CASE ~(b.ttl > 0)
    <3>1. c <= k + Rate * (IF n = 0 THEN 0 ELSE n - 1)
      BY <1>1, <2>2 DEF Balanced
    <3>2. PICK o \in Nat : o = IF n = 0 THEN 0 ELSE n - 1
      OBVIOUS
    <3>3. o <= s
      BY <1>2, <2>2, <3>2
    <3>4. Rate * o <= a
      BY <1>1, <1>4, <3>3
    <3>5. PICK x \in Nat : x = Rate * o
      BY <1>1
    <3> QED BY <1>1, <1>5, <2>2, <3>1, <3>2, <3>4, <3>5
  <2> QED BY <2>1, <2>2
<1>7. t = h + e - u
  BY <1>5
<1>8. l <= Capacity + a - c1 + k1 /\ l >= Capacity - c1
  <2>1. CASE taken
    BY <1>1, <1>6, <1>7, <2>1
  <2>2. CASE ~taken
    BY <1>1, <1>6, <1>7, <2>2
  <2> QED BY <2>1, <2>2
<1> QED BY <1>1, <1>3, <1>4, <1>8 DEF Balanced

\* A tick.  A bucket that expires was not touched for Ttl - 1 ticks: it has refilled.
LEMMA TickBalanced ==
  ASSUME NEW b \in Bucket, NEW n \in Nat, NEW c \in Nat, NEW k \in Nat, Balanced(b, n, c, k),
         NEW m, m = IF Capacity > 0 THEN n + 1 ELSE n,
         NEW b1, b1 = IF b.ttl > 1 THEN [b EXCEPT !.ttl = @ - 1]
                      ELSE [tokens |-> 0, ts |-> 0, ttl |-> 0]
  PROVE  Balanced(b1, m, c, k)
<1>1. /\ Rate \in Nat /\ Capacity \in Nat /\ Ttl \in Nat /\ Ttl > 0
      /\ b.tokens \in Int /\ b.tokens >= -Capacity /\ b.ts \in Nat /\ b.ttl \in Nat
      /\ Rate * (Ttl - 1) >= 2 * Capacity
  BY BudgetAssumption DEF Bucket
<1>2. CASE b.ttl > 1
  <2>1. b1.ttl = b.ttl - 1 /\ b1.ts = b.ts /\ b1.tokens = b.tokens
    BY <1>2 DEF Bucket
  <2>2. Capacity > 0
    BY <1>1, <1>2 DEF Balanced
  <2> HIDE DEF Bucket
  <2> QED BY <1>1, <1>2, <2>1, <2>2 DEF Balanced
<1>3. CASE b.ttl = 1
  <2>1. b1.ttl = 0
    BY <1>3
  <2>2. Capacity > 0 /\ m = n + 1
    BY <1>1, <1>3 DEF Balanced
  <2>3. b.ts + (Ttl - 1) <= n /\ b.tokens <= Capacity + Rate * b.ts - c + k
    BY <1>1, <1>3 DEF Balanced
  <2>4. Rate * (b.ts + (Ttl - 1)) <= Rate * n
    BY <1>1, <2>3
  <2>5. Rate * (b.ts + (Ttl - 1)) = Rate * b.ts + Rate * (Ttl - 1)
    BY <1>1
  <2>6. PICK x \in Nat, y \in Nat, z \in Nat : x = Rate * b.ts /\ y = Rate * (Ttl - 1) /\ z = Rate * n
    BY <1>1
  <2>7. c <= k + z
    BY <1>1, <2>3, <2>4, <2>5, <2>6
  <2> QED BY <1>1, <2>1, <2>2, <2>6, <2>7 DEF Balanced
<1>4. CASE b.ttl = 0
  <2>1. b1.ttl = 0
    BY <1>4
  <2>2. c <= k + Rate * (IF n = 0 THEN 0 ELSE n - 1)
    BY <1>4 DEF Balanced
  <2>3. PICK o \in Nat : o = IF n = 0 THEN 0 ELSE n - 1
    OBVIOUS
  <2>4. PICK i \in Nat : i = IF m = 0 THEN 0 ELSE m - 1
    BY <1>1
  <2>5. o <= i
    BY <1>1, <2>3, <2>4
  <2>6. Rate * o <= Rate * i
    BY <1>1, <2>5
  <2>7. PICK x \in Nat, y \in Nat : x = Rate * o /\ y = Rate * i
    BY <1>1
  <2>8. c <= k + y
    BY <2>2, <2>3, <2>6, <2>7
  <2> QED BY <2>1, <2>4, <2>7, <2>8 DEF Balanced
<1> QED BY <1>1, <1>2, <1>3, <1>4

\* The types of the bucket and of what the balance relates it to.
LEMMA BucketOf ==
  ASSUME Inv
  PROVE  /\ bucket \in Bucket /\ bucket.ts <= now /\ now \in Nat /\ slack \in Nat
         /\ ChargesOf(req) \in Nat /\ req \in [Requests -> Request]
<1>1. /\ bucket \in [tokens : (-Capacity)..Capacity, ts : 0..now, ttl : 0..Ttl]
      /\ now \in Nat /\ slack \in Nat /\ req \in [Requests -> Request]
  BY DEF Inv, Typed, AllProper
<1>2. ChargesOf(req) \in Nat
  BY <1>1, ChargeNat
<1> QED BY <1>1, <1>2 DEF Bucket

\* The balance of the next state, from its values.
LEMMA BalancedNext ==
  ASSUME NEW b, NEW n, NEW c, NEW k, Balanced(b, n, c, k),
         b = bucket', n = now', c = ChargesOf(req'), k = slack'
  PROVE  BucketBalanced'
BY DEF BucketBalanced, Balanced, ChargesOf, Charge

\* Steps that leave the bucket and what is charged to it alone.
LEMMA BucketKept ==
  ASSUME Inv, Inv', BucketBalanced, UNCHANGED <<bucket, now, slack>>,
         \A x \in Requests : Charge(req'[x]) = Charge(req[x])
  PROVE  BucketBalanced'
<1>1. req \in [Requests -> Request] /\ req' \in [Requests -> Request]
  BY DEF Inv, AllProper
<1>2. PICK f : f = req'
  OBVIOUS
<1>3. f \in [Requests -> Request] /\ \A x \in Requests : Charge(f[x]) = Charge(req[x])
  BY <1>1, <1>2
<1>4. ChargesOf(f) = ChargesOf(req)
  BY <1>1, <1>3, ChargesSame
<1>5. Balanced(bucket, now, ChargesOf(f), slack)
  BY <1>4 DEF BucketBalanced
<1> QED BY <1>2, <1>5, BalancedNext

\* Reserve keeps the balance.
LEMMA ReserveBalanced ==
  ASSUME Inv, Inv', BucketBalanced, NEW r \in Requests, Reserve(r)
  PROVE  BucketBalanced'
<1> DEFINE q == req[r]
<1>1. Typed /\ AllProper
  BY DEF Inv
<1>2. PICK s, next, ok : Reserves(r, s, next, ok)
  BY ReserveIs
<1>3. PICK kept : kept = IF Forgets(s, q.period) THEN Uncounted(s, req) ELSE req
  OBVIOUS
<1>4. /\ s = q.stage /\ s \in Scopes /\ q.answer = "none" /\ ok \in BOOLEAN /\ now' = now
      /\ req' = [kept EXCEPT ![r] = next] /\ next.est = q.est /\ next.actual = q.actual
      /\ next.bucket = IF ok /\ s = "tenant" /\ Capacity > 0 THEN "taken" ELSE q.bucket
      /\ \/ (bucket' = bucket /\ slack' = slack /\ (ok => s # "tenant" \/ Capacity = 0))
         \/ (s = "tenant" /\ Capacity > 0 /\ \E t : ChargesBucket(r, ok, t))
  BY <1>2, <1>3 DEF Reserves
<1>5. q \in Request /\ OnPath(q, now, period) /\ OnTime(q) /\ q.est \in Nat
  BY <1>1, RequestOf
<1>6. ASSUME NEW x \in Requests, x # r
      PROVE  Charge(req'[x]) = Charge(req[x])
  <2>1. req[x] \in Request
    BY <1>1, RequestOf
  <2>2. kept[x] = req[x] \/ kept[x] = [req[x] EXCEPT !.counted = @ \ {s}]
    BY <1>3 DEF Uncounted
  <2>3. /\ kept[x].bucket = req[x].bucket /\ kept[x].est = req[x].est
        /\ kept[x].actual = req[x].actual
    BY <2>1, <2>2 DEF Request
  <2>4. DOMAIN kept = Requests
    BY <1>1, <1>3 DEF Uncounted, AllProper
  <2>5. req'[x] = kept[x]
    BY <1>4, <1>6, <2>4
  <2> QED BY <2>3, <2>5 DEF Charge
<1>7. req'[r] = next
  <2>1. DOMAIN kept = Requests
    BY <1>1, <1>3 DEF Uncounted, AllProper
  <2> QED BY <1>4, <2>1
<1>8. CASE bucket' = bucket /\ slack' = slack /\ (ok => s # "tenant" \/ Capacity = 0)
  <2>1. next.bucket = q.bucket
    BY <1>4, <1>8, BudgetAssumption
  <2>2. Charge(req'[r]) = Charge(req[r])
    BY <1>4, <1>7, <2>1 DEF Charge
  <2>3. \A x \in Requests : Charge(req'[x]) = Charge(req[x])
    BY <1>6, <2>2
  <2>4. UNCHANGED <<bucket, now, slack>>
    BY <1>4, <1>8
  <2> QED BY <2>3, <2>4, BucketKept
<1>9. CASE s = "tenant" /\ Capacity > 0 /\ \E t : ChargesBucket(r, ok, t)
  <2>1. PICK t : ChargesBucket(r, ok, t)
    BY <1>9
  <2>2. PICK at, e : at = q.at /\ e = q.est
    OBVIOUS
  <2>3. at \in Nat /\ at <= now /\ now <= at + 1 /\ e \in Nat /\ now \in Nat
    BY <1>1, <1>4, <1>5, <1>9, <2>2 DEF OnPath, Typed, Request
  <2>4. q.bucket = "untouched"
    BY <1>4, <1>5, <1>9 DEF OnTime
  <2>5. Charge(req[r]) = 0 /\ Charge(req'[r]) = IF ok THEN e ELSE 0
    BY <1>4, <1>7, <1>9, <2>2, <2>4 DEF Charge
  <2>6. PICK f : f = req'
    OBVIOUS
  <2>7. f \in [Requests -> Request] /\ req \in [Requests -> Request]
    BY <2>6 DEF Inv, AllProper
  <2>8. ChargesOf(f) = ChargesOf(req) + (Charge(f[r]) - Charge(req[r]))
    BY <1>6, <2>6, <2>7, ChargesChange
  <2>9. /\ bucket \in Bucket /\ slack \in Nat /\ ChargesOf(req) \in Nat
    BY BucketOf
  <2>10. ChargesOf(f) = ChargesOf(req) + IF ok THEN e ELSE 0
    BY <2>3, <2>5, <2>6, <2>8, <2>9
  <2>11. PICK m \in Nat : m = IF at >= bucket.ts THEN at - bucket.ts ELSE 0
    BY <2>3, <2>9 DEF Bucket
  <2>12. PICK late \in Nat : late = IF bucket.ts > at THEN bucket.ts - at ELSE 0
    BY <2>3, <2>9 DEF Bucket
  <2>13. /\ t = IF bucket.ttl = 0 \/ bucket.tokens + m * Rate >= Capacity
                THEN Capacity ELSE bucket.tokens + m * Rate
         /\ t \in Int
    <3>1. t = refilled(at)
      BY <2>1, <2>2 DEF ChargesBucket
    <3> QED BY <1>1, <2>3, <2>11, <3>1, RefilledIs
  <2>14. PICK l : l = Left(t, e)
    OBVIOUS
  <2>15. l \in Int /\ l >= t - e
    BY <2>3, <2>13, <2>14, BudgetAssumption DEF Left
  <2>16. PICK b1, k1 : b1 = bucket' /\ k1 = slack'
    OBVIOUS
  <2>17. b1 = [tokens |-> IF ok THEN l ELSE t, ts |-> at, ttl |-> Ttl]
    BY <2>1, <2>2, <2>14, <2>16 DEF ChargesBucket
  <2>18. k1 = slack + (IF ok THEN l - (t - e) ELSE 0) + (IF bucket.ttl = 0 THEN 0 ELSE Rate * late)
    BY <2>1, <2>2, <2>12, <2>14, <2>16 DEF ChargesBucket
  <2>19. Balanced(bucket, now, ChargesOf(req), slack) /\ Capacity > 0 /\ ok \in BOOLEAN
    BY <1>4, <1>9 DEF BucketBalanced
  <2>20. Balanced(b1, now, ChargesOf(f), k1)
    <3>1. Takes(bucket, now, ChargesOf(req), slack, at, e, ok, m, t, l, late, b1, ChargesOf(f), k1)
      BY <2>3, <2>9, <2>10, <2>11, <2>12, <2>13, <2>15, <2>17, <2>18, <2>19 DEF Takes
    <3> QED BY <2>19, <3>1, TakenBalanced
  <2> QED BY <1>4, <2>6, <2>16, <2>20, BalancedNext
<1> QED BY <1>4, <1>8, <1>9

\* SettleBucket keeps the balance.
LEMMA SettleBucketBalanced ==
  ASSUME Inv, Inv', BucketBalanced, NEW r \in Requests, SettleBucket(r)
  PROVE  BucketBalanced'
<1> DEFINE q == req[r]
<1>1. Typed /\ AllProper
  BY DEF Inv
<1>2. /\ q \in Request /\ OnPath(q, now, period) /\ OnTime(q) /\ q.est \in Nat /\ q.actual \in Nat
      /\ q.stage = "refund"
  BY <1>1, RequestOf DEF SettleBucket
<1>3. PICK next \in Request, t \in Int :
         /\ req' = [req EXCEPT ![r] = next] /\ next.bucket = "settled" /\ next.actual = q.actual
         /\ t = (IF bucket.ttl > 0 THEN bucket.tokens ELSE Capacity) + q.est - q.actual
         /\ bucket' = [tokens |-> refund(t), ttl |-> Ttl,
                       ts |-> IF bucket.ttl > 0 THEN bucket.ts ELSE now]
         /\ slack' = slack + (IF t < -Capacity THEN -Capacity - t ELSE 0)
                           + (IF q.bucket = "taken" THEN 0 ELSE q.est)
  BY SettleBucketIs
<1>4. PICK e, u : e = q.est /\ u = q.actual
  OBVIOUS
<1>5. PICK taken \in BOOLEAN : taken <=> q.bucket = "taken"
  OBVIOUS
<1>6. PICK f : f = req'
  OBVIOUS
<1>7. /\ f \in [Requests -> Request] /\ req \in [Requests -> Request]
      /\ f[r] = next /\ \A x \in Requests : x # r => f[x] = req[x]
  BY <1>1, <1>3, <1>6 DEF Inv, AllProper
<1>8. ChargesOf(f) = ChargesOf(req) + (Charge(f[r]) - Charge(req[r])) /\ ChargesOf(f) \in Nat
  BY <1>7, ChargesChange, ChargeNat
<1>9. Charge(f[r]) = u /\ Charge(req[r]) = IF taken THEN e ELSE 0
  <2>1. q.bucket # "settled"
    BY <1>2 DEF OnTime
  <2> QED BY <1>3, <1>4, <1>5, <1>7, <2>1 DEF Charge
<1>10. ChargesOf(f) = ChargesOf(req) + (u - IF taken THEN e ELSE 0)
  BY <1>8, <1>9
<1>11. PICK l : l = refund(t)
  OBVIOUS
<1>12. /\ l = IF t > Capacity THEN Capacity ELSE IF t < -Capacity THEN -Capacity ELSE t
       /\ l \in Int
  <2>1. /\ refund(t) = IF t > Capacity THEN Capacity ELSE IF t < -Capacity THEN -Capacity ELSE t
        /\ Capacity \in Nat
    BY RefundIs, BudgetAssumption
  <2> QED BY <1>11, <2>1
<1>13. PICK b1, k1 : b1 = bucket' /\ k1 = slack'
  OBVIOUS
<1>14. b1 = [tokens |-> l, ttl |-> Ttl, ts |-> IF bucket.ttl > 0 THEN bucket.ts ELSE now]
  BY <1>3, <1>11, <1>13
<1>15. k1 = slack + (IF t < -Capacity THEN -Capacity - t ELSE 0) + (IF taken THEN 0 ELSE e)
  BY <1>3, <1>4, <1>5, <1>13
<1>16. t = (IF bucket.ttl > 0 THEN bucket.tokens ELSE Capacity) + e - u
  BY <1>3, <1>4
<1>17. Balanced(bucket, now, ChargesOf(req), slack) /\ Capacity > 0 /\ e \in Nat /\ u \in Nat
  BY <1>2, <1>4 DEF BucketBalanced, OnPath
<1>18. /\ bucket \in Bucket /\ bucket.ts <= now /\ now \in Nat /\ slack \in Nat
       /\ ChargesOf(req) \in Nat
  BY BucketOf
<1>19. Balanced(b1, now, ChargesOf(f), k1)
  <2>1. Reconciles(bucket, slack, now, e, u, taken, t, l, b1, k1)
    BY <1>12, <1>14, <1>15, <1>16 DEF Reconciles
  <2>2. l \in Int /\ ChargesOf(f) \in Nat
    BY <1>8, <1>12
  <2> QED BY <1>10, <1>17, <1>18, <2>1, <2>2, SettledBalanced
<1>20. now' = now
  BY DEF SettleBucket
<1> QED BY <1>6, <1>13, <1>19, <1>20, BalancedNext

\* Every step keeps the balance, as long as request names are not used again.
LEMMA NextBalanced ==
  ASSUME ~Reuse, Inv, Inv', BucketBalanced, [Next]_vars
  PROVE  BucketBalanced'
<1>1. req \in [Requests -> Request] /\ \A x \in Requests : req[x] \in Request
  BY DEF Inv, AllProper
<1>2. ASSUME NEW r \in Requests, NEW next, req' = [req EXCEPT ![r] = next],
             SameBooks(req[r], next), UNCHANGED <<bucket, now, slack>>
      PROVE  BucketBalanced'
  <2>1. Charge(next) = Charge(req[r])
    BY <1>2 DEF SameBooks, Charge
  <2>2. \A x \in Requests : Charge(req'[x]) = Charge(req[x])
    BY <1>1, <1>2, <2>1
  <2> QED BY <1>2, <2>2, BucketKept
<1>3. ASSUME NEW r \in Requests, BesidesRedis(r) PROVE BucketBalanced'
  <2>1. PICK next : req' = [req EXCEPT ![r] = next] /\ SameBooks(req[r], next)
    BY <1>3, BesidesRedisBooks
  <2>2. UNCHANGED <<bucket, now, slack>>
    BY <1>3, BesidesRedisBooks
  <2> QED BY <1>2, <2>1, <2>2
<1>4. ASSUME NEW r \in Requests, Arrive(r) PROVE BucketBalanced'
  <2>1. req[r].stage = "idle"
    BY <1>4 DEF Arrive
  <2>2. PICK next : req' = [req EXCEPT ![r] = next] /\ SameBooks(req[r], next)
    BY <1>4, <2>1, ArriveBooks
  <2>3. UNCHANGED <<bucket, now, slack>>
    BY <1>4 DEF Arrive
  <2> QED BY <1>2, <2>2, <2>3
<1>5. ASSUME NEW r \in Requests, Reserve(r) \/ SettleBucket(r) PROVE BucketBalanced'
  BY <1>5, ReserveBalanced, SettleBucketBalanced
<1>6. ASSUME NEW r \in Requests, ReleaseHold(r) PROVE BucketBalanced'
  <2>1. PICK next : next = [req[r] EXCEPT !.stage = "done", !.held = {}, !.counted = @ \ {"key"}]
    OBVIOUS
  <2>2. SameBooks(req[r], next)
    BY <1>1, <2>1 DEF Request, SameBooks
  <2>3. req' = [req EXCEPT ![r] = next]
    BY <1>1, <1>6, <2>1 DEF ReleaseHold
  <2>4. UNCHANGED <<bucket, now, slack>>
    BY <1>6 DEF ReleaseHold
  <2> QED BY <1>2, <2>2, <2>3, <2>4
<1>7. ASSUME NEW r \in Requests, SettleTerm(r) PROVE BucketBalanced'
  <2>1. PICK s \in Scopes : \E next, c : SettlesTerm(r, s, next, c)
    BY <1>7, SettleTermIs
  <2>2. PICK next, c : SettlesTerm(r, s, next, c)
    BY <2>1
  <2>3. /\ req' = [req EXCEPT ![r] = next] /\ UNCHANGED <<bucket, now, slack>>
        /\ next.bucket = req[r].bucket /\ next.est = req[r].est /\ next.actual = req[r].actual
    BY <2>2 DEF SettlesTerm
  <2>4. Charge(next) = Charge(req[r])
    BY <2>3 DEF Charge
  <2>5. \A x \in Requests : Charge(req'[x]) = Charge(req[x])
    BY <1>1, <2>3, <2>4
  <2>6. UNCHANGED <<bucket, now, slack>>
    BY <2>3
  <2> QED BY <2>5, <2>6, BucketKept
<1>8. ASSUME Tick PROVE BucketBalanced'
  <2>1. PICK lost : req' = [x \in Requests |-> [req[x] EXCEPT !.counted = @ \ lost]]
    BY <1>8 DEF Tick
  <2>2. ASSUME NEW x \in Requests PROVE Charge(req'[x]) = Charge(req[x])
    <3>1. req'[x] = [req[x] EXCEPT !.counted = @ \ lost] /\ req[x] \in Request
      BY <1>1, <2>1
    <3> QED BY <3>1 DEF Request, Charge
  <2>3. PICK f : f = req'
    OBVIOUS
  <2>4. f \in [Requests -> Request] /\ \A x \in Requests : Charge(f[x]) = Charge(req[x])
    BY <2>2, <2>3 DEF Inv, AllProper
  <2>5. ChargesOf(f) = ChargesOf(req)
    BY <1>1, <2>4, ChargesSame
  <2>6. PICK b1, m : b1 = bucket' /\ m = now'
    OBVIOUS
  <2>7. /\ m = IF Capacity > 0 THEN now + 1 ELSE now
        /\ b1 = IF bucket.ttl > 1 THEN [bucket EXCEPT !.ttl = @ - 1]
                ELSE [tokens |-> 0, ts |-> 0, ttl |-> 0]
    BY <1>8, <2>6 DEF Tick
  <2>8. bucket \in Bucket /\ now \in Nat /\ slack \in Nat /\ ChargesOf(req) \in Nat
    BY BucketOf
  <2>9. Balanced(b1, m, ChargesOf(f), slack)
    BY <2>5, <2>7, <2>8, TickBalanced DEF BucketBalanced
  <2>10. slack' = slack
    BY <1>8 DEF Tick
  <2> QED BY <2>3, <2>6, <2>9, <2>10, BalancedNext
<1>9. ASSUME PeriodRolls \/ UNCHANGED vars PROVE BucketBalanced'
  <2>1. UNCHANGED <<bucket, now, slack>> /\ req' = req
    BY <1>9 DEF PeriodRolls, vars
  <2>2. \A x \in Requests : Charge(req'[x]) = Charge(req[x])
    BY <2>1
  <2> QED BY <2>1, <2>2, BucketKept
<1> QED BY <1>3, <1>4, <1>5, <1>6, <1>7, <1>8, <1>9 DEF Next, BesidesRedis

\* There is no bucket at first, which counts as a full one.
LEMMA InitBalanced == Init => BucketBalanced
<1> SUFFICES ASSUME Init PROVE BucketBalanced
  OBVIOUS
<1> DEFINE F == [r \in Requests |-> Charge(req[r])]
<1>1. \A r \in Requests : req[r] = Fresh
  BY DEF Init
<1>2. Fresh.bucket = "untouched"
  BY FreshProper
<1>3. \A r \in Requests : F[r] = 0
  BY <1>1, <1>2 DEF Charge
<1>4. F \in [Requests -> Nat] /\ ChargesOf(req) = Total(F, Requests)
  BY <1>3 DEF ChargesOf
<1> HIDE DEF F
<1>5. \A x \in Requests : Terms(F, Requests)[x] = Terms(F, {})[x]
  BY <1>3 DEF Terms
<1>6. Total(F, Requests) = Total(F, {}) /\ Total(F, {}) = 0
  BY <1>4, <1>5, TotalSame, TotalNone
<1>7. bucket.ttl = 0 /\ now = 0 /\ slack = 0 /\ Rate \in Nat
  BY BudgetAssumption DEF Init
<1>8. ChargesOf(req) <= slack + Rate * 0
  BY <1>4, <1>6, <1>7
<1> QED BY <1>7, <1>8 DEF BucketBalanced, Balanced

\* The bucket holds what its size and its refill pay for, net of what requests took
\* and used, and the counted exceptions: also when it expires and starts anew.
THEOREM BucketIsConserved == ~Reuse => (Spec => []BucketConserves)
<1> SUFFICES ASSUME ~Reuse PROVE Spec => []BucketConserves
  OBVIOUS
<1>1. Inv /\ Inv' /\ BucketBalanced /\ [Next]_vars => BucketBalanced'
  BY NextBalanced
<1>2. Inv /\ BucketBalanced => BucketConserves
  <2> SUFFICES ASSUME Inv, BucketBalanced PROVE BucketConserves
    OBVIOUS
  <2>1. ASSUME NEW r \in Requests
        PROVE  (CASE req[r].bucket = "taken" -> req[r].est
                  [] req[r].bucket = "settled" -> req[r].actual
                  [] OTHER -> 0) = Charge(req[r])
    BY DEF Charge
  <2>2. BucketCharges = [r \in Requests |-> Charge(req[r])]
    BY <2>1 DEF BucketCharges
  <2>3. ChargesOf(req) = Total(BucketCharges, Requests)
    BY <2>2 DEF ChargesOf
  <2> QED BY <2>3 DEF BucketBalanced, Balanced, BucketConserves
<1> QED BY <1>1, <1>2, InitBalanced, BudgetInvariant, PTL DEF Spec
=============================================================================
