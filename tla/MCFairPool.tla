----------------------------- MODULE MCFairPool ------------------------------
(* Instances of FairPool for TLC.                                          *)
EXTENDS FairPool

CONSTANTS a, b, c, d, e, f, z   \* requests

request(key, session, cost) == [key |-> key, session |-> session, cost |-> cost]
key(tenant, cap) == [tenant |-> tenant, weight |-> 1, cap |-> cap]
tenant(group, weight, cap) == [group |-> group, weight |-> weight, cap |-> cap]

step == request(1, "s", 1)
other == request(1, "none", 1)

\* A tenant whose key has a session of three steps and a request of none, and a
\* tenant of another group, with a cap of one.
KeyEach == <<key(1, 2), key(2, 0)>>
Equals == <<tenant(1, 1, 0), tenant(2, 1, 1)>>
TwoGroups == <<2, 1>>
SessionAndOthers ==
  a :> step @@ b :> step @@ e :> step @@ c :> other @@ d :> request(2, "none", 2)
Steps == Permutations({a, b, e})

\* A session's steps and two other requests of its key.
OneGroup == <<1>>
OneTenant == <<tenant(1, 1, 0)>>
OneKey == <<key(1, 0)>>
SessionAmongOthers == a :> step @@ b :> step @@ e :> step @@ c :> other @@ d :> other

\* A tenant of twice the weight with a backlog, and one that comes late.
Lopsided == <<tenant(1, 2, 0), tenant(1, 1, 0)>>
Backlog == z :> request(2, "none", 1) @@ [x \in {a, b, c, d, e, f} |-> other]
Alike == Permutations({a, b, c, d, e, f})
=============================================================================
