---------------------------- MODULE MCTokenBudget ----------------------------
(* TokenBudget with small caps and a few requests.                         *)
EXTENDS TokenBudget

CapOfThree == [key |-> 2, tenant |-> 3]

\* Requests differ in nothing but their names: with no name used twice, it is
\* enough to look at the behaviours in which they arrive in the order of these.
ArriveInOrder ==
  \A r \in 2..NRequests : req[r].stage # "idle" => req[r - 1].stage # "idle"
=============================================================================
