-------------------------------- MODULE Sums --------------------------------
(***************************************************************************)
(* Sums of integer-valued functions over 1..n.  Written as a recursive     *)
(* function (not a fold over a set) so that TLC evaluates it and TLAPS can *)
(* reason about it: SumsProofs shows that it is well defined, additive,    *)
(* monotone and what a change at one index does to it.                     *)
(***************************************************************************)
EXTENDS Integers

\* The sums g[1] + ... + g[i] for every i in 0..n.
PartialSums(g, n) ==
  LET P[i \in 0..n] == IF i = 0 THEN 0 ELSE P[i-1] + g[i]
  IN  P

\* g[1] + ... + g[n].
Sum(g, n) == PartialSums(g, n)[n]

=============================================================================
