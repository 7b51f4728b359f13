------------------------------ MODULE Apportion ------------------------------
(***************************************************************************)
(* weighted_caps: integer shares of a number of slots by weight, largest   *)
(* remainder first.  The code breaks ties by the order of a hash map, so   *)
(* the result is the set of splits it may return.                          *)
(***************************************************************************)
EXTENDS Integers, FiniteSetsExt, Sums

\* What f gives to its items together, each item a number above zero.
Total(f) ==
  LET n == Max({0} \union DOMAIN f)
  IN  Sum([i \in 1..n |-> IF i \in DOMAIN f THEN f[i] ELSE 0], n)

item_weight(w, i) == Max({1, w[i]})
total_weight(w) == Total([i \in DOMAIN w |-> item_weight(w, i)])

\* Each item's whole share; at least one where there is a slot for each.
whole_share(max, w, i) ==
  (max * item_weight(w, i)) \div total_weight(w)
floor_share_only(max, w, i) == whole_share(max, w, i)
floor_share(max, w, i) ==
  LET share == whole_share(max, w, i)
  IN  IF max >= Cardinality(DOMAIN w) THEN Max({1, share}) ELSE share

\* What the whole share leaves over, in units of 1 / total weight.
remainder(max, w, i) ==
  (max * item_weight(w, i)) % total_weight(w)

\* The items that pay for a raise to one: the largest share above one, of these
\* the smallest remainder.
payers(max, w, alloc) ==
  {i \in DOMAIN w :
     /\ alloc[i] > 1
     /\ \A j \in DOMAIN w :
          alloc[j] > 1 =>
            \/ alloc[j] < alloc[i]
            \/ alloc[j] = alloc[i] /\ remainder(max, w, j) >= remainder(max, w, i)}

weighted_caps(max, w) ==
  LET alloc == [i \in DOMAIN w |-> floor_share(max, w, i)]
      used  == Total(alloc)
      paid[n \in 0..used] ==
        IF n = 0 THEN {alloc}
        ELSE UNION {{[a EXCEPT ![i] = @ - 1] : i \in payers(max, w, a)} : a \in paid[n - 1]}
  IN  IF max = 0 \/ DOMAIN w = {} THEN {[i \in {} |-> 0]}
      ELSE IF used > max THEN paid[used - max]
      ELSE {[i \in DOMAIN w |-> IF i \in S THEN alloc[i] + 1 ELSE alloc[i]] :
              S \in {S \in kSubset(max - used, DOMAIN w) :
                       \A i \in S, j \in DOMAIN w \ S :
                         remainder(max, w, i) >= remainder(max, w, j)}}
-----------------------------------------------------------------------------
\* A split gives out every slot and none twice, leaves nobody without one where
\* there is a slot for each, puts nobody a slot or more above its exact share, and
\* nobody below a lighter one.  The last two spare the items raised to one slot:
\* their remainder still counts, so such an item can end with two slots beside
\* heavier ones with one (weights 1, 2, 2 and four slots).  And an item that pays
\* for the raises can end one slot below a lighter one, never two: of the largest
\* the smallest remainder pays, whatever the item has paid before (weights 90, 87,
\* 1, 1, 1 and six slots, where 90 is left one slot and 87 two).
Splits(max, w) ==
  \A caps \in weighted_caps(max, w) :
    LET raised == {i \in DOMAIN w : whole_share(max, w, i) = 0}
        short == IF Total([i \in DOMAIN w |-> floor_share(max, w, i)]) > max THEN 1 ELSE 0
    IN  /\ Total(caps) = max
        /\ max >= Cardinality(DOMAIN w) => \A i \in DOMAIN w : caps[i] >= 1
        /\ \A i \in DOMAIN w \ raised :
             (caps[i] - 1) * total_weight(w) < max * item_weight(w, i)
        /\ \A i \in DOMAIN w, j \in DOMAIN w \ raised :
             item_weight(w, i) > item_weight(w, j) => caps[i] >= caps[j] - short
=============================================================================
