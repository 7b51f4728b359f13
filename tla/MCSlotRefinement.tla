--------------------------- MODULE MCSlotRefinement --------------------------
(* One pool and a session.                                                 *)
EXTENDS SlotRefinement

OnePool == << [pool |-> "m", tenant |-> "t", key |-> "k"] >>
OneSlot == {[pool |-> 1, global |-> 2, tenant |-> 0, key |-> 0]}
FirstSlot == [h \in HoldId |-> 1]
=============================================================================
