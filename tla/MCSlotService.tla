---------------------------- MODULE MCSlotService ----------------------------
(* A small instance of SlotService.                                        *)
EXTENDS SlotService

\* One key whose two sessions may have slots of the pool held.  A claim carries
\* either the pool's cap alone or a ceiling, a tenant and a key cap of one, so that
\* each of the four refuses.
OneKey == << [pool |-> "m", tenant |-> "t", key |-> "k"] >>
OneKeyCaps == {[pool |-> 2, global |-> 9, tenant |-> 0, key |-> 0],
               [pool |-> 2, global |-> 1, tenant |-> 1, key |-> 1]}
TwoSessions == [h \in HoldId |-> 1]
=============================================================================
