---------------------------- MODULE MCSlotCluster ----------------------------
(* SlotCluster on fleets of two replicas.                                  *)
EXTENDS SlotCluster

Load(one, two) == [r \in Replica |-> IF r = 1 THEN one ELSE two]

\* Two replicas contend for the pool.
Contention == {[load |-> Load(1, 1), faults |-> 0]}

\* The same, and a busy replica beside one that only comes and goes, with a fault.
Recovery == Contention \union {[load |-> Load(1, 0), faults |-> 1]}

\* More than the pool at one replica, with a fault.
Overload == {[load |-> Load(2, 1), faults |-> 1]}
=============================================================================
