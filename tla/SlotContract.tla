----------------------------- MODULE SlotContract ----------------------------
(***************************************************************************)
(* The slot ledger as a specification of its own: what each call of a      *)
(* replica does to one pool, given the answer the caller gets.  A step     *)
(* records the call it was, so that a claim can only pass for a claim and  *)
(* a reconcile for a reconcile.  SlotRefinement shows that the Redis       *)
(* scripts implement it.                                                   *)
(***************************************************************************)
EXTENDS SlotLedger

VARIABLES
  overdue,     \* the parked slots whose time has run out
  call         \* the last call and its answer, and whether calls so far are odd

cvars == <<lvars, overdue, call>>

NoCall == [of |-> <<>>, odd |-> FALSE]

\* The oddness changes with every call: none of them passes for no call.
Called(c) == call' = [of |-> c, odd |-> ~call.odd]

ContractInit ==
  /\ LedgerInit
  /\ overdue = 0
  /\ call = NoCall

\* What stays parked once the slots that ran out are freed.
Kept == parked - overdue
-----------------------------------------------------------------------------
(* The calls about this pool.                                              *)

HeartbeatCall(r) ==
  /\ Called(<<r, "heartbeat">>)
  /\ Heartbeat(r, Kept)
  /\ overdue' = 0

DeregisterCall(r) ==
  /\ Called(<<r, "deregister">>)
  /\ Deregister(r)
  /\ UNCHANGED overdue

\* What a claim leaves parked before it is decided: a starving one has every
\* slot given up but the one it came for.
LeftParked(starve, answer) ==
  IF ~starve THEN Kept ELSE IF answer = "Redeemed" THEN 1 ELSE 0

\* A claim with the pool's size cap.  It is granted only below the cap, told
\* that the pool is full only at the cap, and told of another limit only when
\* the pool had room; one of an unknown replica does nothing.
AcquireCall(r, cap, starve, answer) ==
  LET k    == LeftParked(starve, answer)
      room == Sum(recorded, NReplicas) + k < cap
  IN  /\ Called(<<r, "acquire", cap, starve, answer>>)
      /\ \/ /\ answer = "NotRegistered"
            /\ ~Live(r)
            /\ UNCHANGED <<lvars, overdue>>
         \/ /\ Live(r)
            /\ overdue' = 0
            /\ \/ answer = "Granted" /\ room /\ Grant(r, k)
               \/ answer = "Redeemed" /\ Redeem(r, k)
               \/ answer = "NotHeld" /\ Purge(k)
               \/ answer = "Pool" /\ ~room /\ Purge(k)
               \/ answer \in {"Global", "Tenant", "Key"} /\ room /\ Purge(k)

Answers == {"NotRegistered", "Granted", "Redeemed", "NotHeld", "Pool", "Global", "Tenant", "Key"}

ReleaseCall(r) ==
  /\ Called(<<r, "release">>)
  /\ Release(r, parked)
  /\ UNCHANGED overdue

\* The end of a session's step: the slot is parked or released.
HoldCall(r, keep) ==
  /\ Called(<<r, "hold", keep>>)
  /\ IF keep THEN Park(r, Kept) ELSE Release(r, Kept)
  /\ overdue' = 0

\* A report of n slots, taken from a registered replica only.
ReconcileCall(r, n) ==
  /\ Called(<<r, "reconcile", n>>)
  /\ Reconcile(r, n)
  /\ UNCHANGED overdue

ReconcileRefused(r) ==
  /\ ~Live(r)
  /\ Called(<<r, "reconcile refused">>)
  /\ UNCHANGED <<lvars, overdue>>

\* A call about another pool frees what ran out here, or does nothing here.
CallElsewhere(r) ==
  /\ Called(<<r, "elsewhere">>)
  /\ \/ Purge(Kept) /\ overdue' = 0
     \/ UNCHANGED <<lvars, overdue>>
-----------------------------------------------------------------------------
(* Time passes.                                                            *)

ReplicaLapses(r) ==
  /\ HeartbeatLapses(r)
  /\ UNCHANGED <<overdue, call>>

ParkedRunsOut ==
  /\ overdue < parked
  /\ overdue' = overdue + 1
  /\ UNCHANGED <<lvars, call>>
-----------------------------------------------------------------------------
ContractNext ==
  \/ \E r \in Replica :
       \/ HeartbeatCall(r) \/ DeregisterCall(r) \/ ReleaseCall(r)
       \/ \E cap \in 1..Cap, starve \in BOOLEAN, answer \in Answers :
            AcquireCall(r, cap, starve, answer)
       \/ \E keep \in BOOLEAN : HoldCall(r, keep)
       \/ recorded'[r] \in Nat /\ ReconcileCall(r, recorded'[r])
       \/ ReconcileRefused(r)
       \/ CallElsewhere(r)
       \/ ReplicaLapses(r)
  \/ ParkedRunsOut

ContractSpec == ContractInit /\ [][ContractNext]_cvars
=============================================================================
