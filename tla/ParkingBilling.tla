--------------------------- MODULE ParkingBilling ---------------------------
(***************************************************************************)
(* What the vehicle side of the parking chain promises about the           *)
(* operator's books, and no more: sessions are opened one at a time, a new *)
(* one only while the vehicle keeps track of none, and the vehicle closes  *)
(* only the session it tracks.  It can lose track of a session it opened   *)
(* - the lost answer, the crash - but every such loss is a disruption that *)
(* is counted, so the books never show more sessions than disruptions      *)
(* explain.  ParkingAdaptor is shown to implement this.                    *)
(***************************************************************************)
EXTENDS Naturals, FiniteSets

VARIABLES
  opened,       \* number of sessions ever opened
  active,       \* the sessions the operator charges for
  tracked,      \* the one of them the vehicle can still stop, or Untracked
  disruptions   \* how many disruptions have occurred

billingVars == <<opened, active, tracked, disruptions>>

Untracked == 0

Init ==
  /\ opened = 0
  /\ active = {}
  /\ tracked = Untracked
  /\ disruptions = 0

Open ==
  /\ tracked = Untracked
  /\ opened' = opened + 1
  /\ active' = active \cup {opened'}
  /\ tracked' = opened'
  /\ UNCHANGED disruptions

Close ==
  /\ tracked # Untracked
  /\ active' = active \ {tracked}
  /\ tracked' = Untracked
  /\ UNCHANGED <<opened, disruptions>>

Disrupt ==
  /\ disruptions' = disruptions + 1
  /\ tracked' \in {tracked, Untracked}
  /\ UNCHANGED <<opened, active>>

(* The operator loses its books. *)
Wipe ==
  /\ active' = {}
  /\ tracked' = Untracked
  /\ UNCHANGED <<opened, disruptions>>

Next == Open \/ Close \/ Disrupt \/ Wipe

Spec == Init /\ [][Next]_billingVars

-----------------------------------------------------------------------------
(* The sessions that run up a bill nobody in the vehicle can stop. *)
Orphans == active \ {tracked}

TypeOK ==
  /\ opened \in Nat
  /\ active \in SUBSET (1..opened)
  /\ tracked \in active \cup {Untracked}
  /\ disruptions \in Nat

(* Every orphaned session is explained by a disruption of its own.         *)
OrphansExplained == Cardinality(Orphans) <= disruptions
=============================================================================
