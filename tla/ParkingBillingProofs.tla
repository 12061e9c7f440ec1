------------------------ MODULE ParkingBillingProofs ------------------------
(* ParkingBilling keeps its books straight, for any number of sessions.    *)
EXTENDS ParkingBilling, FiniteSetTheorems, TLAPS

(* Cardinality is not inductive by itself: the step that closes or loses a *)
(* session needs to know that the tracked one is on the books, and every   *)
(* step that the books are finite.                                         *)
BillingInv == TypeOK /\ IsFiniteSet(active) /\ OrphansExplained

(* Losing track of the tracked session adds at most it to the orphans.     *)
LEMMA OneMoreOrphan ==
  ASSUME NEW S, NEW t, IsFiniteSet(S)
  PROVE  /\ IsFiniteSet(S \ {t})
         /\ Cardinality(S) <= Cardinality(S \ {t}) + 1
<1>1. IsFiniteSet(S \ {t})
  BY FS_Difference
<1>2. CASE t \in S
  BY <1>1, <1>2, FS_RemoveElement, FS_CardinalityType
<1>3. CASE t \notin S
  <2>1. S \ {t} = S
    BY <1>3
  <2>2. Cardinality(S) \in Nat
    BY FS_CardinalityType
  <2> QED
    BY <2>1, <2>2, <1>1
<1> QED
  BY <1>1, <1>2, <1>3

(* The invariant holds initially: the books are empty.                     *)
LEMMA BillingInit == Init => BillingInv
<1> SUFFICES ASSUME Init PROVE BillingInv
  OBVIOUS
<1>1. TypeOK
  BY DEF Init, TypeOK, Untracked
<1>2. IsFiniteSet(active) /\ Orphans = {}
  BY FS_EmptySet DEF Init, Orphans
<1> QED
  BY <1>1, <1>2, FS_EmptySet DEF Init, BillingInv, OrphansExplained

(* Each step of the promise keeps the books explained.                     *)
LEMMA BillingStep == BillingInv /\ [Next]_billingVars => BillingInv'
<1> SUFFICES ASSUME BillingInv, [Next]_billingVars PROVE BillingInv'
  OBVIOUS
<1> USE DEF BillingInv, TypeOK, OrphansExplained, Orphans, Untracked
<1>0. /\ IsFiniteSet(Orphans)
      /\ Cardinality(Orphans) \in Nat
      /\ Cardinality(Orphans) <= disruptions
  BY OneMoreOrphan, FS_CardinalityType
<1>1. CASE Open
  <2>1. TypeOK'
    BY <1>1 DEF Open
  <2>2. IsFiniteSet(active')
    BY <1>1, FS_AddElement DEF Open
  <2>3. Orphans' = active /\ Orphans = active
    BY <1>1 DEF Open
  <2> QED
    BY <1>0, <1>1, <2>1, <2>2, <2>3 DEF Open
<1>2. CASE Close
  <2>1. TypeOK'
    BY <1>2 DEF Close
  <2>2. IsFiniteSet(active')
    BY <1>0, <1>2 DEF Close
  <2>3. Orphans' = Orphans
    BY <1>2 DEF Close
  <2> QED
    BY <1>0, <1>2, <2>1, <2>2, <2>3 DEF Close
<1>3. CASE Disrupt
  <2>1. TypeOK'
    BY <1>3 DEF Disrupt
  <2>2. Orphans' \in {Orphans, active}
    BY <1>3 DEF Disrupt
  <2>3. Cardinality(active) \in Nat /\ Cardinality(active) <= Cardinality(Orphans) + 1
    BY OneMoreOrphan, FS_CardinalityType
  <2>4. Cardinality(Orphans') \in Nat /\ Cardinality(Orphans') <= Cardinality(Orphans) + 1
    <3> HIDE DEF Orphans
    <3> QED
      BY <1>0, <2>2, <2>3
  <2>5. Cardinality(Orphans') <= disruptions'
    <3> HIDE DEF Orphans
    <3> QED
      BY <1>0, <1>3, <2>4 DEF Disrupt
  <2> QED
    BY <1>3, <2>1, <2>5 DEF Disrupt
<1>4. CASE Wipe
  <2>1. Orphans' = {}
    BY <1>4 DEF Wipe
  <2> QED
    BY <1>4, <2>1, FS_EmptySet DEF Wipe
<1>5. CASE UNCHANGED billingVars
  BY <1>5 DEF billingVars
<1> QED
  BY <1>1, <1>2, <1>3, <1>4, <1>5 DEF Next

(* The promise itself: in every behaviour of ParkingBilling the sessions   *)
(* that run on untracked are at most as many as the disruptions so far.    *)
THEOREM BillingOrphansExplained == Spec => []OrphansExplained
<1>1. Init => BillingInv
  BY BillingInit
<1>2. BillingInv /\ [Next]_billingVars => BillingInv'
  BY BillingStep
<1>3. BillingInv => OrphansExplained
  BY DEF BillingInv
<1> QED
  BY <1>1, <1>2, <1>3, PTL DEF Spec
=============================================================================
