--------------------------- MODULE MCUpdateService ---------------------------
(* Instances of UpdateService for TLC.                                      *)
EXTENDS UpdateService, TLC

CONSTANTS a1, a2, a3, i1, i2, i3, j1, j2, j3

Ids    == {a1, a2}
Refs   == {i1, i2}
IdOf   == i1 :> a1 @@ i2 :> a2

(* Each adapter once.                                                       *)
TwoJobs      == {j1, j2}
Once         == j1 :> i1 @@ j2 :> i2

(* The same with a third adapter.                                           *)
Ids3         == Ids \cup {a3}
Refs3        == Refs \cup {i3}
IdOf3        == IdOf @@ i3 :> a3
ThreeJobs    == TwoJobs \cup {j3}
Once3        == Once @@ j3 :> i3

(* One adapter, twice.                                                      *)
OnlyId       == i1 :> a1
Twice        == j1 :> i1 @@ j2 :> i1
==============================================================================
