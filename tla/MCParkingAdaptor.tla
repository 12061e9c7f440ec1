-------------------------- MODULE MCParkingAdaptor --------------------------
(* Small instances of ParkingAdaptor for TLC. *)
EXTENDS ParkingAdaptor, TLC

CONSTANTS c1, c2

None0 == [h \in Happenings |-> 0]

(* Everything may go wrong once, a caller may hang up; the operator's      *)
(* books survive.                                                          *)
BudgetFaults == [None0 EXCEPT !["lock"] = 1, !["refused"] = 1, !["lost"] = 1,
                   !["garbled"] = 1, !["publish"] = 1, !["crash"] = 1,
                   !["shutdown"] = 1, !["cancel"] = 1, !["streamEnd"] = 1]

(* Callers race each other and the lock signal, over a full channel and    *)
(* into a shutdown; one request fails; the operator may forget its         *)
(* sessions.                                                               *)
BudgetRaces == [None0 EXCEPT !["lock"] = 1, !["refused"] = 1,
                  !["shutdown"] = 1, !["operatorRestart"] = 1]

(* The vehicle is locked and unlocked, and nothing goes wrong.             *)
BudgetLocks == [None0 EXCEPT !["lock"] = 3]

=============================================================================
