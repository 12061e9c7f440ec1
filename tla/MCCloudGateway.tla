-------------------------- MODULE MCCloudGateway --------------------------
(* Small instances of CloudGateway for TLC.                                *)
EXTENDS CloudGateway, TLC

CONSTANTS c1, c2, r1, r2, r3

(* r1 and r2 submit the same command, r3 an invalid one.                   *)
IdOfRequests == r1 :> c1 @@ r2 :> c1 @@ r3 :> c2

BudgetFaults == [answer |-> 3, lost |-> 1, crash |-> 1, shutdown |-> 1]
=============================================================================
