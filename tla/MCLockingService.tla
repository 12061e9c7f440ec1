------------------------- MODULE MCLockingService -------------------------
(* Small instances of LockingService for TLC.                              *)
EXTENDS LockingService, TLC

Quiet == [h \in Happenings |-> 0]

(* Everything goes wrong at least once; the stream ends often enough to    *)
(* use up the attempts to resubscribe.                                     *)
BudgetFaults == [Quiet EXCEPT !["command"] = 2, !["sensor"] = 1,
                   !["read"] = 1, !["respond"] = 1, !["state"] = 1,
                   !["streamEnd"] = 2, !["crash"] = 1, !["shutdown"] = 1]

=============================================================================
