--------------------------- MODULE MCCommandPath ---------------------------
(* Small instance of CommandPath for TLC.                                  *)
EXTENDS CommandPath, TLC

CONSTANTS c1, c2, r1, r2

IdOfRequests == r1 :> c1 @@ r2 :> c2

KindOfRequests == r1 :> "lock" @@ r2 :> "unlock"

NoFaults == [h \in Happenings |-> 0]

LimitsClient ==
  [m \in {"message", "refused", "startup", "publish", "write", "streamEnd",
          "crash", "active"} |-> IF m = "message" THEN 2 ELSE 0]
=============================================================================
