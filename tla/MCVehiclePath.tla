--------------------------- MODULE MCVehiclePath ---------------------------
(* Small instance of VehiclePath for TLC.                                  *)
EXTENDS VehiclePath, TLC

Message(kind) ==
  [token |-> TRUE, keys |-> {"command_id", "action", "doors"}, kind |-> kind]

TestMessages == {Message(k) : k \in {"lock", "unlock", "emptyId"}}

BudgetLocking == [h \in Happenings |-> IF h \in {"command", "streamEnd"} THEN 2 ELSE 1]

LimitsClient ==
  "message" :> 2 @@ "refused" :> 2 @@ "startup" :> 1 @@ "publish" :> 1
    @@ "write" :> 1 @@ "streamEnd" :> 1 @@ "crash" :> 1 @@ "active" :> 1
=============================================================================
