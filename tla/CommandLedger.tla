--------------------------- MODULE CommandLedger ---------------------------
(***************************************************************************)
(* What CLOUD_GATEWAY promises about the outcome of commands: a command    *)
(* that was sent has no outcome, then possibly "timeout", then possibly    *)
(* the vehicle's answer; an answer is never turned into a timeout.  The    *)
(* service may forget all outcomes at once (it keeps them in memory).      *)
(***************************************************************************)

CONSTANT Ids  \* command ids

VARIABLES
  sent,      \* ids of the commands that ever went out to a vehicle
  promised,  \* ids for which an outcome is due in this life of the service
  outcome    \* what a query of each id finds

vars == <<sent, promised, outcome>>

Answers == {"success", "failed"}

Forgotten == [id \in Ids |-> "none"]

Init ==
  /\ sent = {}
  /\ promised = {}
  /\ outcome = Forgotten

Send(id) ==
  /\ sent' = sent \cup {id}
  /\ UNCHANGED <<promised, outcome>>

Promise(id) ==
  /\ id \in sent
  /\ promised' = promised \cup {id}
  /\ UNCHANGED <<sent, outcome>>

TimeOut(id) ==
  /\ id \in promised
  /\ outcome[id] = "none"
  /\ outcome' = [outcome EXCEPT ![id] = "timeout"]
  /\ UNCHANGED <<sent, promised>>

Answer(id, answer) ==
  /\ id \in sent
  /\ outcome' = [outcome EXCEPT ![id] = answer]
  /\ UNCHANGED <<sent, promised>>

Forget ==
  /\ promised' = {}
  /\ outcome' = Forgotten
  /\ UNCHANGED sent

Next ==
  \/ \E id \in Ids : Send(id) \/ Promise(id) \/ TimeOut(id)
  \/ \E id \in Ids, answer \in Answers : Answer(id, answer)
  \/ Forget

Spec == Init /\ [][Next]_vars

(* An outcome has a reason: a timeout belongs to a promise, an answer to a *)
(* command that was sent.                                                  *)
OutcomesExplained ==
  \A id \in Ids : /\ outcome[id] = "timeout" => id \in promised
                  /\ outcome[id] \in Answers => id \in sent
=============================================================================
