---------------------------- MODULE CloudGateway ----------------------------
(***************************************************************************)
(* The CLOUD_GATEWAY (backend/cloud-gateway): handlers publish commands to *)
(* NATS and start a timer for each, a NATS subscription stores the answers *)
(* of vehicles, and timers store a timeout; the store's mutex makes each   *)
(* of its operations one step.  NATS and the vehicles are modelled as far  *)
(* as the gateway sees them.                                               *)
(*                                                                         *)
(* A timer is named after the request that started it.  Ids may be used by *)
(* several requests: an app that got no reply posts its command again.     *)
(***************************************************************************)
EXTENDS Naturals, Sequences

CONSTANTS
  Ids,       \* command ids
  Requests,  \* POST requests that submit a command
  IdOf,      \* the command_id in the body of each request
  Valid,     \* requests that pass the middleware and the validation
  NoTimer,   \* stands for a missing entry of s.timers
  MaxRetries,\* attempts to connect (5 in main)
  Budget     \* how often each environment event happens at most

(* What the environment does a bounded number of times.                    *)
Happenings == {"answer", "lost", "crash", "shutdown"}

ASSUME IdOfAssumption   == IdOf \in [Requests -> Ids]
ASSUME ValidAssumption  == Valid \subseteq Requests
ASSUME BudgetAssumption == Budget \in [Happenings -> Nat]
ASSUME NoTimerAssumption == NoTimer \notin Requests
ASSUME MaxRetriesAssumption == MaxRetries \in Nat \ {0}

VARIABLES
  phase,      \* see Phases
  attempt,    \* failed attempts to connect to NATS
  posts,      \* how far each request is: see Stages
  responses,  \* s.responses, "none" where there is no entry
  timers,     \* s.timers, NoTimer where there is no entry
  alarms,     \* the runtime's timers: see Alarms
  inbox,      \* answers on their way to the subscription's callback
  commands,   \* the requests whose command was ever published
  count       \* how often each happening has occurred

vars == <<phase, attempt, posts, responses, timers, alarms, inbox, commands, count>>

-----------------------------------------------------------------------------
(* "connecting": before the HTTP server starts; "draining": after a signal.*)
Phases == {"down", "connecting", "serving", "draining"}

(* "published": between PublishCommand and StartTimeout; "accepted": 202;  *)
(* "refused": 400, 401, 403 or 500; "gone": of an earlier process.         *)
Stages == {"new", "published", "accepted", "refused", "gone"}

(* "due": the timer has fired and its function waits for the mutex, out of *)
(* the reach of Stop; "over": stopped, or its function has run.            *)
Alarms == {"unset", "armed", "due", "over"}

Answers == {"success", "failed"}

Statuses == {"none", "timeout"} \cup Answers

Messages == [id : Ids, status : Answers]

Sent == {IdOf[r] : r \in commands}

TypeOK ==
  /\ phase \in Phases
  /\ attempt \in 0 .. MaxRetries
  /\ phase = "connecting" => attempt < MaxRetries
  /\ posts \in [Requests -> Stages]
  /\ responses \in [Ids -> Statuses]
  /\ timers \in [Ids -> Requests \cup {NoTimer}]
  /\ alarms \in [Requests -> Alarms]
  /\ inbox \in Seq(Messages)
  /\ commands \subseteq Requests
  /\ count \in [Happenings -> Nat]

Init ==
  /\ phase = "down"
  /\ attempt = 0
  /\ posts = [r \in Requests |-> "new"]
  /\ responses = [id \in Ids |-> "none"]
  /\ timers = [id \in Ids |-> NoTimer]
  /\ alarms = [r \in Requests |-> "unset"]
  /\ inbox = <<>>
  /\ commands = {}
  /\ count = [h \in Happenings |-> 0]

Happens(h) ==
  /\ count[h] < Budget[h]
  /\ count' = [count EXCEPT ![h] = @ + 1]

-----------------------------------------------------------------------------
(* Handlers, timers and the subscription's callback run.                  *)
Up == phase \in {"serving", "draining"}

Untouched == UNCHANGED <<posts, responses, timers, alarms, inbox, commands, count>>

(* main reads its configuration; the environment starts it when it is down.*)
Start ==
  /\ phase = "down"
  /\ phase' = "connecting"
  /\ attempt' = 0
  /\ Untouched

(* Connect succeeds, both subscriptions are made, the HTTP server starts.  *)
Serve ==
  /\ phase = "connecting"
  /\ phase' = "serving"
  /\ UNCHANGED attempt
  /\ Untouched

(* An attempt to connect fails; the last one ends the process.             *)
ConnectFails ==
  /\ phase = "connecting"
  /\ attempt' = attempt + 1
  /\ phase' = IF attempt' = MaxRetries THEN "down" ELSE "connecting"
  /\ Untouched

(* A subscription cannot be made or the HTTP server has no port.           *)
StartFails ==
  /\ phase = "connecting"
  /\ phase' = "down"
  /\ UNCHANGED attempt
  /\ Untouched

(* SIGTERM or SIGINT: Drain and then srv.Shutdown.                         *)
ShutdownSignal ==
  /\ phase = "serving"
  /\ Happens("shutdown")
  /\ phase' = "draining"
  /\ UNCHANGED <<attempt, posts, responses, timers, alarms, inbox, commands>>

(* The process ends: handlers, store, timers and subscription are gone.    *)
Terminate ==
  /\ phase' = "down"
  /\ posts' = [r \in Requests |->
                 IF posts[r] \in {"published", "accepted"} THEN "gone" ELSE posts[r]]
  /\ responses' = [id \in Ids |-> "none"]
  /\ timers' = [id \in Ids |-> NoTimer]
  /\ alarms' = [r \in Requests |-> IF alarms[r] = "unset" THEN "unset" ELSE "over"]
  /\ inbox' = <<>>
  /\ UNCHANGED <<attempt, commands>>

(* Shutdown has waited for the handlers, or for its five seconds.          *)
Exit == phase = "draining" /\ Terminate /\ UNCHANGED count

Crash == Up /\ Happens("crash") /\ Terminate

-----------------------------------------------------------------------------
(* Middleware or validation turns the request down; nothing is touched.    *)
Reject(r) ==
  /\ Up
  /\ posts[r] = "new" /\ r \notin Valid
  /\ posts' = [posts EXCEPT ![r] = "refused"]
  /\ UNCHANGED <<phase, attempt, responses, timers, alarms, inbox, commands, count>>

(* Mutant: the error of PublishMsg is ignored.                             *)
Publish_Ignored(r) ==
  /\ Up
  /\ posts[r] = "new" /\ r \in Valid
  /\ posts' = [posts EXCEPT ![r] = "published"]
  /\ \/ commands' = commands \cup {r}
     \/ UNCHANGED commands
  /\ UNCHANGED <<phase, attempt, responses, timers, alarms, inbox, count>>

(* PublishCommand; it fails on a connection that is closing or whose       *)
(* buffer for the time without a server is full.                           *)
Publish(r) ==
  /\ Up
  /\ posts[r] = "new" /\ r \in Valid
  /\ \/ /\ posts' = [posts EXCEPT ![r] = "published"]
        /\ commands' = commands \cup {r}
     \/ /\ posts' = [posts EXCEPT ![r] = "refused"]
        /\ UNCHANGED commands
  /\ UNCHANGED <<phase, attempt, responses, timers, alarms, inbox, count>>

(* Mutant: a timer is made whose channel nobody reads.                     *)
StartTimeout_Unheard(r) ==
  /\ posts[r] = "published"
  /\ posts' = [posts EXCEPT ![r] = "accepted"]
  /\ timers' = [timers EXCEPT ![IdOf[r]] = r]
  /\ UNCHANGED <<phase, attempt, responses, alarms, inbox, commands, count>>

(* Mutant: the timer that has the id's entry is stopped and replaced.      *)
StartTimeout_Replaces(r) ==
  /\ posts[r] = "published"
  /\ posts' = [posts EXCEPT ![r] = "accepted"]
  /\ timers' = [timers EXCEPT ![IdOf[r]] = r]
  /\ alarms' = [q \in Requests |-> IF q = r THEN "armed"
                                   ELSE IF q = timers[IdOf[r]] THEN "over" ELSE alarms[q]]
  /\ UNCHANGED <<phase, attempt, responses, inbox, commands, count>>

(* StartTimeout and the reply 202.                                         *)
StartTimeout(r) ==
  /\ posts[r] = "published"
  /\ posts' = [posts EXCEPT ![r] = "accepted"]
  /\ timers' = [timers EXCEPT ![IdOf[r]] = r]
  /\ alarms' = [alarms EXCEPT ![r] = "armed"]
  /\ UNCHANGED <<phase, attempt, responses, inbox, commands, count>>

-----------------------------------------------------------------------------
(* The duration is over: the runtime starts the timer's function.          *)
Expire(r) ==
  /\ alarms[r] = "armed"
  /\ alarms' = [alarms EXCEPT ![r] = "due"]
  /\ UNCHANGED <<phase, attempt, posts, responses, timers, inbox, commands, count>>

(* Mutant: Stop is trusted to keep the function from running.              *)
TimeoutFires_Unchecked(r) ==
  /\ alarms[r] = "due"
  /\ alarms' = [alarms EXCEPT ![r] = "over"]
  /\ responses' = [responses EXCEPT ![IdOf[r]] = "timeout"]
  /\ timers' = [timers EXCEPT ![IdOf[r]] = NoTimer]
  /\ UNCHANGED <<phase, attempt, posts, inbox, commands, count>>

(* Mutant: the entry of a timer that has fired stays.                      *)
TimeoutFires_Kept(r) ==
  /\ alarms[r] = "due"
  /\ alarms' = [alarms EXCEPT ![r] = "over"]
  /\ responses' = [responses EXCEPT ![IdOf[r]] = IF @ = "none" THEN "timeout" ELSE @]
  /\ UNCHANGED <<phase, attempt, posts, timers, inbox, commands, count>>

(* The function given to AfterFunc; it deletes the entry of its id, which  *)
(* may be a later timer's.                                                 *)
TimeoutFires(r) ==
  /\ alarms[r] = "due"
  /\ alarms' = [alarms EXCEPT ![r] = "over"]
  /\ responses' = [responses EXCEPT ![IdOf[r]] = IF @ = "none" THEN "timeout" ELSE @]
  /\ timers' = [timers EXCEPT ![IdOf[r]] = NoTimer]
  /\ UNCHANGED <<phase, attempt, posts, inbox, commands, count>>

(* timer.Stop() prevents the function only of a timer that has not fired.  *)
Stopped(t) ==
  [r \in Requests |-> IF r = t /\ alarms[r] = "armed" THEN "over" ELSE alarms[r]]

(* The callback of the subscription stores an answer, and any later one.   *)
StoreResponse ==
  LET answer == Head(inbox) IN
  /\ Up /\ inbox # <<>>
  /\ inbox' = Tail(inbox)
  /\ responses' = [responses EXCEPT ![answer.id] = answer.status]
  /\ alarms' = Stopped(timers[answer.id])
  /\ timers' = [timers EXCEPT ![answer.id] = NoTimer]
  /\ UNCHANGED <<phase, attempt, posts, commands, count>>

-----------------------------------------------------------------------------
(* A vehicle answers a command it was sent, possibly again, possibly late; *)
(* NATS delivers at most once, and to nobody while there is no subscriber. *)
VehicleAnswers(id, status) ==
  /\ id \in Sent
  /\ Up
  /\ Happens("answer")
  /\ inbox' = Append(inbox, [id |-> id, status |-> status])
  /\ UNCHANGED <<phase, attempt, posts, responses, timers, alarms, commands>>

(* A broken connection: what was on its way does not arrive.               *)
Lose ==
  /\ inbox # <<>>
  /\ Happens("lost")
  /\ inbox' = Tail(inbox)
  /\ UNCHANGED <<phase, attempt, posts, responses, timers, alarms, commands>>

-----------------------------------------------------------------------------
Next ==
  \/ Start \/ Serve \/ StartFails \/ ConnectFails
  \/ ShutdownSignal \/ Exit \/ Crash
  \/ \E r \in Requests : \/ Reject(r) \/ Publish(r) \/ StartTimeout(r)
                         \/ Expire(r) \/ TimeoutFires(r)
  \/ StoreResponse
  \/ \E id \in Ids, status \in Answers : VehicleAnswers(id, status)
  \/ Lose

Spec == Init /\ [][Next]_vars

(* Goroutines that can run do run, timers expire, the subscription's       *)
(* callback is called, and Shutdown waits five seconds at most.            *)
FairSpec ==
  /\ Spec
  /\ WF_vars(StoreResponse) /\ WF_vars(Exit)
  /\ WF_vars(Serve \/ StartFails \/ ConnectFails)
  /\ \A r \in Requests : /\ WF_vars(StartTimeout(r))
                         /\ WF_vars(Expire(r))
                         /\ WF_vars(TimeoutFires(r))

-----------------------------------------------------------------------------
(* A timer that fires while an answer is being stored, or is started after *)
(* the answer has come, does not overwrite the answer (06 design, Property *)
(* 6), with reused ids and repeated answers too.                           *)
AnswerStands ==
  [][\A id \in Ids : responses[id] \in Answers /\ phase' # "down"
                       => responses'[id] \in Answers]_vars

(* The store keeps entries only of timers that are still to fire: neither  *)
(* an answer nor a later timer of the same id leaves one behind.           *)
TimersAreLive ==
  \A id \in Ids : timers[id] # NoTimer =>
    /\ IdOf[timers[id]] = id
    /\ alarms[timers[id]] \in {"armed", "due"}

(* Every accepted submission without an outcome has a timer of its own     *)
(* that will run, also when another submission of its id replaced the      *)
(* entry in the store.                                                     *)
UndecidedIsTimed ==
  \A r \in Requests : posts[r] = "accepted" =>
    responses[IdOf[r]] # "none" \/ alarms[r] \in {"armed", "due"}

(* 06-REQ-1.3, Property 3: whatever is lost, an accepted command comes to  *)
(* have an outcome, unless the service is stopped first.                   *)
SubmissionDecided ==
  \A r \in Requests : posts[r] = "accepted" ~>
    responses[IdOf[r]] # "none" \/ posts[r] = "gone"

(* The outcomes are those of CommandLedger.                                *)
Ledger == INSTANCE CommandLedger WITH
  sent <- Sent,
  promised <- {IdOf[r] : r \in {q \in Requests : posts[q] = "accepted"}},
  outcome <- responses

ImplementsLedger == Ledger!Spec
=============================================================================
