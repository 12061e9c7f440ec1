--------------------------- MODULE LockingService ---------------------------
(***************************************************************************)
(* The LOCKING_SERVICE (rhivos/locking-service): one task takes commands   *)
(* off its subscription of Vehicle.Command.Door.Lock, validates them,      *)
(* reads the vehicle's speed and door before it locks, publishes IsLocked  *)
(* and a response.  The broker, the sensors and the sender of commands are *)
(* modelled as far as the service sees them.                               *)
(*                                                                         *)
(* A command is named by its place in the order in which commands were     *)
(* published (its command_id, a uuid); 0 stands for an empty id.  A speed  *)
(* is "moving" from 1.0 km/h; a sensor without a value reads as safe, like *)
(* speed 0.0 and a closed door.                                            *)
(***************************************************************************)
EXTENDS Naturals, Sequences

CONSTANTS
  MaxResubscribes,  \* max_resubscribe_attempts in main.rs, 3
  Budget            \* how often each environment event happens at most

(* What the environment does a bounded number of times.                    *)
Happenings == {"command", "sensor", "read", "state", "respond",
               "streamEnd", "crash", "shutdown"}

ASSUME MaxResubscribesAssumption == MaxResubscribes \in Nat
ASSUME BudgetAssumption          == Budget \in [Happenings -> Nat]

VARIABLES
  phase,         \* where run() is: see Phases
  lockState,     \* lock_state, the lock as the service remembers it
  task,          \* what the service does for the command it took
  inbox,         \* commands on the stream and in the channel of 32
  subscribed,    \* the subscription stream is alive
  resubscribes,  \* resubscribe_count
  stopping,      \* SIGTERM or SIGINT has arrived
  broker,        \* the five signals in the DATA_BROKER
  lasting,       \* history: hazards present ever since the command was taken
  count          \* how often each happening has occurred

vars == <<phase, lockState, task, inbox, subscribed, resubscribes, stopping,
          broker, lasting, count>>

-----------------------------------------------------------------------------
(* "down": no process; "connected": IsLocked=false is not yet published;   *)
(* "announced": not yet subscribed.                                        *)
Phases == {"down", "connected", "announced", "running"}

(* Payloads by what parse_command and validate_command make of them:       *)
(* "otherDoor" asks for a door that is not the driver's; "incomplete" has  *)
(* an id but lacks another field; "emptyId" is complete but for its id;    *)
(* "garbage" is not JSON, or JSON without a usable id.                     *)
Kinds == {"lock", "unlock", "otherDoor", "incomplete", "emptyId", "garbage"}

Commands == [n : Nat \ {0}, kind : Kinds]

NoCommand == [n |-> 0, kind |-> "garbage"]

Reasons == {"none", "vehicle_moving", "door_open", "unsupported_door",
            "invalid_command"}

Responses == [n : Nat, reason : Reasons, status : {"none", "success", "failed"}]

NoResponse == [n |-> 0, reason |-> "none", status |-> "none"]

Success(c) == [n |-> c.n, reason |-> "none", status |-> "success"]

Failure(n, reason) == [n |-> n, reason |-> reason, status |-> "failed"]

(* "speed" and "door" are the reads of check_safety, "write" is set_bool,  *)
(* "respond" is set_string.                                                *)
Tasks == [pc : {"idle", "speed", "door", "write", "respond"},
          command : Commands \cup {NoCommand}, response : Responses]

Idle == [pc |-> "idle", command |-> NoCommand, response |-> NoResponse]

At(c, pc) == [pc |-> pc, command |-> c, response |-> NoResponse]

Responding(c, r) == [pc |-> "respond", command |-> c, response |-> r]

TypeOK ==
  /\ phase \in Phases
  /\ lockState \in BOOLEAN
  /\ task \in Tasks
  /\ inbox \in Seq(Commands)
  /\ subscribed \in BOOLEAN
  /\ resubscribes \in 0..MaxResubscribes
  /\ stopping \in BOOLEAN
  /\ broker \in [isLocked : BOOLEAN, command : Commands \cup {NoCommand},
                 response : Responses, moving : BOOLEAN, doorOpen : BOOLEAN]
  /\ lasting \in SUBSET {"vehicle_moving", "door_open"}
  /\ count \in [Happenings -> Nat]

(* No sensor has reported yet; IsLocked may be left from an earlier life.  *)
Init ==
  /\ phase = "down"
  /\ lockState = FALSE
  /\ task = Idle
  /\ inbox = <<>>
  /\ subscribed = FALSE
  /\ resubscribes = 0
  /\ stopping = FALSE
  /\ broker \in [isLocked : BOOLEAN, command : {NoCommand},
                 response : {NoResponse}, moving : {FALSE}, doorOpen : {FALSE}]
  /\ lasting = {}
  /\ count = [h \in Happenings |-> 0]

Note(h) == count' = [count EXCEPT ![h] = @ + 1]

Happens(h) == count[h] < Budget[h] /\ Note(h)

(* The hazards check_safety looks for, as the sensors report them now.     *)
Hazards == {h \in {"vehicle_moving", "door_open"} :
              IF h = "vehicle_moving" THEN broker.moving ELSE broker.doorOpen}

-----------------------------------------------------------------------------
Connect ==
  /\ phase = "down"
  /\ phase' = "connected"
  /\ UNCHANGED <<lockState, task, inbox, subscribed, resubscribes, stopping,
                 broker, lasting, count>>

(* Mutant: the lock state of an earlier process stays published.           *)
PublishInitial_Skipped ==
  /\ phase = "connected"
  /\ phase' = "announced"
  /\ UNCHANGED <<lockState, task, inbox, subscribed, resubscribes, stopping,
                 broker, lasting, count>>

PublishInitial ==
  /\ phase = "connected"
  /\ phase' = "announced"
  /\ broker' = [broker EXCEPT !.isLocked = FALSE]
  /\ UNCHANGED <<lockState, task, inbox, subscribed, resubscribes, stopping,
                 lasting, count>>

(* A new stream begins with the signal's current value, if it has one.     *)
NewStream ==
  /\ subscribed' = TRUE
  /\ inbox' = IF broker.command = NoCommand THEN <<>> ELSE <<broker.command>>

Subscribe ==
  /\ phase = "announced"
  /\ phase' = "running"
  /\ NewStream
  /\ UNCHANGED <<lockState, task, resubscribes, stopping, broker, lasting, count>>

(* recv() returned None: the stream is over and the channel is empty.      *)
StreamIsOver ==
  phase = "running" /\ task.pc = "idle" /\ ~subscribed /\ inbox = <<>>

Resubscribe ==
  /\ StreamIsOver
  /\ resubscribes < MaxResubscribes
  /\ resubscribes' = resubscribes + 1
  /\ NewStream
  /\ UNCHANGED <<phase, lockState, task, stopping, broker, lasting, count>>

(* The process ends and its memory is lost.                                *)
Terminate ==
  /\ phase' = "down"
  /\ lockState' = FALSE
  /\ task' = Idle
  /\ inbox' = <<>>
  /\ subscribed' = FALSE
  /\ resubscribes' = 0
  /\ stopping' = FALSE
  /\ lasting' = {}
  /\ UNCHANGED broker

GiveUp ==
  /\ StreamIsOver
  /\ resubscribes = MaxResubscribes
  /\ Terminate
  /\ UNCHANGED count

(* A crash, a kill, or run() returning an error of set_bool or subscribe.  *)
Crash ==
  /\ phase # "down"
  /\ Happens("crash")
  /\ Terminate

ShutdownSignal ==
  /\ phase = "running"
  /\ ~stopping
  /\ Happens("shutdown")
  /\ stopping' = TRUE
  /\ UNCHANGED <<phase, lockState, task, inbox, subscribed, resubscribes,
                 broker, lasting>>

(* The biased select looks at the signal when recv() is pending; a command *)
(* in inbox may be on its way still.                                       *)
Stop ==
  /\ stopping
  /\ task.pc = "idle"
  /\ Terminate
  /\ UNCHANGED count

-----------------------------------------------------------------------------
(* A command is published to the broker's signal.                          *)
PublishCommand(kind) ==
  LET c == [n |-> count["command"] + 1, kind |-> kind] IN
  /\ Happens("command")
  /\ broker' = [broker EXCEPT !.command = c]
  /\ inbox' = IF subscribed THEN Append(inbox, c) ELSE inbox
  /\ UNCHANGED <<phase, lockState, task, subscribed, resubscribes, stopping, lasting>>

(* The stream ends or fails; commands not yet read from it are lost.       *)
StreamEnds ==
  /\ subscribed
  /\ Happens("streamEnd")
  /\ subscribed' = FALSE
  /\ \E k \in 0..Len(inbox) : inbox' = SubSeq(inbox, 1, k)
  /\ UNCHANGED <<phase, lockState, task, resubscribes, stopping, broker, lasting>>

SpeedChanges ==
  /\ Happens("sensor")
  /\ broker' = [broker EXCEPT !.moving = ~@]
  /\ lasting' = lasting \ {"vehicle_moving"}
  /\ UNCHANGED <<phase, lockState, task, inbox, subscribed, resubscribes, stopping>>

DoorChanges ==
  /\ Happens("sensor")
  /\ broker' = [broker EXCEPT !.doorOpen = ~@]
  /\ lasting' = lasting \ {"door_open"}
  /\ UNCHANGED <<phase, lockState, task, inbox, subscribed, resubscribes, stopping>>

-----------------------------------------------------------------------------
(* process_lock once it is safe, process_unlock at once: set_bool is       *)
(* skipped when lock_state is what the command asks for.                   *)
Carry(c) == IF lockState = (c.kind = "lock") THEN Responding(c, Success(c))
                                             ELSE At(c, "write")

(* Mutant: an invalid command is discarded without a response.             *)
Accept_Silent(c) ==
  CASE c.kind \in {"garbage", "incomplete"} -> Idle
    [] c.kind = "otherDoor" -> Responding(c, Failure(c.n, "unsupported_door"))
    [] c.kind = "emptyId"   -> Responding(c, Failure(0, "invalid_command"))
    [] c.kind = "lock"      -> At(c, "speed")
    [] c.kind = "unlock"    -> Carry(c)

(* What handle_command_payload starts with a payload.                      *)
Accept(c) ==
  CASE c.kind = "garbage"    -> Idle
    [] c.kind = "otherDoor"  -> Responding(c, Failure(c.n, "unsupported_door"))
    [] c.kind = "incomplete" -> Responding(c, Failure(c.n, "invalid_command"))
    [] c.kind = "emptyId"    -> Responding(c, Failure(0, "invalid_command"))
    [] c.kind = "lock"       -> At(c, "speed")
    [] c.kind = "unlock"     -> Carry(c)

(* Mutant: the newest command overtakes the older ones.                    *)
Take_Newest ==
  /\ phase = "running" /\ task.pc = "idle" /\ inbox # <<>>
  /\ task' = Accept(inbox[Len(inbox)])
  /\ inbox' = SubSeq(inbox, 1, Len(inbox) - 1)
  /\ resubscribes' = 0
  /\ lasting' = Hazards
  /\ UNCHANGED <<phase, lockState, subscribed, stopping, broker, count>>

(* Mutant: a received command does not reset the resubscribe counter.      *)
Take_NoReset ==
  /\ phase = "running" /\ task.pc = "idle" /\ inbox # <<>>
  /\ task' = Accept(Head(inbox))
  /\ inbox' = Tail(inbox)
  /\ lasting' = Hazards
  /\ UNCHANGED <<phase, lockState, subscribed, resubscribes, stopping, broker, count>>

(* Mutant: each round of the loop waits for a signal of its own.           *)
Take_LosesSignal ==
  /\ phase = "running" /\ task.pc = "idle" /\ inbox # <<>>
  /\ task' = Accept(Head(inbox))
  /\ inbox' = Tail(inbox)
  /\ resubscribes' = 0
  /\ stopping' = FALSE
  /\ lasting' = Hazards
  /\ UNCHANGED <<phase, lockState, subscribed, broker, count>>

Take ==
  /\ phase = "running" /\ task.pc = "idle" /\ inbox # <<>>
  /\ task' = Accept(Head(inbox))
  /\ inbox' = Tail(inbox)
  /\ resubscribes' = 0
  /\ lasting' = Hazards
  /\ UNCHANGED <<phase, lockState, subscribed, stopping, broker, count>>

-----------------------------------------------------------------------------
(* What a step of the task leaves alone.                                   *)
Rest == <<phase, inbox, subscribed, resubscribes, stopping, lasting>>

(* A reading that shows the hazard ends the command with that reason; one  *)
(* that fails counts as safe.                                              *)
Reading(here, shows, reason, next) ==
  /\ task.pc = here
  /\ \/ /\ shows
        /\ task' = Responding(task.command, Failure(task.command.n, reason))
        /\ UNCHANGED count
     \/ /\ ~shows
        /\ task' = next
        /\ UNCHANGED count
     \/ /\ Happens("read")
        /\ task' = next
  /\ UNCHANGED Rest /\ UNCHANGED <<lockState, broker>>

ReadSpeed == Reading("speed", broker.moving, "vehicle_moving",
                     At(task.command, "door"))

(* Mutant: a lock command goes ahead whatever the door is.                 *)
ReadDoor_Ignored == Reading("door", FALSE, "door_open", Carry(task.command))

ReadDoor == Reading("door", broker.doorOpen, "door_open", Carry(task.command))

(* set_bool of IsLocked: an error is logged, and the value may have        *)
(* arrived all the same; lock_state changes and the command succeeds.      *)
WriteState ==
  LET locked == task.command.kind = "lock" IN
  /\ task.pc = "write"
  /\ \/ /\ broker' = [broker EXCEPT !.isLocked = locked]
        /\ UNCHANGED count
     \/ /\ Happens("state")
        /\ \/ broker' = [broker EXCEPT !.isLocked = locked]
           \/ UNCHANGED broker
  /\ lockState' = locked
  /\ task' = Responding(task.command, Success(task.command))
  /\ UNCHANGED Rest

(* set_string of the response: an error is logged.                         *)
Respond ==
  /\ task.pc = "respond"
  /\ \/ /\ broker' = [broker EXCEPT !.response = task.response]
        /\ UNCHANGED count
     \/ /\ Happens("respond")
        /\ \/ broker' = [broker EXCEPT !.response = task.response]
           \/ UNCHANGED broker
  /\ task' = Idle
  /\ UNCHANGED Rest /\ UNCHANGED lockState

-----------------------------------------------------------------------------
Process == Take \/ ReadSpeed \/ ReadDoor \/ WriteState \/ Respond

Lifecycle ==
  \/ Connect \/ PublishInitial \/ Subscribe \/ Resubscribe \/ GiveUp
  \/ ShutdownSignal \/ Stop \/ Crash

Environment ==
  \/ \E kind \in Kinds : PublishCommand(kind)
  \/ StreamEnds
  \/ SpeedChanges
  \/ DoorChanges

Next == Process \/ Lifecycle \/ Environment

Spec == Init /\ [][Next]_vars

(* The runtime polls a task that can go on, and each request to the broker *)
(* ends in an answer or an error.  Nothing obliges anyone to start the     *)
(* service or to send a command.                                           *)
FairSpec ==
  /\ Spec
  /\ WF_vars(PublishInitial) /\ WF_vars(Subscribe)
  /\ WF_vars(Resubscribe) /\ WF_vars(GiveUp) /\ WF_vars(Stop)
  /\ WF_vars(Take) /\ WF_vars(ReadSpeed) /\ WF_vars(ReadDoor)
  /\ WF_vars(WriteState) /\ WF_vars(Respond)

-----------------------------------------------------------------------------
(* Across restarts and replayed commands, IsLocked in the broker is the    *)
(* lock the running service remembers, as long as no publication of it     *)
(* failed: main.rs resets both when it starts.                             *)
StateIsPublished ==
  count["state"] = 0 /\ phase \in {"announced", "running"}
    => broker.isLocked = lockState

(* check_safety: unless a reading failed, a door is not locked while the   *)
(* vehicle has been moving, or the door open, ever since the command was   *)
(* taken.  (A hazard that comes or goes in between may be missed: the two  *)
(* signals are read one after the other, and not again.)                   *)
LocksNoUnsafeVehicle ==
  [][~lockState /\ lockState' /\ count["read"] = 0 => lasting = {}]_vars

(* 03-REQ-1.3: commands are processed in the order of their publication;   *)
(* with a stream that ends, a restart and the current value delivered      *)
(* anew, the response signal never goes back to an earlier command.        *)
AnswersInOrder ==
  [][broker.response'.n # 0 => broker.response'.n >= broker.response.n]_vars

(* The attempts to resubscribe before the service exits (03-REQ-1.E2)      *)
(* count streams that broke in a row: a service that has worked off all    *)
(* that its stream had for it has all of them again, unless no command was *)
(* ever published.  Streams that break before that, even with the current  *)
(* command on its way, do use them up.                                     *)
AttemptsRestored ==
  subscribed /\ inbox = <<>> /\ broker.command # NoCommand => resubscribes = 0

(* The last command published is answered by a service that goes on        *)
(* running, whatever streams ended and processes died, unless the          *)
(* publication of a response failed.                                       *)
LastCommandAnswered ==
  <>[](/\ phase = "running"
       /\ broker.command.kind \notin {"emptyId", "garbage"}
       /\ count["respond"] = 0
       => broker.response.n = broker.command.n)

(* 03-REQ-6.1: a service that was told to stop does stop.                  *)
ShutdownEnds == stopping ~> phase = "down"
=============================================================================
