---------------------------- MODULE VehiclePath ----------------------------
(***************************************************************************)
(* A command's way through the vehicle: from NATS through the              *)
(* CLOUD_GATEWAY_CLIENT and the DATA_BROKER to the LOCKING_SERVICE, and    *)
(* its answer and the lock's state back.  CloudGatewayClient writes the    *)
(* commands LockingService takes; each of the two may crash and restart on *)
(* its own while the DATA_BROKER keeps its signals.                        *)
(***************************************************************************)
EXTENDS LockingService

CONSTANTS
  MaxAttempts, Messages, Limits,  \* see CloudGatewayClient
  MaxFaults  \* bound: mishaps of all kinds in one behaviour

VARIABLES
  stage, attempt, commandSub, responseStream, telemetryStream, known, cloud,
  mishaps,   \* see CloudGatewayClient
  session    \* Vehicle.Parking.SessionActive in the DATA_BROKER

clientVars == <<stage, attempt, commandSub, responseStream, telemetryStream,
                known, cloud, mishaps>>

pathVars == <<vars, clientVars, session>>

Bool(b) == IF b THEN "true" ELSE "false"

(* The client's part of the DATA_BROKER.                                   *)
dataBroker == [command  |-> broker.command,
               response |-> broker.response,
               signals  |-> [IsLocked      |-> Bool(broker.isLocked),
                             SessionActive |-> session]]

Client == INSTANCE CloudGatewayClient

ASSUME ClientAssumption ==
  /\ MaxAttempts \in Nat \ {0}
  /\ Messages \subseteq [token : BOOLEAN, keys : SUBSET Client!Keys, kind : Client!Kinds]
  /\ Limits \in [Client!Mishaps -> Nat]

PathTypeOK == TypeOK /\ Client!TypeOK

PathInit == Init /\ Client!Init /\ session = "unset"

-----------------------------------------------------------------------------
(* All that went wrong or changed from outside in this behaviour.          *)
Faults ==
  count["sensor"] + count["read"] + count["state"] + count["respond"]
    + count["streamEnd"] + count["crash"] + count["shutdown"]
    + mishaps["refused"] + mishaps["startup"] + mishaps["publish"]
    + mishaps["write"] + mishaps["streamEnd"] + mishaps["crash"] + mishaps["active"]

Bounded == Faults' <= MaxFaults

-----------------------------------------------------------------------------
(* Steps of the client that leave the DATA_BROKER alone.                   *)
ByClient == UNCHANGED <<vars, session>>

Startup ==
  /\ ByClient
  /\ \/ Client!ConnectNats \/ Client!ConnectBroker \/ Client!PublishRegistration
     \/ Client!SubscribeResponses \/ Client!SubscribeTelemetry \/ Client!SubscribeCommands

Refuse == ByClient /\ Client!Refuse

Relay == ByClient /\ (Client!Relay \/ Client!RelayFails) /\ Bounded

PublishTelemetry ==
  ByClient /\ (Client!PublishTelemetry \/ Client!TelemetryFails) /\ Bounded

(* write_command is the publication the LOCKING_SERVICE is subscribed to.  *)
Forward ==
  /\ \/ /\ commandSub # <<>>
        /\ PublishCommand(Head(commandSub).kind)
        /\ UNCHANGED session
        /\ Client!Forward
     \/ ByClient /\ Client!ForwardFails
  /\ Bounded

ClientMishap ==
  /\ ByClient
  /\ \/ Client!Boot \/ Client!NatsRefuses \/ Client!StartupFails
     \/ Client!Crash \/ Client!StreamEnds
     \/ \E m \in Messages : Client!CloudSends(m)
  /\ Bounded

-----------------------------------------------------------------------------
(* Steps of the LOCKING_SERVICE and its surroundings; the client's streams *)
(* get what changes.                                                       *)
ByLocking == UNCHANGED <<clientVars, session>>

Answer ==
  /\ Respond
  /\ UNCHANGED <<mishaps, session>>
  /\ IF broker'.response = broker.response THEN UNCHANGED clientVars
     ELSE Client!ResponseWritten(broker'.response)
  /\ Bounded

SetLocked ==
  /\ PublishInitial \/ WriteState
  /\ UNCHANGED <<mishaps, session>>
  /\ IF broker'.isLocked = broker.isLocked THEN UNCHANGED clientVars
     ELSE Client!SignalWritten("IsLocked", Bool(broker'.isLocked))
  /\ Bounded

(* The PARKING_OPERATOR_ADAPTOR publishes a session.                       *)
SessionChanges ==
  /\ UNCHANGED vars
  /\ Client!Mishap("active")
  /\ \E value \in {"true", "false"} \ {session} :
       session' = value /\ Client!SignalWritten("SessionActive", value)
  /\ Bounded

LockingLife ==
  /\ \/ Connect \/ Crash \/ ShutdownSignal
     \/ StreamEnds \/ SpeedChanges \/ DoorChanges
  /\ ByLocking
  /\ Bounded

LockingSubscribes == (Subscribe \/ Resubscribe) /\ ByLocking

LockingEnds == (GiveUp \/ Stop) /\ ByLocking

LockingTakes == Take /\ ByLocking

LockingReads == (ReadSpeed \/ ReadDoor) /\ ByLocking /\ Bounded

-----------------------------------------------------------------------------
PathNext ==
  \/ Startup \/ Refuse \/ Relay \/ PublishTelemetry \/ Forward \/ ClientMishap
  \/ Answer \/ SetLocked \/ SessionChanges \/ LockingLife \/ LockingSubscribes
  \/ LockingEnds \/ LockingTakes \/ LockingReads

PathSpec == PathInit /\ [][PathNext]_pathVars

(* The runtimes poll tasks that can go on, requests end in a reply or an   *)
(* error.  Nobody has to start a process or to send a command.             *)
FairPath ==
  /\ PathSpec
  /\ WF_pathVars(Startup) /\ WF_pathVars(Refuse) /\ WF_pathVars(Relay)
  /\ WF_pathVars(PublishTelemetry) /\ WF_pathVars(Forward)
  /\ WF_pathVars(Answer) /\ WF_pathVars(SetLocked)
  /\ WF_pathVars(LockingSubscribes) /\ WF_pathVars(LockingEnds)
  /\ WF_pathVars(LockingTakes) /\ WF_pathVars(LockingReads)

-----------------------------------------------------------------------------
(* 04-REQ-7.1: over crashes of both services, failed publications and      *)
(* responses relayed again, the cloud never hears of a command after it    *)
(* has heard of a later one.                                               *)
RelayInOrder == [][cloud'.response.n >= cloud.response.n]_pathVars

(* Every message is treated, and the last command's answer reaches the     *)
(* cloud, whatever crashed before, unless a publication failed or the      *)
(* client's response stream has ended: it is never subscribed again.       *)
LastAnswerRelayed ==
  <>[](/\ phase = "running" /\ stage = "running" /\ responseStream.open
       /\ count["respond"] = 0 /\ mishaps["publish"] = 0
       => commandSub = <<>> /\ cloud.response.n = broker.command.n)

(* A client with nothing left to do has published the DATA_BROKER's        *)
(* signals, unless a publication failed: the state counts as published     *)
(* then, too (04-REQ-8.1).                                                 *)
TelemetryIsCurrent ==
  stage = "running" /\ telemetryStream.open /\ telemetryStream.items = <<>>
    /\ mishaps["publish"] = 0
    => cloud.telemetry = dataBroker.signals

ClientAtRest ==
  /\ stage = "running" /\ commandSub = <<>>
  /\ responseStream = [open |-> TRUE, items |-> <<>>]
  /\ telemetryStream = [open |-> TRUE, items |-> <<>>]

LockingAtRest == phase = "running" /\ task.pc = "idle" /\ subscribed /\ inbox = <<>>

(* When all is at rest and nothing failed to be published, a success the   *)
(* cloud was told goes with the lock the telemetry shows.                  *)
CloudSeesTheLock ==
  /\ ClientAtRest /\ LockingAtRest
  /\ count["state"] = 0 /\ count["respond"] = 0 /\ mishaps["publish"] = 0
  /\ cloud.response.status = "success" /\ cloud.response.n = broker.command.n
  => cloud.telemetry["IsLocked"] = Bool(broker.command.kind = "lock")
=============================================================================
