---------------------------- MODULE CommandPath ----------------------------
(***************************************************************************)
(* A command's way to the vehicle: an app posts it to the CLOUD_GATEWAY,   *)
(* which publishes it under vehicles.{vin}.commands, where the             *)
(* CLOUD_GATEWAY_CLIENT of the vehicle is subscribed.  The gateway marshals*)
(* model.Command, the client validates what it gets against its own rules. *)
(***************************************************************************)
EXTENDS CloudGateway

CONSTANTS
  KindOf,       \* the type and doors of each valid request
  VehicleToken, \* requests whose token is the one the vehicle was given
  Attempts,     \* MaxAttempts of the client
  Limits        \* see CloudGatewayClient

VARIABLES
  stage, attempts, commandSub, responseStream, telemetryStream, known,
  dataBroker, cloud, mishaps  \* see CloudGatewayClient

clientVars == <<stage, attempts, commandSub, responseStream, telemetryStream,
                known, dataBroker, cloud, mishaps>>

pathVars == <<vars, clientVars>>

(* The JSON tags of model.Command and the header PublishCommand sets.      *)
MessageOf(r) ==
  [token |-> r \in VehicleToken,
   keys  |-> {"command_id", "type", "doors"},
   kind  |-> KindOf[r]]

Client == INSTANCE CloudGatewayClient WITH
  MaxAttempts <- Attempts,
  Messages    <- {MessageOf(r) : r \in Valid},
  attempt     <- attempts

PathInit ==
  /\ Init
  /\ Client!Init
  /\ dataBroker = [command  |-> Client!NoCommand,
                   response |-> Client!NoResponse,
                   signals  |-> Client!Nothing]

(* NATS delivers what PublishCommand published.                            *)
Submit(r) ==
  /\ Publish(r)
  /\ IF r \in commands' THEN Client!CloudSends(MessageOf(r)) ELSE UNCHANGED clientVars

(* The vehicle's other services answer what was written to the DATA_BROKER. *)
GatewayStep ==
  /\ UNCHANGED clientVars
  /\ \/ Start \/ Serve \/ StartFails \/ ConnectFails
     \/ ShutdownSignal \/ Exit \/ Crash \/ StoreResponse \/ Lose
     \/ /\ dataBroker.command # Client!NoCommand
        /\ \E id \in Ids, status \in Answers : VehicleAnswers(id, status)
     \/ \E r \in Requests : \/ Reject(r) \/ StartTimeout(r)
                            \/ Expire(r) \/ TimeoutFires(r)

ClientStep ==
  /\ UNCHANGED vars
  /\ \/ Client!Boot \/ Client!ConnectNats \/ Client!ConnectBroker
     \/ Client!PublishRegistration \/ Client!SubscribeResponses
     \/ Client!SubscribeTelemetry \/ Client!SubscribeCommands
     \/ Client!NatsRefuses \/ Client!StartupFails \/ Client!Crash
     \/ Client!Refuse \/ Client!Forward \/ Client!ForwardFails

PathNext ==
  \/ \E r \in Requests : Submit(r)
  \/ GatewayStep
  \/ ClientStep

PathSpec == PathInit /\ [][PathNext]_pathVars

(* A command that went through the gateway, with the vehicle's token, is   *)
(* written to the DATA_BROKER when the client takes it, unless that write  *)
(* fails (06 prd, Command Flow, step 5).                                   *)
DeliveredIsWritten ==
  [][/\ commandSub # <<>> /\ Head(commandSub).token
     /\ stage' = "running" /\ commandSub' = Tail(commandSub)
     /\ mishaps' = mishaps
     => dataBroker'.command.n = dataBroker.command.n + 1]_pathVars

(* What follows: no command of the gateway is ever written, and no query   *)
(* of one ever finds a vehicle's answer.                                   *)
NothingIsWritten == dataBroker.command = Client!NoCommand

NothingIsAnswered == \A id \in Ids : responses[id] \notin Answers
=============================================================================
