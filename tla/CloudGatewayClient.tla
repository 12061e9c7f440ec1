------------------------- MODULE CloudGatewayClient -------------------------
(***************************************************************************)
(* The CLOUD_GATEWAY_CLIENT (rhivos/cloud-gateway-client) of one vehicle:  *)
(* a startup sequence whose every step ends the process if it fails, then  *)
(* three loops that share nothing: commands from NATS to the DATA_BROKER,  *)
(* responses and telemetry from the DATA_BROKER to NATS.  A stream of the  *)
(* broker that ends is not subscribed again, and the process goes on.      *)
(*                                                                         *)
(* VehiclePath puts the LOCKING_SERVICE in the place of the environment    *)
(* that answers commands.                                                  *)
(***************************************************************************)
EXTENDS Naturals, Sequences

CONSTANTS
  MaxAttempts,  \* MAX_ATTEMPTS of NatsClient::connect, 5
  Messages,     \* what may come on vehicles.{VIN}.commands
  Limits        \* how often each environment event happens at most

(* What the environment does a bounded number of times.                    *)
Mishaps == {"message", "refused", "startup", "publish", "write", "streamEnd",
            "crash", "active"}

(* Payloads by what becomes of them: the client checks that there are an   *)
(* id, an action and doors; what else is wrong ("otherDoor", "incomplete": *)
(* no door, or an optional field of the wrong type) the vehicle finds.     *)
Kinds == {"lock", "unlock", "otherDoor", "incomplete", "emptyId", "garbage"}

Keys == {"command_id", "action", "type", "doors"}

VARIABLES
  stage,            \* the next step of main, or "running", or "down"
  attempt,          \* failed attempts to connect to NATS
  commandSub,       \* messages received on the command subscription
  responseStream,   \* responses on the stream and in the channel
  telemetryStream,  \* signal updates on the stream and in the channel
  known,            \* TelemetryState: the value of each signal, or "unset"
  dataBroker,       \* the signals in the DATA_BROKER
  cloud,            \* what was last published to each NATS subject
  mishaps           \* how often each event of Mishaps has occurred

vars == <<stage, attempt, commandSub, responseStream, telemetryStream, known,
          dataBroker, cloud, mishaps>>

-----------------------------------------------------------------------------
Stages == {"down", "nats", "broker", "register", "responses", "telemetry",
           "commands", "running"}

(* IsLocked, and one for the other signals of the telemetry.               *)
Signals == {"IsLocked", "SessionActive"}

Values == {"unset", "true", "false"}

Telemetry == [Signals -> Values]

Nothing == [s \in Signals |-> "unset"]

(* A command is named by its place among the commands written; a response  *)
(* by the command it answers, 0 if there is none.                          *)
Commands == [n : Nat, kind : Kinds]

Responses == [n : Nat, reason : {"none", "vehicle_moving", "door_open",
                                 "unsupported_door", "invalid_command"},
              status : {"none", "success", "failed"}]

NoCommand  == [n |-> 0, kind |-> "garbage"]
NoResponse == [n |-> 0, reason |-> "none", status |-> "none"]

Updates == [signal : Signals, value : {"true", "false"}]

Closed == [open |-> FALSE, items |-> <<>>]

(* A stream that is open gets what happens to its signals.                 *)
Feed(stream, item) ==
  IF stream.open THEN [stream EXCEPT !.items = Append(@, item)] ELSE stream

TypeOK ==
  /\ stage \in Stages
  /\ attempt \in 0 .. MaxAttempts
  /\ stage = "nats" => attempt < MaxAttempts
  /\ commandSub \in Seq(Messages)
  /\ responseStream \in [open : BOOLEAN, items : Seq(Responses)]
  /\ telemetryStream \in [open : BOOLEAN, items : Seq(Updates)]
  /\ known \in Telemetry
  /\ dataBroker \in [command : Commands, response : Responses, signals : Telemetry]
  /\ cloud \in [online : BOOLEAN, response : Responses, telemetry : Telemetry]
  /\ mishaps \in [Mishaps -> Nat]

(* The client's own state; the DATA_BROKER was there before.               *)
Init ==
  /\ stage = "down"
  /\ attempt = 0
  /\ commandSub = <<>>
  /\ responseStream = Closed
  /\ telemetryStream = Closed
  /\ known = Nothing
  /\ cloud = [online |-> FALSE, response |-> NoResponse, telemetry |-> Nothing]
  /\ mishaps = [m \in Mishaps |-> 0]

Mishap(m) ==
  /\ mishaps[m] < Limits[m]
  /\ mishaps' = [mishaps EXCEPT ![m] = @ + 1]

-----------------------------------------------------------------------------
(* main, step by step: each has its effect and leads on to the next.       *)
Advance(from, to) == stage = from /\ stage' = to

Streams == <<responseStream, telemetryStream>>
Memory  == <<commandSub, known>>
Outside == <<dataBroker, cloud>>

Boot ==
  /\ Advance("down", "nats")
  /\ attempt' = 0
  /\ UNCHANGED <<Streams, Memory, Outside, mishaps>>

ConnectNats ==
  /\ Advance("nats", "broker")
  /\ UNCHANGED <<attempt, Streams, Memory, Outside, mishaps>>

ConnectBroker ==
  /\ Advance("broker", "register")
  /\ UNCHANGED <<attempt, Streams, Memory, Outside, mishaps>>

PublishRegistration ==
  /\ Advance("register", "responses")
  /\ cloud' = [cloud EXCEPT !.online = TRUE]
  /\ UNCHANGED <<attempt, Streams, Memory, dataBroker, mishaps>>

(* A new stream begins with the current value, if there is one.            *)
SubscribeResponses ==
  /\ Advance("responses", "telemetry")
  /\ responseStream' =
       [open  |-> TRUE,
        items |-> IF dataBroker.response = NoResponse THEN <<>> ELSE <<dataBroker.response>>]
  /\ UNCHANGED <<attempt, telemetryStream, Memory, Outside, mishaps>>

(* The current values come in one message, in the order of a hash map.     *)
CurrentUpdates ==
  LET update(s) == IF dataBroker.signals[s] = "unset" THEN <<>>
                   ELSE <<[signal |-> s, value |-> dataBroker.signals[s]]>>
  IN {update("IsLocked") \o update("SessionActive"),
      update("SessionActive") \o update("IsLocked")}

SubscribeTelemetry ==
  /\ Advance("telemetry", "commands")
  /\ \E items \in CurrentUpdates : telemetryStream' = [open |-> TRUE, items |-> items]
  /\ UNCHANGED <<attempt, responseStream, Memory, Outside, mishaps>>

SubscribeCommands ==
  /\ Advance("commands", "running")
  /\ UNCHANGED <<attempt, Streams, Memory, Outside, mishaps>>

(* The process ends, with what it has received and remembers.              *)
Terminate ==
  /\ stage' = "down"
  /\ commandSub' = <<>>
  /\ responseStream' = Closed
  /\ telemetryStream' = Closed
  /\ known' = Nothing
  /\ UNCHANGED <<attempt, Outside>>

(* NATS cannot be reached; the last attempt ends the process.              *)
NatsRefuses ==
  /\ stage = "nats"
  /\ Mishap("refused")
  /\ attempt' = attempt + 1
  /\ stage' = IF attempt' = MaxAttempts THEN "down" ELSE "nats"
  /\ UNCHANGED <<Streams, Memory, Outside>>

(* Any other step that fails ends the process at once.                     *)
StartupFails ==
  /\ stage \in Stages \ {"down", "nats", "running"}
  /\ Mishap("startup")
  /\ Terminate

Crash ==
  /\ stage # "down"
  /\ Mishap("crash")
  /\ Terminate

-----------------------------------------------------------------------------
(* The command loop.                                                       *)
HasMessage == stage = "running" /\ commandSub # <<>>

(* validate_bearer_token                                                   *)
Authentic(m) == m.token

(* ... and validate_command_payload.                                       *)
Validated(m) ==
  /\ Authentic(m)
  /\ {"command_id", "action", "doors"} \subseteq m.keys
  /\ m.kind \notin {"emptyId", "garbage"}

(* Mutant: an invalid command ends the loop.                               *)
Refuse_Ends ==
  /\ HasMessage /\ ~Validated(Head(commandSub))
  /\ UNCHANGED vars

Refuse ==
  /\ HasMessage /\ ~Validated(Head(commandSub))
  /\ commandSub' = Tail(commandSub)
  /\ UNCHANGED <<stage, attempt, Streams, known, Outside, mishaps>>

(* write_command reaches the broker; the reply may be lost.                *)
Forward ==
  /\ HasMessage /\ Validated(Head(commandSub))
  /\ commandSub' = Tail(commandSub)
  /\ dataBroker' = [dataBroker EXCEPT
                      !.command = [n |-> @.n + 1, kind |-> Head(commandSub).kind]]
  /\ UNCHANGED <<stage, attempt, Streams, known, cloud, mishaps>>

(* write_command fails: an error is logged, the cloud is not told.         *)
ForwardFails ==
  /\ HasMessage /\ Validated(Head(commandSub))
  /\ Mishap("write")
  /\ commandSub' = Tail(commandSub)
  /\ UNCHANGED <<stage, attempt, Streams, known, Outside>>

-----------------------------------------------------------------------------
(* The response loop; it ends when its stream has ended and is read.       *)
HasResponse == stage = "running" /\ responseStream.items # <<>>

(* Mutant: what could not be published waits for another turn.             *)
RelayFails_Requeues ==
  /\ HasResponse
  /\ Mishap("publish")
  /\ responseStream' = [responseStream EXCEPT !.items = Append(Tail(@), Head(@))]
  /\ UNCHANGED <<stage, attempt, telemetryStream, Memory, Outside>>

RelayFails ==
  /\ HasResponse
  /\ Mishap("publish")
  /\ responseStream' = [responseStream EXCEPT !.items = Tail(@)]
  /\ UNCHANGED <<stage, attempt, telemetryStream, Memory, Outside>>

Relay ==
  /\ HasResponse
  /\ responseStream' = [responseStream EXCEPT !.items = Tail(@)]
  /\ cloud' = [cloud EXCEPT !.response = Head(responseStream.items)]
  /\ UNCHANGED <<stage, attempt, telemetryStream, Memory, dataBroker, mishaps>>

-----------------------------------------------------------------------------
(* The telemetry loop.                                                     *)
HasUpdate == stage = "running" /\ telemetryStream.items # <<>>

(* Mutant: the first value of a signal counts as no change.                *)
Changes_NotFirst(u) == known[u.signal] \notin {"unset", u.value}

(* update() returns a message only if the value is new.                    *)
Changes(u) == known[u.signal] # u.value

Updated(u) == [known EXCEPT ![u.signal] = u.value]

NextUpdate ==
  /\ HasUpdate
  /\ known' = Updated(Head(telemetryStream.items))
  /\ telemetryStream' = [telemetryStream EXCEPT !.items = Tail(@)]
  /\ UNCHANGED <<stage, attempt, commandSub, responseStream, dataBroker>>

(* The whole state is published, or the value is no news.                  *)
PublishTelemetry ==
  /\ NextUpdate
  /\ cloud' = IF Changes(Head(telemetryStream.items))
              THEN [cloud EXCEPT !.telemetry = known'] ELSE cloud
  /\ UNCHANGED mishaps

(* The state has changed and its message is lost.                          *)
TelemetryFails ==
  /\ HasUpdate /\ Changes(Head(telemetryStream.items))
  /\ NextUpdate
  /\ Mishap("publish")
  /\ UNCHANGED cloud

-----------------------------------------------------------------------------
(* NATS delivers a message to a subscriber; else nobody ever gets it.      *)
CloudSends(m) ==
  /\ Mishap("message")
  /\ commandSub' = IF stage = "running" THEN Append(commandSub, m) ELSE commandSub
  /\ UNCHANGED <<stage, attempt, Streams, known, Outside>>

(* A stream fails or the broker ends it; unread values are lost.           *)
Cut(stream) == {[open |-> FALSE, items |-> SubSeq(stream.items, 1, k)] :
                  k \in 0 .. Len(stream.items)}

StreamEnds ==
  /\ Mishap("streamEnd")
  /\ \/ responseStream.open /\ responseStream' \in Cut(responseStream)
        /\ UNCHANGED telemetryStream
     \/ telemetryStream.open /\ telemetryStream' \in Cut(telemetryStream)
        /\ UNCHANGED responseStream
  /\ UNCHANGED <<stage, attempt, Memory, Outside>>

(* Another service writes a signal of the DATA_BROKER.                     *)
SignalWritten(signal, value) ==
  /\ dataBroker' = [dataBroker EXCEPT !.signals[signal] = value]
  /\ telemetryStream' = Feed(telemetryStream, [signal |-> signal, value |-> value])
  /\ UNCHANGED <<stage, attempt, responseStream, Memory, cloud>>

ResponseWritten(response) ==
  /\ dataBroker' = [dataBroker EXCEPT !.response = response]
  /\ responseStream' = Feed(responseStream, response)
  /\ UNCHANGED <<stage, attempt, telemetryStream, Memory, cloud>>
=============================================================================
