------------------------- MODULE VehiclePathProofs -------------------------
(* The way of commands through the vehicle, for any commands from the      *)
(* cloud, any number of attempts and any budget of mishaps.  What the      *)
(* LOCKING_SERVICE guarantees on its own (LockingServiceProofs) holds in   *)
(* this composition, as each step is a step of it or leaves it alone.      *)
EXTENDS VehiclePath, LockingServiceProofs

USE ClientAssumption

(* The kinds of command the client lets through.                           *)
Passing == {"lock", "unlock", "otherDoor", "incomplete"}

LEMMA MishapType ==
  ASSUME mishaps \in [Client!Mishaps -> Nat], NEW m \in Client!Mishaps, Client!Mishap(m)
  PROVE  mishaps' \in [Client!Mishaps -> Nat]
BY DEF Client!Mishap

LEMMA MessageParts ==
  ASSUME NEW m \in Messages
  PROVE  m.kind \in Kinds /\ (Client!Validated(m) => m.kind \in Passing)
BY DEF Client!Validated, Client!Kinds, Kinds, Passing

-----------------------------------------------------------------------------
(* The composition is the locking service and more.                        *)
LEMMA Projection ==
  ASSUME commandSub \in Seq(Messages), [PathNext]_pathVars
  PROVE  [Next]_vars
<1>1. CASE Startup \/ Refuse \/ Relay \/ PublishTelemetry \/ ClientMishap
  BY <1>1 DEF Startup, Refuse, Relay, PublishTelemetry, ClientMishap, ByClient
<1>2. CASE Forward
  <2>1. CASE ByClient
    BY <2>1 DEF ByClient
  <2>2. CASE commandSub # <<>> /\ PublishCommand(Head(commandSub).kind)
    <3>1. Head(commandSub) \in Messages
      BY <2>2, HeadTailType
    <3>2. Head(commandSub).kind \in Kinds
      BY <3>1, MessageParts
    <3> QED
      BY <2>2, <3>2 DEF Next, Environment
  <2> QED
    BY <1>2, <2>1, <2>2 DEF Forward
<1>3. CASE Answer
  BY <1>3 DEF Answer, Next, Process
<1>4. CASE SetLocked
  BY <1>4 DEF SetLocked, Next, Process, Lifecycle
<1>5. CASE SessionChanges
  BY <1>5 DEF SessionChanges
<1>6. CASE LockingLife
  BY <1>6 DEF LockingLife, Next, Lifecycle, Environment
<1>7. CASE LockingSubscribes \/ LockingEnds
  BY <1>7 DEF LockingSubscribes, LockingEnds, Next, Lifecycle
<1>8. CASE LockingTakes \/ LockingReads
  BY <1>8 DEF LockingTakes, LockingReads, Next, Process
<1>9. CASE UNCHANGED pathVars
  BY <1>9 DEF pathVars
<1> QED
  BY <1>1, <1>2, <1>3, <1>4, <1>5, <1>6, <1>7, <1>8, <1>9 DEF PathNext

LEMMA LockingStep == OrderInv /\ [Next]_vars => OrderInv'
BY TypeStep, PublishStep, OrderStep DEF OrderInv

LEMMA LockingInit == Init => OrderInv
BY TypeInit, PublishInit, OrderInit DEF OrderInv

-----------------------------------------------------------------------------
(* The client's state is typed; the DATA_BROKER's types are those of the   *)
(* LOCKING_SERVICE.                                                        *)
ClientOK ==
  /\ stage \in Client!Stages
  /\ attempt \in 0 .. MaxAttempts
  /\ stage = "nats" => attempt < MaxAttempts
  /\ commandSub \in Seq(Messages)
  /\ responseStream \in [open : BOOLEAN, items : Seq(Client!Responses)]
  /\ telemetryStream \in [open : BOOLEAN, items : Seq(Client!Updates)]
  /\ known \in Client!Telemetry
  /\ cloud \in [online : BOOLEAN, response : Client!Responses, telemetry : Client!Telemetry]
  /\ mishaps \in [Client!Mishaps -> Nat]
  /\ session \in Client!Values

LEMMA SameResponses == Client!Responses = Responses /\ Client!NoResponse = NoResponse
BY DEF Client!Responses, Responses, Reasons, Client!NoResponse, NoResponse

LEMMA BrokerTypes ==
  ASSUME TypeOK, session \in Client!Values
  PROVE  /\ dataBroker \in [command : Client!Commands, response : Client!Responses,
                            signals : Client!Telemetry]
         /\ broker.response \in Client!Responses
         /\ dataBroker.response = broker.response
         /\ \A s \in Client!Signals : dataBroker.signals[s] \in {"unset", "true", "false"}
<1>1. broker.response \in Client!Responses /\ broker.command \in Client!Commands
  BY SameResponses DEF TypeOK, Commands, NoCommand, Client!Commands, Kinds, Client!Kinds
<1>2. Bool(broker.isLocked) \in {"unset", "true", "false"}
  BY DEF Bool
<1>3. dataBroker.signals \in Client!Telemetry
  BY <1>2 DEF dataBroker, Client!Telemetry, Client!Signals, Client!Values
<1> QED
  BY <1>1, <1>3 DEF dataBroker, Client!Telemetry, Client!Values

LEMMA PathTyped == TypeOK /\ ClientOK => PathTypeOK
BY BrokerTypes DEF ClientOK, PathTypeOK, Client!TypeOK

LEMMA ClientInit == PathInit => ClientOK
<1> SUFFICES ASSUME PathInit PROVE ClientOK
  OBVIOUS
<1>1. /\ \A S : <<>> \in Seq(S)
      /\ Client!NoResponse \in Client!Responses /\ Client!Nothing \in Client!Telemetry
  BY DEF Client!NoResponse, Client!Responses, Client!Nothing, Client!Telemetry, Client!Values
<1> QED
  BY <1>1 DEF PathInit, Client!Init, ClientOK, Client!Stages, Client!Closed, Client!Values

LEMMA ConcatType ==
  ASSUME NEW S, NEW s \in Seq(S), NEW t \in Seq(S)
  PROVE  s \o t \in Seq(S)
OBVIOUS

LEMMA PrefixType ==
  ASSUME NEW S, NEW s \in Seq(S), NEW k \in 0 .. Len(s)
  PROVE  /\ SubSeq(s, 1, k) \in Seq(S) /\ Len(SubSeq(s, 1, k)) = k
         /\ \A i \in 1 .. k : SubSeq(s, 1, k)[i] = s[i]
OBVIOUS

(* What begins a new stream is typed.                                      *)
LEMMA CurrentUpdatesType ==
  ASSUME TypeOK, ClientOK, NEW items \in Client!CurrentUpdates
  PROVE  items \in Seq(Client!Updates)
<1> DEFINE update(s) == IF dataBroker.signals[s] = "unset" THEN <<>>
                        ELSE <<[signal |-> s, value |-> dataBroker.signals[s]]>>
<1>1. ASSUME NEW s \in Client!Signals PROVE update(s) \in Seq(Client!Updates)
  <2>1. CASE dataBroker.signals[s] = "unset"
    BY <2>1
  <2>2. CASE dataBroker.signals[s] # "unset"
    <3>1. dataBroker.signals[s] \in {"true", "false"}
      BY <2>2, BrokerTypes DEF ClientOK
    <3>2. [signal |-> s, value |-> dataBroker.signals[s]] \in Client!Updates
      BY <3>1 DEF Client!Updates
    <3> QED
      BY <2>2, <3>2
  <2> QED
    BY <2>1, <2>2
<1>2. "IsLocked" \in Client!Signals /\ "SessionActive" \in Client!Signals
  BY DEF Client!Signals
<1>3. items = update("IsLocked") \o update("SessionActive")
        \/ items = update("SessionActive") \o update("IsLocked")
  BY DEF Client!CurrentUpdates
<1>4. PICK l \in Seq(Client!Updates) : l = update("IsLocked")
  BY <1>1, <1>2
<1>5. PICK a \in Seq(Client!Updates) : a = update("SessionActive")
  BY <1>1, <1>2
<1>6. items = l \o a \/ items = a \o l
  BY <1>3, <1>4, <1>5
<1>7. l \o a \in Seq(Client!Updates) /\ a \o l \in Seq(Client!Updates)
  BY ConcatType
<1> QED
  BY <1>6, <1>7, Zenon

LEMMA FeedType ==
  ASSUME NEW S, NEW stream \in [open : BOOLEAN, items : Seq(S)], NEW item \in S
  PROVE  Client!Feed(stream, item) \in [open : BOOLEAN, items : Seq(S)]
BY DEF Client!Feed

LEMMA CutType ==
  ASSUME NEW S, NEW stream \in [open : BOOLEAN, items : Seq(S)],
         NEW rest \in Client!Cut(stream)
  PROVE  rest \in [open : BOOLEAN, items : Seq(S)]
<1>1. PICK k \in 0 .. Len(stream.items) :
        rest = [open |-> FALSE, items |-> SubSeq(stream.items, 1, k)]
  BY DEF Client!Cut
<1>2. SubSeq(stream.items, 1, k) \in Seq(S)
  BY PrefixType
<1> QED
  BY <1>1, <1>2

LEMMA TerminateTyped ==
  ASSUME ClientOK, Client!Terminate, UNCHANGED session,
         mishaps' \in [Client!Mishaps -> Nat]
  PROVE  ClientOK'
<1>1. \A S : <<>> \in Seq(S)
  OBVIOUS
<1>2. UNCHANGED <<attempt, cloud>>
  BY DEF Client!Terminate, Client!Outside
<1> QED
  BY <1>1, <1>2 DEF ClientOK, Client!Terminate, Client!Stages, Client!Closed,
                    Client!Nothing, Client!Telemetry, Client!Values

(* Steps of main.                                                          *)
LEMMA StartupTyped ==
  ASSUME TypeOK, ClientOK, Startup
  PROVE  ClientOK'
<1> USE DEF ClientOK, Client!Advance
<1>0. UNCHANGED <<mishaps, commandSub, known, session>>
  BY DEF Startup, ByClient, Client!ConnectNats, Client!ConnectBroker,
         Client!PublishRegistration, Client!SubscribeResponses,
         Client!SubscribeTelemetry, Client!SubscribeCommands, Client!Memory
<1>1. CASE Client!ConnectNats \/ Client!ConnectBroker \/ Client!SubscribeCommands
  BY <1>0, <1>1 DEF Client!ConnectNats, Client!ConnectBroker, Client!SubscribeCommands,
                    Client!Streams, Client!Outside, Client!Stages
<1>2. CASE Client!PublishRegistration
  BY <1>0, <1>2 DEF Client!PublishRegistration, Client!Streams, Client!Stages
<1>3. CASE Client!SubscribeResponses
  <2>1. dataBroker.response \in Client!Responses
    BY BrokerTypes
  <2>2. responseStream' \in [open : BOOLEAN, items : Seq(Client!Responses)]
    BY <1>3, <2>1 DEF Client!SubscribeResponses
  <2> QED
    BY <1>0, <1>3, <2>2 DEF Client!SubscribeResponses, Client!Outside, Client!Stages
<1>4. CASE Client!SubscribeTelemetry
  <2>1. telemetryStream' \in [open : BOOLEAN, items : Seq(Client!Updates)]
    BY <1>4, CurrentUpdatesType DEF Client!SubscribeTelemetry
  <2> QED
    BY <1>0, <1>4, <2>1 DEF Client!SubscribeTelemetry, Client!Outside, Client!Stages
<1> QED
  BY <1>1, <1>2, <1>3, <1>4 DEF Startup

(* Steps of the three loops.                                               *)
LEMMA CommandLoopTyped ==
  ASSUME ClientOK, Refuse \/ Forward
  PROVE  ClientOK'
<1> USE DEF ClientOK, Client!Streams, Client!Outside
<1>m. "write" \in Client!Mishaps
  BY DEF Client!Mishaps
<1>1. commandSub # <<>> => Tail(commandSub) \in Seq(Messages)
  BY HeadTailType
<1>2. CASE Refuse
  BY <1>1, <1>2 DEF Refuse, ByClient, Client!Refuse, Client!HasMessage
<1>3. CASE Client!Forward /\ UNCHANGED session
  BY <1>1, <1>3 DEF Client!Forward, Client!HasMessage
<1>4. CASE Client!ForwardFails /\ UNCHANGED session
  BY <1>1, <1>4, <1>m, MishapType DEF Client!ForwardFails, Client!HasMessage
<1> QED
  BY <1>2, <1>3, <1>4 DEF Forward, ByClient

LEMMA ResponseLoopTyped ==
  ASSUME ClientOK, Relay
  PROVE  ClientOK'
<1> USE DEF ClientOK, Client!Outside, Client!Memory
<1>m. "publish" \in Client!Mishaps
  BY DEF Client!Mishaps
<1>1. /\ Head(responseStream.items) \in Client!Responses
      /\ Tail(responseStream.items) \in Seq(Client!Responses)
  BY HeadTailType DEF Relay, Client!Relay, Client!RelayFails, Client!HasResponse
<1>2. responseStream' \in [open : BOOLEAN, items : Seq(Client!Responses)]
  BY <1>1 DEF Relay, Client!Relay, Client!RelayFails
<1>3. CASE Client!Relay
  BY <1>1, <1>2, <1>3 DEF Relay, ByClient, Client!Relay
<1>4. CASE Client!RelayFails
  BY <1>2, <1>4, <1>m, MishapType DEF Relay, ByClient, Client!RelayFails
<1> QED
  BY <1>3, <1>4 DEF Relay

LEMMA TelemetryLoopTyped ==
  ASSUME ClientOK, PublishTelemetry
  PROVE  ClientOK'
<1> USE DEF ClientOK
<1>m. "publish" \in Client!Mishaps
  BY DEF Client!Mishaps
<1> DEFINE u == Head(telemetryStream.items)
<1>0. Client!HasUpdate /\ Client!NextUpdate
  BY DEF PublishTelemetry, Client!PublishTelemetry, Client!TelemetryFails, Client!NextUpdate
<1>1. u \in Client!Updates /\ Tail(telemetryStream.items) \in Seq(Client!Updates)
  BY <1>0, HeadTailType DEF Client!HasUpdate
<1>2. telemetryStream' \in [open : BOOLEAN, items : Seq(Client!Updates)]
  BY <1>0, <1>1 DEF Client!NextUpdate
<1>3. known' \in Client!Telemetry
  BY <1>0, <1>1 DEF Client!NextUpdate, Client!Updated, Client!Updates, Client!Telemetry,
                    Client!Values
<1>4. cloud' \in [online : BOOLEAN, response : Client!Responses, telemetry : Client!Telemetry]
  BY <1>3 DEF PublishTelemetry, Client!PublishTelemetry, Client!TelemetryFails
<1>5. mishaps' \in [Client!Mishaps -> Nat]
  BY <1>m, MishapType DEF PublishTelemetry, Client!PublishTelemetry, Client!TelemetryFails
<1> QED
  BY <1>0, <1>2, <1>3, <1>4, <1>5 DEF PublishTelemetry, ByClient, Client!NextUpdate

(* What happens to the client, and what others write.                      *)
LEMMA MishapTyped ==
  ASSUME ClientOK, ClientMishap
  PROVE  ClientOK'
<1> USE DEF ClientOK
<1>m. \A m \in {"message", "refused", "startup", "streamEnd", "crash"} : m \in Client!Mishaps
  BY DEF Client!Mishaps
<1>s. UNCHANGED session
  BY DEF ClientMishap, ByClient
<1>1. CASE Client!Boot
  BY <1>1, <1>s DEF Client!Boot, Client!Advance, Client!Streams, Client!Memory,
                    Client!Outside, Client!Stages
<1>2. CASE Client!NatsRefuses
  BY <1>2, <1>s, <1>m, MishapType DEF Client!NatsRefuses, Client!Streams, Client!Memory,
                    Client!Outside, Client!Stages
<1>3. CASE Client!StartupFails \/ Client!Crash
  BY <1>3, <1>s, <1>m, MishapType, TerminateTyped DEF Client!StartupFails, Client!Crash
<1>4. CASE Client!StreamEnds
  <2>1. /\ responseStream' \in [open : BOOLEAN, items : Seq(Client!Responses)]
        /\ telemetryStream' \in [open : BOOLEAN, items : Seq(Client!Updates)]
    BY <1>4, CutType DEF Client!StreamEnds
  <2> QED
    BY <1>4, <2>1, <1>s, <1>m, MishapType DEF Client!StreamEnds, Client!Memory, Client!Outside
<1>5. ASSUME NEW m \in Messages, Client!CloudSends(m) PROVE ClientOK'
  <2>1. commandSub' \in Seq(Messages)
    BY <1>5 DEF Client!CloudSends
  <2> QED
    BY <1>5, <2>1, <1>s, <1>m, MishapType DEF Client!CloudSends, Client!Streams, Client!Outside
<1> QED
  BY <1>1, <1>2, <1>3, <1>4, <1>5 DEF ClientMishap

LEMMA WrittenTyped ==
  ASSUME ClientOK,
         \/ /\ UNCHANGED <<mishaps, session>>
            /\ \E r \in Client!Responses : Client!ResponseWritten(r)
         \/ /\ mishaps' \in [Client!Mishaps -> Nat] /\ session' \in Client!Values
            /\ \E s \in Client!Signals, v \in {"true", "false"} : Client!SignalWritten(s, v)
  PROVE  ClientOK'
<1> USE DEF ClientOK, Client!Memory
<1>1. ASSUME NEW r \in Client!Responses, Client!ResponseWritten(r), UNCHANGED <<mishaps, session>>
      PROVE  ClientOK'
  BY <1>1, FeedType DEF Client!ResponseWritten
<1>2. ASSUME NEW s \in Client!Signals, NEW v \in {"true", "false"}, Client!SignalWritten(s, v),
             mishaps' \in [Client!Mishaps -> Nat], session' \in Client!Values
      PROVE  ClientOK'
  <2>1. [signal |-> s, value |-> v] \in Client!Updates
    BY DEF Client!Updates
  <2>2. telemetryStream' \in [open : BOOLEAN, items : Seq(Client!Updates)]
    BY <1>2, <2>1, FeedType DEF Client!SignalWritten
  <2> QED
    BY <1>2, <2>2 DEF Client!SignalWritten
<1> QED
  BY <1>1, <1>2

LEMMA ClientStep == TypeOK /\ TypeOK' /\ ClientOK /\ [PathNext]_pathVars => ClientOK'
<1> SUFFICES ASSUME TypeOK, TypeOK', ClientOK, [PathNext]_pathVars PROVE ClientOK'
  OBVIOUS
<1>f. UNCHANGED <<clientVars, session>> => ClientOK'
  BY DEF clientVars, ClientOK
<1>1. CASE Startup \/ Refuse \/ Relay \/ PublishTelemetry \/ Forward \/ ClientMishap
  BY <1>1, StartupTyped, CommandLoopTyped, ResponseLoopTyped, TelemetryLoopTyped, MishapTyped
<1>2. CASE Answer
  <2>1. broker'.response \in Client!Responses
    BY SameResponses DEF TypeOK
  <2> QED
    BY <1>2, <2>1, <1>f, WrittenTyped DEF Answer
<1>3. CASE SetLocked
  <2>1. "IsLocked" \in Client!Signals /\ Bool(broker'.isLocked) \in {"true", "false"}
    BY DEF Client!Signals, Bool
  <2>2. mishaps' \in [Client!Mishaps -> Nat] /\ session' \in Client!Values
    BY <1>3 DEF SetLocked, ClientOK
  <2> QED
    BY <1>3, <2>1, <2>2, <1>f, WrittenTyped DEF SetLocked
<1>4. CASE SessionChanges
  <2>1. "SessionActive" \in Client!Signals /\ "active" \in Client!Mishaps
    BY DEF Client!Signals, Client!Mishaps
  <2>2. mishaps' \in [Client!Mishaps -> Nat]
    BY <1>4, <2>1, MishapType DEF SessionChanges, ClientOK
  <2>3. PICK v \in {"true", "false"} : session' = v /\ Client!SignalWritten("SessionActive", v)
    BY <1>4 DEF SessionChanges
  <2> QED
    BY <2>1, <2>2, <2>3, WrittenTyped DEF Client!Values
<1>5. CASE LockingLife \/ LockingSubscribes \/ LockingEnds \/ LockingTakes \/ LockingReads
  BY <1>5, <1>f DEF LockingLife, LockingSubscribes, LockingEnds, LockingTakes, LockingReads,
                    ByLocking
<1>6. CASE UNCHANGED pathVars
  BY <1>6, <1>f DEF pathVars
<1> QED
  BY <1>1, <1>2, <1>3, <1>4, <1>5, <1>6 DEF PathNext

BothInv == OrderInv /\ ClientOK

LEMMA BothInit == PathInit => BothInv
BY LockingInit, ClientInit DEF PathInit, BothInv

LEMMA BothStep == BothInv /\ [PathNext]_pathVars => BothInv'
<1> SUFFICES ASSUME BothInv, [PathNext]_pathVars PROVE BothInv'
  OBVIOUS
<1>1. OrderInv'
  BY Projection, LockingStep DEF BothInv, ClientOK
<1>2. TypeOK /\ TypeOK'
  BY <1>1 DEF BothInv, OrderInv, TypeInv
<1> QED
  BY <1>1, <1>2, ClientStep DEF BothInv

(* Type correctness of client and service together.                        *)
THEOREM PathTypeCorrect == PathSpec => []PathTypeOK
<1>1. BothInv => PathTypeOK
  BY PathTyped DEF BothInv, OrderInv, TypeInv
<1> QED
  BY <1>1, BothInit, BothStep, PTL DEF PathSpec

(* The LOCKING_SERVICE of the composition behaves as it does on its own:   *)
(* what is proved of it there holds here.                                  *)
THEOREM PathImplementsLocking == PathSpec => Spec
<1>1. PathInit => Init
  BY DEF PathInit
<1>2. BothInv /\ [PathNext]_pathVars => [Next]_vars
  BY Projection DEF BothInv, ClientOK
<1> QED
  BY <1>1, <1>2, BothInit, BothStep, PTL DEF PathSpec, Spec

-----------------------------------------------------------------------------
(* The client lets no command through whose answer would name no command,  *)
(* so every answer has the number of the command at work.                  *)
AnswersNameCommands ==
  /\ broker.command.n # 0 => broker.command.kind \in Passing
  /\ \A i \in 1 .. Len(inbox) : inbox[i].kind \in Passing
  /\ task.pc # "idle" => task.command.kind \in Passing
  /\ task.pc = "respond" => task.response.n = task.command.n

LEMMA AcceptNames ==
  ASSUME TypeOK, NEW c \in Commands, c.kind \in Passing
  PROVE  /\ Accept(c).command = c
         /\ Accept(c).pc = "respond" => Accept(c).response.n = c.n
<1> USE DEF At, Responding, Failure, Success
<1>1. CASE c.kind = "lock"
  BY <1>1 DEF Accept
<1>2. CASE c.kind = "unlock"
  BY <1>2 DEF Accept, Carry
<1>3. CASE c.kind \in {"otherDoor", "incomplete"}
  BY <1>3 DEF Accept
<1> QED
  BY <1>1, <1>2, <1>3 DEF Passing

LEMMA ForwardNames ==
  ASSUME BothInv, AnswersNameCommands, Forward
  PROVE  AnswersNameCommands'
<1>1. CASE ByClient
  BY <1>1 DEF ByClient, vars, AnswersNameCommands
<1>2. CASE commandSub # <<>> /\ PublishCommand(Head(commandSub).kind) /\ Client!Forward
  <2> DEFINE c == [n |-> count["command"] + 1, kind |-> Head(commandSub).kind]
  <2>1. Head(commandSub) \in Messages
    BY <1>2, HeadTailType DEF BothInv, ClientOK
  <2>2. c.kind \in Passing
    BY <1>2, <2>1, MessageParts DEF Client!Forward
  <2>3. c \in Commands
    BY <2>1, MessageParts DEF Commands, BothInv, OrderInv, TypeInv, TypeOK, Happenings
  <2>4. /\ broker' = [broker EXCEPT !.command = c]
        /\ inbox' = IF subscribed THEN Append(inbox, c) ELSE inbox
        /\ UNCHANGED task
    BY <1>2 DEF PublishCommand
  <2>5. inbox \in Seq(Commands) /\ broker'.command = c
    BY <2>4 DEF BothInv, OrderInv, TypeInv, TypeOK
  <2>6. \A i \in 1 .. Len(inbox') : inbox'[i].kind \in Passing
    <3> HIDE DEF c
    <3> QED
      BY <2>2, <2>3, <2>4, <2>5 DEF AnswersNameCommands
  <2> QED
    BY <2>2, <2>4, <2>5, <2>6 DEF AnswersNameCommands
<1> QED
  BY <1>1, <1>2 DEF Forward

LEMMA LockingNames ==
  ASSUME BothInv, AnswersNameCommands,
         \/ Respond \/ PublishInitial \/ WriteState \/ Connect \/ Crash \/ ShutdownSignal
         \/ StreamEnds \/ SpeedChanges \/ DoorChanges \/ Subscribe \/ Resubscribe
         \/ GiveUp \/ Stop \/ Take \/ ReadSpeed \/ ReadDoor
  PROVE  AnswersNameCommands'
<1> USE DEF AnswersNameCommands
<1>0. TypeOK /\ TaskOK
  BY DEF BothInv, OrderInv, TypeInv
<1>1. CASE Respond
  BY <1>0, <1>1 DEF Respond, Rest, Idle, TypeOK
<1>2. CASE PublishInitial
  BY <1>0, <1>2 DEF PublishInitial, TypeOK
<1>3. CASE WriteState
  BY <1>0, <1>3 DEF WriteState, Rest, TypeOK, Responding, Success
<1>4. CASE Connect \/ ShutdownSignal
  BY <1>4 DEF Connect, ShutdownSignal
<1>5. CASE Crash \/ GiveUp \/ Stop
  BY <1>5 DEF Crash, GiveUp, Stop, Terminate, Idle
<1>6. CASE StreamEnds
  <2>1. PICK k \in 0 .. Len(inbox) : inbox' = SubSeq(inbox, 1, k)
    BY <1>6 DEF StreamEnds
  <2>2. k <= Len(inbox) /\ Len(inbox') = k /\ \A i \in 1 .. k : inbox'[i] = inbox[i]
    BY <1>0, <2>1, PrefixType DEF TypeOK
  <2> QED
    BY <1>0, <1>6, <2>2 DEF StreamEnds, TypeOK
<1>7. CASE SpeedChanges \/ DoorChanges
  BY <1>0, <1>7 DEF SpeedChanges, DoorChanges, TypeOK
<1>8. CASE Subscribe \/ Resubscribe
  <2>1. NewStream /\ UNCHANGED <<task, broker>>
    BY <1>8 DEF Subscribe, Resubscribe
  <2>2. CASE broker.command = NoCommand
    BY <2>1, <2>2 DEF NewStream
  <2>3. CASE broker.command # NoCommand
    <3>1. broker.command.n # 0
      BY <1>0, <2>3 DEF TypeOK, Commands
    <3>2. Len(inbox') = 1 /\ inbox'[1] = broker.command
      BY <2>1, <2>3 DEF NewStream
    <3> QED
      BY <2>1, <3>1, <3>2
  <2> QED
    BY <2>2, <2>3
<1>9. CASE Take
  <2>1. /\ Head(inbox) \in Commands /\ Len(inbox) \in Nat \ {0} /\ Head(inbox) = inbox[1]
        /\ Len(inbox') = Len(inbox) - 1
        /\ \A i \in 1 .. Len(inbox') : inbox'[i] = inbox[i + 1]
    BY <1>0, <1>9 DEF Take, TypeOK
  <2>2. Head(inbox).kind \in Passing
    BY <2>1
  <2>3. \A i \in 1 .. Len(inbox') : inbox'[i].kind \in Passing
    BY <2>1
  <2>4. /\ task' = Accept(Head(inbox)) /\ UNCHANGED broker
    BY <1>9 DEF Take
  <2> QED
    BY <1>0, <2>1, <2>2, <2>3, <2>4, AcceptNames
<1>10. CASE ReadSpeed \/ ReadDoor
  BY <1>0, <1>10 DEF ReadSpeed, ReadDoor, Reading, Rest, At, Responding, Failure, Carry, Success
<1> QED
  BY <1>1, <1>2, <1>3, <1>4, <1>5, <1>6, <1>7, <1>8, <1>9, <1>10

LEMMA NamesStep == BothInv /\ AnswersNameCommands /\ [PathNext]_pathVars => AnswersNameCommands'
<1> SUFFICES ASSUME BothInv, AnswersNameCommands, [PathNext]_pathVars
             PROVE  AnswersNameCommands'
  OBVIOUS
<1>1. CASE UNCHANGED vars
  BY <1>1 DEF vars, AnswersNameCommands
<1>2. CASE Startup \/ Refuse \/ Relay \/ PublishTelemetry \/ ClientMishap \/ SessionChanges
  BY <1>1, <1>2 DEF Startup, Refuse, Relay, PublishTelemetry, ClientMishap, SessionChanges,
                    ByClient
<1>3. CASE Forward
  BY <1>3, ForwardNames
<1>4. CASE Answer \/ SetLocked \/ LockingLife \/ LockingSubscribes \/ LockingEnds
             \/ LockingTakes \/ LockingReads
  BY <1>4, LockingNames DEF Answer, SetLocked, LockingLife, LockingSubscribes, LockingEnds,
                            LockingTakes, LockingReads
<1>5. CASE UNCHANGED pathVars
  BY <1>1, <1>5 DEF pathVars
<1> QED
  BY <1>2, <1>3, <1>4, <1>5 DEF PathNext

-----------------------------------------------------------------------------
(* The responses on their way are in order, between what the cloud knows   *)
(* and what the DATA_BROKER holds.                                         *)
RelayInv ==
  LET items == responseStream.items IN
  /\ cloud.response.n <= broker.response.n
  /\ \A i \in 1 .. Len(items) : cloud.response.n <= items[i].n /\ items[i].n <= broker.response.n
  /\ \A i, j \in 1 .. Len(items) : i < j => items[i].n <= items[j].n

(* The numbers RelayInv compares.                                          *)
LEMMA RelayTypes ==
  ASSUME BothInv
  PROVE  /\ cloud.response.n \in Nat /\ broker.response.n \in Nat
         /\ responseStream.items \in Seq(Client!Responses)
         /\ \A i \in 1 .. Len(responseStream.items) : responseStream.items[i].n \in Nat
<1>1. cloud.response \in Client!Responses /\ broker.response \in Client!Responses
        /\ responseStream.items \in Seq(Client!Responses)
  BY BrokerTypes DEF BothInv, OrderInv, TypeInv, ClientOK
<1>2. \A r \in Client!Responses : r.n \in Nat
  BY DEF Client!Responses
<1> QED
  BY <1>1, <1>2

LEMMA RelayFrame ==
  ASSUME RelayInv, broker'.response = broker.response,
         UNCHANGED <<cloud, responseStream>>
  PROVE  RelayInv'
BY DEF RelayInv

(* A response relayed, or dropped because its publication failed.          *)
LEMMA RelayOrder ==
  ASSUME BothInv, RelayInv, Relay
  PROVE  RelayInv' /\ cloud'.response.n >= cloud.response.n
<1> DEFINE items == responseStream.items
<1>1. /\ items # <<>> /\ items \in Seq(Client!Responses)
      /\ responseStream'.items = Tail(items) /\ UNCHANGED broker
      /\ cloud'.response \in {cloud.response, Head(items)}
  BY RelayTypes DEF Relay, ByClient, vars, Client!Relay, Client!RelayFails, Client!HasResponse,
                    Client!Memory, Client!Outside, BothInv, ClientOK
<1>2. /\ Len(items) \in Nat \ {0} /\ Head(items) = items[1]
      /\ Len(Tail(items)) = Len(items) - 1
      /\ \A i \in 1 .. Len(items) - 1 : Tail(items)[i] = items[i + 1] /\ i + 1 \in 1 .. Len(items)
  BY <1>1
<1>3. /\ cloud'.response.n <= broker.response.n /\ cloud'.response.n >= cloud.response.n
      /\ \A i \in 2 .. Len(items) : cloud'.response.n <= items[i].n
  <2> HIDE DEF items
  <2>1. /\ cloud.response.n \in Nat /\ broker.response.n \in Nat
        /\ \A i \in 1 .. Len(items) : items[i].n \in Nat
    BY RelayTypes DEF items
  <2>2. /\ cloud.response.n <= broker.response.n
        /\ \A i \in 1 .. Len(items) : cloud.response.n <= items[i].n /\ items[i].n <= broker.response.n
        /\ \A i, j \in 1 .. Len(items) : i < j => items[i].n <= items[j].n
    BY DEF RelayInv, items
  <2> QED
    BY <1>1, <1>2, <2>1, <2>2
<1>4. RelayInv'
  BY <1>1, <1>2, <1>3 DEF RelayInv
<1> QED
  BY <1>3, <1>4

(* A new response is no older than the last one.                           *)
LEMMA AnswerOrder ==
  ASSUME BothInv, AnswersNameCommands, RelayInv, Answer
  PROVE  RelayInv' /\ UNCHANGED cloud
<1>1. CASE broker'.response = broker.response
  BY <1>1, RelayFrame DEF Answer, clientVars
<1>2. CASE broker'.response # broker.response
  <2> DEFINE r == broker'.response
             items == responseStream.items
  <2>1. task.pc = "respond" /\ r = task.response
    BY <1>2 DEF Answer, Respond, BothInv, OrderInv, TypeInv, TypeOK
  <2>2. r \in Client!Responses /\ r.n \in Nat
    BY <2>1, SameResponses DEF BothInv, OrderInv, TypeInv, TypeOK, Tasks, Responses
  <2>3. broker.response.n <= r.n
    BY <2>1, <2>2, RelayTypes DEF AnswersNameCommands, BothInv, OrderInv, InOrder, Floor
  <2>4. UNCHANGED cloud /\ responseStream' = Client!Feed(responseStream, r)
    BY <1>2 DEF Answer, Client!ResponseWritten
  <2>5. responseStream'.items \in {items, Append(items, r)}
    BY <2>4 DEF Client!Feed, BothInv, ClientOK
  <2>6. RelayInv'
    <3> HIDE DEF r, items
    <3>1. /\ cloud.response.n \in Nat /\ broker.response.n \in Nat
          /\ items \in Seq(Client!Responses)
          /\ \A i \in 1 .. Len(items) : items[i].n \in Nat
      BY RelayTypes DEF items
    <3>2. /\ cloud.response.n <= broker.response.n
          /\ \A i \in 1 .. Len(items) : cloud.response.n <= items[i].n /\ items[i].n <= broker.response.n
          /\ \A i, j \in 1 .. Len(items) : i < j => items[i].n <= items[j].n
      BY DEF RelayInv, items
    <3>3. \A i \in 1 .. Len(items) : items[i].n <= r.n
      BY <2>2, <2>3, <3>1, <3>2
    <3>0. UNCHANGED cloud
      BY <2>4
    <3>4. CASE responseStream'.items = items
      <4>1. cloud.response.n <= r.n
        BY <2>2, <2>3, <3>1, <3>2
      <4> QED
        BY <3>0, <3>2, <3>3, <3>4, <4>1 DEF RelayInv, r
    <3>5. CASE responseStream'.items = Append(items, r)
      <4>1. /\ Len(Append(items, r)) = Len(items) + 1 /\ Append(items, r)[Len(items) + 1] = r
            /\ \A i \in 1 .. Len(items) : Append(items, r)[i] = items[i]
        BY <2>2, <3>1
      <4> QED
        BY <2>2, <2>3, <3>0, <3>1, <3>2, <3>3, <3>5, <4>1 DEF RelayInv, r
    <3> QED
      BY <2>5, <3>4, <3>5
  <2> QED
    BY <2>4, <2>6
<1> QED
  BY <1>1, <1>2

(* A stream begins with the current response, or loses its end.            *)
LEMMA StreamOrder ==
  ASSUME BothInv, RelayInv, UNCHANGED vars,
         cloud'.response = cloud.response,
         \/ Client!SubscribeResponses
         \/ responseStream' \in Client!Cut(responseStream)
         \/ responseStream' = Client!Closed
  PROVE  RelayInv'
<1> USE RelayTypes
<1>0. broker' = broker
  BY DEF vars
<1>1. CASE Client!SubscribeResponses
  <2>1. responseStream'.items \in {<<>>, <<broker.response>>}
    BY <1>1, BrokerTypes DEF Client!SubscribeResponses, BothInv, OrderInv, TypeInv, ClientOK
  <2> QED
    BY <1>0, <2>1 DEF RelayInv
<1>2. CASE responseStream' = Client!Closed
  <2>1. responseStream'.items = <<>>
    BY <1>2 DEF Client!Closed
  <2> QED
    BY <1>0, <2>1 DEF RelayInv
<1>3. CASE responseStream' \in Client!Cut(responseStream)
  <2>1. PICK k \in 0 .. Len(responseStream.items) :
          responseStream'.items = SubSeq(responseStream.items, 1, k)
    BY <1>3 DEF Client!Cut
  <2>2. /\ Len(responseStream'.items) = k /\ k <= Len(responseStream.items)
        /\ \A i \in 1 .. k : /\ responseStream'.items[i] = responseStream.items[i]
                             /\ i \in 1 .. Len(responseStream.items)
    BY <2>1, PrefixType
  <2> QED
    BY <1>0, <2>2 DEF RelayInv
<1> QED
  BY <1>1, <1>2, <1>3

(* Every other step leaves the responses alone.                            *)
LEMMA RelayStep ==
  BothInv /\ AnswersNameCommands /\ RelayInv /\ [PathNext]_pathVars
    => RelayInv' /\ (cloud'.response.n >= cloud.response.n)
<1> SUFFICES ASSUME BothInv, AnswersNameCommands, RelayInv, [PathNext]_pathVars
             PROVE  RelayInv' /\ cloud'.response.n >= cloud.response.n
  OBVIOUS
<1>0. cloud'.response = cloud.response => cloud'.response.n >= cloud.response.n
  BY RelayTypes
<1>c. cloud \in [online : BOOLEAN, response : Client!Responses, telemetry : Client!Telemetry]
  BY DEF BothInv, ClientOK
<1>b. broker \in [isLocked : BOOLEAN, command : Commands \cup {NoCommand},
                 response : Responses, moving : BOOLEAN, doorOpen : BOOLEAN]
  BY DEF BothInv, OrderInv, TypeInv, TypeOK
<1>1. CASE Relay
  BY <1>1, RelayOrder
<1>2. CASE Answer
  BY <1>0, <1>2, AnswerOrder
<1>3. CASE Startup
  <2>1. cloud'.response = cloud.response
    BY <1>3, <1>c DEF Startup, Client!ConnectNats, Client!ConnectBroker,
         Client!PublishRegistration, Client!SubscribeResponses,
         Client!SubscribeTelemetry, Client!SubscribeCommands, Client!Outside
  <2>2. CASE Client!SubscribeResponses
    BY <1>0, <1>3, <2>1, <2>2, StreamOrder DEF Startup, ByClient
  <2>3. CASE UNCHANGED responseStream
    BY <1>0, <1>3, <2>1, <2>3 DEF Startup, ByClient, vars, RelayInv
  <2> QED
    BY <1>3, <2>2, <2>3 DEF Startup, Client!ConnectNats, Client!ConnectBroker,
         Client!PublishRegistration, Client!SubscribeTelemetry, Client!SubscribeCommands,
         Client!Streams
<1>4. CASE ClientMishap
  <2>1. UNCHANGED cloud /\ UNCHANGED vars
    BY <1>4 DEF ClientMishap, ByClient, Client!Boot, Client!NatsRefuses, Client!StartupFails,
         Client!Crash, Client!StreamEnds, Client!CloudSends, Client!Terminate, Client!Outside
  <2>2. \/ UNCHANGED responseStream \/ responseStream' = Client!Closed
        \/ responseStream' \in Client!Cut(responseStream)
    BY <1>4 DEF ClientMishap, Client!Boot, Client!NatsRefuses, Client!StartupFails,
         Client!Crash, Client!StreamEnds, Client!CloudSends, Client!Terminate, Client!Streams
  <2> QED
    BY <1>0, <2>1, <2>2, StreamOrder, RelayFrame DEF vars
<1>5. CASE PublishTelemetry
  <2>1. cloud'.response = cloud.response /\ UNCHANGED <<vars, responseStream>>
    BY <1>5, <1>c DEF PublishTelemetry, ByClient, Client!PublishTelemetry,
         Client!TelemetryFails, Client!NextUpdate
  <2> QED
    BY <1>0, <2>1 DEF vars, RelayInv
<1>6. CASE Refuse \/ Forward
  <2>1. UNCHANGED <<cloud, responseStream>> /\ broker'.response = broker.response
    BY <1>6, <1>b DEF Refuse, Forward, ByClient, vars, Client!Refuse, Client!Forward,
         Client!ForwardFails, Client!Streams, Client!Outside, PublishCommand
  <2> QED
    BY <1>0, <2>1, RelayFrame
<1>7. CASE SetLocked \/ SessionChanges
  <2>1. UNCHANGED <<cloud, responseStream>> /\ broker'.response = broker.response
    BY <1>7, <1>b DEF SetLocked, SessionChanges, clientVars, vars, Client!SignalWritten,
         PublishInitial, WriteState
  <2> QED
    BY <1>0, <2>1, RelayFrame
<1>8. CASE LockingLife \/ LockingSubscribes \/ LockingEnds \/ LockingTakes \/ LockingReads
  <2>1. UNCHANGED <<cloud, responseStream>>
    BY <1>8 DEF LockingLife, LockingSubscribes, LockingEnds, LockingTakes, LockingReads,
         ByLocking, clientVars
  <2>2. LockingLife => broker'.response = broker.response
    BY <1>b DEF LockingLife, Connect, Crash, ShutdownSignal,
         StreamEnds, SpeedChanges, DoorChanges, Terminate
  <2>3. LockingSubscribes \/ LockingEnds => broker'.response = broker.response
    BY DEF LockingSubscribes, LockingEnds, Subscribe, Resubscribe, GiveUp, Stop, Terminate
  <2>4. LockingTakes \/ LockingReads => broker'.response = broker.response
    BY DEF LockingTakes, LockingReads, Take, ReadSpeed, ReadDoor, Reading
  <2>5. broker'.response = broker.response
    BY <1>8, <2>2, <2>3, <2>4
  <2> QED
    BY <1>0, <2>1, <2>5, RelayFrame
<1>9. CASE UNCHANGED pathVars
  BY <1>0, <1>9, RelayFrame DEF pathVars, vars, clientVars
<1> QED
  BY <1>1, <1>2, <1>3, <1>4, <1>5, <1>6, <1>7, <1>8, <1>9 DEF PathNext

LEMMA RelayInit == PathInit => AnswersNameCommands /\ RelayInv
BY DEF PathInit, Init, Client!Init, Client!Closed, Client!NoResponse, Idle, NoCommand, NoResponse,
       AnswersNameCommands, RelayInv

(* Whatever crashes, ends or fails to be published, the cloud never hears  *)
(* of a command after it has heard of a later one (04-REQ-7.1).            *)
THEOREM RelayedInOrder == PathSpec => RelayInOrder
<1>1. BothInv /\ AnswersNameCommands /\ RelayInv /\ [PathNext]_pathVars
        => [cloud'.response.n >= cloud.response.n]_pathVars
  BY RelayStep
<1> QED
  BY <1>1, BothInit, BothStep, NamesStep, RelayInit, RelayStep, PTL DEF PathSpec, RelayInOrder

-----------------------------------------------------------------------------
(* The telemetry the cloud sees: the updates on their way, after what the  *)
(* client knows, lead to the signals of the DATA_BROKER.                   *)
Value(s) == IF s = "IsLocked" THEN Bool(broker.isLocked) ELSE session

Shows(items, s, before, now) ==
  \/ /\ \A i \in 1 .. Len(items) : items[i].signal # s
     /\ before = now
  \/ \E i \in 1 .. Len(items) :
       /\ items[i].signal = s /\ items[i].value = now
       /\ \A k \in 1 .. Len(items) : i < k => items[k].signal # s

TelemetryInv ==
  /\ telemetryStream.open => stage \in {"commands", "running"}
  /\ stage # "running" => known = Client!Nothing
  /\ mishaps["publish"] = 0 => known = Client!Nothing \/ cloud.telemetry = known
  /\ telemetryStream.open =>
       \A s \in Client!Signals : Shows(telemetryStream.items, s, known[s], Value(s))

LEMMA SignalValues ==
  ASSUME BothInv
  PROVE  /\ \A s \in Client!Signals : dataBroker.signals[s] = Value(s)
         /\ Value("IsLocked") \in {"true", "false"} /\ Value("SessionActive") = session
         /\ dataBroker.signals \in Client!Telemetry
<1>1. dataBroker.signals = [IsLocked |-> Bool(broker.isLocked), SessionActive |-> session]
  BY DEF dataBroker
<1>2. dataBroker.signals["IsLocked"] = Bool(broker.isLocked)
        /\ dataBroker.signals["SessionActive"] = session
  BY <1>1
<1>3. Value("IsLocked") = Bool(broker.isLocked) /\ Value("SessionActive") = session
  BY DEF Value
<1>4. dataBroker.signals \in Client!Telemetry
  BY BrokerTypes DEF BothInv, OrderInv, TypeInv, ClientOK
<1> QED
  BY <1>2, <1>3, <1>4 DEF Client!Signals, Bool

LEMMA ShowsAppended ==
  ASSUME NEW items \in Seq(Client!Updates), NEW u \in Client!Updates, NEW s, NEW x, NEW y,
         s # u.signal => Shows(items, s, x, y),
         s = u.signal => y = u.value
  PROVE  Shows(Append(items, u), s, x, y)
<1> DEFINE longer == Append(items, u)
<1>1. /\ Len(items) \in Nat /\ Len(longer) = Len(items) + 1 /\ longer[Len(items) + 1] = u
      /\ \A i \in 1 .. Len(items) : longer[i] = items[i]
  OBVIOUS
<1> HIDE DEF longer
<1>2. CASE s = u.signal
  <2>1. Len(longer) \in 1 .. Len(longer) /\ \A k \in 1 .. Len(longer) : ~(Len(longer) < k)
    BY <1>1
  <2> QED
    BY <1>1, <1>2, <2>1 DEF Shows, longer
<1>3. CASE s # u.signal
  <2>1. CASE (\A i \in 1 .. Len(items) : items[i].signal # s) /\ x = y
    <3>1. \A i \in 1 .. Len(longer) : longer[i].signal # s
      BY <1>1, <1>3, <2>1
    <3> QED
      BY <2>1, <3>1 DEF Shows, longer
  <2>2. ASSUME NEW i \in 1 .. Len(items), items[i].signal = s, items[i].value = y,
               \A k \in 1 .. Len(items) : i < k => items[k].signal # s
        PROVE  Shows(longer, s, x, y)
    <3>1. i \in 1 .. Len(longer) /\ longer[i] = items[i]
      BY <1>1
    <3>2. \A k \in 1 .. Len(longer) : i < k => longer[k].signal # s
      BY <1>1, <1>3, <2>2
    <3> QED
      BY <2>2, <3>1, <3>2 DEF Shows
  <2> QED
    BY <1>3, <2>1, <2>2 DEF Shows, longer
<1> QED
  BY <1>2, <1>3

LEMMA ShowsRest ==
  ASSUME NEW items \in Seq(Client!Updates), items # <<>>, NEW s, NEW x, NEW y,
         Shows(items, s, x, y)
  PROVE  Shows(Tail(items), s, IF Head(items).signal = s THEN Head(items).value ELSE x, y)
<1> DEFINE rest == Tail(items)
           z == IF Head(items).signal = s THEN Head(items).value ELSE x
<1>1. /\ Len(items) \in Nat \ {0} /\ Head(items) = items[1] /\ Len(rest) = Len(items) - 1
      /\ \A i \in 1 .. Len(rest) : rest[i] = items[i + 1] /\ i + 1 \in 1 .. Len(items)
  OBVIOUS
<1> HIDE DEF rest
<1>2. CASE (\A i \in 1 .. Len(items) : items[i].signal # s) /\ x = y
  <2>1. z = y /\ \A i \in 1 .. Len(rest) : rest[i].signal # s
    BY <1>1, <1>2
  <2> QED
    BY <2>1 DEF Shows, rest
<1>3. ASSUME NEW i \in 1 .. Len(items), items[i].signal = s, items[i].value = y,
             \A k \in 1 .. Len(items) : i < k => items[k].signal # s
      PROVE  Shows(rest, s, z, y)
  <2>1. CASE i = 1
    <3>1. z = y
      BY <1>1, <1>3, <2>1
    <3>2. \A k \in 1 .. Len(rest) : rest[k].signal # s
      BY <1>1, <1>3, <2>1
    <3> QED
      BY <3>1, <3>2 DEF Shows
  <2>2. CASE i # 1
    <3>1. i - 1 \in 1 .. Len(rest) /\ rest[i - 1] = items[i]
      BY <1>1, <2>2
    <3>2. \A k \in 1 .. Len(rest) : i - 1 < k => rest[k].signal # s
      BY <1>1, <1>3
    <3> QED
      BY <1>3, <3>1, <3>2 DEF Shows
  <2> QED
    BY <2>1, <2>2
<1> QED
  BY <1>2, <1>3 DEF Shows, rest

(* No failed publication is forgotten.                                     *)
LEMMA FailuresStay ==
  ASSUME BothInv, [PathNext]_pathVars
  PROVE  mishaps'["publish"] = 0 => mishaps["publish"] = 0
<1>1. mishaps \in [Client!Mishaps -> Nat] /\ "publish" \in Client!Mishaps
  BY DEF BothInv, ClientOK, Client!Mishaps
<1>2. UNCHANGED mishaps \/ \E m \in Client!Mishaps : Client!Mishap(m)
  <2>m. \A m \in {"message", "refused", "startup", "publish", "write", "streamEnd",
                  "crash", "active"} : m \in Client!Mishaps
    BY DEF Client!Mishaps
  <2>1. CASE Startup \/ Refuse
    BY <2>1 DEF Startup, Refuse, Client!Refuse, Client!ConnectNats, Client!ConnectBroker,
         Client!PublishRegistration, Client!SubscribeResponses,
         Client!SubscribeTelemetry, Client!SubscribeCommands
  <2>2. CASE Relay \/ PublishTelemetry \/ Forward
    BY <2>2, <2>m DEF Relay, PublishTelemetry, Forward, Client!Relay, Client!RelayFails,
         Client!PublishTelemetry, Client!TelemetryFails, Client!Forward, Client!ForwardFails
  <2>3. CASE ClientMishap
    BY <2>3, <2>m DEF ClientMishap, Client!Boot, Client!NatsRefuses, Client!StartupFails,
         Client!Crash, Client!StreamEnds, Client!CloudSends
  <2>4. CASE Answer \/ SetLocked
    BY <2>4 DEF Answer, SetLocked
  <2>5. CASE SessionChanges
    BY <2>5, <2>m DEF SessionChanges
  <2>6. CASE LockingLife \/ LockingSubscribes \/ LockingEnds \/ LockingTakes \/ LockingReads
    BY <2>6 DEF LockingLife, LockingSubscribes, LockingEnds, LockingTakes, LockingReads,
         ByLocking, clientVars
  <2>7. CASE UNCHANGED pathVars
    BY <2>7 DEF pathVars, clientVars
  <2> QED
    BY <2>1, <2>2, <2>3, <2>4, <2>5, <2>6, <2>7 DEF PathNext
<1>3. ASSUME NEW m \in Client!Mishaps, Client!Mishap(m), mishaps'["publish"] = 0
      PROVE  mishaps["publish"] = 0
  BY <1>1, <1>3 DEF Client!Mishap
<1> QED
  BY <1>2, <1>3

LEMMA TelemetryFrame ==
  ASSUME TelemetryInv, UNCHANGED <<telemetryStream, known, session>>,
         cloud'.telemetry = cloud.telemetry, broker'.isLocked = broker.isLocked,
         mishaps'["publish"] = 0 => mishaps["publish"] = 0,
         \/ stage' = stage
         \/ known = Client!Nothing /\ ~telemetryStream.open
         \/ stage' = "running" /\ stage = "commands"
  PROVE  TelemetryInv'
<1>1. \A s : Value(s)' = Value(s)
  BY DEF Value, Bool
<1> QED
  BY <1>1 DEF TelemetryInv, Shows

(* One of the two signals is written.                                      *)
LEMMA TelemetryWritten ==
  ASSUME BothInv, TelemetryInv, NEW s \in Client!Signals, NEW v \in {"true", "false"},
         Client!SignalWritten(s, v), mishaps'["publish"] = 0 => mishaps["publish"] = 0,
         \A r \in Client!Signals : Value(r)' = IF r = s THEN v ELSE Value(r)
  PROVE  TelemetryInv'
<1> DEFINE u == [signal |-> s, value |-> v]
<1>1. UNCHANGED <<stage, known, cloud>> /\ telemetryStream' = Client!Feed(telemetryStream, u)
  BY DEF Client!SignalWritten, Client!Memory
<1>2. u \in Client!Updates /\ u.signal = s /\ u.value = v
  BY DEF Client!Updates
<1>3. telemetryStream \in [open : BOOLEAN, items : Seq(Client!Updates)]
  BY DEF BothInv, ClientOK
<1> HIDE DEF u
<1>4. /\ telemetryStream'.open = telemetryStream.open
      /\ telemetryStream.open => telemetryStream'.items = Append(telemetryStream.items, u)
  BY <1>1, <1>3 DEF Client!Feed
<1>5. ASSUME telemetryStream.open, NEW r \in Client!Signals
      PROVE  Shows(Append(telemetryStream.items, u), r, known[r], Value(r)')
  <2>1. Shows(telemetryStream.items, r, known[r], Value(r))
    BY <1>5 DEF TelemetryInv
  <2>2. r # s => Shows(telemetryStream.items, r, known[r], Value(r)')
    BY <2>1
  <2>3. r = s => Value(r)' = v
    OBVIOUS
  <2> QED
    BY <1>2, <1>3, <2>2, <2>3, ShowsAppended
<1>6. ASSUME telemetryStream.open, NEW r \in Client!Signals
      PROVE  Shows(telemetryStream'.items, r, known'[r], Value(r)')
  BY <1>1, <1>4, <1>5, <1>6
<1>7. /\ telemetryStream'.open => stage' \in {"commands", "running"}
      /\ stage' # "running" => known' = Client!Nothing
      /\ mishaps'["publish"] = 0 => known' = Client!Nothing \/ cloud'.telemetry = known'
  BY <1>1, <1>4 DEF TelemetryInv
<1> QED
  BY <1>4, <1>6, <1>7 DEF TelemetryInv

(* A new stream begins with the current values; nothing is known yet.      *)
LEMMA TelemetryBegins ==
  ASSUME BothInv, TelemetryInv, Client!SubscribeTelemetry, UNCHANGED vars, UNCHANGED session
  PROVE  TelemetryInv'
<1> DEFINE first(s) == [signal |-> s, value |-> Value(s)]
           items == telemetryStream'.items
<1>1. /\ stage = "telemetry" /\ stage' = "commands" /\ UNCHANGED <<known, cloud, mishaps>>
      /\ telemetryStream'.open
      /\ items \in Client!CurrentUpdates
  BY DEF Client!SubscribeTelemetry, Client!Advance, Client!Memory, Client!Outside
<1>2. known = Client!Nothing /\ \A s \in Client!Signals : known[s] = "unset"
  BY <1>1 DEF TelemetryInv, Client!Nothing
<1>3. \A s : Value(s)' = Value(s)
  BY DEF Value, Bool, vars
<1>4. /\ Value("IsLocked") # "unset"
      /\ \A s \in Client!Signals : dataBroker.signals[s] = Value(s)
      /\ Client!Signals = {"IsLocked", "SessionActive"}
  BY SignalValues DEF Client!Signals
<1>5. LET l == <<first("IsLocked")>>
          a == IF Value("SessionActive") = "unset" THEN <<>> ELSE <<first("SessionActive")>>
      IN  items = l \o a \/ items = a \o l
  BY <1>1, <1>4 DEF Client!CurrentUpdates
<1>6. \/ Value("SessionActive") = "unset" /\ items = <<first("IsLocked")>>
      \/ items = <<first("IsLocked"), first("SessionActive")>>
      \/ items = <<first("SessionActive"), first("IsLocked")>>
  BY <1>5
<1>7. ASSUME NEW s \in Client!Signals
      PROVE  Shows(items, s, known[s], Value(s))
  <2>1. /\ \A i \in 1 .. Len(items) : items[i].signal = s => items[i].value = Value(s)
        /\ \A i, k \in 1 .. Len(items) : items[i].signal = s /\ items[k].signal = s => i = k
        /\ Len(items) \in Nat
        /\ (\A i \in 1 .. Len(items) : items[i].signal # s) => Value(s) = "unset"
    <3>1. CASE Value("SessionActive") = "unset" /\ items = <<first("IsLocked")>>
      <4>1. Len(items) = 1 /\ items[1] = first("IsLocked")
        BY <3>1
      <4>2. Len(items) = 1 /\ items[1].signal = "IsLocked" /\ items[1].value = Value("IsLocked")
        BY <4>1
      <4> HIDE DEF items, first
      <4> QED
        BY <1>4, <3>1, <4>2
    <3>2. ASSUME NEW s1 \in Client!Signals, NEW s2 \in Client!Signals, s1 # s2,
                 items = <<first(s1), first(s2)>>
          PROVE  /\ \A i \in 1 .. Len(items) : items[i].signal = s => items[i].value = Value(s)
                 /\ \A i, k \in 1 .. Len(items) : items[i].signal = s /\ items[k].signal = s => i = k
                 /\ Len(items) \in Nat
                 /\ (\A i \in 1 .. Len(items) : items[i].signal # s) => Value(s) = "unset"
      <4>1. Len(items) = 2 /\ items[1] = first(s1) /\ items[2] = first(s2)
        BY <3>2
      <4>2. /\ Len(items) = 2 /\ items[1].signal = s1 /\ items[1].value = Value(s1)
            /\ items[2].signal = s2 /\ items[2].value = Value(s2)
        BY <4>1
      <4>3. s = s1 \/ s = s2
        BY <1>4, <3>2
      <4> HIDE DEF items, first
      <4> QED
        BY <3>2, <4>2, <4>3
    <3>3. "IsLocked" \in Client!Signals /\ "SessionActive" \in Client!Signals
      BY <1>4
    <3> QED
      BY <1>6, <3>1, <3>2, <3>3
  <2>2. CASE \A i \in 1 .. Len(items) : items[i].signal # s
    BY <1>2, <2>1, <2>2 DEF Shows
  <2>3. ASSUME NEW i \in 1 .. Len(items), items[i].signal = s
        PROVE  Shows(items, s, known[s], Value(s))
    <3>1. \A k \in 1 .. Len(items) : i < k => items[k].signal # s
      BY <2>1, <2>3
    <3> QED
      BY <2>1, <2>3, <3>1 DEF Shows
  <2> QED
    BY <2>2, <2>3
<1>8. \A s \in Client!Signals : Shows(items, s, known'[s], Value(s)')
  BY <1>1, <1>3, <1>7
<1> HIDE DEF items
<1> QED
  BY <1>1, <1>2, <1>8 DEF TelemetryInv, items

(* The loop takes an update: what it knows is published, if it is news.    *)
LEMMA TelemetryTaken ==
  ASSUME BothInv, TelemetryInv, PublishTelemetry,
         mishaps'["publish"] = 0 => mishaps["publish"] = 0
  PROVE  TelemetryInv'
<1> DEFINE u == Head(telemetryStream.items)
<1>0. Client!HasUpdate /\ Client!NextUpdate /\ UNCHANGED vars /\ UNCHANGED session
  BY DEF PublishTelemetry, ByClient, Client!PublishTelemetry, Client!TelemetryFails,
         Client!NextUpdate
<1>1. /\ stage = "running" /\ stage' = "running" /\ telemetryStream.items # <<>>
      /\ telemetryStream'.items = Tail(telemetryStream.items)
      /\ telemetryStream'.open = telemetryStream.open
      /\ known' = [known EXCEPT ![u.signal] = u.value]
  BY <1>0 DEF Client!HasUpdate, Client!NextUpdate, Client!Updated, BothInv, ClientOK
<1>2. /\ telemetryStream.items \in Seq(Client!Updates) /\ u \in Client!Updates
      /\ known \in Client!Telemetry
  BY <1>1, HeadTailType DEF BothInv, ClientOK
<1> HIDE DEF u
<1>3. u.signal \in Client!Signals
  BY <1>2 DEF Client!Updates
<1>4. \A s \in Client!Signals : known'[s] = IF u.signal = s THEN u.value ELSE known[s]
  BY <1>1, <1>2 DEF Client!Telemetry
<1>5. \A s : Value(s)' = Value(s)
  BY <1>0 DEF Value, Bool, vars
<1>6. ASSUME telemetryStream.open, NEW s \in Client!Signals
      PROVE  Shows(telemetryStream'.items, s, known'[s], Value(s)')
  <2>1. Shows(telemetryStream.items, s, known[s], Value(s))
    BY <1>6 DEF TelemetryInv
  <2>2. Shows(Tail(telemetryStream.items), s,
              IF u.signal = s THEN u.value ELSE known[s], Value(s))
    BY <1>1, <1>2, <2>1, ShowsRest DEF u
  <2> QED
    BY <1>1, <1>4, <1>5, <2>2
<1>7. mishaps'["publish"] = 0 => known' = Client!Nothing \/ cloud'.telemetry = known'
  <2>1. CASE Client!PublishTelemetry
    <3>1. CASE Client!Changes(u)
      <4>1. cloud' = [cloud EXCEPT !.telemetry = known']
        BY <2>1, <3>1 DEF Client!PublishTelemetry, u
      <4> QED
        BY <4>1 DEF BothInv, ClientOK
    <3>2. CASE ~Client!Changes(u)
      <4>1. UNCHANGED <<cloud, mishaps>>
        BY <2>1, <3>2 DEF Client!PublishTelemetry, u
      <4>2. known' = known
        BY <1>1, <1>2, <1>3, <3>2 DEF Client!Changes, Client!Telemetry
      <4> QED
        BY <4>1, <4>2 DEF TelemetryInv
    <3> QED
      BY <3>1, <3>2
  <2>2. CASE Client!TelemetryFails
    <3>1. mishaps'["publish"] # 0
      BY <2>2 DEF Client!TelemetryFails, Client!Mishap, Client!Mishaps, BothInv, ClientOK
    <3> QED
      BY <3>1
  <2> QED
    BY <2>1, <2>2 DEF PublishTelemetry
<1> QED
  BY <1>1, <1>6, <1>7 DEF TelemetryInv

(* The stream has ended, with the process or without.                      *)
LEMMA TelemetryEnds ==
  ASSUME TelemetryInv, UNCHANGED cloud, ~telemetryStream'.open,
         mishaps'["publish"] = 0 => mishaps["publish"] = 0,
         known' = Client!Nothing \/ (UNCHANGED <<known, stage>>)
  PROVE  TelemetryInv'
BY DEF TelemetryInv

LEMMA TelemetryStep == BothInv /\ TelemetryInv /\ [PathNext]_pathVars => TelemetryInv'
<1> SUFFICES ASSUME BothInv, TelemetryInv, [PathNext]_pathVars PROVE TelemetryInv'
  OBVIOUS
<1>m. mishaps'["publish"] = 0 => mishaps["publish"] = 0
  BY FailuresStay
<1>c. cloud \in [online : BOOLEAN, response : Client!Responses, telemetry : Client!Telemetry]
  BY DEF BothInv, ClientOK
<1>b. broker \in [isLocked : BOOLEAN, command : Commands \cup {NoCommand},
                 response : Responses, moving : BOOLEAN, doorOpen : BOOLEAN]
  BY DEF BothInv, OrderInv, TypeInv, TypeOK
<1>t. telemetryStream \in [open : BOOLEAN, items : Seq(Client!Updates)]
  BY DEF BothInv, ClientOK
<1>1. CASE Startup
  <2>0. UNCHANGED vars /\ UNCHANGED session
    BY <1>1 DEF Startup, ByClient
  <2>1. CASE Client!SubscribeTelemetry
    BY <2>0, <2>1, TelemetryBegins
  <2>2. CASE Client!ConnectNats \/ Client!ConnectBroker \/ Client!PublishRegistration
             \/ Client!SubscribeResponses \/ Client!SubscribeCommands
    <3>1. /\ UNCHANGED <<telemetryStream, known>> /\ cloud'.telemetry = cloud.telemetry
          /\ \/ stage = "commands" /\ stage' = "running"
             \/ stage \in {"nats", "broker", "register", "responses"}
      BY <2>2, <1>c DEF Client!ConnectNats, Client!ConnectBroker, Client!PublishRegistration,
         Client!SubscribeResponses, Client!SubscribeCommands, Client!Advance,
         Client!Streams, Client!Memory, Client!Outside
    <3>2. \/ stage = "commands" /\ stage' = "running"
          \/ known = Client!Nothing /\ ~telemetryStream.open
      BY <3>1, <1>t DEF TelemetryInv
    <3> QED
      BY <1>m, <2>0, <3>1, <3>2, TelemetryFrame DEF vars
  <2> QED
    BY <1>1, <2>1, <2>2 DEF Startup
<1>2. CASE Refuse \/ Relay \/ Forward
  <2>1. /\ UNCHANGED <<telemetryStream, known, session, stage>>
        /\ cloud'.telemetry = cloud.telemetry
    BY <1>2, <1>c DEF Refuse, Relay, Forward, ByClient, Client!Refuse, Client!Relay,
       Client!RelayFails, Client!Forward, Client!ForwardFails, Client!Streams,
       Client!Memory, Client!Outside
  <2>2. broker'.isLocked = broker.isLocked
    BY <1>2, <1>b DEF Refuse, Relay, Forward, ByClient, vars, PublishCommand
  <2> QED
    BY <1>m, <2>1, <2>2, TelemetryFrame
<1>3. CASE PublishTelemetry
  BY <1>m, <1>3, TelemetryTaken
<1>4. CASE ClientMishap
  <2>0. UNCHANGED <<cloud, session, broker>>
    BY <1>4 DEF ClientMishap, ByClient, vars, Client!Boot, Client!NatsRefuses,
       Client!StartupFails, Client!Crash, Client!StreamEnds, Client!CloudSends,
       Client!Terminate, Client!Outside
  <2>1. CASE Client!Boot \/ Client!NatsRefuses
    <3>1. UNCHANGED <<telemetryStream, known>> /\ stage \in {"down", "nats"}
      BY <2>1 DEF Client!Boot, Client!NatsRefuses, Client!Advance, Client!Streams, Client!Memory
    <3>2. known = Client!Nothing /\ ~telemetryStream.open
      BY <3>1, <1>t DEF TelemetryInv
    <3> QED
      BY <1>m, <2>0, <3>1, <3>2, TelemetryFrame
  <2>2. CASE Client!StartupFails \/ Client!Crash
    <3>1. known' = Client!Nothing /\ ~telemetryStream'.open
      BY <2>2 DEF Client!StartupFails, Client!Crash, Client!Terminate, Client!Closed
    <3> QED
      BY <1>m, <2>0, <3>1, TelemetryEnds
  <2>3. CASE Client!StreamEnds
    <3>1. UNCHANGED <<known, stage>>
      BY <2>3 DEF Client!StreamEnds, Client!Memory
    <3>2. CASE UNCHANGED telemetryStream
      BY <1>m, <2>0, <3>1, <3>2, TelemetryFrame
    <3>3. CASE telemetryStream' \in Client!Cut(telemetryStream)
      <4>1. ~telemetryStream'.open
        BY <3>3 DEF Client!Cut
      <4> QED
        BY <1>m, <2>0, <3>1, <4>1, TelemetryEnds
    <3> QED
      BY <2>3, <3>2, <3>3 DEF Client!StreamEnds
  <2>4. ASSUME NEW m \in Messages, Client!CloudSends(m) PROVE TelemetryInv'
    <3>1. UNCHANGED <<telemetryStream, known, stage>>
      BY <2>4 DEF Client!CloudSends, Client!Streams
    <3> QED
      BY <1>m, <2>0, <3>1, TelemetryFrame
  <2> QED
    BY <1>4, <2>1, <2>2, <2>3, <2>4 DEF ClientMishap
<1>5. CASE Answer
  <2>1. /\ UNCHANGED <<telemetryStream, known, session, stage, cloud>>
        /\ broker'.isLocked = broker.isLocked
    BY <1>5, <1>b DEF Answer, Respond, clientVars, Client!ResponseWritten, Client!Memory
  <2> QED
    BY <1>m, <2>1, TelemetryFrame
<1>6. CASE SetLocked
  <2>1. CASE broker'.isLocked = broker.isLocked
    <3>1. UNCHANGED <<telemetryStream, known, session, stage, cloud>>
      BY <1>6, <2>1 DEF SetLocked, clientVars
    <3> QED
      BY <1>m, <2>1, <3>1, TelemetryFrame
  <2>2. CASE broker'.isLocked # broker.isLocked
    <3>1. Client!SignalWritten("IsLocked", Bool(broker'.isLocked)) /\ UNCHANGED session
      BY <1>6, <2>2 DEF SetLocked
    <3>2. Bool(broker'.isLocked) \in {"true", "false"} /\ "IsLocked" \in Client!Signals
      BY DEF Bool, Client!Signals
    <3>3. \A r \in Client!Signals :
            Value(r)' = IF r = "IsLocked" THEN Bool(broker'.isLocked) ELSE Value(r)
      BY <3>1 DEF Value, Bool
    <3> QED
      BY <1>m, <3>1, <3>2, <3>3, TelemetryWritten
  <2> QED
    BY <2>1, <2>2
<1>7. CASE SessionChanges
  <2>1. PICK v \in {"true", "false"} : session' = v /\ Client!SignalWritten("SessionActive", v)
    BY <1>7 DEF SessionChanges
  <2>2. \A r \in Client!Signals : Value(r)' = IF r = "SessionActive" THEN v ELSE Value(r)
    BY <1>7, <2>1 DEF SessionChanges, vars, Value, Bool, Client!Signals
  <2>3. "SessionActive" \in Client!Signals
    BY DEF Client!Signals
  <2> QED
    BY <1>m, <2>1, <2>2, <2>3, TelemetryWritten
<1>8. CASE LockingLife \/ LockingSubscribes \/ LockingEnds \/ LockingTakes \/ LockingReads
  <2>1. UNCHANGED <<telemetryStream, known, session, stage, cloud>>
    BY <1>8 DEF LockingLife, LockingSubscribes, LockingEnds, LockingTakes, LockingReads,
         ByLocking, clientVars
  <2>2. LockingLife => broker'.isLocked = broker.isLocked
    BY <1>b DEF LockingLife, Connect, Crash, ShutdownSignal,
         StreamEnds, SpeedChanges, DoorChanges, Terminate
  <2>3. LockingSubscribes \/ LockingEnds => broker'.isLocked = broker.isLocked
    BY DEF LockingSubscribes, LockingEnds, Subscribe, Resubscribe, GiveUp, Stop, Terminate
  <2>4. LockingTakes \/ LockingReads => broker'.isLocked = broker.isLocked
    BY DEF LockingTakes, LockingReads, Take, ReadSpeed, ReadDoor, Reading
  <2> QED
    BY <1>8, <1>m, <2>1, <2>2, <2>3, <2>4, TelemetryFrame
<1>9. CASE UNCHANGED pathVars
  <2>1. UNCHANGED <<telemetryStream, known, session, stage, cloud, broker>>
    BY <1>9 DEF pathVars, clientVars, vars
  <2> QED
    BY <1>m, <2>1, TelemetryFrame
<1> QED
  BY <1>1, <1>2, <1>3, <1>4, <1>5, <1>6, <1>7, <1>8, <1>9 DEF PathNext

LEMMA TelemetryInit == PathInit => TelemetryInv
BY DEF PathInit, Client!Init, Client!Closed, TelemetryInv

(* A client that has caught up has published the signals as they are, with *)
(* crashes and streams begun anew, while no publication failed: what it    *)
(* knows after the updates on their way is what the DATA_BROKER holds, and *)
(* what it knows it has published.                                         *)
THEOREM TelemetryCurrent == PathSpec => []TelemetryIsCurrent
<1>1. BothInv /\ TelemetryInv => TelemetryIsCurrent
  <2> SUFFICES ASSUME BothInv, TelemetryInv, telemetryStream.open,
                      telemetryStream.items = <<>>, mishaps["publish"] = 0
               PROVE  cloud.telemetry = dataBroker.signals
    BY DEF TelemetryIsCurrent
  <2>1. \A s \in Client!Signals : known[s] = Value(s)
    BY DEF TelemetryInv, Shows
  <2>2. known = dataBroker.signals
    BY <2>1, SignalValues DEF BothInv, ClientOK, Client!Telemetry
  <2>3. known # Client!Nothing
    BY <2>1, SignalValues DEF Client!Nothing, Client!Signals
  <2> QED
    BY <2>2, <2>3 DEF TelemetryInv
<1> QED
  BY <1>1, BothInit, BothStep, TelemetryInit, TelemetryStep, PTL DEF PathSpec

-----------------------------------------------------------------------------
(* The answer to the last command: what the service has answered, or is    *)
(* about to answer, goes with the lock it remembers.                       *)
DoneInv ==
  /\ task.pc = "respond" /\ task.response.status = "success"
       => lockState = (task.command.kind = "lock")
  /\ subscribed /\ inbox # <<>> => inbox[Len(inbox)] = broker.command
  /\ subscribed /\ inbox = <<>> /\ task.pc # "idle" => task.command = broker.command
  /\ subscribed /\ inbox = <<>> /\ task.pc = "idle" /\ count["respond"] = 0
       => \/ broker.command.n = 0
          \/ /\ broker.response.n = broker.command.n
             /\ broker.response.status = "success"
                  => lockState = (broker.command.kind = "lock")

LEMMA AcceptDone ==
  ASSUME NEW c \in Commands, c.kind \in Passing
  PROVE  /\ Accept(c).pc # "idle"
         /\ Accept(c).pc = "respond" /\ Accept(c).response.status = "success"
              => lockState = (c.kind = "lock")
<1> USE DEF At, Responding, Failure, Success
<1>1. CASE c.kind = "lock"
  BY <1>1 DEF Accept
<1>2. CASE c.kind = "unlock"
  BY <1>2 DEF Accept, Carry
<1>3. CASE c.kind \in {"otherDoor", "incomplete"}
  BY <1>3 DEF Accept
<1> QED
  BY <1>1, <1>2, <1>3 DEF Passing

LEMMA DoneFrame ==
  ASSUME DoneInv, UNCHANGED <<task, inbox, lockState, subscribed>>,
         broker'.command = broker.command, broker'.response = broker.response,
         count'["respond"] = count["respond"]
  PROVE  DoneInv'
BY DEF DoneInv

LEMMA DoneStep == BothInv /\ AnswersNameCommands /\ DoneInv /\ [Next]_vars => DoneInv'
<1> SUFFICES ASSUME BothInv, AnswersNameCommands, DoneInv, [Next]_vars PROVE DoneInv'
  OBVIOUS
<1>0. TypeOK /\ TaskOK /\ Starting
  BY DEF BothInv, OrderInv, TypeInv, PublishInv
<1>h. Happenings = {"command", "sensor", "read", "state", "respond", "streamEnd",
                    "crash", "shutdown"}
  BY DEF Happenings
<1>c. count \in [Happenings -> Nat]
  BY <1>0 DEF TypeOK
<1>b. broker \in [isLocked : BOOLEAN, command : Commands \cup {NoCommand},
                  response : Responses, moving : BOOLEAN, doorOpen : BOOLEAN]
  BY <1>0 DEF TypeOK
<1>n. \A h \in Happenings : Happens(h) /\ h # "respond" => count'["respond"] = count["respond"]
  BY <1>c, <1>h, OtherCount DEF Happens
<1>1. CASE Connect \/ PublishInitial \/ ShutdownSignal
  <2>1. /\ UNCHANGED <<task, inbox, lockState, subscribed>>
        /\ broker'.command = broker.command /\ broker'.response = broker.response
    BY <1>1, <1>b DEF Connect, PublishInitial, ShutdownSignal
  <2>2. count'["respond"] = count["respond"]
    BY <1>1, <1>h, <1>n DEF Connect, PublishInitial, ShutdownSignal
  <2> QED
    BY <2>1, <2>2, DoneFrame
<1>2. CASE Subscribe \/ Resubscribe
  <2>1. NewStream /\ UNCHANGED <<task, broker, lockState>> /\ task.pc = "idle"
    BY <1>0, <1>2 DEF Subscribe, Resubscribe, StreamIsOver, Starting
  <2>2. CASE broker.command = NoCommand
    <3>1. inbox' = <<>> /\ broker'.command.n = 0 /\ task'.pc = "idle"
      BY <2>1, <2>2 DEF NewStream, NoCommand
    <3> QED
      BY <3>1 DEF DoneInv
  <2>3. CASE broker.command # NoCommand
    <3>1. inbox' # <<>> /\ inbox'[Len(inbox')] = broker'.command /\ task'.pc = "idle"
      BY <2>1, <2>3 DEF NewStream
    <3> QED
      BY <3>1 DEF DoneInv
  <2> QED
    BY <2>2, <2>3
<1>3. CASE GiveUp \/ Stop \/ Crash
  <2>1. subscribed' = FALSE /\ task' = Idle
    BY <1>3 DEF GiveUp, Stop, Crash, Terminate
  <2> QED
    BY <2>1 DEF DoneInv, Idle
<1>4. ASSUME NEW kind \in Kinds, PublishCommand(kind) PROVE DoneInv'
  <2> DEFINE c == [n |-> count["command"] + 1, kind |-> kind]
  <2>1. /\ UNCHANGED <<task, lockState, subscribed>> /\ broker' = [broker EXCEPT !.command = c]
        /\ subscribed => inbox' = Append(inbox, c)
    BY <1>4 DEF PublishCommand
  <2>2. c \in Commands
    BY <1>c, <1>h DEF Commands
  <2>3. subscribed' => inbox' # <<>> /\ inbox'[Len(inbox')] = broker'.command
    <3> SUFFICES ASSUME subscribed PROVE inbox' # <<>> /\ inbox'[Len(inbox')] = broker'.command
      BY <2>1
    <3>1. broker'.command = c
      BY <1>b, <2>1
    <3> HIDE DEF c
    <3>2. inbox \in Seq(Commands)
      BY <1>0 DEF TypeOK
    <3>3. /\ Append(inbox, c) # <<>> /\ Len(Append(inbox, c)) = Len(inbox) + 1
          /\ Append(inbox, c)[Len(inbox) + 1] = c
      BY <2>2, <3>2
    <3> QED
      BY <2>1, <3>1, <3>3
  <2> QED
    BY <2>1, <2>3 DEF DoneInv
<1>5. CASE StreamEnds
  BY <1>5 DEF StreamEnds, DoneInv
<1>6. CASE SpeedChanges \/ DoorChanges
  <2>1. /\ UNCHANGED <<task, inbox, lockState, subscribed>>
        /\ broker'.command = broker.command /\ broker'.response = broker.response
    BY <1>6, <1>b DEF SpeedChanges, DoorChanges
  <2>2. count'["respond"] = count["respond"]
    BY <1>6, <1>h, <1>n DEF SpeedChanges, DoorChanges
  <2> QED
    BY <2>1, <2>2, DoneFrame
<1>7. CASE Take
  <2> DEFINE c == Head(inbox)
  <2>1. /\ inbox # <<>> /\ inbox' = Tail(inbox) /\ task' = Accept(c)
        /\ UNCHANGED <<lockState, subscribed, broker, count>>
    BY <1>7 DEF Take
  <2>2. /\ inbox \in Seq(Commands) /\ c \in Commands /\ c = inbox[1]
        /\ Len(inbox) \in Nat \ {0} /\ Len(inbox') = Len(inbox) - 1
        /\ \A i \in 1 .. Len(inbox') : inbox'[i] = inbox[i + 1]
        /\ inbox' \in Seq(Commands)
    BY <1>0, <2>1 DEF TypeOK
  <2>8. (inbox' = <<>> <=> Len(inbox') = 0) /\ Len(inbox') \in Nat
    BY <2>2
  <2>3. c.kind \in Passing
    BY <2>2 DEF AnswersNameCommands
  <2>4. task'.command = c /\ task'.pc # "idle"
    BY <1>0, <2>1, <2>2, <2>3, AcceptNames, AcceptDone
  <2>5. task'.pc = "respond" /\ task'.response.status = "success"
          => lockState' = (task'.command.kind = "lock")
    BY <2>1, <2>2, <2>3, <2>4, AcceptDone
  <2> HIDE DEF c
  <2>6. subscribed' /\ inbox' # <<>> => inbox'[Len(inbox')] = broker'.command
    BY <2>1, <2>2, <2>8 DEF DoneInv
  <2>7. subscribed' /\ inbox' = <<>> => task'.command = broker'.command
    BY <2>1, <2>2, <2>4, <2>8 DEF DoneInv
  <2> QED
    BY <2>4, <2>5, <2>6, <2>7 DEF DoneInv
<1>8. CASE ReadSpeed \/ ReadDoor
  <2>1. /\ task.pc # "idle" /\ task'.pc # "idle" /\ task'.command = task.command
        /\ UNCHANGED <<inbox, lockState, subscribed, broker>>
    BY <1>8 DEF ReadSpeed, ReadDoor, Reading, Rest, At, Responding, Carry
  <2>2. task'.pc = "respond" /\ task'.response.status = "success"
          => lockState' = (task'.command.kind = "lock")
    BY <1>8 DEF ReadSpeed, ReadDoor, Reading, At, Responding, Carry, Failure
  <2> QED
    BY <2>1, <2>2 DEF DoneInv
<1>9. CASE WriteState
  <2>1. /\ task.pc # "idle" /\ task'.pc = "respond" /\ task'.command = task.command
        /\ lockState' = (task.command.kind = "lock")
        /\ UNCHANGED <<inbox, subscribed>> /\ broker'.command = broker.command
    BY <1>9, <1>b DEF WriteState, Rest, Responding
  <2> QED
    BY <2>1 DEF DoneInv
<1>10. CASE Respond
  <2>1. /\ task.pc = "respond" /\ task'.pc = "idle"
        /\ UNCHANGED <<inbox, subscribed, lockState>> /\ broker'.command = broker.command
    BY <1>10, <1>b DEF Respond, Rest, Idle
  <2>2. count'["respond"] = 0 => broker'.response = task.response
    BY <1>10, <1>b, <1>c, <1>h DEF Respond, Happens, Note
  <2>3. subscribed /\ inbox = <<>> => task.command = broker.command
    BY <2>1 DEF DoneInv
  <2> QED
    BY <2>1, <2>2, <2>3 DEF DoneInv, AnswersNameCommands
<1>11. CASE UNCHANGED vars
  BY <1>11, DoneFrame DEF vars
<1> QED
  BY <1>1, <1>2, <1>3, <1>4, <1>5, <1>6, <1>7, <1>8, <1>9, <1>10, <1>11
  DEF Next, Process, Lifecycle, Environment

LEMMA DoneInit == PathInit => DoneInv
BY DEF PathInit, Init, Idle, DoneInv

(* The responses on an open stream end with the one in the DATA_BROKER;    *)
(* when they are all relayed, the cloud has that one.                      *)
LatestInv ==
  LET items == responseStream.items IN
  /\ responseStream.open /\ mishaps["publish"] = 0
       => IF items = <<>> THEN cloud.response = broker.response
                          ELSE items[Len(items)] = broker.response
  /\ broker.response.n = 0 => broker.response = NoResponse
  /\ broker.response = NoResponse => cloud.response = NoResponse /\ items = <<>>

LEMMA LatestFrame ==
  ASSUME LatestInv, UNCHANGED responseStream, cloud'.response = cloud.response,
         broker'.response = broker.response,
         mishaps'["publish"] = 0 => mishaps["publish"] = 0
  PROVE  LatestInv'
BY DEF LatestInv

LEMMA LatestEnds ==
  ASSUME LatestInv, ~responseStream'.open, UNCHANGED cloud,
         broker'.response = broker.response,
         responseStream.items = <<>> => responseStream'.items = <<>>
  PROVE  LatestInv'
BY DEF LatestInv

LEMMA LatestBegins ==
  ASSUME BothInv, LatestInv, Client!SubscribeResponses, UNCHANGED broker
  PROVE  LatestInv'
<1>1. /\ UNCHANGED cloud
      /\ responseStream'.items = IF broker.response = NoResponse THEN <<>> ELSE <<broker.response>>
  BY SameResponses, BrokerTypes
     DEF Client!SubscribeResponses, Client!Outside, BothInv, OrderInv, TypeInv, ClientOK
<1>2. CASE broker.response = NoResponse
  <2>1. responseStream'.items = <<>>
    BY <1>1, <1>2
  <2> QED
    BY <1>1, <1>2, <2>1 DEF LatestInv
<1>3. CASE broker.response # NoResponse
  <2>1. /\ responseStream'.items # <<>>
        /\ responseStream'.items[Len(responseStream'.items)] = broker.response
    BY <1>1, <1>3
  <2> QED
    BY <1>3, <2>1 DEF LatestInv
<1> QED
  BY <1>2, <1>3

LEMMA AppendLast ==
  ASSUME NEW S, NEW s \in Seq(S), NEW x \in S
  PROVE  Append(s, x) # <<>> /\ Append(s, x)[Len(Append(s, x))] = x
<1>1. Len(s) \in Nat /\ Len(Append(s, x)) = Len(s) + 1 /\ Append(s, x)[Len(s) + 1] = x
  OBVIOUS
<1>2. Append(s, x) # <<>>
  OBVIOUS
<1> QED
  BY <1>1, <1>2

LEMMA RestOf ==
  ASSUME NEW S, NEW s \in Seq(S), s # <<>>
  PROVE  /\ Len(s) \in Nat \ {0} /\ Head(s) = s[1] /\ Len(Tail(s)) = Len(s) - 1
         /\ \A i \in 1 .. Len(s) - 1 : Tail(s)[i] = s[i + 1]
OBVIOUS

LEMMA EmptyLength ==
  ASSUME NEW S, NEW s \in Seq(S)
  PROVE  (s = <<>> <=> Len(s) = 0) /\ Len(s) \in Nat
OBVIOUS

LEMMA LatestRelayed ==
  ASSUME BothInv, LatestInv, Relay,
         mishaps'["publish"] = 0 => mishaps["publish"] = 0
  PROVE  LatestInv'
<1> DEFINE items == responseStream.items
<1>0. /\ responseStream \in [open : BOOLEAN, items : Seq(Client!Responses)]
      /\ cloud \in [online : BOOLEAN, response : Client!Responses, telemetry : Client!Telemetry]
      /\ mishaps \in [Client!Mishaps -> Nat] /\ "publish" \in Client!Mishaps
  BY DEF BothInv, ClientOK, Client!Mishaps
<1>1. /\ items # <<>> /\ UNCHANGED broker
      /\ responseStream'.items = Tail(items) /\ responseStream'.open = responseStream.open
      /\ mishaps'["publish"] = 0 => cloud'.response = Head(items)
  BY <1>0 DEF Relay, ByClient, vars, Client!Relay, Client!RelayFails, Client!HasResponse,
              Client!Mishap, Client!Outside
<1>2. items \in Seq(Client!Responses)
  BY <1>0
<1> HIDE DEF items
<1>3. /\ Head(items) = items[1] /\ Len(items) \in Nat \ {0} /\ Len(Tail(items)) = Len(items) - 1
      /\ \A i \in 1 .. Len(items) - 1 : Tail(items)[i] = items[i + 1]
  BY <1>1, <1>2, RestOf
<1>4. (Tail(items) = <<>> <=> Len(Tail(items)) = 0) /\ Len(Tail(items)) \in Nat
  BY <1>1, <1>2, HeadTailType, EmptyLength
<1>5. broker.response # NoResponse
  BY <1>1 DEF LatestInv, items
<1>6. responseStream.open /\ mishaps["publish"] = 0 => items[Len(items)] = broker.response
  BY <1>1 DEF LatestInv, items
<1>7. CASE Tail(items) = <<>>
  BY <1>1, <1>3, <1>4, <1>5, <1>6, <1>7 DEF LatestInv
<1>8. CASE Tail(items) # <<>>
  <2>1. Tail(items)[Len(Tail(items))] = items[Len(items)]
    BY <1>3, <1>4, <1>8
  <2> QED
    BY <1>1, <1>5, <1>6, <1>8, <2>1 DEF LatestInv
<1> QED
  BY <1>7, <1>8

LEMMA LatestAnswered ==
  ASSUME BothInv, AnswersNameCommands, LatestInv, Answer
  PROVE  LatestInv'
<1>0. UNCHANGED <<mishaps, cloud>>
  BY DEF Answer, clientVars, Client!ResponseWritten
<1>1. CASE broker'.response = broker.response
  <2>1. UNCHANGED responseStream
    BY <1>1 DEF Answer, clientVars
  <2> QED
    BY <1>0, <1>1, <2>1, LatestFrame
<1>2. CASE broker'.response # broker.response
  <2> DEFINE r == broker'.response
             items == responseStream.items
  <2>1. task.pc = "respond" /\ r = task.response
    BY <1>2 DEF Answer, Respond, BothInv, OrderInv, TypeInv, TypeOK
  <2>2. r \in Client!Responses
    BY <2>1, SameResponses DEF BothInv, OrderInv, TypeInv, TypeOK, Tasks
  <2>3. r.n # 0
    BY <2>1 DEF AnswersNameCommands, BothInv, OrderInv, TypeInv, TaskOK, Commands
  <2>4. r # NoResponse
    BY <2>3 DEF NoResponse
  <2>5. responseStream' = Client!Feed(responseStream, r)
    BY <1>2 DEF Answer, Client!ResponseWritten
  <2>6. /\ responseStream'.open = responseStream.open
        /\ responseStream.open => responseStream'.items = Append(items, r)
    BY <2>5 DEF Client!Feed, BothInv, ClientOK
  <2>7. items \in Seq(Client!Responses)
    BY DEF BothInv, ClientOK
  <2> HIDE DEF items
  <2>8. Append(items, r) # <<>> /\ Append(items, r)[Len(Append(items, r))] = r
    <3> HIDE DEF r
    <3> QED
      BY <2>2, <2>7, AppendLast
  <2> QED
    BY <2>3, <2>4, <2>6, <2>8 DEF LatestInv
<1> QED
  BY <1>1, <1>2

LEMMA LatestStep ==
  BothInv /\ AnswersNameCommands /\ LatestInv /\ [PathNext]_pathVars => LatestInv'
<1> SUFFICES ASSUME BothInv, AnswersNameCommands, LatestInv, [PathNext]_pathVars
             PROVE  LatestInv'
  OBVIOUS
<1>m. mishaps'["publish"] = 0 => mishaps["publish"] = 0
  BY FailuresStay
<1>c. cloud \in [online : BOOLEAN, response : Client!Responses, telemetry : Client!Telemetry]
  BY DEF BothInv, ClientOK
<1>b. broker \in [isLocked : BOOLEAN, command : Commands \cup {NoCommand},
                 response : Responses, moving : BOOLEAN, doorOpen : BOOLEAN]
  BY DEF BothInv, OrderInv, TypeInv, TypeOK
<1>1. CASE Startup
  <2>0. UNCHANGED broker
    BY <1>1 DEF Startup, ByClient, vars
  <2>1. CASE Client!SubscribeResponses
    BY <2>0, <2>1, LatestBegins
  <2>2. CASE Client!ConnectNats \/ Client!ConnectBroker \/ Client!PublishRegistration
             \/ Client!SubscribeTelemetry \/ Client!SubscribeCommands
    <3>1. UNCHANGED responseStream /\ cloud'.response = cloud.response
      BY <2>2, <1>c DEF Client!ConnectNats, Client!ConnectBroker, Client!PublishRegistration,
         Client!SubscribeTelemetry, Client!SubscribeCommands, Client!Streams, Client!Outside
    <3> QED
      BY <1>m, <2>0, <3>1, LatestFrame
  <2> QED
    BY <1>1, <2>1, <2>2 DEF Startup
<1>2. CASE Refuse \/ Forward
  <2>1. UNCHANGED <<responseStream, cloud>>
    BY <1>2 DEF Refuse, Forward, ByClient, Client!Refuse, Client!Forward,
       Client!ForwardFails, Client!Streams, Client!Outside
  <2>2. broker'.response = broker.response
    BY <1>2, <1>b DEF Refuse, Forward, ByClient, vars, PublishCommand
  <2> QED
    BY <1>m, <2>1, <2>2, LatestFrame
<1>3. CASE PublishTelemetry
  <2>1. /\ UNCHANGED <<responseStream, broker>> /\ cloud'.response = cloud.response
    BY <1>3, <1>c DEF PublishTelemetry, ByClient, vars, Client!PublishTelemetry,
       Client!TelemetryFails, Client!NextUpdate
  <2> QED
    BY <1>m, <2>1, LatestFrame
<1>4. CASE Relay
  BY <1>m, <1>4, LatestRelayed
<1>5. CASE Answer
  BY <1>5, LatestAnswered
<1>6. CASE ClientMishap
  <2>0. UNCHANGED <<cloud, broker>>
    BY <1>6 DEF ClientMishap, ByClient, vars, Client!Boot, Client!NatsRefuses,
       Client!StartupFails, Client!Crash, Client!StreamEnds, Client!CloudSends,
       Client!Terminate, Client!Outside
  <2>1. CASE UNCHANGED responseStream
    BY <1>m, <2>0, <2>1, LatestFrame
  <2>2. CASE responseStream' = Client!Closed
    BY <2>0, <2>2, LatestEnds DEF Client!Closed
  <2>3. CASE responseStream' \in Client!Cut(responseStream)
    <3>1. PICK k \in 0 .. Len(responseStream.items) :
            responseStream' = [open |-> FALSE, items |-> SubSeq(responseStream.items, 1, k)]
      BY <2>3 DEF Client!Cut
    <3>2. responseStream.items = <<>> => responseStream'.items = <<>>
      BY <3>1
    <3> QED
      BY <2>0, <3>1, <3>2, LatestEnds
  <2> QED
    BY <1>6, <2>1, <2>2, <2>3 DEF ClientMishap, Client!Boot, Client!NatsRefuses,
       Client!StartupFails, Client!Crash, Client!StreamEnds, Client!CloudSends,
       Client!Terminate, Client!Streams
<1>7. CASE SetLocked
  <2>1. UNCHANGED <<responseStream, cloud>>
    BY <1>7 DEF SetLocked, clientVars, Client!SignalWritten
  <2>2. broker'.response = broker.response
    BY <1>7, <1>b DEF SetLocked, PublishInitial, WriteState
  <2> QED
    BY <1>m, <2>1, <2>2, LatestFrame
<1>8. CASE SessionChanges
  <2>1. UNCHANGED <<responseStream, cloud, broker>>
    BY <1>8 DEF SessionChanges, vars, Client!SignalWritten
  <2> QED
    BY <1>m, <2>1, LatestFrame
<1>9. CASE LockingLife \/ LockingSubscribes \/ LockingEnds \/ LockingTakes \/ LockingReads
  <2>1. UNCHANGED <<cloud, responseStream>>
    BY <1>9 DEF LockingLife, LockingSubscribes, LockingEnds, LockingTakes, LockingReads,
         ByLocking, clientVars
  <2>2. LockingLife => broker'.response = broker.response
    BY <1>b DEF LockingLife, Connect, Crash, ShutdownSignal,
         StreamEnds, SpeedChanges, DoorChanges, Terminate
  <2>3. LockingSubscribes \/ LockingEnds => broker'.response = broker.response
    BY DEF LockingSubscribes, LockingEnds, Subscribe, Resubscribe, GiveUp, Stop, Terminate
  <2>4. LockingTakes \/ LockingReads => broker'.response = broker.response
    BY DEF LockingTakes, LockingReads, Take, ReadSpeed, ReadDoor, Reading
  <2>5. broker'.response = broker.response
    BY <1>9, <2>2, <2>3, <2>4
  <2> QED
    BY <1>m, <2>1, <2>5, LatestFrame
<1>10. CASE UNCHANGED pathVars
  BY <1>10, LatestFrame DEF pathVars, vars, clientVars
<1> QED
  BY <1>1, <1>2, <1>3, <1>4, <1>5, <1>6, <1>7, <1>8, <1>9, <1>10 DEF PathNext

LEMMA LatestInit == PathInit => LatestInv
BY DEF PathInit, Init, Client!Init, Client!Closed, Client!NoResponse, NoResponse, LatestInv

(* When all is at rest and nothing failed to be published, the success the *)
(* cloud was told goes with the lock its telemetry shows, whatever crashed *)
(* or ended on the way: the service answered the last command, and         *)
(* remembers the lock it asked for (DoneInv); the lock is published        *)
(* (StateIsPublished); answer and lock have reached the cloud (LatestInv,  *)
(* TelemetryIsCurrent).                                                    *)
THEOREM CloudAgrees == PathSpec => []CloudSeesTheLock
<1>1. BothInv /\ TelemetryIsCurrent /\ DoneInv /\ LatestInv => CloudSeesTheLock
  <2> SUFFICES ASSUME BothInv, TelemetryIsCurrent, DoneInv, LatestInv,
                      ClientAtRest, LockingAtRest, count["state"] = 0, count["respond"] = 0,
                      mishaps["publish"] = 0, cloud.response.status = "success",
                      cloud.response.n = broker.command.n
               PROVE  cloud.telemetry["IsLocked"] = Bool(broker.command.kind = "lock")
    BY DEF CloudSeesTheLock
  <2>1. cloud.response = broker.response
    BY DEF ClientAtRest, LatestInv
  <2>2. broker.response # NoResponse
    BY <2>1 DEF NoResponse
  <2>3. broker.command.n # 0
    BY <2>1, <2>2 DEF LatestInv
  <2>4. lockState = (broker.command.kind = "lock")
    BY <2>1, <2>3 DEF DoneInv, LockingAtRest
  <2>5. broker.isLocked = lockState
    BY DEF BothInv, OrderInv, PublishInv, StateIsPublished, LockingAtRest
  <2>6. cloud.telemetry = dataBroker.signals
    BY DEF TelemetryIsCurrent, ClientAtRest
  <2>7. dataBroker.signals["IsLocked"] = Bool(broker.isLocked)
    BY DEF dataBroker
  <2> QED
    BY <2>4, <2>5, <2>6, <2>7
<1>2. BothInv /\ [PathNext]_pathVars => [Next]_vars
  BY Projection DEF BothInv, ClientOK
<1>3. BothInv /\ AnswersNameCommands /\ DoneInv /\ [PathNext]_pathVars => DoneInv'
  BY <1>2, DoneStep
<1> QED
  BY <1>1, <1>3, BothInit, BothStep, NamesStep, RelayInit, DoneInit, LatestInit, LatestStep,
     TelemetryCurrent, PTL DEF PathSpec
=============================================================================
