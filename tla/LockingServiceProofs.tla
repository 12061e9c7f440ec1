------------------------ MODULE LockingServiceProofs ------------------------
(* What holds of the locking service for every number of attempts to       *)
(* resubscribe and every budget of commands, failures and restarts.        *)
EXTENDS LockingService, TLAPS

USE MaxResubscribesAssumption, BudgetAssumption

-----------------------------------------------------------------------------
(* Type correctness.                                                       *)

LEMMA NoteType ==
  ASSUME count \in [Happenings -> Nat], NEW h \in Happenings, Note(h)
  PROVE  count' \in [Happenings -> Nat]
BY DEF Note

LEMMA EmptySequence ==
  ASSUME NEW S
  PROVE  <<>> \in Seq(S)
OBVIOUS

LEMMA HeadTailType ==
  ASSUME NEW S, NEW s \in Seq(S), s # <<>>
  PROVE  Head(s) \in S /\ Tail(s) \in Seq(S)
OBVIOUS

(* What a task can be, given a command, is a task.                         *)
LEMMA TaskType ==
  /\ Idle \in Tasks
  /\ \A c \in Commands, pc \in {"speed", "door", "write"} : At(c, pc) \in Tasks
  /\ \A c \in Commands, r \in Responses : Responding(c, r) \in Tasks
  /\ \A c \in Commands : Success(c) \in Responses
  /\ \A n \in Nat, reason \in Reasons : Failure(n, reason) \in Responses
<1>1. NoResponse \in Responses
  BY DEF NoResponse, Responses, Reasons
<1>2. \A c \in Commands : Success(c) \in Responses
  BY DEF Success, Responses, Reasons, Commands
<1>3. \A n \in Nat, reason \in Reasons : Failure(n, reason) \in Responses
  BY DEF Failure, Responses
<1> QED
  BY <1>1, <1>2, <1>3 DEF Idle, At, Responding, Tasks

(* While the service works on a command there is one.                      *)
TaskOK == task.pc # "idle" => task.command \in Commands

LEMMA CarryType ==
  ASSUME NEW c \in Commands
  PROVE  Carry(c) \in Tasks /\ Carry(c).command = c /\ Carry(c).pc \in {"write", "respond"}
<1>1. At(c, "write") \in Tasks /\ Responding(c, Success(c)) \in Tasks
  BY TaskType
<1> QED
  BY <1>1 DEF Carry, At, Responding

LEMMA AcceptType ==
  ASSUME NEW c \in Commands
  PROVE  /\ Accept(c) \in Tasks
         /\ Accept(c).pc # "idle" => Accept(c).command = c
<1>1. c.kind \in Kinds /\ c.n \in Nat
  BY DEF Commands
<1>2. /\ Failure(c.n, "unsupported_door") \in Responses
      /\ Failure(c.n, "invalid_command") \in Responses
      /\ Failure(0, "invalid_command") \in Responses
  BY <1>1, TaskType DEF Reasons
<1>3. CASE c.kind \in {"garbage", "lock"}
  <2>1. Accept(c) = Idle \/ Accept(c) = At(c, "speed")
    BY <1>3 DEF Accept
  <2>2. Idle \in Tasks /\ Idle.pc = "idle"
    BY TaskType DEF Idle
  <2>3. At(c, "speed") \in Tasks /\ At(c, "speed").command = c
    BY TaskType DEF At
  <2> QED
    BY <2>1, <2>2, <2>3
<1>4. CASE c.kind \in {"otherDoor", "incomplete", "emptyId"}
  <2>1. Accept(c) \in {Responding(c, r) : r \in Responses}
    BY <1>4, <1>2 DEF Accept
  <2> QED
    BY <2>1, TaskType DEF Responding
<1>5. CASE c.kind = "unlock"
  <2>1. Accept(c) = Carry(c)
    BY <1>5 DEF Accept
  <2> QED
    BY <2>1, CarryType
<1> QED
  BY <1>1, <1>3, <1>4, <1>5 DEF Kinds

LEMMA NewStreamType ==
  ASSUME TypeOK, NewStream
  PROVE  inbox' \in Seq(Commands) /\ subscribed' \in BOOLEAN
<1>1. broker.command \in Commands \cup {NoCommand}
  BY DEF TypeOK
<1>2. broker.command # NoCommand => <<broker.command>> \in Seq(Commands)
  BY <1>1
<1> QED
  BY <1>2, EmptySequence DEF NewStream

LEMMA TerminateType ==
  ASSUME TypeOK, Terminate
  PROVE  /\ phase' \in Phases /\ lockState' \in BOOLEAN /\ task' \in Tasks
         /\ inbox' \in Seq(Commands) /\ subscribed' \in BOOLEAN
         /\ resubscribes' \in 0..MaxResubscribes /\ stopping' \in BOOLEAN
         /\ lasting' \in SUBSET {"vehicle_moving", "door_open"}
         /\ UNCHANGED broker
         /\ task'.pc = "idle"
<1>1. 0 \in 0..MaxResubscribes
  OBVIOUS
<1>2. Idle \in Tasks /\ Idle.pc = "idle"
  BY TaskType DEF Idle
<1> QED
  BY <1>1, <1>2, EmptySequence DEF Terminate, Phases

(* A reading leads to a response or goes on as told.                       *)
LEMMA ReadingType ==
  ASSUME TypeOK, TaskOK, NEW here \in {"speed", "door"}, NEW shows \in BOOLEAN,
         NEW reason \in Reasons, NEW next \in Tasks, next.command = task.command,
         Reading(here, shows, reason, next)
  PROVE  /\ task' \in Tasks /\ task'.command = task.command
         /\ count' \in [Happenings -> Nat]
<1>1. task.command \in Commands /\ task.command.n \in Nat
  BY DEF Reading, TaskOK, Commands
<1>2. Responding(task.command, Failure(task.command.n, reason)) \in Tasks
  BY <1>1, TaskType
<1>3. "read" \in Happenings
  BY DEF Happenings
<1> QED
  BY <1>2, <1>3, NoteType DEF Reading, Responding, Happens, TypeOK

TypeInv == TypeOK /\ TaskOK

LEMMA TypeInit == Init => TypeInv
<1> SUFFICES ASSUME Init PROVE TypeInv
  OBVIOUS
<1>1. NoResponse \in Responses
  BY DEF NoResponse, Responses, Reasons
<1>2. broker \in [isLocked : BOOLEAN, command : Commands \cup {NoCommand},
                  response : Responses, moving : BOOLEAN, doorOpen : BOOLEAN]
  BY <1>1 DEF Init
<1>3. Idle \in Tasks /\ Idle.pc = "idle"
  BY TaskType DEF Idle
<1>4. resubscribes \in 0..MaxResubscribes /\ count \in [Happenings -> Nat]
  BY DEF Init
<1> QED
  BY <1>2, <1>3, <1>4, EmptySequence DEF Init, TypeInv, TypeOK, TaskOK, Phases

LEMMA TypeStep == TypeInv /\ [Next]_vars => TypeInv'
<1> SUFFICES ASSUME TypeInv, [Next]_vars PROVE TypeInv'
  OBVIOUS
<1> USE DEF TypeInv, TypeOK, TaskOK
<1>h. Happenings = {"command", "sensor", "read", "state", "respond", "streamEnd",
                    "crash", "shutdown"}
  BY DEF Happenings
<1>1. CASE Lifecycle
  <2>1. CASE Connect
    BY <2>1 DEF Connect, Phases
  <2>2. CASE PublishInitial
    BY <2>2 DEF PublishInitial, Phases
  <2>3. CASE Subscribe
    BY <2>3, NewStreamType DEF Subscribe, Phases
  <2>4. CASE Resubscribe
    BY <2>4, NewStreamType DEF Resubscribe
  <2>5. CASE GiveUp
    BY <2>5, TerminateType DEF GiveUp
  <2>6. CASE ShutdownSignal
    BY <2>6, <1>h, NoteType DEF ShutdownSignal, Happens
  <2>7. CASE Stop
    BY <2>7, TerminateType DEF Stop
  <2>8. CASE Crash
    BY <2>8, <1>h, TerminateType, NoteType DEF Crash, Happens
  <2> QED
    BY <1>1, <2>1, <2>2, <2>3, <2>4, <2>5, <2>6, <2>7, <2>8 DEF Lifecycle
<1>2. CASE Environment
  <2>1. ASSUME NEW kind \in Kinds, PublishCommand(kind) PROVE TypeInv'
    <3> DEFINE c == [n |-> count["command"] + 1, kind |-> kind]
    <3>1. c \in Commands
      BY <1>h DEF Commands
    <3>2. Append(inbox, c) \in Seq(Commands)
      BY <3>1
    <3>3. broker' = [broker EXCEPT !.command = c] /\ inbox' \in {inbox, Append(inbox, c)}
      BY <2>1 DEF PublishCommand
    <3> HIDE DEF c
    <3>4. inbox' \in Seq(Commands)
      BY <3>2, <3>3
    <3>5. broker' \in [isLocked : BOOLEAN, command : Commands \cup {NoCommand},
                       response : Responses, moving : BOOLEAN, doorOpen : BOOLEAN]
      BY <3>1, <3>3
    <3>6. count' \in [Happenings -> Nat]
      BY <2>1, <1>h, NoteType DEF PublishCommand, Happens
    <3> QED
      BY <2>1, <3>4, <3>5, <3>6 DEF PublishCommand
  <2>2. CASE StreamEnds
    <3>1. \A k \in 0..Len(inbox) : SubSeq(inbox, 1, k) \in Seq(Commands)
      OBVIOUS
    <3> QED
      BY <2>2, <3>1, <1>h, NoteType DEF StreamEnds, Happens
  <2>3. CASE SpeedChanges
    BY <2>3, <1>h, NoteType DEF SpeedChanges, Happens
  <2>4. CASE DoorChanges
    BY <2>4, <1>h, NoteType DEF DoorChanges, Happens
  <2> QED
    BY <1>2, <2>1, <2>2, <2>3, <2>4 DEF Environment
<1>3. CASE Process
  <2>1. CASE Take
    <3>1. Head(inbox) \in Commands /\ Tail(inbox) \in Seq(Commands)
      BY <2>1, HeadTailType DEF Take
    <3>2. task' \in Tasks /\ TaskOK'
      BY <2>1, <3>1, AcceptType DEF Take
    <3>3. lasting' \in SUBSET {"vehicle_moving", "door_open"}
      BY <2>1 DEF Take, Hazards
    <3> QED
      BY <2>1, <3>1, <3>2, <3>3 DEF Take
  <2>2. CASE ReadSpeed
    <3>1. task.command \in Commands /\ task.pc = "speed"
      BY <2>2 DEF ReadSpeed, Reading
    <3>2. At(task.command, "door") \in Tasks /\ At(task.command, "door").command = task.command
      BY <3>1, TaskType DEF At
    <3>3. broker.moving \in BOOLEAN /\ "vehicle_moving" \in Reasons
      BY DEF Reasons
    <3>4. /\ task' \in Tasks /\ task'.command = task.command
          /\ count' \in [Happenings -> Nat]
      BY <2>2, <3>2, <3>3, ReadingType DEF ReadSpeed
    <3> QED
      BY <2>2, <3>1, <3>4 DEF ReadSpeed, Reading, Rest
  <2>3. CASE ReadDoor
    <3>1. task.command \in Commands /\ task.pc = "door"
      BY <2>3 DEF ReadDoor, Reading
    <3>2. Carry(task.command) \in Tasks /\ Carry(task.command).command = task.command
      BY <3>1, CarryType
    <3>3. broker.doorOpen \in BOOLEAN /\ "door_open" \in Reasons
      BY DEF Reasons
    <3>4. /\ task' \in Tasks /\ task'.command = task.command
          /\ count' \in [Happenings -> Nat]
      BY <2>3, <3>2, <3>3, ReadingType DEF ReadDoor
    <3> QED
      BY <2>3, <3>1, <3>4 DEF ReadDoor, Reading, Rest
  <2>4. CASE WriteState
    <3>1. task.command \in Commands
      BY <2>4 DEF WriteState
    <3>2. task' \in Tasks /\ task'.command \in Commands
      BY <2>4, <3>1, TaskType DEF WriteState, Responding
    <3>3. count' \in [Happenings -> Nat]
      BY <2>4, <1>h, NoteType DEF WriteState, Happens
    <3> QED
      BY <2>4, <3>2, <3>3 DEF WriteState, Rest
  <2>5. CASE Respond
    <3>1. task.response \in Responses
      BY DEF Tasks
    <3>2. broker' \in [isLocked : BOOLEAN, command : Commands \cup {NoCommand},
                       response : Responses, moving : BOOLEAN, doorOpen : BOOLEAN]
      BY <2>5, <3>1 DEF Respond
    <3>3. count' \in [Happenings -> Nat]
      BY <2>5, <1>h, NoteType DEF Respond, Happens
    <3>4. task' = Idle
      BY <2>5 DEF Respond
    <3> QED
      BY <2>5, <3>2, <3>3, <3>4, TaskType DEF Respond, Rest, Idle
  <2> QED
    BY <1>3, <2>1, <2>2, <2>3, <2>4, <2>5 DEF Process
<1>4. CASE UNCHANGED vars
  BY <1>4 DEF vars
<1> QED
  BY <1>1, <1>2, <1>3, <1>4 DEF Next

(* The types hold however often commands, faults and restarts happen.      *)
THEOREM TypeCorrect == Spec => []TypeOK
<1>1. TypeInv => TypeOK
  BY DEF TypeInv
<1> QED
  BY <1>1, TypeInit, TypeStep, PTL DEF Spec

-----------------------------------------------------------------------------
(* The published lock.  A process that is not yet subscribed remembers an  *)
(* unlocked door and works on no command.                                  *)
Starting ==
  phase # "running" => ~lockState /\ task.pc = "idle" /\ inbox = <<>> /\ ~subscribed

PublishInv == Starting /\ StateIsPublished

(* A happening is counted under its own name only.                         *)
LEMMA OtherCount ==
  ASSUME count \in [Happenings -> Nat], NEW h \in Happenings, NEW k \in Happenings,
         h # k, Note(h)
  PROVE  count'[k] = count[k]
BY DEF Note

LEMMA PublishInit == Init => PublishInv
BY DEF Init, PublishInv, Starting, StateIsPublished, Idle

LEMMA PublishStep == TypeInv /\ PublishInv /\ [Next]_vars => PublishInv'
<1> SUFFICES ASSUME TypeInv, PublishInv, [Next]_vars PROVE PublishInv'
  OBVIOUS
<1> USE DEF PublishInv, Starting, StateIsPublished
<1>h. Happenings = {"command", "sensor", "read", "state", "respond", "streamEnd",
                    "crash", "shutdown"}
  BY DEF Happenings
<1>c. count \in [Happenings -> Nat]
  BY DEF TypeInv, TypeOK
<1>b. broker \in [isLocked : BOOLEAN, command : Commands \cup {NoCommand},
                  response : Responses, moving : BOOLEAN, doorOpen : BOOLEAN]
  BY DEF TypeInv, TypeOK
<1>1. CASE Connect \/ PublishInitial
  <2>1. CASE Connect
    BY <2>1 DEF Connect
  <2>2. CASE PublishInitial
    <3>1. broker'.isLocked = FALSE /\ lockState = FALSE
      BY <2>2, <1>b DEF PublishInitial, TypeInv, TypeOK
    <3> QED
      BY <2>2, <3>1 DEF PublishInitial
  <2> QED
    BY <1>1, <2>1, <2>2
<1>2. CASE Subscribe \/ Resubscribe
  BY <1>2 DEF Subscribe, Resubscribe, StreamIsOver
<1>3. CASE GiveUp \/ Stop \/ Crash
  <2>1. Terminate
    BY <1>3 DEF GiveUp, Stop, Crash
  <2> QED
    BY <2>1 DEF Terminate, Idle
<1>4. CASE ShutdownSignal
  <2>1. count'["state"] = count["state"]
    BY <1>4, <1>c, <1>h, OtherCount DEF ShutdownSignal, Happens
  <2> QED
    BY <1>4, <2>1 DEF ShutdownSignal
<1>5. ASSUME NEW kind \in Kinds, PublishCommand(kind) PROVE PublishInv'
  <2>1. count'["state"] = count["state"]
    BY <1>5, <1>c, <1>h, OtherCount DEF PublishCommand, Happens
  <2>2. broker'.isLocked = broker.isLocked
    BY <1>5, <1>b DEF PublishCommand
  <2> QED
    BY <1>5, <2>1, <2>2 DEF PublishCommand
<1>6. CASE StreamEnds
  <2>1. count'["state"] = count["state"]
    BY <1>6, <1>c, <1>h, OtherCount DEF StreamEnds, Happens
  <2> QED
    BY <1>6, <2>1 DEF StreamEnds
<1>7. CASE SpeedChanges \/ DoorChanges
  <2>1. count'["state"] = count["state"]
    BY <1>7, <1>c, <1>h, OtherCount DEF SpeedChanges, DoorChanges, Happens
  <2>2. broker'.isLocked = broker.isLocked
    BY <1>7, <1>b DEF SpeedChanges, DoorChanges
  <2> QED
    BY <1>7, <2>1, <2>2 DEF SpeedChanges, DoorChanges
<1>8. CASE Take
  BY <1>8 DEF Take
<1>9. CASE ReadSpeed \/ ReadDoor
  <2>1. task.pc # "idle" /\ UNCHANGED Rest /\ UNCHANGED <<lockState, broker>>
    BY <1>9 DEF ReadSpeed, ReadDoor, Reading
  <2>2. count'["state"] = count["state"]
    BY <1>9, <1>c, <1>h, OtherCount DEF ReadSpeed, ReadDoor, Reading, Happens
  <2> QED
    BY <2>1, <2>2 DEF Rest
<1>10. CASE WriteState
  <2>1. CASE UNCHANGED count
    <3>1. broker' = [broker EXCEPT !.isLocked = task.command.kind = "lock"]
      BY <1>10, <2>1, <1>c, <1>h DEF WriteState, Happens, Note
    <3>2. broker'.isLocked = (task.command.kind = "lock")
      BY <3>1, <1>b
    <3>3. lockState' = (task.command.kind = "lock") /\ task.pc = "write"
      BY <1>10 DEF WriteState
    <3> QED
      BY <1>10, <3>2, <3>3 DEF WriteState, Rest
  <2>2. CASE Note("state")
    <3>1. count'["state"] # 0
      BY <2>2, <1>c, <1>h DEF Note
    <3>2. task.pc = "write"
      BY <1>10 DEF WriteState
    <3> QED
      BY <1>10, <3>1, <3>2 DEF WriteState, Rest
  <2> QED
    BY <1>10, <2>1, <2>2 DEF WriteState, Happens
<1>11. CASE Respond
  <2>1. count'["state"] = count["state"]
    BY <1>11, <1>c, <1>h, OtherCount DEF Respond, Happens
  <2>2. broker'.isLocked = broker.isLocked /\ task.pc = "respond"
    BY <1>11, <1>b DEF Respond
  <2> QED
    BY <1>11, <2>1, <2>2 DEF Respond, Rest
<1>12. CASE UNCHANGED vars
  BY <1>12 DEF vars
<1> QED
  BY <1>1, <1>2, <1>3, <1>4, <1>5, <1>6, <1>7, <1>8, <1>9, <1>10, <1>11, <1>12
  DEF Next, Process, Lifecycle, Environment

(* IsLocked is what the service remembers, through restarts and replays,   *)
(* while its publication never failed.                                     *)
THEOREM LockPublished == Spec => []StateIsPublished
<1>1. PublishInv => StateIsPublished
  BY DEF PublishInv
<1> QED
  BY <1>1, TypeInit, TypeStep, PublishInit, PublishStep, PTL DEF Spec

-----------------------------------------------------------------------------
(* Attempts to resubscribe.                                                *)

LEMMA AttemptsStep == TypeInv /\ AttemptsRestored /\ [Next]_vars => AttemptsRestored'
<1> SUFFICES ASSUME TypeInv, AttemptsRestored, [Next]_vars
             PROVE  AttemptsRestored'
  OBVIOUS
<1> USE DEF AttemptsRestored
<1>b. broker \in [isLocked : BOOLEAN, command : Commands \cup {NoCommand},
                  response : Responses, moving : BOOLEAN, doorOpen : BOOLEAN]
  BY DEF TypeInv, TypeOK
<1>i. inbox \in Seq(Commands)
  BY DEF TypeInv, TypeOK
<1>1. CASE Connect \/ PublishInitial \/ ShutdownSignal
  BY <1>1, <1>b DEF Connect, PublishInitial, ShutdownSignal
<1>2. CASE Subscribe \/ Resubscribe
  <2>1. NewStream /\ UNCHANGED broker
    BY <1>2 DEF Subscribe, Resubscribe
  <2>2. broker.command # NoCommand => inbox' # <<>>
    BY <2>1 DEF NewStream
  <2> QED
    BY <2>1, <2>2
<1>3. CASE GiveUp \/ Stop \/ Crash
  BY <1>3 DEF GiveUp, Stop, Crash, Terminate
<1>4. ASSUME NEW kind \in Kinds, PublishCommand(kind) PROVE AttemptsRestored'
  <2>1. PICK c : inbox' = (IF subscribed THEN Append(inbox, c) ELSE inbox) /\ subscribed' = subscribed
    BY <1>4 DEF PublishCommand
  <2>2. Append(inbox, c) # <<>>
    BY <1>i
  <2> QED
    BY <2>1, <2>2
<1>5. CASE StreamEnds
  BY <1>5 DEF StreamEnds
<1>6. CASE SpeedChanges \/ DoorChanges
  <2>1. broker'.command = broker.command
    BY <1>6, <1>b DEF SpeedChanges, DoorChanges
  <2> QED
    BY <1>6, <2>1 DEF SpeedChanges, DoorChanges
<1>7. CASE Take
  BY <1>7 DEF Take
<1>8. CASE ReadSpeed \/ ReadDoor \/ WriteState \/ Respond
  <2>1. broker'.command = broker.command /\ UNCHANGED Rest
    BY <1>8, <1>b DEF ReadSpeed, ReadDoor, Reading, WriteState, Respond
  <2> QED
    BY <2>1 DEF Rest
<1>9. CASE UNCHANGED vars
  BY <1>9 DEF vars
<1> QED
  BY <1>1, <1>2, <1>3, <1>4, <1>5, <1>6, <1>7, <1>8, <1>9
  DEF Next, Process, Lifecycle, Environment

(* Broken streams add up only until the service has worked off what its    *)
(* stream had for it, if any command was ever published; for every number  *)
(* of attempts, commands, broken streams and crashes.                      *)
THEOREM AttemptsComeBack == Spec => []AttemptsRestored
<1>1. Init => AttemptsRestored
  BY DEF Init, AttemptsRestored
<1> QED
  BY <1>1, TypeInit, TypeStep, AttemptsStep, PTL DEF Spec

-----------------------------------------------------------------------------
(* The order of commands.  The command at work, or the last one answered,  *)
(* is no newer than any command still to come, and those come in order, up *)
(* to the one the broker holds now.                                        *)
Floor == IF task.pc = "idle" THEN broker.response.n ELSE task.command.n

InOrder ==
  /\ count["command"] = broker.command.n
  /\ broker.response.n <= Floor
  /\ Floor <= broker.command.n
  /\ \A i \in 1..Len(inbox) : Floor <= inbox[i].n /\ inbox[i].n <= broker.command.n
  /\ \A i, j \in 1..Len(inbox) : i < j => inbox[i].n <= inbox[j].n
  /\ task.pc = "respond" => task.response.n \in {0, task.command.n}

OrderInv == TypeInv /\ PublishInv /\ InOrder

(* A step that leaves commands, answers and their counter alone keeps      *)
(* their order.                                                            *)
LEMMA OrderFrame ==
  ASSUME InOrder, UNCHANGED <<task, inbox>>,
         broker'.command = broker.command, broker'.response = broker.response,
         count'["command"] = count["command"]
  PROVE  InOrder'
BY DEF InOrder, Floor

(* The response the task prepares names its command, or none.              *)
LEMMA AcceptOrder ==
  ASSUME NEW c \in Commands
  PROVE  Accept(c).pc = "respond" => Accept(c).response.n \in {0, c.n}
<1>1. \A r : Responding(c, r).response = r
  BY DEF Responding
<1>2. \A reason : Failure(c.n, reason).n = c.n /\ Failure(0, reason).n = 0
  BY DEF Failure
<1>3. Success(c).n = c.n
  BY DEF Success
<1>4. Idle.pc = "idle" /\ At(c, "speed").pc = "speed" /\ At(c, "write").pc = "write"
  BY DEF Idle, At
<1>5. c.kind \in Kinds
  BY DEF Commands
<1> QED
  BY <1>1, <1>2, <1>3, <1>4, <1>5 DEF Accept, Carry, Kinds

LEMMA OrderInit == Init => InOrder
<1> SUFFICES ASSUME Init PROVE InOrder
  OBVIOUS
<1>1. broker.command.n = 0 /\ broker.response.n = 0
  BY DEF Init, NoCommand, NoResponse
<1>2. count["command"] = 0
  BY DEF Init, Happenings
<1>3. task.pc = "idle" /\ Len(inbox) = 0
  BY DEF Init, Idle
<1> QED
  BY <1>1, <1>2, <1>3 DEF InOrder, Floor

LEMMA OrderStep == OrderInv /\ [Next]_vars => InOrder'
<1> SUFFICES ASSUME TypeInv, PublishInv, InOrder, [Next]_vars PROVE InOrder'
  BY DEF OrderInv
<1>h. Happenings = {"command", "sensor", "read", "state", "respond", "streamEnd",
                    "crash", "shutdown"}
  BY DEF Happenings
<1>c. count \in [Happenings -> Nat]
  BY DEF TypeInv, TypeOK
<1>b. broker \in [isLocked : BOOLEAN, command : Commands \cup {NoCommand},
                  response : Responses, moving : BOOLEAN, doorOpen : BOOLEAN]
  BY DEF TypeInv, TypeOK
<1>n. broker.command.n \in Nat /\ broker.response.n \in Nat
  BY <1>b DEF Commands, NoCommand, Responses
<1>i. inbox \in Seq(Commands) /\ \A i \in 1..Len(inbox) : inbox[i] \in Commands
  BY DEF TypeInv, TypeOK
<1>m. \A c \in Commands : c.n \in Nat
  BY DEF Commands
<1>f. Floor \in Nat
  BY <1>n, <1>m DEF Floor, TypeInv, TaskOK
<1>1. CASE Connect \/ PublishInitial
  BY <1>1, <1>b, OrderFrame DEF Connect, PublishInitial
<1>2. CASE Subscribe \/ Resubscribe
  <2>1. task.pc = "idle" /\ NewStream /\ UNCHANGED <<task, broker, count>>
    BY <1>2 DEF Subscribe, Resubscribe, StreamIsOver, PublishInv, Starting
  <2>2. inbox' = <<>> \/ inbox' = <<broker.command>>
    BY <2>1 DEF NewStream
  <2>3. \A i \in 1..Len(inbox') : i = 1 /\ inbox'[i] = broker.command
    <3>1. CASE inbox' = <<>>
      <4>1. Len(inbox') = 0
        BY <3>1
      <4> QED
        BY <4>1
    <3>2. CASE inbox' = <<broker.command>>
      <4>1. Len(inbox') = 1 /\ inbox'[1] = broker.command
        BY <3>2
      <4> QED
        BY <4>1
    <3> QED
      BY <2>2, <3>1, <3>2
  <2>4. Floor' = broker.response.n /\ Floor = broker.response.n
    BY <2>1 DEF Floor
  <2>5. /\ \A i \in 1..Len(inbox') :
              Floor' <= inbox'[i].n /\ inbox'[i].n <= broker.command.n
        /\ \A i, j \in 1..Len(inbox') : i < j => inbox'[i].n <= inbox'[j].n
    BY <2>3, <2>4, <1>n DEF InOrder
  <2> QED
    BY <2>1, <2>4, <2>5 DEF InOrder
<1>3. CASE GiveUp \/ Stop \/ Crash
  <2>1. Terminate
    BY <1>3 DEF GiveUp, Stop, Crash
  <2>2. count'["command"] = count["command"]
    BY <1>3, <1>c, <1>h, OtherCount DEF GiveUp, Stop, Crash, Happens
  <2>3. task'.pc = "idle" /\ Len(inbox') = 0 /\ broker' = broker
    BY <2>1 DEF Terminate, Idle
  <2>4. broker.response.n <= broker.command.n
    BY <1>n, <1>f DEF InOrder
  <2> QED
    BY <2>2, <2>3, <2>4, <1>n DEF InOrder, Floor
<1>4. CASE ShutdownSignal
  <2>1. count'["command"] = count["command"]
    BY <1>4, <1>c, <1>h, OtherCount DEF ShutdownSignal, Happens
  <2> QED
    BY <1>4, <2>1, OrderFrame DEF ShutdownSignal
<1>5. ASSUME NEW kind \in Kinds, PublishCommand(kind) PROVE InOrder'
  <2> DEFINE c == [n |-> count["command"] + 1, kind |-> kind]
  <2>1. /\ broker' = [broker EXCEPT !.command = c]
        /\ inbox' = IF subscribed THEN Append(inbox, c) ELSE inbox
        /\ UNCHANGED task /\ Note("command")
    BY <1>5 DEF PublishCommand, Happens
  <2>2. c.n = broker.command.n + 1 /\ c \in Commands
    BY <1>n DEF InOrder, Commands
  <2> HIDE DEF c
  <2>3. broker'.command = c /\ broker'.response = broker.response
    BY <2>1, <1>b
  <2>4. count'["command"] = c.n
    BY <2>1, <2>2, <1>c, <1>h DEF Note, InOrder
  <2>5. Floor' = Floor /\ Floor <= c.n
    <3>1. Floor' = Floor
      BY <2>1, <2>3 DEF Floor
    <3>2. Floor <= broker.command.n
      BY DEF InOrder
    <3> QED
      BY <3>1, <3>2, <2>2, <1>n, <1>f
  <2>6. \A i \in 1..Len(inbox') : inbox'[i] = c \/ (i \in 1..Len(inbox) /\ inbox'[i] = inbox[i])
    BY <2>1, <1>i
  <2>7. \A i, j \in 1..Len(inbox') : i < j => i \in 1..Len(inbox) /\ inbox'[i] = inbox[i]
    BY <2>1, <1>i
  <2>8. \A i \in 1..Len(inbox') : Floor <= inbox'[i].n /\ inbox'[i].n <= c.n
    BY <2>2, <2>5, <2>6, <1>i, <1>n, <1>m, <1>f DEF InOrder
  <2>9. \A i, j \in 1..Len(inbox') : i < j => inbox'[i].n <= inbox'[j].n
    BY <2>6, <2>7, <2>8 DEF InOrder
  <2> QED
    BY <2>1, <2>3, <2>4, <2>5, <2>8, <2>9 DEF InOrder
<1>6. CASE StreamEnds
  <2>1. count'["command"] = count["command"]
    BY <1>6, <1>c, <1>h, OtherCount DEF StreamEnds, Happens
  <2>2. PICK k \in 0..Len(inbox) : inbox' = SubSeq(inbox, 1, k)
    BY <1>6 DEF StreamEnds
  <2>3. \A i \in 1..Len(inbox') : i \in 1..Len(inbox) /\ inbox'[i] = inbox[i]
    BY <2>2, <1>i
  <2>4. UNCHANGED <<task, broker>>
    BY <1>6 DEF StreamEnds
  <2> QED
    BY <2>1, <2>3, <2>4 DEF InOrder, Floor
<1>7. CASE SpeedChanges \/ DoorChanges
  <2>1. count'["command"] = count["command"]
    BY <1>7, <1>c, <1>h, OtherCount DEF SpeedChanges, DoorChanges, Happens
  <2>2. broker'.command = broker.command /\ broker'.response = broker.response
    BY <1>7, <1>b DEF SpeedChanges, DoorChanges
  <2> QED
    BY <1>7, <2>1, <2>2, OrderFrame DEF SpeedChanges, DoorChanges
<1>8. CASE Take
  <2>1. /\ inbox # <<>> /\ task.pc = "idle" /\ UNCHANGED <<broker, count>>
        /\ task' = Accept(Head(inbox)) /\ inbox' = Tail(inbox)
    BY <1>8 DEF Take
  <2>2. Head(inbox) = inbox[1] /\ 1 \in 1..Len(inbox) /\ inbox[1] \in Commands
    BY <2>1, <1>i
  <2>3. \A i \in 1..Len(inbox') : i + 1 \in 1..Len(inbox) /\ inbox'[i] = inbox[i + 1]
    BY <2>1, <1>i
  <2>4. Floor' \in {broker.response.n, inbox[1].n}
    BY <2>1, <2>2, AcceptType DEF Floor
  <2>5. Floor = broker.response.n
    BY <2>1 DEF Floor
  <2>6. broker.response.n <= Floor' /\ Floor' <= broker.command.n
    BY <2>2, <2>4, <2>5, <1>n DEF InOrder
  <2>7. \A i \in 1..Len(inbox') : Floor' <= inbox'[i].n /\ inbox'[i].n <= broker.command.n
    <3> SUFFICES ASSUME NEW i \in 1..Len(inbox')
                 PROVE  Floor' <= inbox'[i].n /\ inbox'[i].n <= broker.command.n
      OBVIOUS
    <3>1. i + 1 \in 1..Len(inbox) /\ 1 < i + 1 /\ inbox'[i] = inbox[i + 1]
      BY <2>3
    <3>2. inbox[1].n <= inbox[i + 1].n
      BY <3>1, <2>2 DEF InOrder
    <3> QED
      BY <3>1, <3>2, <2>4, <2>5 DEF InOrder
  <2>8. \A i, j \in 1..Len(inbox') : i < j => inbox'[i].n <= inbox'[j].n
    <3> SUFFICES ASSUME NEW i \in 1..Len(inbox'), NEW j \in 1..Len(inbox'), i < j
                 PROVE  inbox'[i].n <= inbox'[j].n
      OBVIOUS
    <3>1. i + 1 < j + 1
      OBVIOUS
    <3> QED
      BY <3>1, <2>3 DEF InOrder
  <2>9. task'.pc = "respond" => task'.response.n \in {0, task'.command.n}
    BY <2>1, <2>2, AcceptType, AcceptOrder
  <2> QED
    BY <2>1, <2>6, <2>7, <2>8, <2>9 DEF InOrder
<1>9. CASE ReadSpeed \/ ReadDoor \/ WriteState
  <2>1. task.pc \in {"speed", "door", "write"} /\ UNCHANGED inbox /\ task.command \in Commands
    BY <1>9 DEF ReadSpeed, ReadDoor, Reading, WriteState, Rest, TypeInv, TaskOK
  <2>2. count'["command"] = count["command"]
    BY <1>9, <1>c, <1>h, OtherCount DEF ReadSpeed, ReadDoor, Reading, WriteState, Happens
  <2>3. broker'.command = broker.command /\ broker'.response = broker.response
    BY <1>9, <1>b DEF ReadSpeed, ReadDoor, Reading, WriteState
  <2>4. /\ task'.pc # "idle" /\ task'.command = task.command
        /\ task'.pc = "respond" => task'.response.n = task.command.n
    BY <1>9 DEF ReadSpeed, ReadDoor, Reading, WriteState, Responding, Failure, Success, At, Carry
  <2>5. Floor' = Floor
    BY <2>1, <2>4 DEF Floor
  <2> QED
    BY <2>1, <2>2, <2>3, <2>4, <2>5 DEF InOrder
<1>10. CASE Respond
  <2>1. task.pc = "respond" /\ task'.pc = "idle" /\ UNCHANGED inbox /\ task.command \in Commands
    BY <1>10 DEF Respond, Rest, Idle, TypeInv, TaskOK
  <2>2. count'["command"] = count["command"]
    BY <1>10, <1>c, <1>h, OtherCount DEF Respond, Happens
  <2>3. broker'.command = broker.command /\ broker'.response \in {broker.response, task.response}
    BY <1>10, <1>b DEF Respond
  <2>4. Floor = task.command.n /\ Floor' = broker'.response.n
    BY <2>1 DEF Floor
  <2>5. Floor' \in Nat /\ Floor' <= Floor
    BY <2>1, <2>3, <2>4, <1>n, <1>m, <1>f DEF InOrder
  <2>6. Floor' <= broker.command.n
    BY <2>5, <1>n, <1>f DEF InOrder
  <2>7. \A i \in 1..Len(inbox) : Floor' <= inbox[i].n
    BY <2>5, <1>f, <1>i, <1>m DEF InOrder
  <2>8. /\ count'["command"] = broker'.command.n
        /\ broker'.response.n <= Floor'
        /\ \A i, j \in 1..Len(inbox) : i < j => inbox[i].n <= inbox[j].n
        /\ \A i \in 1..Len(inbox) : inbox[i].n <= broker.command.n
    BY <2>2, <2>3, <2>4, <2>5 DEF InOrder
  <2> QED
    BY <2>1, <2>3, <2>6, <2>7, <2>8 DEF InOrder
<1>11. CASE UNCHANGED vars
  BY <1>11, OrderFrame DEF vars
<1> QED
  BY <1>1, <1>2, <1>3, <1>4, <1>5, <1>6, <1>7, <1>8, <1>9, <1>10, <1>11
  DEF Next, Process, Lifecycle, Environment

(* The response signal never goes back to an earlier command, with streams *)
(* that end, commands replayed, crashes and restarts.                      *)
THEOREM AnswersOrdered == Spec => AnswersInOrder
<1>1. Init => OrderInv
  BY TypeInit, PublishInit, OrderInit DEF OrderInv
<1>2. OrderInv /\ [Next]_vars => OrderInv'
  BY TypeStep, PublishStep, OrderStep DEF OrderInv
<1>3. OrderInv /\ [Next]_vars
        => [broker.response'.n # 0 => broker.response'.n >= broker.response.n]_vars
  <2> SUFFICES ASSUME OrderInv, Next
               PROVE  broker'.response.n # 0 => broker'.response.n >= broker.response.n
    OBVIOUS
  <2>1. broker.response.n \in Nat
    BY DEF OrderInv, TypeInv, TypeOK, Responses
  <2>2. CASE broker'.response = broker.response
    BY <2>1, <2>2
  <2>3. CASE Respond
    <3>1. task.pc = "respond" /\ broker'.response \in {broker.response, task.response}
      BY <2>3 DEF Respond, OrderInv, TypeInv, TypeOK
    <3>2. task.response.n \in {0, task.command.n} /\ task.command.n >= broker.response.n
      BY <3>1 DEF OrderInv, InOrder, Floor
    <3> QED
      BY <2>1, <3>1, <3>2
  <2>4. broker'.response = broker.response \/ Respond
    <3>1. broker \in [isLocked : BOOLEAN, command : Commands \cup {NoCommand},
                      response : Responses, moving : BOOLEAN, doorOpen : BOOLEAN]
      BY DEF OrderInv, TypeInv, TypeOK
    <3>2. CASE Lifecycle
      BY <3>1, <3>2 DEF Lifecycle, Connect, PublishInitial, Subscribe, Resubscribe, GiveUp,
                        ShutdownSignal, Stop, Crash, Terminate
    <3>3. CASE Environment
      BY <3>1, <3>3 DEF Environment, PublishCommand, StreamEnds, SpeedChanges, DoorChanges
    <3>4. CASE Process
      BY <3>1, <3>4 DEF Process, Take, ReadSpeed, ReadDoor, Reading, WriteState
    <3> QED
      BY <3>2, <3>3, <3>4 DEF Next
  <2> QED
    BY <2>2, <2>3, <2>4
<1> QED
  BY <1>1, <1>2, <1>3, PTL DEF Spec, AnswersInOrder

-----------------------------------------------------------------------------
(* Safety of locking.  The hazards that have lasted since the command was  *)
(* taken are hazards now, and those already looked for have not lasted.    *)
Checked ==
  /\ lasting \subseteq Hazards
  /\ count["read"] = 0 =>
       /\ task.pc = "door" => "vehicle_moving" \notin lasting
       /\ task.pc = "write" /\ task.command.kind = "lock" => lasting = {}

LEMMA CheckedInit == Init => Checked
BY DEF Init, Checked, Idle

LEMMA CheckedStep == TypeInv /\ Checked /\ [Next]_vars => Checked'
<1> SUFFICES ASSUME TypeInv, Checked, [Next]_vars PROVE Checked'
  OBVIOUS
<1>h. Happenings = {"command", "sensor", "read", "state", "respond", "streamEnd",
                    "crash", "shutdown"}
  BY DEF Happenings
<1>c. count \in [Happenings -> Nat]
  BY DEF TypeInv, TypeOK
<1>b. broker \in [isLocked : BOOLEAN, command : Commands \cup {NoCommand},
                  response : Responses, moving : BOOLEAN, doorOpen : BOOLEAN]
  BY DEF TypeInv, TypeOK
<1>l. lasting \subseteq {"vehicle_moving", "door_open"}
  BY DEF TypeInv, TypeOK
<1>1. CASE GiveUp \/ Stop \/ Crash
  <2>1. lasting' = {} /\ task'.pc = "idle"
    BY <1>1 DEF GiveUp, Stop, Crash, Terminate, Idle
  <2> QED
    BY <2>1 DEF Checked
<1>2. CASE SpeedChanges \/ DoorChanges
  <2>1. count'["read"] = count["read"] /\ UNCHANGED task
    BY <1>2, <1>c, <1>h, OtherCount DEF SpeedChanges, DoorChanges, Happens
  <2>2. lasting' \subseteq lasting /\ lasting' \subseteq Hazards'
    <3>1. CASE SpeedChanges
      BY <3>1, <1>b, <1>l DEF SpeedChanges, Checked, Hazards
    <3>2. CASE DoorChanges
      BY <3>2, <1>b, <1>l DEF DoorChanges, Checked, Hazards
    <3> QED
      BY <1>2, <3>1, <3>2
  <2> QED
    BY <2>1, <2>2 DEF Checked
<1>3. CASE Take
  <2>1. lasting' = Hazards /\ Hazards' = Hazards
    BY <1>3 DEF Take, Hazards
  <2>2. Head(inbox) \in Commands /\ task' = Accept(Head(inbox))
    BY <1>3, HeadTailType DEF Take, TypeInv, TypeOK
  <2>3. \A c \in Commands : /\ Accept(c).pc # "door"
                            /\ Accept(c).pc = "write" => Accept(c).command.kind = "unlock"
    BY DEF Commands, Kinds, Accept, Carry, Idle, Responding, At
  <2> QED
    BY <2>1, <2>2, <2>3 DEF Checked
<1>4. CASE ReadSpeed
  <2>1. UNCHANGED <<lasting, broker>> /\ Hazards' = Hazards
    BY <1>4 DEF ReadSpeed, Reading, Rest, Hazards
  <2>2. task'.pc \in {"respond", "door"}
    BY <1>4 DEF ReadSpeed, Reading, Responding, At
  <2>3. task'.pc = "door" /\ count'["read"] = 0 => ~broker.moving /\ count["read"] = 0
    BY <1>4, <1>c, <1>h DEF ReadSpeed, Reading, Responding, At, Happens, Note
  <2>4. ~broker.moving => "vehicle_moving" \notin lasting
    BY DEF Checked, Hazards
  <2> QED
    BY <2>1, <2>2, <2>3, <2>4 DEF Checked
<1>5. CASE ReadDoor
  <2>1. UNCHANGED <<lasting, broker>> /\ Hazards' = Hazards /\ task.pc = "door"
    BY <1>5 DEF ReadDoor, Reading, Rest, Hazards
  <2>2. task'.pc \in {"respond", "write"}
    BY <1>5 DEF ReadDoor, Reading, Responding, Carry, At
  <2>3. task'.pc = "write" /\ count'["read"] = 0 => ~broker.doorOpen /\ count["read"] = 0
    BY <1>5, <1>c, <1>h DEF ReadDoor, Reading, Responding, At, Happens, Note
  <2>4. ~broker.doorOpen => "door_open" \notin lasting
    BY DEF Checked, Hazards
  <2> QED
    BY <2>1, <2>2, <2>3, <2>4, <1>l DEF Checked
<1>6. CASE WriteState \/ Respond
  <2>1. task'.pc \in {"respond", "idle"} /\ UNCHANGED lasting
    BY <1>6 DEF WriteState, Respond, Rest, Responding, Idle
  <2>2. broker'.moving = broker.moving /\ broker'.doorOpen = broker.doorOpen
    BY <1>6, <1>b DEF WriteState, Respond
  <2> QED
    BY <2>1, <2>2 DEF Checked, Hazards
<1>7. CASE Connect \/ PublishInitial \/ Subscribe \/ Resubscribe
  <2>1. UNCHANGED <<lasting, task, count>>
    BY <1>7 DEF Connect, PublishInitial, Subscribe, Resubscribe
  <2>2. broker'.moving = broker.moving /\ broker'.doorOpen = broker.doorOpen
    BY <1>7, <1>b DEF Connect, PublishInitial, Subscribe, Resubscribe
  <2> QED
    BY <2>1, <2>2 DEF Checked, Hazards
<1>8. CASE ShutdownSignal \/ StreamEnds \/ \E kind \in Kinds : PublishCommand(kind)
  <2>1. UNCHANGED <<lasting, task>>
    BY <1>8 DEF ShutdownSignal, StreamEnds, PublishCommand
  <2>2. count'["read"] = count["read"]
    BY <1>8, <1>c, <1>h, OtherCount DEF ShutdownSignal, StreamEnds, PublishCommand, Happens
  <2>3. broker'.moving = broker.moving /\ broker'.doorOpen = broker.doorOpen
    BY <1>8, <1>b DEF ShutdownSignal, StreamEnds, PublishCommand
  <2> QED
    BY <2>1, <2>2, <2>3 DEF Checked, Hazards
<1>9. CASE UNCHANGED vars
  BY <1>9 DEF vars, Checked, Hazards
<1> QED
  BY <1>1, <1>2, <1>3, <1>4, <1>5, <1>6, <1>7, <1>8, <1>9
  DEF Next, Process, Lifecycle, Environment

(* While readings work, no door is locked on a vehicle that has been       *)
(* moving, or open, ever since the command was taken.                      *)
THEOREM NoUnsafeLock == Spec => LocksNoUnsafeVehicle
<1>1. Init => TypeInv /\ Checked
  BY TypeInit, CheckedInit
<1>2. TypeInv /\ Checked /\ [Next]_vars => (TypeInv /\ Checked)'
  BY TypeStep, CheckedStep
<1>3. TypeInv /\ Checked /\ [Next]_vars
        => [~lockState /\ lockState' /\ count["read"] = 0 => lasting = {}]_vars
  <2> SUFFICES ASSUME Checked, Next, ~lockState, lockState', count["read"] = 0
               PROVE  lasting = {}
    OBVIOUS
  <2>1. WriteState
    <3>1. ~(Lifecycle \/ Environment)
      BY DEF Lifecycle, Connect, PublishInitial, Subscribe, Resubscribe, GiveUp,
             ShutdownSignal, Stop, Crash, Terminate,
             Environment, PublishCommand, StreamEnds, SpeedChanges, DoorChanges
    <3>2. ~(Take \/ ReadSpeed \/ ReadDoor \/ Respond)
      BY DEF Take, ReadSpeed, ReadDoor, Reading, Respond
    <3> QED
      BY <3>1, <3>2 DEF Next, Process
  <2>2. task.pc = "write" /\ task.command.kind = "lock"
    BY <2>1 DEF WriteState
  <2> QED
    BY <2>2 DEF Checked
<1> QED
  BY <1>1, <1>2, <1>3, PTL DEF Spec, LocksNoUnsafeVehicle
=============================================================================
