------------------------ MODULE ParkingAdaptorProofs ------------------------
(* Type correctness of the adaptor, its books and its signal, that it      *)
(* implements ParkingBilling, what its replies mean, that no call is       *)
(* forgotten and that a calm adaptor follows the lock: for any number of   *)
(* callers, any channel capacity, any number of retries and any budget.    *)
EXTENDS ParkingAdaptor, TLAPS

USE CallersAssumption, QueueCapAssumption, MaxRetriesAssumption, BudgetAssumption

(* A reply leaves the handlers well-typed, whoever it is for.              *)
LEMMA ReplyType ==
  ASSUME calls \in [Callers -> Calls],
         NEW c \in Callers \cup {NoCaller},
         NEW status \in {"OK", "ALREADY_EXISTS", "FAILED_PRECONDITION", "UNAVAILABLE"},
         NEW id \in Nat
  PROVE  Reply(c, status, id) \in [Callers -> Calls]
<1>1. CASE c = NoCaller
  BY <1>1 DEF Reply
<1>2. CASE c \in Callers
  <2>1. /\ [calls[c] EXCEPT !.pc = "resend", !.own = id] \in Calls
        /\ [calls[c] EXCEPT !.pc = "done", !.status = status, !.id = id] \in Calls
    BY <1>2 DEF Calls
  <2>2. \A i \in Nat : [calls[c] EXCEPT !.pc = "done", !.status = "OK", !.id = i] \in Calls
    BY <1>2 DEF Calls
  <2>3. (IF id = None THEN calls[c].own ELSE id) \in Nat
    BY <1>2 DEF Calls
  <2> QED
    BY <1>2, <2>1, <2>2, <2>3 DEF Reply
<1> QED
  BY <1>1, <1>2

(* Counting a happening keeps the counters natural numbers.                *)
LEMMA NoteType ==
  ASSUME count \in [Happenings -> Nat], NEW h \in Happenings, Note(h)
  PROVE  count' \in [Happenings -> Nat]
BY DEF Note

(* The head of a well-typed queue is an event, its tail a queue.           *)
LEMMA HeadTailType ==
  ASSUME NEW S, NEW s \in Seq(S), s # <<>>
  PROVE  Head(s) \in S /\ Tail(s) \in Seq(S)
OBVIOUS

LEMMA EmptySequence ==
  ASSUME NEW S
  PROVE  <<>> \in Seq(S)
OBVIOUS

LEMMA IdleLoopType == IdleLoop \in Loops
BY DEF IdleLoop, Loops, None

(* A failed attempt, retried or given up, keeps loop and handlers typed.   *)
LEMMA AttemptFailsType ==
  ASSUME TypeOK, AttemptFails
  PROVE  loop' \in Loops /\ calls' \in [Callers -> Calls]
<1>1. CASE loop.attempt < MaxRetries
  <2>1. loop.attempt + 1 \in 0..MaxRetries
    BY <1>1 DEF TypeOK, Loops
  <2>2. \A a \in 0..MaxRetries :
          [loop EXCEPT !.pc = "post", !.attempt = a, !.answer = None] \in Loops
    BY DEF TypeOK, Loops, None
  <2> QED
    BY <1>1, <2>1, <2>2 DEF AttemptFails, TypeOK
<1>2. CASE ~(loop.attempt < MaxRetries)
  <2>1. OperatorCallFails
    BY <1>2 DEF AttemptFails
  <2>2. loop.caller \in Callers \cup {NoCaller}
    BY DEF TypeOK, Loops
  <2> QED
    BY <2>1, <2>2, ReplyType, IdleLoopType DEF OperatorCallFails, TypeOK, None
<1> QED
  BY <1>1, <1>2

LEMMA PublishActiveType ==
  ASSUME TypeOK, NEW b \in BOOLEAN, PublishActive(b)
  PROVE  /\ broker' \in [isLocked : BOOLEAN, sessionActive : BOOLEAN]
         /\ count' \in [Happenings -> Nat]
<1>1. "publish" \in Happenings
  BY DEF Happenings
<1> QED
  BY <1>1, NoteType DEF PublishActive, TypeOK, Happens, Note

(* Every state has the declared type.                                      *)
LEMMA TypeInit == Init => TypeOK
<1> SUFFICES ASSUME Init PROVE TypeOK
  OBVIOUS
<1>1. IdleCall \in Calls
  BY DEF IdleCall, Calls, Rpcs, None
<1>2. calls \in [Callers -> Calls] /\ count \in [Happenings -> Nat]
  BY <1>1 DEF Init
<1>3. broker \in [isLocked : BOOLEAN, sessionActive : BOOLEAN]
  BY DEF Init
<1>4. operator \in Operators
  BY DEF Init, Operators
<1> QED
  BY <1>2, <1>3, <1>4, EmptySequence, IdleLoopType DEF Init, TypeOK, Phases, None

LEMMA TerminateType ==
  ASSUME TypeOK, Terminate
  PROVE  /\ phase' \in Phases /\ session' \in Nat /\ loop' \in Loops
         /\ queue' \in Seq(Events) /\ feed' \in Seq(BOOLEAN) /\ subscribed' \in BOOLEAN
         /\ calls' \in [Callers -> Calls] /\ UNCHANGED <<broker, operator>>
<1>1. calls' \in [Callers -> Calls]
  <2>1. ASSUME NEW c \in Callers PROVE [calls[c] EXCEPT !.pc = "gone"] \in Calls
    BY DEF TypeOK, Calls
  <2> QED
    BY <2>1 DEF Terminate, TypeOK
<1> QED
  BY <1>1, EmptySequence, IdleLoopType DEF Terminate, Phases, None

LEMMA TypeStep == TypeOK /\ [Next]_vars => TypeOK'
<1> SUFFICES ASSUME TypeOK, [Next]_vars PROVE TypeOK'
  OBVIOUS
<1> USE DEF TypeOK
<1>h. Happenings = {"lock", "refused", "lost", "garbled", "publish", "streamEnd",
                    "cancel", "crash", "shutdown", "exit", "operatorRestart"}
  BY DEF Happenings
<1>1. CASE Lifecycle
  <2>1. CASE Connect
    BY <2>1 DEF Connect, Phases
  <2>2. CASE PublishInitial
    BY <2>2, PublishActiveType DEF PublishInitial, Phases
  <2>3. CASE Subscribe
    <3>1. <<broker.isLocked>> \in Seq(BOOLEAN)
      OBVIOUS
    <3> QED
      BY <2>3, <3>1 DEF Subscribe, Phases
  <2>4. CASE Crash
    BY <2>4, <1>h, TerminateType, NoteType DEF Crash, Happens
  <2>5. CASE ShutdownSignal
    BY <2>5, <1>h, NoteType DEF ShutdownSignal, Happens, Phases
  <2>6. CASE AbortForwarder
    BY <2>6, EmptySequence DEF AbortForwarder, Phases
  <2>7. CASE Exit
    BY <2>7, <1>h, TerminateType, NoteType DEF Exit
  <2> QED
    BY <1>1, <2>1, <2>2, <2>3, <2>4, <2>5, <2>6, <2>7 DEF Lifecycle
<1>2. CASE Environment
  <2>1. CASE \E b \in BOOLEAN : SetIsLocked(b)
    <3>1. PICK b \in BOOLEAN : SetIsLocked(b)
      BY <2>1
    <3>2. feed' \in Seq(BOOLEAN)
      <4>1. Append(feed, b) \in Seq(BOOLEAN)
        OBVIOUS
      <4> QED
        BY <3>1, <4>1 DEF SetIsLocked
    <3>3. broker' \in [isLocked : BOOLEAN, sessionActive : BOOLEAN]
      BY <3>1 DEF SetIsLocked
    <3>4. count' \in [Happenings -> Nat]
      BY <3>1, <1>h, NoteType DEF SetIsLocked, Happens
    <3> QED
      BY <3>1, <3>2, <3>3, <3>4 DEF SetIsLocked
  <2>2. CASE StreamEnds
    <3>1. PICK n \in 0..Len(feed) : feed' = SubSeq(feed, 1, n)
      BY <2>2 DEF StreamEnds
    <3>2. feed' \in Seq(BOOLEAN)
      BY <3>1
    <3> QED
      BY <2>2, <3>2, <1>h, NoteType DEF StreamEnds, Happens
  <2>3. CASE OperatorRestart
    BY <2>3, <1>h, NoteType DEF OperatorRestart, Happens, Operators
  <2> QED
    BY <1>2, <2>1, <2>2, <2>3 DEF Environment
<1>3. CASE ForwardLock
  <2>1. Head(feed) \in BOOLEAN /\ Tail(feed) \in Seq(BOOLEAN)
    BY <1>3, HeadTailType DEF ForwardLock
  <2>2. LockChanged(Head(feed)) \in Events
    BY <2>1 DEF LockChanged, Events, EventTypes
  <2> QED
    BY <1>3, <2>1, <2>2 DEF ForwardLock
<1>4. ASSUME NEW c \in Callers, Client(c) PROVE TypeOK'
  <2>1. ASSUME NEW rpc \in Rpcs, Call(c, rpc) PROVE TypeOK'
    <3>1. [calls[c] EXCEPT !.pc = "send", !.rpc = rpc] \in Calls
      BY DEF Calls
    <3> QED
      BY <2>1, <3>1 DEF Call
  <2>2. CASE SendEvent(c)
    <3>1. Request(EventOf(c), c) \in Events
      BY DEF Request, EventOf, Events, EventTypes, TypeOK, Calls, Rpcs
    <3>2. calls' \in [Callers -> Calls]
      <4>1. \A x \in {"wait", "rewait"} : [calls[c] EXCEPT !.pc = x] \in Calls
        BY DEF Calls
      <4> QED
        BY <2>2, <4>1 DEF SendEvent
    <3> QED
      BY <2>2, <3>1, <3>2 DEF SendEvent
  <2>3. CASE HangUp(c)
    <3>1. calls' \in [Callers -> Calls]
      BY <2>3 DEF HangUp, Calls
    <3> QED
      BY <2>3, <3>1, <1>h, NoteType DEF HangUp, Happens
  <2> QED
    BY <1>4, <2>1, <2>2, <2>3 DEF Client
<1>5. CASE Process
  <2> DEFINE e == Head(queue)
  <2>1. e \in Events /\ Tail(queue) \in Seq(Events)
    BY <1>5, HeadTailType DEF Process, TakeRefused, TakeQuery, TakeCommand, Take
  <2>2. e.caller \in Callers \cup {NoCaller}
    BY <2>1 DEF Events
  <2>3. CASE TakeRefused
    BY <2>1, <2>2, <2>3, ReplyType DEF TakeRefused, Take
  <2>4. CASE TakeQuery
    BY <2>1, <2>2, <2>4, ReplyType DEF TakeQuery, Take
  <2>5. CASE TakeCommand
    BY <2>1, <2>2, <2>5 DEF TakeCommand, Take, Loops, None
  <2> QED
    BY <1>5, <2>3, <2>4, <2>5 DEF Process
<1>6. CASE Post
  <2>1. CASE PostRefused
    BY <2>1, <1>h, AttemptFailsType, NoteType DEF PostRefused, Happens
  <2>2. CASE OperatorStarts
    <3>1. operator.opened + 1 \in Nat \ {0}
      BY DEF Operators
    <3>2. operator' \in Operators
      BY <2>2, <3>1 DEF OperatorStarts, Operators
    <3>3. loop' \in Loops
      BY <2>2, <3>1 DEF OperatorStarts, Loops
    <3> QED
      BY <2>2, <3>2, <3>3 DEF OperatorStarts
  <2>3. CASE OperatorStops
    BY <2>3 DEF OperatorStops, Operators, Loops, None
  <2> QED
    BY <1>6, <2>1, <2>2, <2>3 DEF Post
<1>7. CASE Answer
  <2>1. CASE AnswerRejects
    BY <2>1, AttemptFailsType DEF AnswerRejects
  <2>2. CASE AnswerLost
    BY <2>2, <1>h, AttemptFailsType, NoteType DEF AnswerLost, Happens
  <2>3. CASE AnswerGarbled
    <3>1. loop.caller \in Callers \cup {NoCaller}
      BY DEF Loops
    <3> QED
      BY <2>3, <3>1, <1>h, ReplyType, IdleLoopType, NoteType
      DEF AnswerGarbled, OperatorCallFails, None
  <2>4. CASE AnswerAccepted
    BY <2>4 DEF AnswerAccepted, Loops, None
  <2> QED
    BY <1>7, <2>1, <2>2, <2>3, <2>4 DEF Answer
<1>8. CASE PublishOutcome
  <2>1. loop.caller \in Callers \cup {NoCaller} /\ loop.answer \in Nat
    BY DEF Loops
  <2> QED
    BY <1>8, <2>1, PublishActiveType, ReplyType, IdleLoopType DEF PublishOutcome
<1>9. CASE Rest \/ UNCHANGED vars
  BY <1>9 DEF Rest, vars
<1> QED
  BY <1>1, <1>2, <1>3, <1>4, <1>5, <1>6, <1>7, <1>8, <1>9 DEF Next

(* The adaptor's variables always have their types: no attempt beyond      *)
(* MAX_RETRIES, no event without its caller, whatever fails.               *)
THEOREM TypeCorrect == Spec => []TypeOK
BY TypeInit, TypeStep, PTL DEF Spec

-----------------------------------------------------------------------------
(***************************************************************************)
(* The safety properties need to know how far the operator's books, the    *)
(* session in memory and the call in progress can drift apart.             *)
(***************************************************************************)

(* The operator charges for sessions it knows, and knows those it opened.  *)
BooksOK ==
  /\ operator.known \subseteq 1..operator.opened
  /\ operator.active \subseteq operator.known
  /\ session \in 0..operator.opened
  /\ session # None => session \in operator.known \/ count["operatorRestart"] > 0

(* A start is tried without, a stop with a session in memory; an answer    *)
(* on its way names the session just opened, or the one being stopped.     *)
CallOK ==
  /\ loop.pc \in {"post", "sent"} => (loop.op = "start" <=> session = None)
  /\ loop.pc = "sent" /\ loop.op = "start" =>
       /\ loop.answer \in 1..operator.opened
       /\ loop.answer \in operator.active \/ count["operatorRestart"] > 0
  /\ loop.pc = "sent" /\ loop.op = "stop" =>
       /\ loop.answer \in {None, session}
       /\ session \notin operator.active
       /\ loop.answer = None => count["operatorRestart"] > 0
  /\ loop.pc = "publish" => (loop.op = "start" <=> session # None)

(* Without the event loop there is neither a session nor a call.           *)
DownOK == ~Serving => session = None /\ loop.pc = "recv"

SafetyInv == /\ TypeOK
             /\ BooksOK
             /\ CallOK
             /\ DownOK
             /\ HeldSessionIsBilled
             /\ SignalFollowsSession

(* Noting a happening raises its counter and no other.                     *)
LEMMA NoteRaises ==
  ASSUME count \in [Happenings -> Nat], NEW h \in Happenings, Note(h)
  PROVE  /\ count'[h] = count[h] + 1
         /\ \A g \in Happenings \ {h} : count'[g] = count[g]
BY DEF Note

(* No step takes back what happened.                                       *)
LEMMA CountsGrow ==
  ASSUME TypeOK, [Next]_vars
  PROVE  \A g \in Happenings : count[g] \in Nat /\ count'[g] \in Nat /\ count[g] <= count'[g]
<1>1. \/ UNCHANGED count
      \/ \E h \in Happenings : Note(h)
  <2>h. /\ {"lock", "refused", "lost", "garbled", "publish"} \subseteq Happenings
        /\ {"streamEnd", "cancel", "crash", "shutdown", "exit"} \subseteq Happenings
        /\ "operatorRestart" \in Happenings
    BY DEF Happenings
  <2>1. CASE Lifecycle
    BY <2>1, <2>h DEF Lifecycle, Connect, PublishInitial, PublishActive, Subscribe, Crash,
                      ShutdownSignal, AbortForwarder, Exit, Happens
  <2>2. CASE Environment
    BY <2>2, <2>h DEF Environment, SetIsLocked, StreamEnds, OperatorRestart, Happens
  <2>3. ASSUME NEW c \in Callers, Client(c) PROVE UNCHANGED count \/ Note("cancel")
    BY <2>3 DEF Client, Call, SendEvent, HangUp, Happens
  <2>4. CASE ForwardLock \/ Process
    BY <2>4 DEF ForwardLock, Process, TakeRefused, TakeQuery, TakeCommand, Take
  <2>5. CASE Post \/ Answer \/ PublishOutcome
    BY <2>5, <2>h DEF Post, PostRefused, OperatorStarts, OperatorStops, Answer, AnswerRejects,
                      AnswerLost, AnswerGarbled, AnswerAccepted, PublishOutcome,
                      PublishActive, Happens
  <2>6. CASE Rest \/ UNCHANGED vars
    BY <2>6 DEF Rest, vars
  <2> QED
    BY <2>h, <2>1, <2>2, <2>3, <2>4, <2>5, <2>6 DEF Next
<1>2. ASSUME NEW h \in Happenings, Note(h)
      PROVE  \A g \in Happenings : count[g] \in Nat /\ count'[g] \in Nat /\ count[g] <= count'[g]
  BY <1>2 DEF Note, TypeOK
<1> QED
  BY <1>1, <1>2 DEF TypeOK

(* What CountsGrow gives the invariant: an excuse stays an excuse.         *)
LEMMA ExcusesStay ==
  ASSUME TypeOK, [Next]_vars
  PROVE  /\ count["operatorRestart"] > 0 => count'["operatorRestart"] > 0
         /\ count["lost"] + count["garbled"] + count["operatorRestart"] > 0
              => count'["lost"] + count'["garbled"] + count'["operatorRestart"] > 0
         /\ count'["publish"] = 0 => count["publish"] = 0
<1>1. {"lost", "garbled", "operatorRestart", "publish"} \subseteq Happenings
  BY DEF Happenings
<1> QED
  BY <1>1, CountsGrow

LEMMA SafetyInit == Init => SafetyInv
<1> SUFFICES ASSUME Init PROVE SafetyInv
  OBVIOUS
<1>1. TypeOK
  BY TypeInit
<1> QED
  BY <1>1 DEF Init, SafetyInv, BooksOK, CallOK, DownOK, HeldSessionIsBilled,
              SignalFollowsSession, IdleLoop, None

(* The invariant reads six variables; a step that leaves them alone, up to *)
(* the lock signal, keeps it.                                              *)
LEMMA SafetyQuiet ==
  ASSUME SafetyInv, [Next]_vars, TypeOK',
         UNCHANGED <<phase, session, loop, operator>>,
         broker'.sessionActive = broker.sessionActive
  PROVE  SafetyInv'
BY ExcusesStay DEF SafetyInv, BooksOK, CallOK, DownOK, Serving, HeldSessionIsBilled,
                   SignalFollowsSession

(* An attempt that fails goes back to "post" or ends the call.             *)
LEMMA AttemptFailsEffect ==
  ASSUME TypeOK, AttemptFails
  PROVE  /\ loop'.pc \in {"post", "recv"}
         /\ loop'.pc = "post" => loop'.op = loop.op
<1>1. loop \in Loops
  BY DEF TypeOK
<1>2. CASE loop.attempt < MaxRetries
  BY <1>1, <1>2 DEF AttemptFails, Loops
<1>3. CASE ~(loop.attempt < MaxRetries)
  BY <1>3 DEF AttemptFails, OperatorCallFails, IdleLoop
<1> QED
  BY <1>2, <1>3

LEMMA SafetyStep == SafetyInv /\ [Next]_vars => SafetyInv'
<1> SUFFICES ASSUME SafetyInv, [Next]_vars PROVE SafetyInv'
  OBVIOUS
<1>t. TypeOK /\ TypeOK'
  BY TypeStep DEF SafetyInv
<1>x. /\ count["operatorRestart"] > 0 => count'["operatorRestart"] > 0
      /\ count["lost"] + count["garbled"] + count["operatorRestart"] > 0
           => count'["lost"] + count'["garbled"] + count'["operatorRestart"] > 0
      /\ count'["publish"] = 0 => count["publish"] = 0
  BY <1>t, ExcusesStay
<1>h. /\ {"lost", "garbled", "operatorRestart", "publish"} \subseteq Happenings
      /\ count \in [Happenings -> Nat] /\ count' \in [Happenings -> Nat]
  BY <1>t DEF Happenings, TypeOK
<1>d. SafetyInv' <=> TypeOK' /\ BooksOK' /\ CallOK' /\ DownOK'
                     /\ HeldSessionIsBilled' /\ SignalFollowsSession'
  BY DEF SafetyInv
<1>i. BooksOK /\ CallOK /\ DownOK /\ HeldSessionIsBilled /\ SignalFollowsSession
  BY DEF SafetyInv
<1>o. operator.opened \in Nat
  BY <1>t DEF TypeOK, Operators
<1> USE DEF None
<1>1. CASE Connect \/ Subscribe \/ ShutdownSignal \/ AbortForwarder
  <2>1. UNCHANGED <<session, loop, operator, broker>>
    BY <1>1 DEF Connect, Subscribe, ShutdownSignal, AbortForwarder
  <2>2. BooksOK' /\ CallOK' /\ HeldSessionIsBilled'
    BY <2>1, <1>i, <1>x DEF BooksOK, CallOK, HeldSessionIsBilled
  <2>3. DownOK'
    BY <1>1, <2>1, <1>i DEF DownOK, Serving, Connect, Subscribe, ShutdownSignal, AbortForwarder
  <2>4. SignalFollowsSession'
    BY <1>1, <2>1, <1>i, <1>x DEF SignalFollowsSession, Connect, Subscribe, ShutdownSignal,
                                  AbortForwarder
  <2> QED
    BY <1>d, <1>t, <2>2, <2>3, <2>4
<1>2. CASE PublishInitial
  <2>1. UNCHANGED <<session, loop, operator>> /\ session = None /\ loop.pc = "recv"
    BY <1>2, <1>i DEF PublishInitial, DownOK, Serving
  <2>2. BooksOK' /\ CallOK' /\ HeldSessionIsBilled' /\ DownOK'
    BY <2>1, <1>i, <1>x DEF BooksOK, CallOK, HeldSessionIsBilled, DownOK
  <2>3. count'["publish"] = 0 => broker'.sessionActive = FALSE
    BY <1>2, <1>t, <1>h, NoteRaises DEF PublishInitial, PublishActive, Happens, TypeOK
  <2> QED
    BY <1>d, <1>t, <2>1, <2>2, <2>3 DEF SignalFollowsSession
<1>3. CASE Crash \/ Exit
  <2>1. Terminate
    BY <1>3 DEF Crash, Exit
  <2> QED
    BY <1>d, <1>t, <1>i, <1>o, <2>1 DEF Terminate, IdleLoop, BooksOK, CallOK, DownOK,
                                   HeldSessionIsBilled, SignalFollowsSession
<1>4. CASE (\E b \in BOOLEAN : SetIsLocked(b)) \/ StreamEnds \/ ForwardLock
           \/ (\E c \in Callers : Client(c)) \/ TakeRefused \/ TakeQuery
           \/ Rest \/ UNCHANGED vars
  <2>1. /\ UNCHANGED <<phase, session, loop, operator>>
        /\ broker'.sessionActive = broker.sessionActive
    BY <1>4, <1>t DEF SetIsLocked, StreamEnds, ForwardLock, Client, Call, SendEvent, HangUp,
                      TakeRefused, TakeQuery, Take, Rest, vars, TypeOK
  <2> QED
    BY <1>t, <2>1, SafetyQuiet
<1>5. CASE OperatorRestart
  <2>1. count'["operatorRestart"] > 0
    BY <1>5, <1>h, NoteRaises DEF OperatorRestart, Happens
  <2>2. count'["lost"] \in Nat /\ count'["garbled"] \in Nat /\ count'["operatorRestart"] \in Nat
    BY <1>h
  <2>3. UNCHANGED <<phase, session, loop, broker>>
    BY <1>5 DEF OperatorRestart
  <2>4. operator'.opened = operator.opened /\ operator'.known = {} /\ operator'.active = {}
    BY <1>5, <1>t DEF OperatorRestart, TypeOK, Operators
  <2>5. BooksOK' /\ CallOK' /\ DownOK' /\ SignalFollowsSession'
    BY <1>i, <1>x, <2>1, <2>3, <2>4 DEF BooksOK, CallOK, DownOK, Serving, SignalFollowsSession
  <2>6. HeldSessionIsBilled'
    BY <2>1, <2>2 DEF HeldSessionIsBilled
  <2> QED
    BY <1>d, <1>t, <2>5, <2>6
<1>6. CASE TakeCommand
  <2>1. /\ UNCHANGED <<phase, session, operator, broker, count>>
        /\ loop.pc = "recv" /\ loop'.pc = "post" /\ Serving
        /\ loop'.op = "start" <=> session = None
    BY <1>6 DEF TakeCommand, Take, WantsStart, WantsStop
  <2> QED
    BY <1>d, <1>t, <1>i, <2>1 DEF BooksOK, CallOK, DownOK, Serving, HeldSessionIsBilled,
                                   SignalFollowsSession
<1>7. CASE PostRefused \/ AnswerRejects \/ AnswerLost \/ AnswerGarbled
  <2>1. /\ UNCHANGED <<phase, session, operator, broker>>
        /\ loop.pc \in {"post", "sent"}
    BY <1>7 DEF PostRefused, AnswerRejects, AnswerLost, AnswerGarbled
  <2>2. /\ loop'.pc \in {"post", "recv"}
        /\ loop'.pc = "post" => loop'.op = loop.op
    <3>1. CASE AnswerGarbled
      BY <3>1 DEF AnswerGarbled, OperatorCallFails, IdleLoop
    <3>2. CASE AttemptFails
      BY <3>2, <1>t, AttemptFailsEffect
    <3> QED
      BY <1>7, <3>1, <3>2 DEF PostRefused, AnswerRejects, AnswerLost
  <2>3. BooksOK' /\ DownOK' /\ CallOK' /\ SignalFollowsSession'
    BY <1>i, <1>x, <2>1, <2>2 DEF BooksOK, CallOK, DownOK, Serving, SignalFollowsSession
  <2>4. HeldSessionIsBilled'
    <3>1. CASE PostRefused
      BY <3>1, <1>i, <1>x, <2>1 DEF PostRefused, HeldSessionIsBilled
    <3>2. CASE AnswerRejects
      <4>1. session # None => session \in operator.active \/ count'["operatorRestart"] > 0
        BY <3>2, <1>i, <1>x, <1>t DEF AnswerRejects, CallOK, TypeOK, Loops
      <4> QED
        BY <4>1, <1>h, <2>1 DEF HeldSessionIsBilled
    <3>3. CASE AnswerLost
      <4>1. count'["lost"] > 0
        BY <3>3, <1>h, NoteRaises DEF AnswerLost, Happens
      <4> QED
        BY <4>1, <1>h DEF HeldSessionIsBilled
    <3>4. CASE AnswerGarbled
      <4>1. count'["garbled"] > 0
        BY <3>4, <1>h, NoteRaises DEF AnswerGarbled
      <4> QED
        BY <4>1, <1>h DEF HeldSessionIsBilled
    <3> QED
      BY <1>7, <3>1, <3>2, <3>3, <3>4
  <2> QED
    BY <1>d, <1>t, <2>3, <2>4
<1>8. CASE OperatorStarts
  <2>1. /\ UNCHANGED <<phase, session, broker, count>>
        /\ loop.pc = "post" /\ loop.op = "start" /\ session = None
        /\ loop'.pc = "sent" /\ loop'.op = "start" /\ loop'.answer = operator.opened + 1
        /\ operator'.opened = operator.opened + 1
        /\ operator'.known = operator.known \cup {operator.opened + 1}
        /\ operator'.active = operator.active \cup {operator.opened + 1}
        /\ operator.opened \in Nat
    BY <1>8, <1>i, <1>t DEF OperatorStarts, CallOK, TypeOK, Loops, Operators
  <2>2. BooksOK'
    BY <1>i, <2>1 DEF BooksOK
  <2>3. CallOK' /\ DownOK' /\ HeldSessionIsBilled' /\ SignalFollowsSession'
    BY <1>i, <2>1 DEF CallOK, DownOK, Serving, HeldSessionIsBilled, SignalFollowsSession
  <2> QED
    BY <1>d, <1>t, <2>2, <2>3
<1>9. CASE OperatorStops
  <2>1. /\ UNCHANGED <<phase, session, broker, count>>
        /\ loop.pc = "post" /\ loop.op = "stop" /\ session # None
        /\ loop'.pc = "sent" /\ loop'.op = "stop"
        /\ loop'.answer = IF session \in operator.known THEN session ELSE None
        /\ operator'.opened = operator.opened
        /\ operator'.known = operator.known
        /\ operator'.active = operator.active \ {session}
    BY <1>9, <1>i, <1>t DEF OperatorStops, CallOK, TypeOK, Loops, Operators
  <2>2. session \notin operator.known => count["operatorRestart"] > 0
    BY <1>i, <2>1 DEF BooksOK
  <2> QED
    BY <1>d, <1>t, <1>i, <2>1, <2>2 DEF BooksOK, CallOK, DownOK, Serving, HeldSessionIsBilled,
                                         SignalFollowsSession
<1>10. CASE AnswerAccepted
  <2>1. /\ UNCHANGED <<phase, operator, broker, count>>
        /\ session' = IF loop.op = "start" THEN loop.answer ELSE None
        /\ loop.pc = "sent" /\ loop.answer # None
        /\ loop'.pc = "publish" /\ loop'.op = loop.op
        /\ loop.op \in {"start", "stop"}
    BY <1>10, <1>t DEF AnswerAccepted, TypeOK, Loops
  <2>2. Serving
    BY <1>i, <2>1 DEF DownOK
  <2>3. BooksOK' /\ CallOK' /\ DownOK' /\ SignalFollowsSession'
    BY <1>i, <1>o, <2>1, <2>2 DEF BooksOK, CallOK, DownOK, Serving, SignalFollowsSession
  <2>4. HeldSessionIsBilled'
    BY <1>i, <1>h, <2>1 DEF CallOK, HeldSessionIsBilled
  <2> QED
    BY <1>d, <1>t, <2>3, <2>4
<1>11. CASE PublishOutcome
  <2>1. /\ UNCHANGED <<phase, session, operator>>
        /\ loop.pc = "publish" /\ loop'.pc = "recv"
        /\ (loop.op = "start") <=> (session # None)
    BY <1>11, <1>i DEF PublishOutcome, IdleLoop, CallOK
  <2>2. count'["publish"] = 0 => broker'.sessionActive = (loop.op = "start")
    BY <1>11, <1>t, <1>h, NoteRaises DEF PublishOutcome, PublishActive, Happens, TypeOK
  <2>3. SignalFollowsSession'
    BY <2>1, <2>2 DEF SignalFollowsSession
  <2>4. BooksOK' /\ CallOK' /\ DownOK' /\ HeldSessionIsBilled'
    BY <1>i, <1>x, <2>1 DEF BooksOK, CallOK, DownOK, Serving, HeldSessionIsBilled
  <2> QED
    BY <1>d, <1>t, <2>3, <2>4
<1> QED
  BY <1>1, <1>2, <1>3, <1>4, <1>5, <1>6, <1>7, <1>8, <1>9, <1>10, <1>11
  DEF Next, Lifecycle, Environment, Process, Post, Answer

(* The session in memory is billed unless an excuse exists.                *)
THEOREM HeldSessionBilled == Spec => []HeldSessionIsBilled
<1>1. SafetyInv => HeldSessionIsBilled
  BY DEF SafetyInv
<1> QED
  BY <1>1, SafetyInit, SafetyStep, PTL DEF Spec

(* SessionActive follows the session as long as no publish fails.          *)
THEOREM SignalFollows == Spec => []SignalFollowsSession
<1>1. SafetyInv => SignalFollowsSession
  BY DEF SafetyInv
<1> QED
  BY <1>1, SafetyInit, SafetyStep, PTL DEF Spec

-----------------------------------------------------------------------------
(***************************************************************************)
(* The adaptor implements ParkingBilling, and so inherits its promise.     *)
(***************************************************************************)

LEMMA BillingInitial == Init => Billing!Init
BY DEF Init, Billing!Init, Billing!Untracked, Tracked, Reachable, Disruptions, IdleLoop, None,
       Happenings

(* What the refinement reads of the counters.                              *)
LEMMA DisruptionCounts ==
  ASSUME TypeOK, TypeOK'
  PROVE  /\ \A h \in {"lost", "garbled", "crash", "exit"} :
              count[h] \in Nat /\ (Note(h) => Disruptions' = Disruptions + 1)
         /\ \A h \in Happenings \ {"lost", "garbled", "crash", "exit"} :
              Note(h) => Disruptions' = Disruptions
<1>1. {"lost", "garbled", "crash", "exit"} \subseteq Happenings
  BY DEF Happenings
<1>2. count \in [Happenings -> Nat]
  BY DEF TypeOK
<1> QED
  BY <1>1, <1>2, NoteRaises DEF Disruptions

(* A counted loss of the session the adaptor could reach, or of none.      *)
LEMMA DisruptSimulates ==
  ASSUME Disruptions' = Disruptions + 1, UNCHANGED operator,
         Tracked' \in {Tracked, None}
  PROVE  Billing!Next
BY DEF Billing!Next, Billing!Disrupt, Billing!Untracked, None

LEMMA StutterSimulates ==
  ASSUME Disruptions' = Disruptions, UNCHANGED operator, Tracked' = Tracked
  PROVE  UNCHANGED Billing!billingVars
BY DEF Billing!billingVars

(* Every step of the adaptor is a step of ParkingBilling or changes        *)
(* nothing there: opening happens at the operator, in OperatorStarts, not  *)
(* when the answer is accepted; closing in OperatorStops.                  *)
LEMMA BillingSimulation ==
  ASSUME SafetyInv, SafetyInv', [Next]_vars
  PROVE  [Billing!Next]_(Billing!billingVars)
<1>t. TypeOK /\ TypeOK' /\ CallOK /\ CallOK' /\ BooksOK /\ DownOK
  BY DEF SafetyInv
<1>h. /\ {"refused", "publish", "lock", "streamEnd", "cancel", "shutdown", "operatorRestart"}
           \subseteq Happenings \ {"lost", "garbled", "crash", "exit"}
  BY DEF Happenings
<1>n. \A h \in {"refused", "publish", "lock", "streamEnd", "cancel", "shutdown",
                "operatorRestart"} : Note(h) => Disruptions' = Disruptions
  BY <1>t, <1>h, DisruptionCounts
<1>u. UNCHANGED count => Disruptions' = Disruptions
  BY DEF Disruptions
<1>o. operator.opened \in Nat
  BY <1>t DEF TypeOK, Operators
<1> USE DEF None
<1>1. CASE \/ Connect \/ Subscribe \/ ShutdownSignal \/ AbortForwarder \/ PublishInitial
           \/ (\E b \in BOOLEAN : SetIsLocked(b)) \/ StreamEnds \/ ForwardLock
           \/ (\E c \in Callers : Client(c)) \/ TakeRefused \/ TakeQuery
           \/ Rest \/ UNCHANGED vars
  <2>1. UNCHANGED <<session, loop, operator>>
    BY <1>1 DEF Connect, Subscribe, ShutdownSignal, AbortForwarder, PublishInitial, SetIsLocked,
                StreamEnds, ForwardLock, Client, Call, SendEvent, HangUp, TakeRefused, TakeQuery,
                Take, Rest, vars
  <2>2. \/ UNCHANGED count
        \/ \E h \in {"publish", "lock", "streamEnd", "cancel", "shutdown"} : Note(h)
    BY <1>1 DEF Connect, Subscribe, ShutdownSignal, AbortForwarder, PublishInitial, PublishActive,
                SetIsLocked, StreamEnds, ForwardLock, Client, Call, SendEvent, HangUp, TakeRefused,
                TakeQuery, Take, Rest, vars, Happens
  <2>3. Disruptions' = Disruptions
    BY <2>2, <1>n, <1>u
  <2>4. Tracked' = Tracked
    BY <2>1 DEF Tracked, Reachable
  <2> QED
    BY <2>1, <2>3, <2>4, StutterSimulates
<1>2. CASE Crash \/ Exit
  <2>1. Disruptions' = Disruptions + 1
    BY <1>2, <1>t, DisruptionCounts DEF Crash, Exit, Happens
  <2>2. UNCHANGED operator /\ Tracked' = None
    BY <1>2 DEF Crash, Exit, Terminate, IdleLoop, Tracked, Reachable
  <2> QED
    BY <2>1, <2>2, DisruptSimulates
<1>3. CASE OperatorRestart
  <2>1. Disruptions' = Disruptions
    BY <1>3, <1>n DEF OperatorRestart, Happens
  <2>2. operator'.opened = operator.opened /\ operator'.active = {}
    BY <1>3, <1>t DEF OperatorRestart, TypeOK, Operators
  <2>3. Tracked' = None
    BY <2>2 DEF Tracked
  <2> QED
    BY <2>1, <2>2, <2>3 DEF Billing!Next, Billing!Wipe, Billing!Untracked
<1>4. CASE TakeCommand
  <2>1. UNCHANGED <<session, operator, count>> /\ loop.pc = "recv" /\ loop'.pc = "post"
    BY <1>4 DEF TakeCommand, Take
  <2>2. Tracked' = Tracked
    BY <2>1 DEF Tracked, Reachable
  <2> QED
    BY <2>1, <2>2, <1>u, StutterSimulates
<1>5. CASE PostRefused \/ AnswerRejects
  <2>1. UNCHANGED <<session, operator>> /\ loop'.pc \in {"post", "recv"}
    BY <1>5, <1>t, AttemptFailsEffect DEF PostRefused, AnswerRejects
  <2>2. loop.pc = "sent" => loop.op = "stop"
    BY <1>5, <1>t DEF PostRefused, AnswerRejects, CallOK, TypeOK, Loops
  <2>3. Disruptions' = Disruptions
    BY <1>5, <1>n, <1>u DEF PostRefused, AnswerRejects, Happens
  <2>4. Tracked' = Tracked
    BY <2>1, <2>2 DEF Tracked, Reachable
  <2> QED
    BY <2>1, <2>3, <2>4, StutterSimulates
<1>6. CASE AnswerLost \/ AnswerGarbled
  <2>1. UNCHANGED <<session, operator>> /\ loop.pc = "sent" /\ loop'.pc \in {"post", "recv"}
    BY <1>6, <1>t, AttemptFailsEffect DEF AnswerLost, AnswerGarbled, OperatorCallFails, IdleLoop
  <2>2. Disruptions' = Disruptions + 1
    BY <1>6, <1>t, DisruptionCounts DEF AnswerLost, AnswerGarbled, Happens
  <2>3. Tracked' \in {Tracked, None}
    <3>1. CASE loop.op = "start"
      BY <3>1, <1>t, <2>1 DEF CallOK, Tracked, Reachable
    <3>2. CASE loop.op # "start"
      BY <3>2, <2>1 DEF Tracked, Reachable
    <3> QED
      BY <3>1, <3>2
  <2> QED
    BY <2>1, <2>2, <2>3, DisruptSimulates
<1>7. CASE OperatorStarts
  <2>1. /\ UNCHANGED <<session, count>>
        /\ loop.pc = "post" /\ session = None
        /\ loop'.pc = "sent" /\ loop'.op = "start" /\ loop'.answer = operator.opened + 1
        /\ operator'.opened = operator.opened + 1
        /\ operator'.active = operator.active \cup {operator.opened + 1}
    BY <1>7, <1>t DEF OperatorStarts, CallOK, TypeOK, Loops, Operators
  <2>2. None \notin operator.active
    BY <1>t, <1>o DEF BooksOK
  <2>3. Tracked = None /\ Tracked' = operator'.opened
    BY <2>1, <2>2 DEF Tracked, Reachable
  <2> QED
    BY <2>1, <2>3, <1>u DEF Billing!Next, Billing!Open, Billing!Untracked
<1>8. CASE OperatorStops
  <2>1. /\ UNCHANGED <<session, count>>
        /\ loop.pc = "post" /\ session # None
        /\ loop'.pc = "sent" /\ loop'.op = "stop"
        /\ operator'.opened = operator.opened
        /\ operator'.active = operator.active \ {session}
    BY <1>8, <1>t DEF OperatorStops, CallOK, TypeOK, Loops, Operators
  <2>2. Tracked' = None /\ Tracked = IF session \in operator.active THEN session ELSE None
    BY <2>1 DEF Tracked, Reachable
  <2>3. CASE session \in operator.active
    BY <2>1, <2>2, <2>3, <1>u DEF Billing!Next, Billing!Close, Billing!Untracked
  <2>4. CASE session \notin operator.active
    BY <2>1, <2>2, <2>4, <1>u DEF Billing!billingVars
  <2> QED
    BY <2>3, <2>4
<1>9. CASE AnswerAccepted
  <2>1. /\ UNCHANGED <<operator, count>> /\ loop.pc = "sent" /\ loop'.pc = "publish"
        /\ session' = IF loop.op = "start" THEN loop.answer ELSE None
        /\ loop.op \in {"start", "stop"}
    BY <1>9, <1>t DEF AnswerAccepted, TypeOK, Loops
  <2>2. None \notin operator.active
    BY <1>t, <1>o DEF BooksOK
  <2>3. Tracked' = Tracked
    BY <2>1, <2>2, <1>t DEF Tracked, Reachable, CallOK
  <2> QED
    BY <2>1, <2>3, <1>u, StutterSimulates
<1>10. CASE PublishOutcome
  <2>1. UNCHANGED <<session, operator>> /\ loop.pc = "publish" /\ loop'.pc = "recv"
    BY <1>10 DEF PublishOutcome, IdleLoop
  <2>2. Disruptions' = Disruptions
    BY <1>10, <1>n, <1>u DEF PublishOutcome, PublishActive, Happens
  <2>3. Tracked' = Tracked
    BY <2>1 DEF Tracked, Reachable
  <2> QED
    BY <2>1, <2>2, <2>3, StutterSimulates
<1> QED
  BY <1>1, <1>2, <1>3, <1>4, <1>5, <1>6, <1>7, <1>8, <1>9, <1>10
  DEF Next, Lifecycle, Environment, Process, Post, Answer

(* The adaptor keeps the promise of ParkingBilling, whatever the budgets.  *)
THEOREM AdaptorImplementsBilling == Spec => ImplementsBilling
<1>1. SafetyInv /\ SafetyInv' /\ [Next]_vars => [Billing!Next]_(Billing!billingVars)
  BY BillingSimulation
<1> QED
  BY <1>1, SafetyInit, SafetyStep, BillingInitial, PTL
  DEF Spec, ImplementsBilling, Billing!Spec

Books == INSTANCE ParkingBillingProofs WITH
  opened      <- operator.opened,
  active      <- operator.active,
  tracked     <- Tracked,
  disruptions <- Disruptions

(* Sessions that run on without the adaptor are at most as many as the     *)
(* answers it lost and the times its process ended.                        *)
THEOREM AdaptorOrphansExplained == Spec => []OrphansExplained
<1>1. Billing!Init => Books!BillingInv
  BY Books!BillingInit DEF Billing!Init, Books!Init, Billing!Untracked, Books!Untracked
<1>2. Books!BillingInv /\ [Billing!Next]_(Billing!billingVars) => Books!BillingInv'
  <2>1. Billing!Next <=> Books!Next
    BY DEF Billing!Next, Billing!Open, Billing!Close, Billing!Disrupt, Billing!Wipe,
           Billing!Untracked,
           Books!Next, Books!Open, Books!Close, Books!Disrupt, Books!Wipe, Books!Untracked
  <2> QED
    BY <2>1, Books!BillingStep DEF Billing!billingVars, Books!billingVars
<1>3. Books!BillingInv => OrphansExplained
  BY DEF Books!BillingInv, Books!OrphansExplained, Books!Orphans,
         OrphansExplained, Billing!OrphansExplained, Billing!Orphans,
         Books!Cardinality, Billing!Cardinality, Books!IsFiniteSet, Billing!IsFiniteSet
<1> QED
  BY <1>1, <1>2, <1>3, AdaptorImplementsBilling, PTL DEF ImplementsBilling, Billing!Spec

-----------------------------------------------------------------------------
(* What replies may be trusted to say.  A handler has at most one event in *)
(* the channel or with the loop, and it is the one the handler awaits.     *)
Awaited(c) ==
  IF calls[c].pc = "rewait" THEN "QueryStatus"
  ELSE CASE calls[c].rpc = "StartSession" -> "ManualStart"
         [] calls[c].rpc = "StopSession"  -> "ManualStop"
         [] calls[c].rpc = "GetStatus"    -> "QueryStatus"
         [] calls[c].rpc = "GetRate"      -> "QueryRate"

Pending == {i \in 1..Len(queue) : queue[i].caller \in Callers}

MailOK ==
  /\ \A i \in Pending, c \in Callers : queue[i].caller = c =>
       /\ calls[c].pc \in {"wait", "rewait", "gone"}
       /\ calls[c].pc # "gone" => queue[i].type = Awaited(c)
  /\ \A i, k \in Pending : queue[i].caller = queue[k].caller => i = k
  /\ \A i \in 1..Len(queue) : queue[i].type = "LockChanged" => queue[i].caller = NoCaller

BusyOK ==
  loop.pc # "recv" /\ loop.caller \in Callers =>
    /\ calls[loop.caller].pc \in {"wait", "gone"}
    /\ calls[loop.caller].pc = "wait" =>
         calls[loop.caller].rpc = IF loop.op = "start" THEN "StartSession" ELSE "StopSession"
    /\ \A i \in Pending : queue[i].caller # loop.caller

(* The answer that is about to be passed on.                               *)
AnswerOK ==
  /\ loop.pc = "sent" /\ loop.op = "start" => loop.answer = operator.opened
  /\ loop.pc = "publish" => loop.answer \in 1..operator.opened
  /\ loop.pc = "publish" /\ loop.op = "start" => loop.answer = session
  /\ loop.pc = "publish" /\ loop.op = "stop" => loop.answer \notin operator.active

(* What the handlers know and have said.                                   *)
SaidOK ==
  \A c \in Callers :
    /\ calls[c].pc \in {"resend", "rewait"} =>
         /\ calls[c].rpc = "StartSession" /\ calls[c].own \in 1..operator.opened
         /\ session # None => calls[c].own <= session
    /\ calls[c].pc = "done" /\ calls[c].rpc = "StartSession" /\ calls[c].status = "OK"
         => calls[c].own # None /\ calls[c].id \in calls[c].own..operator.opened
    /\ calls[c].pc = "done" /\ calls[c].rpc = "StopSession" /\ calls[c].status = "OK"
         => calls[c].id \in 0..operator.opened \ operator.active

RepliesInv == MailOK /\ BusyOK /\ AnswerOK /\ SaidOK

LEMMA RepliesInit == Init => RepliesInv
<1> SUFFICES ASSUME Init PROVE RepliesInv
  OBVIOUS
<1>1. Len(queue) = 0 /\ Pending = {} /\ loop.pc = "recv" /\ \A c \in Callers : calls[c].pc = "idle"
  BY DEF Init, Pending, IdleLoop, IdleCall
<1> QED
  BY <1>1 DEF RepliesInv, MailOK, BusyOK, AnswerOK, SaidOK

(* The channel and the handlers are left alone.                            *)
LEMMA MailStays ==
  ASSUME MailOK, UNCHANGED <<queue, calls>>
  PROVE  MailOK'
<1>1. \A c \in Callers : Awaited(c)' = Awaited(c)
  BY DEF Awaited
<1>2. Pending' = Pending
  BY DEF Pending
<1> QED
  BY <1>1, <1>2 DEF MailOK

(* What a reply does to the handler it is for.                             *)
LEMMA ReplyEffect ==
  ASSUME calls \in [Callers -> Calls], NEW c \in Callers \cup {NoCaller}, NEW status, NEW id
  PROVE  /\ \A d \in Callers \ {c} : Reply(c, status, id)[d] = calls[d]
         /\ c \in Callers => Reply(c, status, id)[c].rpc = calls[c].rpc
         /\ c \in Callers /\ calls[c].pc \notin {"wait", "rewait"} => Reply(c, status, id)[c] = calls[c]
         /\ c \in Callers /\ calls[c].pc = "wait" /\ calls[c].rpc = "StartSession" /\ status = "OK" =>
              /\ Reply(c, status, id)[c].pc = "resend"
              /\ Reply(c, status, id)[c].own = id
         /\ c \in Callers /\ calls[c].pc = "wait" /\ ~(calls[c].rpc = "StartSession" /\ status = "OK") =>
              /\ Reply(c, status, id)[c].pc = "done"
              /\ Reply(c, status, id)[c].status = status
              /\ Reply(c, status, id)[c].id = id
         /\ c \in Callers /\ calls[c].pc = "rewait" =>
              /\ Reply(c, status, id)[c].pc = "done"
              /\ Reply(c, status, id)[c].status = "OK"
              /\ Reply(c, status, id)[c].own = calls[c].own
              /\ Reply(c, status, id)[c].id = IF id = None THEN calls[c].own ELSE id
<1>1. CASE c = NoCaller
  BY <1>1 DEF Reply
<1>2. CASE c \in Callers
  <2> USE DEF Reply, Calls
  <2>1. CASE calls[c].pc \notin {"wait", "rewait"}
    BY <1>2, <2>1
  <2>2. CASE calls[c].pc = "wait" /\ calls[c].rpc = "StartSession" /\ status = "OK"
    BY <1>2, <2>2
  <2>3. CASE calls[c].pc = "wait" /\ ~(calls[c].rpc = "StartSession" /\ status = "OK")
    BY <1>2, <2>3
  <2>4. CASE calls[c].pc = "rewait"
    BY <1>2, <2>4
  <2> QED
    BY <2>1, <2>2, <2>3, <2>4
<1> QED
  BY <1>1, <1>2

(* The loop replies: nothing else of the caller's is in the channel.       *)
LEMMA ReplyMail ==
  ASSUME TypeOK, MailOK, NEW c \in Callers \cup {NoCaller}, NEW status, NEW id,
         calls' = Reply(c, status, id), UNCHANGED queue,
         \A i \in Pending : queue[i].caller # c
  PROVE  MailOK'
<1>1. Pending' = Pending
  BY DEF Pending
<1>2. ASSUME NEW i \in Pending, NEW d \in Callers, queue[i].caller = d
      PROVE  calls'[d] = calls[d] /\ Awaited(d)' = Awaited(d)
  <2>1. calls'[d] = calls[d]
    BY <1>2, ReplyEffect DEF TypeOK
  <2> QED
    BY <2>1 DEF Awaited
<1> QED
  BY <1>1, <1>2 DEF MailOK

(* The first event leaves the channel; its caller has no other.            *)
LEMMA TakeMail ==
  ASSUME TypeOK, MailOK, queue # <<>>, queue' = Tail(queue),
         \A d \in Callers \ {Head(queue).caller} : calls'[d] = calls[d]
  PROVE  /\ MailOK'
         /\ \A i \in Pending' : queue'[i].caller # Head(queue).caller
<1>1. /\ queue \in Seq(Events) /\ Len(queue) \in Nat /\ Len(queue) >= 1
      /\ Len(queue') = Len(queue) - 1
      /\ \A i \in 1..Len(queue') : i + 1 \in 1..Len(queue) /\ queue'[i] = queue[i + 1]
      /\ Head(queue) = queue[1] /\ 1 \in 1..Len(queue)
  BY DEF TypeOK
<1>2. \A i \in Pending' : i \in 1..Len(queue') /\ i + 1 \in Pending /\ queue'[i] = queue[i + 1]
  BY <1>1 DEF Pending
<1>3. \A i \in Pending' : queue'[i].caller # Head(queue).caller
  <2> SUFFICES ASSUME NEW i \in Pending', queue'[i].caller = Head(queue).caller PROVE FALSE
    OBVIOUS
  <2>1. i + 1 \in Pending /\ queue[i + 1].caller = queue[1].caller /\ i \in 1..Len(queue')
    BY <1>1, <1>2
  <2>2. 1 \in Pending
    BY <1>1, <2>1 DEF Pending
  <2>3. i + 1 = 1
    BY <2>1, <2>2 DEF MailOK
  <2> QED
    BY <1>1, <2>1, <2>3
<1>6. ASSUME NEW i \in Pending', NEW c \in Callers, queue'[i].caller = c
      PROVE  /\ calls'[c].pc \in {"wait", "rewait", "gone"}
             /\ calls'[c].pc # "gone" => queue'[i].type = Awaited(c)'
  <2>1. calls'[c] = calls[c]
    BY <1>3, <1>6
  <2>2. Awaited(c)' = Awaited(c)
    BY <2>1 DEF Awaited
  <2> QED
    BY <1>2, <1>6, <2>1, <2>2 DEF MailOK
<1>7. \A i, k \in Pending' : queue'[i].caller = queue'[k].caller => i = k
  <2> SUFFICES ASSUME NEW i \in Pending', NEW k \in Pending', queue'[i].caller = queue'[k].caller
               PROVE  i = k
    OBVIOUS
  <2>1. i \in Nat /\ k \in Nat /\ i + 1 \in Pending /\ k + 1 \in Pending
        /\ queue[i + 1].caller = queue[k + 1].caller
    BY <1>1, <1>2
  <2>2. i + 1 = k + 1
    BY <2>1 DEF MailOK
  <2> QED
    BY <2>1, <2>2
<1>8. \A i \in 1..Len(queue') : queue'[i].type = "LockChanged" => queue'[i].caller = NoCaller
  BY <1>1 DEF MailOK
<1> QED
  BY <1>3, <1>6, <1>7, <1>8 DEF MailOK

(* What handlers have said stays true while sessions are only closed or    *)
(* opened: here, with the session in memory as it is or gone.              *)
LEMMA SaidStays ==
  ASSUME TypeOK, SaidOK, UNCHANGED calls,
         operator.opened <= operator'.opened, operator'.opened \in Nat,
         operator'.active \subseteq operator.active \cup {operator.opened + 1},
         session' \in {session, None}
  PROVE  SaidOK'
<1>1. operator.opened \in Nat /\ \A c \in Callers : calls[c].own \in Nat /\ calls[c].id \in Nat
  BY DEF TypeOK, Operators, Calls
<1>2. 1..operator.opened \subseteq 1..operator'.opened
  BY <1>1
<1>3. ASSUME NEW c \in Callers, calls[c].id \in calls[c].own..operator.opened
      PROVE  calls[c].id \in calls[c].own..operator'.opened
  BY <1>1, <1>3
<1>4. ASSUME NEW c \in Callers, calls[c].id \in 0..operator.opened \ operator.active
      PROVE  calls[c].id \in 0..operator'.opened \ operator'.active
  BY <1>1, <1>4
<1> QED
  BY <1>2, <1>3, <1>4 DEF SaidOK

(* A reply that says no more than that something failed, or that a query   *)
(* found the session in memory.                                            *)
LEMMA ReplySaid ==
  ASSUME TypeOK, BooksOK, SaidOK, NEW c \in Callers \cup {NoCaller}, NEW status, NEW id,
         calls' = Reply(c, status, id), UNCHANGED <<session, operator>>,
         id \in {None, session},
         c \in Callers /\ status = "OK" /\ calls[c].pc = "wait"
           => calls[c].rpc \notin {"StartSession", "StopSession"}
  PROVE  SaidOK'
<1>1. \A d \in Callers \ {c} : calls'[d] = calls[d]
  BY ReplyEffect DEF TypeOK
<1>2. ASSUME c \in Callers, calls[c].pc \notin {"wait", "rewait"} PROVE calls'[c] = calls[c]
  BY <1>2, ReplyEffect DEF TypeOK
<1>3. ASSUME c \in Callers, calls[c].pc = "wait"
      PROVE  /\ calls'[c].pc = "done" /\ calls'[c].status = status
             /\ calls'[c].rpc = calls[c].rpc
  BY <1>3, ReplyEffect DEF TypeOK
<1>4. ASSUME c \in Callers, calls[c].pc = "rewait"
      PROVE  /\ calls'[c].pc = "done" /\ calls'[c].rpc = "StartSession"
             /\ calls'[c].own \in 1..operator.opened
             /\ calls'[c].id \in calls'[c].own..operator.opened
  <2>1. /\ calls'[c].pc = "done" /\ calls'[c].own = calls[c].own
        /\ calls'[c].rpc = calls[c].rpc
        /\ calls'[c].id = IF id = None THEN calls[c].own ELSE id
    BY <1>4, ReplyEffect DEF TypeOK
  <2>2. /\ calls[c].rpc = "StartSession" /\ calls[c].own \in 1..operator.opened
        /\ session # None => calls[c].own <= session
    BY <1>4 DEF SaidOK
  <2>3. session \in 0..operator.opened /\ operator.opened \in Nat
    BY DEF BooksOK, TypeOK, Operators
  <2> QED
    BY <2>1, <2>2, <2>3 DEF None
<1>5. operator.opened \in Nat /\ None = 0
  BY DEF TypeOK, Operators, None
<1>6. ASSUME NEW d \in Callers PROVE
    /\ calls'[d].pc \in {"resend", "rewait"} =>
         /\ calls'[d].rpc = "StartSession" /\ calls'[d].own \in 1..operator.opened
         /\ session # None => calls'[d].own <= session
    /\ calls'[d].pc = "done" /\ calls'[d].rpc = "StartSession" /\ calls'[d].status = "OK"
         => calls'[d].own # None /\ calls'[d].id \in calls'[d].own..operator.opened
    /\ calls'[d].pc = "done" /\ calls'[d].rpc = "StopSession" /\ calls'[d].status = "OK"
         => calls'[d].id \in 0..operator.opened \ operator.active
  <2>1. CASE d # c \/ calls[c].pc \notin {"wait", "rewait"}
    <3>1. calls'[d] = calls[d]
      BY <1>1, <1>2, <2>1
    <3> QED
      BY <3>1 DEF SaidOK
  <2>2. CASE d = c /\ calls[c].pc = "wait"
    BY <1>3, <2>2
  <2>3. CASE d = c /\ calls[c].pc = "rewait"
    BY <1>4, <1>5, <2>3
  <2> QED
    BY <2>1, <2>2, <2>3
<1> QED
  BY <1>6 DEF SaidOK

(* The last event enters the channel.                                      *)
LEMMA AppendMail ==
  ASSUME TypeOK, MailOK, NEW e \in Events, queue' = Append(queue, e),
         \A d \in Callers \ {e.caller} : calls'[d] = calls[d],
         e.type = "LockChanged" => e.caller = NoCaller,
         \A i \in Pending : queue[i].caller # e.caller,
         \A c \in Callers : e.caller = c => /\ calls'[c].pc \in {"wait", "rewait"}
                                            /\ e.type = Awaited(c)'
  PROVE  MailOK'
<1>1. /\ queue \in Seq(Events) /\ Len(queue) \in Nat /\ Len(queue') = Len(queue) + 1
      /\ \A i \in 1..Len(queue) : queue'[i] = queue[i]
      /\ queue'[Len(queue) + 1] = e
  BY DEF TypeOK
<1>2. \A i \in Pending' : \/ i \in Pending /\ queue'[i] = queue[i] /\ queue[i].caller \in Callers \ {e.caller}
                          \/ i = Len(queue) + 1 /\ queue'[i] = e /\ e.caller \in Callers
  BY <1>1 DEF Pending
<1>3. ASSUME NEW i \in Pending', NEW c \in Callers, queue'[i].caller = c
      PROVE  /\ calls'[c].pc \in {"wait", "rewait", "gone"}
             /\ calls'[c].pc # "gone" => queue'[i].type = Awaited(c)'
  <2>1. CASE i \in Pending /\ queue'[i] = queue[i] /\ queue[i].caller \in Callers \ {e.caller}
    <3>1. calls'[c] = calls[c]
      BY <1>3, <2>1
    <3>2. Awaited(c)' = Awaited(c)
      BY <3>1 DEF Awaited
    <3> QED
      BY <1>3, <2>1, <3>1, <3>2 DEF MailOK
  <2>2. CASE i = Len(queue) + 1 /\ queue'[i] = e /\ e.caller \in Callers
    <3>1. c = e.caller
      BY <1>3, <2>2
    <3> QED
      BY <2>2, <3>1
  <2> QED
    BY <1>2, <2>1, <2>2
<1>4. ASSUME NEW i \in Pending', NEW k \in Pending', queue'[i].caller = queue'[k].caller
      PROVE  i = k
  <2>1. CASE i \in Pending /\ k \in Pending /\ queue'[i] = queue[i] /\ queue'[k] = queue[k]
    BY <1>4, <2>1 DEF MailOK
  <2>2. CASE i = Len(queue) + 1 /\ k = Len(queue) + 1
    BY <2>2
  <2> QED
    BY <1>2, <1>4, <2>1, <2>2
<1>5. \A i \in 1..Len(queue') : queue'[i].type = "LockChanged" => queue'[i].caller = NoCaller
  <2> SUFFICES ASSUME NEW i \in 1..Len(queue'), queue'[i].type = "LockChanged"
               PROVE  queue'[i].caller = NoCaller
    OBVIOUS
  <2>1. i \in 1..Len(queue) \/ i = Len(queue) + 1
    BY <1>1
  <2> QED
    BY <1>1, <2>1 DEF MailOK
<1> QED
  BY <1>3, <1>4, <1>5 DEF MailOK

(* A handler's own step, or its end: it has neither got an answer to a     *)
(* StartSession nor become done.                                           *)
LEMMA HandlerSaid ==
  ASSUME SaidOK, UNCHANGED <<session, operator>>, NEW c \in Callers,
         \A d \in Callers \ {c} : calls'[d] = calls[d],
         \/ calls'[c].pc \in {"send", "wait", "gone"}
         \/ /\ calls[c].pc = "resend" /\ calls'[c].pc = "rewait"
            /\ calls'[c].rpc = calls[c].rpc /\ calls'[c].own = calls[c].own
  PROVE  SaidOK'
BY DEF SaidOK

(* The steps of the gRPC handlers.                                         *)
LEMMA RepliesClient ==
  ASSUME TypeOK, RepliesInv, NEW c \in Callers, Client(c)
  PROVE  RepliesInv'
<1>i. MailOK /\ BusyOK /\ AnswerOK /\ SaidOK /\ RepliesInv' = (MailOK' /\ BusyOK' /\ AnswerOK' /\ SaidOK')
  BY DEF RepliesInv
<1>c. calls \in [Callers -> Calls]
  BY DEF TypeOK
<1>u. UNCHANGED <<loop, session, operator>> /\ \A d \in Callers \ {c} : calls'[d] = calls[d]
  BY <1>c DEF Client, Call, SendEvent, HangUp
<1>a. AnswerOK'
  BY <1>i, <1>u DEF AnswerOK
<1>1. ASSUME NEW rpc \in Rpcs, Call(c, rpc) PROVE RepliesInv'
  <2>1. /\ calls[c].pc = "idle" /\ calls'[c].pc = "send" /\ UNCHANGED queue
    BY <1>1, <1>c DEF Call
  <2>2. \A i \in Pending : queue[i].caller \in Callers \ {c}
    BY <2>1, <1>i DEF MailOK, Pending
  <2>3. MailOK'
    <3>1. Pending' = Pending
      BY <2>1 DEF Pending
    <3>2. ASSUME NEW i \in Pending, NEW d \in Callers, queue[i].caller = d
          PROVE  calls'[d] = calls[d] /\ Awaited(d)' = Awaited(d)
      <4>1. calls'[d] = calls[d]
        BY <1>u, <2>2, <3>2
      <4> QED
        BY <4>1 DEF Awaited
    <3> QED
      BY <1>i, <2>1, <3>1, <3>2 DEF MailOK
  <2>4. BusyOK'
    <3>1. Pending' = Pending
      BY <2>1 DEF Pending
    <3> QED
      BY <1>i, <1>u, <2>1, <3>1 DEF BusyOK
  <2>5. SaidOK'
    BY <1>i, <1>u, <2>1, HandlerSaid
  <2> QED
    BY <1>i, <1>a, <2>3, <2>4, <2>5
<1>2. CASE SendEvent(c)
  <2> DEFINE e == Request(EventOf(c), c)
  <2>1. /\ calls[c].pc \in {"send", "resend"} /\ queue' = Append(queue, e)
        /\ calls'[c].pc = IF calls[c].pc = "send" THEN "wait" ELSE "rewait"
        /\ calls'[c].rpc = calls[c].rpc /\ calls'[c].own = calls[c].own
    BY <1>2, <1>c DEF SendEvent, Calls
  <2>r. calls[c].rpc \in Rpcs
    BY <1>c DEF Calls
  <2>2. e \in Events /\ e.type = EventOf(c) /\ e.caller = c /\ e.type # "LockChanged"
    BY <2>r DEF Request, EventOf, Events, EventTypes, Rpcs
  <2>3. EventOf(c) = Awaited(c)'
    BY <2>1, <2>r DEF EventOf, Awaited, Rpcs
  <2>4. \A i \in Pending : queue[i].caller # c
    BY <2>1, <1>i DEF MailOK
  <2>5. MailOK'
    <3> HIDE DEF e
    <3> QED
      BY <1>i, <1>u, <2>1, <2>2, <2>3, <2>4, AppendMail
  <2>6. BusyOK'
    <3> SUFFICES ASSUME loop.pc # "recv", loop.caller \in Callers
                 PROVE  /\ calls'[loop.caller].pc \in {"wait", "gone"}
                        /\ calls'[loop.caller].pc = "wait" =>
                             calls'[loop.caller].rpc
                               = IF loop.op = "start" THEN "StartSession" ELSE "StopSession"
                        /\ \A i \in Pending' : queue'[i].caller # loop.caller
      BY <1>u DEF BusyOK
    <3>1. loop.caller # c /\ calls'[loop.caller] = calls[loop.caller]
      BY <1>i, <1>u, <2>1 DEF BusyOK
    <3>2. \A i \in Pending' : queue'[i].caller = c \/ (i \in Pending /\ queue'[i] = queue[i])
      <4> HIDE DEF e
      <4>1. /\ Len(queue) \in Nat /\ Len(queue') = Len(queue) + 1
            /\ \A i \in 1..Len(queue) : queue'[i] = queue[i]
            /\ queue'[Len(queue) + 1] = e
        BY <2>1, <2>2 DEF TypeOK
      <4> QED
        BY <2>2, <4>1 DEF Pending
    <3> QED
      BY <1>i, <3>1, <3>2 DEF BusyOK
  <2>7. SaidOK'
    BY <1>i, <1>u, <2>1, HandlerSaid
  <2> QED
    BY <1>i, <1>a, <2>5, <2>6, <2>7
<1>3. CASE HangUp(c)
  <2>1. calls'[c].pc = "gone" /\ UNCHANGED queue
    BY <1>3, <1>c DEF HangUp
  <2>2. Pending' = Pending
    BY <2>1 DEF Pending
  <2>3. MailOK'
    <3>1. ASSUME NEW i \in Pending, NEW d \in Callers, queue[i].caller = d
          PROVE  /\ calls'[d].pc \in {"wait", "rewait", "gone"}
                 /\ calls'[d].pc # "gone" => queue[i].type = Awaited(d)'
      <4>1. CASE d = c
        BY <2>1, <4>1
      <4>2. CASE d # c
        <5>1. calls'[d] = calls[d]
          BY <1>u, <4>2
        <5>2. Awaited(d)' = Awaited(d)
          BY <5>1 DEF Awaited
        <5> QED
          BY <1>i, <3>1, <5>1, <5>2 DEF MailOK
      <4> QED
        BY <4>1, <4>2
    <3> QED
      BY <1>i, <2>1, <2>2, <3>1 DEF MailOK
  <2>4. BusyOK'
    BY <1>i, <1>u, <2>1, <2>2 DEF BusyOK
  <2>5. SaidOK'
    BY <1>i, <1>u, <2>1, HandlerSaid
  <2> QED
    BY <1>i, <1>a, <2>3, <2>4, <2>5
<1> QED
  BY <1>1, <1>2, <1>3 DEF Client

(* The forwarder's events are nobody's.                                    *)
LEMMA RepliesForward ==
  ASSUME TypeOK, RepliesInv, ForwardLock
  PROVE  RepliesInv'
<1>i. MailOK /\ BusyOK /\ AnswerOK /\ SaidOK /\ RepliesInv' = (MailOK' /\ BusyOK' /\ AnswerOK' /\ SaidOK')
  BY DEF RepliesInv
<1>u. UNCHANGED <<loop, session, operator, calls>>
  BY DEF ForwardLock
<1> DEFINE e == LockChanged(Head(feed))
<1>1. e \in Events /\ e.caller = NoCaller /\ queue' = Append(queue, e)
  <2>1. Head(feed) \in BOOLEAN
    BY HeadTailType DEF ForwardLock, TypeOK
  <2> QED
    BY <2>1 DEF ForwardLock, LockChanged, Events, EventTypes
<1> HIDE DEF e
<1>2. \A i \in Pending : queue[i].caller # e.caller
  BY <1>1 DEF Pending
<1>3. MailOK'
  BY <1>i, <1>u, <1>1, <1>2, AppendMail
<1>4. \A i \in Pending' : i \in Pending /\ queue'[i] = queue[i]
  <2>1. /\ Len(queue) \in Nat /\ Len(queue') = Len(queue) + 1
        /\ \A i \in 1..Len(queue) : queue'[i] = queue[i]
        /\ queue'[Len(queue) + 1] = e
    BY <1>1 DEF TypeOK
  <2> QED
    BY <1>1, <2>1 DEF Pending
<1>5. BusyOK'
  BY <1>i, <1>u, <1>4 DEF BusyOK
<1>6. AnswerOK' /\ SaidOK'
  BY <1>i, <1>u DEF AnswerOK, SaidOK
<1> QED
  BY <1>i, <1>3, <1>5, <1>6

(* The end of the process leaves nothing pending and nobody waiting.       *)
LEMMA RepliesTerminate ==
  ASSUME TypeOK, RepliesInv, Terminate
  PROVE  RepliesInv'
<1>1. Len(queue') = 0 /\ Pending' = {} /\ loop'.pc = "recv" /\ UNCHANGED operator
  BY DEF Terminate, Pending, IdleLoop
<1>2. ASSUME NEW c \in Callers
      PROVE  (calls'[c] = calls[c] /\ ~InFlight(c)) \/ calls'[c].pc = "gone"
  BY DEF Terminate, TypeOK, Calls
<1>3. SaidOK'
  BY <1>1, <1>2 DEF RepliesInv, SaidOK, InFlight
<1> QED
  BY <1>1, <1>3 DEF RepliesInv, MailOK, BusyOK, AnswerOK

(* The loop takes an event.                                                *)
LEMMA RepliesProcess ==
  ASSUME TypeOK, BooksOK, RepliesInv, Process
  PROVE  RepliesInv'
<1>i. MailOK /\ BusyOK /\ AnswerOK /\ SaidOK /\ RepliesInv' = (MailOK' /\ BusyOK' /\ AnswerOK' /\ SaidOK')
  BY DEF RepliesInv
<1> DEFINE e == Head(queue)
<1>1. /\ loop.pc = "recv" /\ queue # <<>> /\ queue' = Tail(queue)
      /\ UNCHANGED <<session, operator>>
  BY DEF Process, TakeRefused, TakeQuery, TakeCommand, Take
<1>2. e \in Events /\ e.caller \in Callers \cup {NoCaller}
  <2>1. e \in Events
    BY <1>1, HeadTailType DEF TypeOK
  <2> QED
    BY <2>1 DEF Events
<1>3. /\ \A c \in Callers : e.caller = c =>
           /\ calls[c].pc \in {"wait", "rewait", "gone"}
           /\ calls[c].pc # "gone" => e.type = Awaited(c)
      /\ e.type = "LockChanged" => e.caller = NoCaller
  <2>1. Len(queue) \in Nat /\ 1 \in 1..Len(queue) /\ e = queue[1]
    BY <1>1 DEF TypeOK
  <2>2. e.caller \in Callers => 1 \in Pending
    BY <2>1 DEF Pending
  <2> HIDE DEF e
  <2> QED
    BY <1>i, <2>1, <2>2 DEF MailOK
<1>4. ASSUME TakeRefused \/ TakeQuery PROVE RepliesInv'
  <2>1. PICK status : /\ calls' = Reply(e.caller, status, session)
                      /\ status = "OK" => e.type \in {"QueryStatus", "QueryRate"}
    BY <1>4 DEF TakeRefused, TakeQuery
  <2>2. UNCHANGED loop
    BY <1>4 DEF TakeRefused, TakeQuery
  <2>3. \A d \in Callers \ {e.caller} : calls'[d] = calls[d]
    <3> HIDE DEF e
    <3> QED
      BY <1>2, <2>1, ReplyEffect DEF TypeOK
  <2>4. MailOK'
    BY <1>i, <1>1, <2>3, TakeMail
  <2>5. e.caller \in Callers /\ status = "OK" /\ calls[e.caller].pc = "wait"
          => calls[e.caller].rpc \notin {"StartSession", "StopSession"}
    <3> HIDE DEF e
    <3>1. ASSUME NEW c \in Callers, e.caller = c, status = "OK", calls[c].pc = "wait"
          PROVE  calls[c].rpc \notin {"StartSession", "StopSession"}
      BY <1>3, <2>1, <3>1 DEF Awaited
    <3> QED
      BY <3>1
  <2>6. SaidOK'
    <3> HIDE DEF e
    <3> QED
      BY <1>i, <1>1, <1>2, <2>1, <2>5, ReplySaid
  <2> QED
    BY <1>i, <1>1, <2>2, <2>4, <2>6 DEF BusyOK, AnswerOK
<1>5. CASE TakeCommand
  <2>1. /\ UNCHANGED calls
        /\ WantsStart(e) \/ WantsStop(e)
        /\ loop' = [pc |-> "post", op |-> IF WantsStart(e) THEN "start" ELSE "stop",
                    caller |-> e.caller, attempt |-> 0, answer |-> None]
    BY <1>5 DEF TakeCommand
  <2>2. MailOK' /\ \A i \in Pending' : queue'[i].caller # e.caller
    BY <1>i, <1>1, <2>1, TakeMail
  <2> HIDE DEF e
  <2>3. ASSUME NEW c \in Callers, e.caller = c
        PROVE  /\ calls[c].pc \in {"wait", "gone"}
               /\ calls[c].pc = "wait" =>
                    calls[c].rpc = IF WantsStart(e) THEN "StartSession" ELSE "StopSession"
    <3>1. e.type # "LockChanged"
      BY <1>3, <2>3, CallersAssumption
    <3>2. e.type = IF WantsStart(e) THEN "ManualStart" ELSE "ManualStop"
      BY <2>1, <3>1 DEF WantsStart, WantsStop
    <3>3. CASE calls[c].pc = "gone"
      BY <3>3
    <3>4. CASE calls[c].pc # "gone"
      <4>1. Awaited(c) = IF WantsStart(e) THEN "ManualStart" ELSE "ManualStop"
        BY <1>3, <2>3, <3>2, <3>4
      <4>2. ASSUME calls[c].pc = "rewait" PROVE FALSE
        <5>1. Awaited(c) = "QueryStatus"
          BY <4>2 DEF Awaited
        <5> QED
          BY <4>1, <5>1
      <4>3. calls[c].rpc = IF WantsStart(e) THEN "StartSession" ELSE "StopSession"
        <5>1. calls[c].rpc \in Rpcs
          BY DEF TypeOK, Calls
        <5> QED
          BY <4>1, <4>2, <5>1 DEF Awaited, Rpcs
      <4> QED
        BY <1>3, <2>3, <4>2, <4>3
    <3> QED
      BY <3>3, <3>4
  <2>4. BusyOK'
    BY <2>1, <2>2, <2>3 DEF BusyOK
  <2>5. AnswerOK' /\ SaidOK'
    BY <1>i, <1>1, <2>1 DEF AnswerOK, SaidOK
  <2> QED
    BY <1>i, <2>2, <2>4, <2>5
<1> QED
  BY <1>4, <1>5 DEF Process

(* An attempt that fails, for the last time or not.                        *)
LEMMA RepliesFailure ==
  ASSUME TypeOK, BooksOK, RepliesInv, AttemptFails \/ OperatorCallFails,
         loop.pc \in {"post", "sent"}, UNCHANGED <<queue, session, operator>>
  PROVE  RepliesInv'
<1>i. MailOK /\ BusyOK /\ AnswerOK /\ SaidOK /\ RepliesInv' = (MailOK' /\ BusyOK' /\ AnswerOK' /\ SaidOK')
  BY DEF RepliesInv
<1>l. loop \in Loops
  BY DEF TypeOK
<1>1. CASE /\ loop' = [loop EXCEPT !.pc = "post", !.attempt = @ + 1, !.answer = None]
           /\ UNCHANGED calls
  <2>1. loop'.pc = "post" /\ loop'.op = loop.op /\ loop'.caller = loop.caller
    BY <1>l, <1>1 DEF Loops
  <2>2. Pending' = Pending
    BY DEF Pending
  <2>3. MailOK' /\ SaidOK'
    BY <1>i, <1>1, MailStays DEF SaidOK
  <2>4. BusyOK' /\ AnswerOK'
    BY <1>i, <1>1, <2>1, <2>2 DEF BusyOK, AnswerOK
  <2> QED
    BY <1>i, <2>3, <2>4
<1>2. CASE OperatorCallFails
  <2>1. loop'.pc = "recv" /\ calls' = Reply(loop.caller, "UNAVAILABLE", None)
    BY <1>2 DEF OperatorCallFails, IdleLoop
  <2>2. loop.caller \in Callers \cup {NoCaller}
    BY <1>l DEF Loops
  <2>3. \A i \in Pending : queue[i].caller # loop.caller
    BY <1>i, <2>2, CallersAssumption DEF BusyOK, Pending
  <2>4. MailOK'
    BY <1>i, <2>1, <2>2, <2>3, ReplyMail
  <2>5. SaidOK'
    BY <1>i, <2>1, <2>2, ReplySaid
  <2> QED
    BY <1>i, <2>1, <2>4, <2>5 DEF BusyOK, AnswerOK
<1> QED
  BY <1>1, <1>2 DEF AttemptFails

(* The operator answers: sessions open and close at its side only.         *)
LEMMA RepliesOperator ==
  ASSUME SafetyInv, RepliesInv, OperatorStarts \/ OperatorStops \/ OperatorRestart
  PROVE  RepliesInv'
<1>i. MailOK /\ BusyOK /\ AnswerOK /\ SaidOK /\ RepliesInv' = (MailOK' /\ BusyOK' /\ AnswerOK' /\ SaidOK')
  BY DEF RepliesInv
<1>s. TypeOK /\ BooksOK /\ CallOK
  BY DEF SafetyInv
<1>t. loop \in Loops /\ operator \in Operators
  BY <1>s DEF TypeOK
<1> DEFINE Kept(op, pc) == /\ UNCHANGED <<queue, calls, session>>
                            /\ loop'.op = op /\ loop'.caller = loop.caller /\ loop'.pc = pc
                            /\ operator'.opened \in Nat /\ operator.opened <= operator'.opened
                            /\ operator'.active \subseteq operator.active \cup {operator.opened + 1}
<1>1. ASSUME OperatorStarts
      PROVE  Kept(loop.op, loop'.pc) /\ AnswerOK' /\ (loop'.pc = loop.pc \/ loop.pc = "post")
  <2>1. /\ loop.pc = "post" /\ loop.op = "start"
        /\ operator'.opened = operator.opened + 1
        /\ operator'.active = operator.active \cup {operator.opened + 1}
        /\ loop' = [loop EXCEPT !.pc = "sent", !.answer = operator.opened + 1]
        /\ UNCHANGED <<queue, calls, session>>
    BY <1>1 DEF OperatorStarts
  <2>2. loop'.answer = operator'.opened /\ loop'.pc = "sent" /\ loop'.op = "start"
        /\ loop'.caller = loop.caller
    BY <1>t, <2>1 DEF Loops
  <2>3. Kept("start", "sent")
    BY <1>t, <2>1, <2>2 DEF Operators
  <2>4. AnswerOK'
    BY <2>2 DEF AnswerOK
  <2> QED
    BY <2>1, <2>3, <2>4
<1>2. ASSUME OperatorStops
      PROVE  Kept(loop.op, loop'.pc) /\ AnswerOK' /\ (loop'.pc = loop.pc \/ loop.pc = "post")
  <2>1. /\ loop.pc = "post" /\ loop.op = "stop"
        /\ operator' = [operator EXCEPT !.active = @ \ {session}]
        /\ UNCHANGED <<queue, calls, session>>
        /\ loop'.pc = "sent" /\ loop'.op = "stop" /\ loop'.caller = loop.caller
    BY <1>t, <1>2 DEF OperatorStops, Loops
  <2>2. Kept("stop", "sent")
    BY <1>t, <2>1 DEF Operators
  <2>3. AnswerOK'
    BY <2>1 DEF AnswerOK
  <2> QED
    BY <2>1, <2>2, <2>3
<1>3. ASSUME OperatorRestart
      PROVE  Kept(loop.op, loop'.pc) /\ AnswerOK' /\ (loop'.pc = loop.pc \/ loop.pc = "post")
  <2>1. /\ operator' = [operator EXCEPT !.known = {}, !.active = {}]
        /\ UNCHANGED <<queue, calls, session, loop>>
    BY <1>3 DEF OperatorRestart
  <2>2. operator'.opened = operator.opened /\ operator'.active = {}
    BY <1>t, <2>1 DEF Operators
  <2>3. Kept(loop.op, loop.pc)
    BY <1>t, <2>1, <2>2 DEF Operators
  <2>4. AnswerOK'
    BY <1>i, <2>1, <2>2 DEF AnswerOK
  <2> QED
    BY <2>3, <2>4
<1>4. /\ Kept(loop.op, loop'.pc) /\ AnswerOK'
      /\ loop'.pc = loop.pc \/ loop.pc = "post"
  BY <1>1, <1>2, <1>3
<1>5. Pending' = Pending
  BY <1>4 DEF Pending
<1>6. MailOK' /\ BusyOK'
  BY <1>i, <1>4, <1>5, MailStays DEF BusyOK
<1>7. SaidOK'
  BY <1>i, <1>s, <1>4, SaidStays
<1> QED
  BY <1>i, <1>4, <1>6, <1>7

(* The adaptor takes the answer: no session has a higher number than the   *)
(* one just started, and the one just stopped is not charged for.          *)
LEMMA RepliesAccepted ==
  ASSUME SafetyInv, RepliesInv, AnswerAccepted
  PROVE  RepliesInv'
<1>i. MailOK /\ BusyOK /\ AnswerOK /\ SaidOK /\ RepliesInv' = (MailOK' /\ BusyOK' /\ AnswerOK' /\ SaidOK')
  BY DEF RepliesInv
<1>s. TypeOK /\ BooksOK /\ CallOK
  BY DEF SafetyInv
<1>t. loop \in Loops /\ operator.opened \in Nat
  BY <1>s DEF TypeOK, Operators
<1>1. /\ UNCHANGED <<queue, calls, operator>> /\ loop.pc = "sent" /\ loop.answer # None
      /\ session' = IF loop.op = "start" THEN loop.answer ELSE None
      /\ loop'.pc = "publish" /\ loop'.op = loop.op /\ loop'.caller = loop.caller
      /\ loop'.answer = loop.answer
  BY <1>t DEF AnswerAccepted, Loops
<1>2. Pending' = Pending
  BY <1>1 DEF Pending
<1>3. MailOK' /\ BusyOK'
  BY <1>i, <1>1, <1>2, MailStays DEF BusyOK
<1>4. CASE loop.op = "start"
  <2>1. loop.answer = operator.opened /\ loop.answer \in 1..operator.opened
    BY <1>i, <1>s, <1>1, <1>4 DEF AnswerOK, CallOK
  <2>2. AnswerOK'
    BY <1>1, <1>4, <2>1 DEF AnswerOK
  <2>3. SaidOK'
    BY <1>i, <1>t, <1>1, <1>4, <2>1 DEF SaidOK
  <2> QED
    BY <1>i, <1>3, <2>2, <2>3
<1>5. CASE loop.op = "stop"
  <2>1. loop.answer = session /\ session \in 1..operator.opened /\ session \notin operator.active
    BY <1>s, <1>t, <1>1, <1>5 DEF CallOK, BooksOK, None
  <2>2. AnswerOK'
    BY <1>1, <1>5, <2>1 DEF AnswerOK
  <2>3. SaidOK'
    BY <1>i, <1>1, <1>5 DEF SaidOK
  <2> QED
    BY <1>i, <1>3, <2>2, <2>3
<1> QED
  BY <1>t, <1>4, <1>5 DEF Loops

(* The answer reaches the handler, or nobody.                              *)
LEMMA RepliesPublish ==
  ASSUME SafetyInv, RepliesInv, PublishOutcome
  PROVE  RepliesInv'
<1>i. MailOK /\ BusyOK /\ AnswerOK /\ SaidOK /\ RepliesInv' = (MailOK' /\ BusyOK' /\ AnswerOK' /\ SaidOK')
  BY DEF RepliesInv
<1>s. TypeOK /\ BooksOK
  BY DEF SafetyInv
<1>t. loop \in Loops /\ operator.opened \in Nat
  BY <1>s DEF TypeOK, Operators
<1>1. /\ UNCHANGED <<queue, session, operator>> /\ loop.pc = "publish" /\ loop'.pc = "recv"
      /\ calls' = Reply(loop.caller, "OK", loop.answer)
  BY DEF PublishOutcome, IdleLoop
<1>2. loop.caller \in Callers \cup {NoCaller}
  BY <1>t DEF Loops
<1>3. \A i \in Pending : queue[i].caller # loop.caller
  BY <1>i, <1>1, <1>2, CallersAssumption DEF BusyOK, Pending
<1>4. MailOK'
  BY <1>i, <1>s, <1>1, <1>2, <1>3, ReplyMail
<1>5. ASSUME NEW c \in Callers, c = loop.caller, calls[c].pc = "wait"
      PROVE  \/ /\ calls'[c].pc = "resend" /\ calls'[c].own = session
                /\ calls'[c].own \in 1..operator.opened /\ calls'[c].rpc = "StartSession"
             \/ /\ calls'[c].pc = "done" /\ calls'[c].rpc = "StopSession"
                /\ calls'[c].id \in 0..operator.opened \ operator.active
  <2>1. calls[c].rpc = IF loop.op = "start" THEN "StartSession" ELSE "StopSession"
    BY <1>i, <1>1, <1>5 DEF BusyOK
  <2>2. loop.answer \in 1..operator.opened
    BY <1>i, <1>1 DEF AnswerOK
  <2>3. CASE loop.op = "start"
    <3>1. loop.answer = session
      BY <1>i, <1>1, <2>3 DEF AnswerOK
    <3> QED
      BY <1>s, <1>1, <1>5, <2>1, <2>2, <2>3, <3>1, ReplyEffect DEF TypeOK
  <2>4. CASE loop.op = "stop"
    <3>1. loop.answer \in 0..operator.opened \ operator.active
      BY <1>i, <1>t, <1>1, <2>2, <2>4 DEF AnswerOK
    <3> QED
      BY <1>s, <1>1, <1>5, <2>1, <2>4, <3>1, ReplyEffect DEF TypeOK
  <2> QED
    BY <1>t, <2>3, <2>4 DEF Loops
<1>6. ASSUME NEW c \in Callers, c # loop.caller \/ calls[c].pc # "wait"
      PROVE  calls'[c] = calls[c]
  <2>1. CASE c # loop.caller
    BY <1>s, <1>1, <1>2, <2>1, ReplyEffect DEF TypeOK
  <2>2. CASE c = loop.caller /\ calls[c].pc # "wait"
    <3>1. calls[c].pc \notin {"wait", "rewait"}
      BY <1>i, <1>1, <2>2 DEF BusyOK
    <3> QED
      BY <1>s, <1>1, <2>2, <3>1, ReplyEffect DEF TypeOK
  <2> QED
    BY <1>6, <2>1, <2>2
<1>7. SaidOK'
  <2>1. ASSUME NEW c \in Callers PROVE
      /\ calls'[c].pc \in {"resend", "rewait"} =>
           /\ calls'[c].rpc = "StartSession" /\ calls'[c].own \in 1..operator.opened
           /\ session # None => calls'[c].own <= session
      /\ calls'[c].pc = "done" /\ calls'[c].rpc = "StartSession" /\ calls'[c].status = "OK"
           => calls'[c].own # None /\ calls'[c].id \in calls'[c].own..operator.opened
      /\ calls'[c].pc = "done" /\ calls'[c].rpc = "StopSession" /\ calls'[c].status = "OK"
           => calls'[c].id \in 0..operator.opened \ operator.active
    <3>1. CASE c = loop.caller /\ calls[c].pc = "wait"
      BY <1>t, <1>5, <3>1
    <3>2. CASE c # loop.caller \/ calls[c].pc # "wait"
      BY <1>i, <1>6, <3>2 DEF SaidOK
    <3> QED
      BY <3>1, <3>2
  <2> QED
    BY <1>1, <2>1 DEF SaidOK
<1> QED
  BY <1>i, <1>1, <1>4, <1>7 DEF BusyOK, AnswerOK

LEMMA RepliesStep == SafetyInv /\ RepliesInv /\ [Next]_vars => RepliesInv'
<1> SUFFICES ASSUME SafetyInv, RepliesInv, [Next]_vars PROVE RepliesInv'
  OBVIOUS
<1>t. TypeOK /\ BooksOK
  BY DEF SafetyInv
<1>1. ASSUME UNCHANGED <<session, loop, queue, calls, operator>> PROVE RepliesInv'
  BY <1>1, MailStays DEF RepliesInv, BusyOK, AnswerOK, SaidOK, Pending
<1>2. CASE Lifecycle
  <2>1. Terminate \/ UNCHANGED <<session, loop, queue, calls, operator>>
    BY <1>2 DEF Lifecycle, Connect, PublishInitial, Subscribe, Crash, ShutdownSignal,
                AbortForwarder, Exit
  <2> QED
    BY <1>t, <1>1, <2>1, RepliesTerminate
<1>3. CASE Environment
  <2>1. OperatorRestart \/ UNCHANGED <<session, loop, queue, calls, operator>>
    BY <1>3 DEF Environment, SetIsLocked, StreamEnds
  <2> QED
    BY <1>1, <2>1, RepliesOperator
<1>4. CASE ForwardLock
  BY <1>t, <1>4, RepliesForward
<1>5. ASSUME NEW c \in Callers, Client(c) PROVE RepliesInv'
  BY <1>t, <1>5, RepliesClient
<1>6. CASE Process
  BY <1>t, <1>6, RepliesProcess
<1>7. ASSUME PostRefused \/ AnswerRejects \/ AnswerLost \/ AnswerGarbled PROVE RepliesInv'
  <2>1. /\ AttemptFails \/ OperatorCallFails
        /\ loop.pc \in {"post", "sent"} /\ UNCHANGED <<queue, session, operator>>
    BY <1>7 DEF PostRefused, AnswerRejects, AnswerLost, AnswerGarbled
  <2> QED
    BY <1>t, <2>1, RepliesFailure
<1>8. CASE Post
  BY <1>7, <1>8, RepliesOperator DEF Post
<1>9. CASE Answer
  BY <1>7, <1>9, RepliesAccepted DEF Answer
<1>10. CASE PublishOutcome
  BY <1>10, RepliesPublish
<1>11. CASE Rest \/ UNCHANGED vars
  BY <1>1, <1>11 DEF Rest, vars
<1> QED
  BY <1>2, <1>3, <1>4, <1>5, <1>6, <1>8, <1>9, <1>10, <1>11 DEF Next

(* An OK to StartSession names the session that call opened or a later     *)
(* one, for all callers, queues and failures: a handler awaits one event   *)
(* at a time and the session in memory is never older than what it knows.  *)
THEOREM StartReplies == Spec => []StartReplyNotOlder
<1>1. SafetyInv /\ RepliesInv => StartReplyNotOlder
  BY DEF RepliesInv, SaidOK, StartReplyNotOlder
<1> QED
  BY <1>1, SafetyInit, SafetyStep, RepliesInit, RepliesStep, PTL DEF Spec

(* An OK to StopSession names a session the operator does not charge for,  *)
(* then and ever after: no number is given twice.                          *)
THEOREM StopReplies == Spec => []StoppedMeansStopped
<1>1. SafetyInv /\ RepliesInv => StoppedMeansStopped
  BY DEF RepliesInv, SaidOK, StoppedMeansStopped
<1> QED
  BY <1>1, SafetyInit, SafetyStep, RepliesInit, RepliesStep, PTL DEF Spec

-----------------------------------------------------------------------------
(***************************************************************************)
(* Nobody is forgotten: what EveryCallEnds and ShutdownEnds need besides   *)
(* fairness.  A handler that awaits a reply has its event in the channel   *)
(* or with the loop.                                                       *)
(***************************************************************************)
Attended(c) ==
  \/ loop.pc # "recv" /\ loop.caller = c
  \/ \E i \in 1..Len(queue) : queue[i].caller = c

WaitingAttended == \A c \in Callers : calls[c].pc \in {"wait", "rewait"} => Attended(c)

CallsOpenTheService ==
  \A c \in Callers : InFlight(c) => phase \in {"running", "draining"}

LEMMA AttendedAppend ==
  ASSUME NEW e \in Events, queue \in Seq(Events), queue' = Append(queue, e), UNCHANGED loop,
         NEW c \in Callers, Attended(c) \/ e.caller = c
  PROVE  Attended(c)'
<1>1. /\ Len(queue) \in Nat /\ Len(queue') = Len(queue) + 1
      /\ \A i \in 1..Len(queue) : i \in 1..Len(queue') /\ queue'[i] = queue[i]
      /\ Len(queue) + 1 \in 1..Len(queue') /\ queue'[Len(queue) + 1] = e
  OBVIOUS
<1> QED
  BY <1>1 DEF Attended

(* The loop replies: whoever waits on waits for something else.            *)
LEMMA ReplyEndsWait ==
  ASSUME TypeOK, NEW d \in Callers \cup {NoCaller}, NEW status, NEW id,
         calls' = Reply(d, status, id),
         NEW c \in Callers, calls'[c].pc \in {"wait", "rewait"}
  PROVE  c # d /\ calls'[c] = calls[c]
<1>1. ASSUME c = d PROVE FALSE
  <2>1. calls'[c].pc \in {calls[c].pc, "resend", "done"}
        /\ (calls[c].pc \in {"wait", "rewait"} => calls'[c].pc \in {"resend", "done"})
    <3>1. CASE calls[c].pc \in {"wait", "rewait"}
      BY <1>1, <3>1, ReplyEffect DEF TypeOK
    <3>2. CASE calls[c].pc \notin {"wait", "rewait"}
      BY <1>1, <3>2, ReplyEffect DEF TypeOK
    <3> QED
      BY <3>1, <3>2
  <2> QED
    BY <2>1
<1>2. calls'[c] = calls[c]
  BY <1>1, ReplyEffect DEF TypeOK
<1> QED
  BY <1>1, <1>2

LEMMA AttendedTake ==
  ASSUME TypeOK, queue # <<>>, queue' = Tail(queue), loop.pc = "recv",
         NEW c \in Callers, Attended(c), c # Head(queue).caller
  PROVE  Attended(c)'
<1>1. PICK i \in 1..Len(queue) : queue[i].caller = c
  BY DEF Attended
<1>2. /\ Len(queue) \in Nat /\ Head(queue) = queue[1]
      /\ Len(queue') = Len(queue) - 1
      /\ \A k \in 1..Len(queue') : queue'[k] = queue[k + 1]
  BY DEF TypeOK
<1>3. i - 1 \in 1..Len(queue') /\ queue'[i - 1] = queue[i]
  BY <1>1, <1>2
<1> QED
  BY <1>1, <1>3 DEF Attended

LEMMA AttendedStep ==
  ASSUME TypeOK, WaitingAttended, [Next]_vars
  PROVE  WaitingAttended'
<1> SUFFICES ASSUME NEW c \in Callers, calls'[c].pc \in {"wait", "rewait"}
             PROVE  Attended(c)'
  BY DEF WaitingAttended
<1>t. calls \in [Callers -> Calls] /\ queue \in Seq(Events) /\ loop \in Loops
  BY DEF TypeOK
<1>0. ASSUME calls'[c] = calls[c] PROVE Attended(c)
  BY <1>0 DEF WaitingAttended
<1>k. ASSUME UNCHANGED <<calls, queue>>,
             UNCHANGED loop \/ (loop'.pc # "recv" /\ loop'.caller = loop.caller)
      PROVE  Attended(c)'
  BY <1>0, <1>k DEF Attended
<1>1. CASE Lifecycle
  <2>1. Terminate \/ UNCHANGED <<loop, queue, calls>>
    BY <1>1 DEF Lifecycle, Connect, PublishInitial, Subscribe, Crash, ShutdownSignal,
                AbortForwarder, Exit
  <2>2. ~Terminate
    BY <1>t DEF Terminate, InFlight, Calls
  <2> QED
    BY <1>k, <2>1, <2>2
<1>2. CASE Environment
  BY <1>2, <1>k DEF Environment, SetIsLocked, StreamEnds, OperatorRestart
<1>3. CASE ForwardLock
  <2>1. Head(feed) \in BOOLEAN
    BY <1>3, HeadTailType DEF ForwardLock, TypeOK
  <2>2. LockChanged(Head(feed)) \in Events
    BY <2>1 DEF LockChanged, Events, EventTypes
  <2> QED
    BY <1>0, <1>3, <1>t, <2>2, AttendedAppend DEF ForwardLock
<1>4. ASSUME NEW d \in Callers, Client(d) PROVE Attended(c)'
  <2>1. CASE (\E rpc \in Rpcs : Call(d, rpc)) \/ HangUp(d)
    <3>1. \A g \in Callers \ {d} : calls'[g] = calls[g]
      BY <1>t, <2>1 DEF Call, HangUp
    <3>2. calls'[d].pc \in {"send", "gone"} /\ UNCHANGED <<loop, queue>>
      BY <1>t, <2>1 DEF Call, HangUp, Calls
    <3>3. calls'[c] = calls[c]
      BY <3>1, <3>2
    <3> QED
      BY <1>0, <3>2, <3>3 DEF Attended
  <2>2. CASE SendEvent(d)
    <3> DEFINE e == Request(EventOf(d), d)
    <3>1. EventOf(d) \in EventTypes
      BY <1>t DEF EventOf, EventTypes, Calls, Rpcs
    <3>2. e \in Events /\ e.caller = d
      BY <3>1 DEF Request, Events
    <3>3. queue' = Append(queue, e) /\ UNCHANGED loop
          /\ \A g \in Callers \ {d} : calls'[g] = calls[g]
      BY <1>t, <2>2 DEF SendEvent
    <3> HIDE DEF e
    <3> QED
      BY <1>0, <1>t, <3>2, <3>3, AttendedAppend
  <2> QED
    BY <1>4, <2>1, <2>2 DEF Client
<1>5. CASE Process
  <2>1. /\ loop.pc = "recv" /\ queue # <<>> /\ queue' = Tail(queue)
    BY <1>5 DEF Process, TakeRefused, TakeQuery, TakeCommand, Take
  <2>2. Head(queue) \in Events /\ Head(queue).caller \in Callers \cup {NoCaller}
    <3>1. Head(queue) \in Events
      BY <1>t, <2>1, HeadTailType
    <3> QED
      BY <3>1 DEF Events
  <2>3. CASE TakeRefused \/ TakeQuery
    <3>1. \E status : calls' = Reply(Head(queue).caller, status, session)
      BY <2>3 DEF TakeRefused, TakeQuery
    <3>2. c # Head(queue).caller /\ calls'[c] = calls[c]
      BY <2>2, <3>1, ReplyEndsWait
    <3> QED
      BY <1>0, <2>1, <3>2, AttendedTake
  <2>4. CASE TakeCommand
    <3>1. UNCHANGED calls /\ loop'.pc = "post" /\ loop'.caller = Head(queue).caller
      BY <2>4 DEF TakeCommand
    <3>2. CASE c = Head(queue).caller
      BY <3>1, <3>2 DEF Attended
    <3>3. CASE c # Head(queue).caller
      BY <1>0, <2>1, <3>1, <3>3, AttendedTake
    <3> QED
      BY <3>2, <3>3
  <2> QED
    BY <1>5, <2>3, <2>4 DEF Process
<1>6. ASSUME NEW status, NEW id, calls' = Reply(loop.caller, status, id), UNCHANGED queue
      PROVE  Attended(c)'
  <2>1. loop.caller \in Callers \cup {NoCaller}
    BY <1>t DEF Loops
  <2>2. c # loop.caller /\ calls'[c] = calls[c]
    BY <1>6, <2>1, ReplyEndsWait
  <2> QED
    BY <1>0, <1>6, <2>2 DEF Attended
<1>7. ASSUME AttemptFails \/ OperatorCallFails, UNCHANGED queue
      PROVE  Attended(c)'
  <2>1. CASE OperatorCallFails
    BY <1>6, <1>7, <2>1 DEF OperatorCallFails
  <2>2. CASE /\ loop' = [loop EXCEPT !.pc = "post", !.attempt = @ + 1, !.answer = None]
             /\ UNCHANGED calls
    <3>1. loop'.pc = "post" /\ loop'.caller = loop.caller
      BY <1>t, <2>2 DEF Loops
    <3> QED
      BY <1>7, <1>k, <2>2, <3>1
  <2> QED
    BY <1>7, <2>1, <2>2 DEF AttemptFails
<1>8. ASSUME OperatorStarts \/ OperatorStops \/ AnswerAccepted
      PROVE  Attended(c)'
  <2>1. UNCHANGED <<calls, queue>> /\ loop'.pc # "recv" /\ loop'.caller = loop.caller
    BY <1>8, <1>t DEF OperatorStarts, OperatorStops, AnswerAccepted, Loops
  <2> QED
    BY <1>k, <2>1
<1>9. CASE Post \/ Answer \/ PublishOutcome
  BY <1>6, <1>7, <1>8, <1>9 DEF Post, Answer, PostRefused, AnswerRejects, AnswerLost,
                               AnswerGarbled, PublishOutcome
<1>10. CASE Rest \/ UNCHANGED vars
  BY <1>10, <1>k DEF Rest, vars
<1> QED
  BY <1>1, <1>2, <1>3, <1>4, <1>5, <1>9, <1>10 DEF Next

(* A step that begins no call and leaves the phase alone.                  *)
LEMMA OpenStep ==
  ASSUME TypeOK, CallsOpenTheService, [Next]_vars
  PROVE  CallsOpenTheService'
<1>t. calls \in [Callers -> Calls] /\ loop \in Loops
  BY DEF TypeOK
<1>0. ASSUME phase' = phase, \A c \in Callers : InFlight(c)' => InFlight(c)
      PROVE  CallsOpenTheService'
  BY <1>0 DEF CallsOpenTheService
<1>1. CASE Lifecycle
  <2>1. CASE Connect \/ PublishInitial
    <3>1. phase \in {"down", "connected"} /\ UNCHANGED calls
      BY <2>1 DEF Connect, PublishInitial
    <3>2. \A c \in Callers : ~InFlight(c)
      BY <3>1 DEF CallsOpenTheService
    <3> QED
      BY <3>1, <3>2 DEF CallsOpenTheService, InFlight
  <2>2. CASE Subscribe \/ ShutdownSignal
    BY <2>2 DEF Subscribe, ShutdownSignal, CallsOpenTheService
  <2>3. CASE AbortForwarder
    BY <2>3 DEF AbortForwarder, CallsOpenTheService, InFlight
  <2>4. CASE Crash \/ Exit
    <3>1. \A c \in Callers : ~InFlight(c)'
      BY <1>t, <2>4 DEF Crash, Exit, Terminate, InFlight, Calls
    <3> QED
      BY <3>1 DEF CallsOpenTheService
  <2> QED
    BY <1>1, <2>1, <2>2, <2>3, <2>4 DEF Lifecycle
<1>2. CASE Environment \/ ForwardLock
  BY <1>0, <1>2 DEF Environment, SetIsLocked, StreamEnds, OperatorRestart, ForwardLock, InFlight
<1>3. ASSUME NEW d \in Callers, Client(d) PROVE CallsOpenTheService'
  <2>1. CASE \E rpc \in Rpcs : Call(d, rpc)
    BY <2>1 DEF Call, CallsOpenTheService
  <2>2. CASE SendEvent(d) \/ HangUp(d)
    <3>1. /\ phase' = phase /\ InFlight(d)
          /\ \A c \in Callers \ {d} : calls'[c] = calls[c]
      BY <1>t, <2>2 DEF SendEvent, HangUp, InFlight
    <3> QED
      BY <1>0, <3>1 DEF InFlight
  <2> QED
    BY <1>3, <2>1, <2>2 DEF Client
<1>4. ASSUME NEW d \in Callers \cup {NoCaller}, NEW status, NEW id,
             calls' = Reply(d, status, id), phase' = phase
      PROVE  CallsOpenTheService'
  <2>1. ASSUME NEW c \in Callers, InFlight(c)' PROVE InFlight(c)
    <3>1. CASE c # d \/ calls[c].pc \notin {"wait", "rewait"}
      BY <1>4, <1>t, <2>1, <3>1, ReplyEffect DEF InFlight
    <3>2. CASE calls[c].pc \in {"wait", "rewait"}
      BY <3>2 DEF InFlight
    <3> QED
      BY <3>1, <3>2
  <2> QED
    BY <1>0, <1>4, <2>1
<1>5. CASE Process
  <2>1. Head(queue) \in Events
    BY <1>5, HeadTailType DEF TypeOK, Process, TakeRefused, TakeQuery, TakeCommand, Take
  <2>2. Head(queue).caller \in Callers \cup {NoCaller}
    BY <2>1 DEF Events
  <2>3. CASE TakeRefused \/ TakeQuery
    <3>1. phase' = phase /\ \E status : calls' = Reply(Head(queue).caller, status, session)
      BY <2>3 DEF TakeRefused, TakeQuery, Take
    <3> QED
      BY <1>4, <2>2, <3>1
  <2>4. CASE TakeCommand
    BY <1>0, <2>4 DEF TakeCommand, Take, InFlight
  <2> QED
    BY <1>5, <2>3, <2>4 DEF Process
<1>6. CASE Post \/ Answer \/ PublishOutcome
  <2>1. /\ phase' = phase
        /\ UNCHANGED calls \/ \E status, id : calls' = Reply(loop.caller, status, id)
    BY <1>6 DEF Post, PostRefused, OperatorStarts, OperatorStops, Answer, AnswerRejects,
                AnswerLost, AnswerGarbled, AnswerAccepted, AttemptFails, OperatorCallFails,
                PublishOutcome
  <2>2. loop.caller \in Callers \cup {NoCaller}
    BY <1>t DEF Loops
  <2>3. CASE UNCHANGED calls
    BY <1>0, <2>1, <2>3 DEF InFlight
  <2> QED
    BY <1>4, <2>1, <2>2, <2>3
<1>7. CASE Rest \/ UNCHANGED vars
  BY <1>0, <1>7 DEF Rest, vars, InFlight
<1> QED
  BY <1>1, <1>2, <1>3, <1>5, <1>6, <1>7 DEF Next

(* The safety half of EveryCallEnds and ShutdownEnds: whatever is refused, *)
(* retried, cancelled or shut down, a handler that awaits a reply has its  *)
(* event in the channel or with the loop, and the loop is not told to end  *)
(* while a call is in flight (server_handle.await comes before abort).     *)
THEOREM NobodyForgotten == Spec => [](WaitingAttended /\ CallsOpenTheService)
<1>1. Init => WaitingAttended /\ CallsOpenTheService
  BY DEF Init, WaitingAttended, CallsOpenTheService, InFlight, IdleCall
<1>2. TypeOK /\ WaitingAttended /\ CallsOpenTheService /\ [Next]_vars
        => (WaitingAttended /\ CallsOpenTheService)'
  BY AttendedStep, OpenStep
<1> QED
  BY <1>1, <1>2, TypeCorrect, PTL DEF Spec

-----------------------------------------------------------------------------
(***************************************************************************)
(* The safety half of FollowsWhenCalm, and why Calm asks for answers that  *)
(* can be read.                                                            *)
(***************************************************************************)
NoLock(q) == \A i \in 1..Len(q) : q[i].type # "LockChanged"

LastLock(q, b) ==
  \E i \in 1..Len(q) : /\ q[i].type = "LockChanged" /\ q[i].locked = b
                       /\ \A k \in 1..Len(q) : q[k].type = "LockChanged" => k <= i

(* Where the command at work, or the session, leads to.                    *)
Heading == IF loop.pc \in {"post", "sent"} THEN loop.op = "start" ELSE session # None

(* The last lock value on its way is b; with none, the adaptor is there.   *)
Hears(b) ==
  \/ feed # <<>> /\ feed[Len(feed)] = b
  \/ feed = <<>> /\ LastLock(queue, b)
  \/ feed = <<>> /\ NoLock(queue) /\ Heading = b

Retried  == loop.attempt <= count["refused"] + count["lost"]
NoOrders == \A i \in 1..Len(queue) : queue[i].type \notin {"ManualStart", "ManualStop"}
Heard    == subscribed => Hears(broker.isLocked)

FollowInv == Calm => Retried /\ NoOrders /\ Heard

(* A calm adaptor that has read all the lock values, and is not at work on *)
(* one, has a session exactly if the vehicle is locked.                    *)
AtRestFollowsLock ==
  Calm /\ subscribed /\ feed = <<>> /\ NoLock(queue) /\ loop.pc \in {"recv", "publish"}
    => ((session # None) <=> broker.isLocked)

LEMMA AppendLock ==
  ASSUME NEW q \in Seq(Events), NEW e \in Events, e.type = "LockChanged"
  PROVE  LastLock(Append(q, e), e.locked)
<1>1. /\ Len(q) \in Nat /\ Len(Append(q, e)) = Len(q) + 1
      /\ Append(q, e)[Len(q) + 1] = e
  OBVIOUS
<1>2. Len(q) + 1 \in 1..Len(Append(q, e)) /\ \A k \in 1..Len(Append(q, e)) : k <= Len(q) + 1
  BY <1>1
<1> QED
  BY <1>1, <1>2 DEF LastLock

LEMMA AppendQuery ==
  ASSUME NEW q \in Seq(Events), NEW e \in Events, e.type # "LockChanged", NEW b
  PROVE  /\ NoLock(q) => NoLock(Append(q, e))
         /\ LastLock(q, b) => LastLock(Append(q, e), b)
<1> DEFINE r == Append(q, e)
<1>1. /\ Len(q) \in Nat /\ Len(r) = Len(q) + 1 /\ r[Len(q) + 1] = e
      /\ \A i \in 1..Len(q) : i \in 1..Len(r) /\ r[i] = q[i]
      /\ \A i \in 1..Len(r) : i \in 1..Len(q) \/ i = Len(q) + 1
  OBVIOUS
<1> HIDE DEF r
<1>2. ASSUME NoLock(q) PROVE NoLock(r)
  BY <1>1, <1>2 DEF NoLock
<1>3. ASSUME LastLock(q, b) PROVE LastLock(r, b)
  BY <1>1, <1>3 DEF LastLock
<1> QED
  BY <1>2, <1>3 DEF r

LEMMA TailLock ==
  ASSUME NEW q \in Seq(Events), q # <<>>, NEW b
  PROVE  /\ NoLock(q) => NoLock(Tail(q)) /\ Head(q).type # "LockChanged"
         /\ LastLock(q, b) => \/ LastLock(Tail(q), b)
                              \/ /\ NoLock(Tail(q))
                                 /\ Head(q).type = "LockChanged" /\ Head(q).locked = b
<1> DEFINE r == Tail(q)
<1>1. /\ Len(q) \in Nat /\ Len(q) >= 1 /\ Head(q) = q[1] /\ Len(r) = Len(q) - 1
      /\ \A i \in 1..Len(r) : i + 1 \in 1..Len(q) /\ r[i] = q[i + 1]
  OBVIOUS
<1> HIDE DEF r
<1>2. ASSUME NoLock(q) PROVE NoLock(r) /\ Head(q).type # "LockChanged"
  BY <1>1, <1>2 DEF NoLock
<1>3. ASSUME LastLock(q, b)
      PROVE  LastLock(r, b) \/ (NoLock(r) /\ Head(q).type = "LockChanged" /\ Head(q).locked = b)
  <2>1. PICK i \in 1..Len(q) : /\ q[i].type = "LockChanged" /\ q[i].locked = b
                               /\ \A k \in 1..Len(q) : q[k].type = "LockChanged" => k <= i
    BY <1>3 DEF LastLock
  <2>2. CASE i = 1
    <3>1. ASSUME NEW k \in 1..Len(r), r[k].type = "LockChanged" PROVE FALSE
      <4>1. k + 1 <= 1
        BY <1>1, <2>1, <2>2, <3>1
      <4> QED
        BY <1>1, <4>1
    <3> QED
      BY <1>1, <2>1, <2>2, <3>1 DEF NoLock
  <2>3. CASE i # 1
    <3>1. i - 1 \in 1..Len(r) /\ r[i - 1] = q[i]
      BY <1>1, <2>3
    <3>2. \A k \in 1..Len(r) : r[k].type = "LockChanged" => k <= i - 1
      <4> SUFFICES ASSUME NEW k \in 1..Len(r), r[k].type = "LockChanged" PROVE k <= i - 1
        OBVIOUS
      <4>1. k + 1 <= i
        BY <1>1, <2>1
      <4> QED
        BY <1>1, <4>1
    <3> QED
      BY <2>1, <3>1, <3>2 DEF LastLock
  <2> QED
    BY <2>2, <2>3
<1> QED
  BY <1>2, <1>3 DEF r

(* A call that was begun stays begun, and is the same call.                *)
LEMMA CallsStay ==
  ASSUME TypeOK, [Next]_vars
  PROVE  \A c \in Callers :
           calls[c].pc # "idle" => calls'[c].pc # "idle" /\ calls'[c].rpc = calls[c].rpc
<1>t. calls \in [Callers -> Calls] /\ loop \in Loops
  BY DEF TypeOK
<1> DEFINE Stay == \A c \in Callers :
           calls[c].pc # "idle" => calls'[c].pc # "idle" /\ calls'[c].rpc = calls[c].rpc
<1>1. ASSUME UNCHANGED calls PROVE Stay
  BY <1>1
<1>2. CASE Lifecycle
  <2>1. CASE Terminate
    BY <1>t, <2>1 DEF Terminate, Calls
  <2> QED
    BY <1>1, <1>2, <2>1 DEF Lifecycle, Connect, PublishInitial, Subscribe, Crash,
                            ShutdownSignal, AbortForwarder, Exit
<1>3. CASE Environment \/ ForwardLock
  BY <1>1, <1>3 DEF Environment, SetIsLocked, StreamEnds, OperatorRestart, ForwardLock
<1>4. ASSUME NEW d \in Callers, Client(d) PROVE Stay
  <2>1. /\ \A g \in Callers \ {d} : calls'[g] = calls[g]
        /\ calls[d].pc = "idle" \/ (calls'[d].pc # "idle" /\ calls'[d].rpc = calls[d].rpc)
    <3>1. ASSUME NEW rpc \in Rpcs, Call(d, rpc)
          PROVE  calls[d].pc = "idle" /\ \A g \in Callers \ {d} : calls'[g] = calls[g]
      BY <3>1, <1>t DEF Call
    <3>2. CASE SendEvent(d)
      BY <3>2, <1>t DEF SendEvent, Calls
    <3>3. CASE HangUp(d)
      BY <3>3, <1>t DEF HangUp, Calls
    <3> QED
      BY <1>4, <3>1, <3>2, <3>3 DEF Client
  <2> QED
    BY <2>1
<1>5. ASSUME NEW d \in Callers \cup {NoCaller}, NEW status, NEW id,
             calls' = Reply(d, status, id)
      PROVE  Stay
  <2> SUFFICES ASSUME NEW c \in Callers, calls[c].pc # "idle"
               PROVE  calls'[c].pc # "idle" /\ calls'[c].rpc = calls[c].rpc
    OBVIOUS
  <2>1. CASE c # d
    BY <1>5, <1>t, <2>1, ReplyEffect
  <2>2. CASE c = d
    BY <1>5, <1>t, <2>2, ReplyEffect
  <2> QED
    BY <2>1, <2>2
<1>6. CASE Process
  <2>1. Head(queue) \in Events
    BY <1>6, HeadTailType DEF TypeOK, Process, TakeRefused, TakeQuery, TakeCommand, Take
  <2>2. Head(queue).caller \in Callers \cup {NoCaller}
    BY <2>1 DEF Events
  <2>3. UNCHANGED calls \/ \E status : calls' = Reply(Head(queue).caller, status, session)
    BY <1>6 DEF Process, TakeRefused, TakeQuery, TakeCommand
  <2> QED
    BY <1>1, <1>5, <2>2, <2>3
<1>7. CASE Post \/ Answer \/ PublishOutcome
  <2>1. UNCHANGED calls \/ \E status, id : calls' = Reply(loop.caller, status, id)
    BY <1>7 DEF Post, PostRefused, OperatorStarts, OperatorStops, Answer, AnswerRejects,
                AnswerLost, AnswerGarbled, AnswerAccepted, AttemptFails, OperatorCallFails,
                PublishOutcome
  <2>2. loop.caller \in Callers \cup {NoCaller}
    BY <1>t DEF Loops
  <2> QED
    BY <1>1, <1>5, <2>1, <2>2
<1>8. CASE Rest \/ UNCHANGED vars
  BY <1>1, <1>8 DEF Rest, vars
<1> QED
  BY <1>2, <1>3, <1>4, <1>6, <1>7, <1>8 DEF Next

LEMMA CalmBefore ==
  ASSUME TypeOK, [Next]_vars, Calm'
  PROVE  Calm /\ count["refused"] + count["lost"] <= count'["refused"] + count'["lost"]
<1>1. {"refused", "lost", "garbled", "operatorRestart"} \subseteq Happenings
  BY DEF Happenings
<1>2. /\ \A h \in {"refused", "lost", "garbled", "operatorRestart"} :
           count[h] \in Nat /\ count'[h] \in Nat /\ count[h] <= count'[h]
  BY <1>1, CountsGrow
<1>3. /\ count'["refused"] + count'["lost"] <= MaxRetries
      /\ count'["garbled"] = 0 /\ count'["operatorRestart"] = 0
  BY DEF Calm
<1>4. /\ count["refused"] + count["lost"] <= count'["refused"] + count'["lost"]
      /\ count["refused"] + count["lost"] <= MaxRetries
      /\ count["garbled"] = 0 /\ count["operatorRestart"] = 0
  BY <1>2, <1>3
<1>5. ASSUME NEW c \in Callers
      PROVE  calls[c].pc = "idle" \/ calls[c].rpc \in {"GetStatus", "GetRate"}
  BY <1>5, CallsStay DEF Calm
<1> QED
  BY <1>4, <1>5 DEF Calm

(* A step that leaves the way of the lock values alone.                    *)
LEMMA HearsStays ==
  ASSUME Heard, UNCHANGED <<subscribed, feed, queue, session>>,
         broker'.isLocked = broker.isLocked,
         \/ UNCHANGED loop
         \/ /\ loop.pc \in {"post", "sent"} /\ loop'.pc \in {"post", "sent"}
            /\ loop'.op = loop.op
         \/ loop.pc \notin {"post", "sent"} /\ loop'.pc \notin {"post", "sent"}
  PROVE  Heard'
<1>1. Heading' = Heading
  BY DEF Heading
<1> QED
  BY <1>1 DEF Heard, Hears

(* Unless the operator has forgotten a session, its answers name one.      *)
LEMMA AnswerNames ==
  ASSUME SafetyInv, count["operatorRestart"] = 0, loop.pc = "sent"
  PROVE  loop.answer # None
<1>1. loop \in Loops /\ session \in Nat
  BY DEF SafetyInv, TypeOK
<1>2. CASE loop.op = "start"
  <2>1. loop.answer \in 1..operator.opened
    BY <1>2 DEF SafetyInv, CallOK
  <2> QED
    BY <2>1 DEF None
<1>3. CASE loop.op = "stop"
  BY <1>3 DEF SafetyInv, CallOK
<1> QED
  BY <1>1, <1>2, <1>3 DEF Loops

(* A failed attempt is tried again: there are more attempts than failures. *)
LEMMA CalmRetries ==
  ASSUME TypeOK, Retried, AttemptFails, Happens("refused") \/ Happens("lost"),
         count'["refused"] + count'["lost"] <= MaxRetries
  PROVE  /\ Retried' /\ UNCHANGED calls
         /\ loop'.pc = "post" /\ loop'.op = loop.op
<1>t. loop \in Loops /\ count \in [Happenings -> Nat]
  BY DEF TypeOK
<1>1. {"refused", "lost"} \subseteq Happenings
  BY DEF Happenings
<1>2. PICK h \in {"refused", "lost"} : Note(h)
  BY DEF Happens
<1>3. count["refused"] \in Nat /\ count["lost"] \in Nat
  BY <1>t, <1>1
<1>4. count'["refused"] + count'["lost"] = count["refused"] + count["lost"] + 1
  <2>1. CASE Note("refused")
    BY <1>t, <1>1, <1>3, <2>1, NoteRaises
  <2>2. CASE Note("lost")
    BY <1>t, <1>1, <1>3, <2>2, NoteRaises
  <2> QED
    BY <1>2, <2>1, <2>2
<1>5. loop.attempt \in Nat /\ loop.attempt <= count["refused"] + count["lost"]
  BY <1>t DEF Retried, Loops
<1>6. loop.attempt < MaxRetries
  BY <1>3, <1>4, <1>5
<1>7. loop' = [loop EXCEPT !.pc = "post", !.attempt = @ + 1, !.answer = None] /\ UNCHANGED calls
  BY <1>6 DEF AttemptFails
<1>8. loop'.pc = "post" /\ loop'.op = loop.op /\ loop'.attempt = loop.attempt + 1
  BY <1>t, <1>7 DEF Loops
<1> QED
  BY <1>3, <1>4, <1>5, <1>7, <1>8 DEF Retried

LEMMA FollowInit == Init => FollowInv
<1> SUFFICES ASSUME Init PROVE FollowInv
  OBVIOUS
<1>1. loop.attempt = 0 /\ Len(queue) = 0 /\ subscribed = FALSE
      /\ count["refused"] = 0 /\ count["lost"] = 0
  BY DEF Init, IdleLoop, Happenings
<1> QED
  BY <1>1 DEF FollowInv, Retried, NoOrders, Heard

LEMMA TailLast ==
  ASSUME NEW S, NEW s \in Seq(S), s # <<>>
  PROVE  /\ Len(s) \in Nat /\ Len(s) >= 1
         /\ Tail(s) = <<>> => s[Len(s)] = Head(s)
         /\ Tail(s) # <<>> => Tail(s)[Len(Tail(s))] = s[Len(s)]
<1>1. /\ Len(s) \in Nat /\ Len(s) >= 1 /\ Head(s) = s[1] /\ Len(Tail(s)) = Len(s) - 1
      /\ \A i \in 1..Len(Tail(s)) : Tail(s)[i] = s[i + 1]
  OBVIOUS
<1>2. Tail(s) = <<>> <=> Len(Tail(s)) = 0
  <2>1. Tail(s) \in Seq(S)
    OBVIOUS
  <2>2. \A t \in Seq(S) : t = <<>> <=> Len(t) = 0
    OBVIOUS
  <2> QED
    BY <2>1, <2>2
<1> QED
  BY <1>1, <1>2

(* The subscription and the lock values on it.                             *)
LEMMA FollowSignal ==
  ASSUME TypeOK, Retried, NoOrders, Heard, Lifecycle \/ SetIsLocked(TRUE) \/ SetIsLocked(FALSE)
                                           \/ StreamEnds \/ ForwardLock,
         count["refused"] + count["lost"] <= count'["refused"] + count'["lost"],
         count \in [Happenings -> Nat], count' \in [Happenings -> Nat]
  PROVE  Retried' /\ NoOrders' /\ Heard'
<1>t. /\ loop \in Loops /\ feed \in Seq(BOOLEAN) /\ queue \in Seq(Events)
      /\ broker \in [isLocked : BOOLEAN, sessionActive : BOOLEAN]
  BY DEF TypeOK
<1>n. /\ count["refused"] + count["lost"] \in Nat
      /\ count'["refused"] + count'["lost"] \in Nat
      /\ loop.attempt \in Nat
  <2>1. {"refused", "lost"} \subseteq Happenings
    BY DEF Happenings
  <2>2. /\ count["refused"] \in Nat /\ count["lost"] \in Nat
        /\ count'["refused"] \in Nat /\ count'["lost"] \in Nat
    BY <2>1
  <2> QED
    BY <1>t, <2>2 DEF Loops
<1>r. ASSUME UNCHANGED loop PROVE Retried'
  BY <1>n, <1>r DEF Retried
<1>1. CASE Connect \/ PublishInitial \/ ShutdownSignal
  <2>1. /\ UNCHANGED <<loop, queue, feed, subscribed, session>>
        /\ broker'.isLocked = broker.isLocked
    BY <1>1, <1>t DEF Connect, PublishInitial, PublishActive, ShutdownSignal
  <2>2. Heard'
    BY <2>1, HearsStays
  <2> QED
    BY <1>r, <2>1, <2>2 DEF NoOrders
<1>2. CASE Subscribe
  <2>1. /\ UNCHANGED <<loop, queue, broker>> /\ feed' = <<broker.isLocked>>
    BY <1>2 DEF Subscribe
  <2>2. feed' # <<>> /\ feed'[Len(feed')] = broker'.isLocked
    BY <2>1
  <2> QED
    BY <1>r, <2>1, <2>2 DEF NoOrders, Heard, Hears
<1>3. CASE Terminate
  <2>1. loop'.attempt = 0 /\ Len(queue') = 0 /\ subscribed' = FALSE
    BY <1>3 DEF Terminate, IdleLoop
  <2> QED
    BY <1>n, <2>1 DEF Retried, NoOrders, Heard
<1>4. CASE AbortForwarder \/ StreamEnds
  <2>1. UNCHANGED <<loop, queue>> /\ subscribed' = FALSE
    BY <1>4 DEF AbortForwarder, StreamEnds
  <2> QED
    BY <1>r, <2>1 DEF NoOrders, Heard
<1>5. ASSUME NEW b \in BOOLEAN, SetIsLocked(b) PROVE Retried' /\ NoOrders' /\ Heard'
  <2>1. /\ UNCHANGED <<loop, queue, subscribed>> /\ broker'.isLocked = b
        /\ subscribed => feed' = Append(feed, b)
    BY <1>5, <1>t DEF SetIsLocked
  <2>2. subscribed => feed' # <<>> /\ feed'[Len(feed')] = b
    BY <1>t, <2>1
  <2> QED
    BY <1>r, <2>1, <2>2 DEF NoOrders, Heard, Hears
<1>6. CASE ForwardLock
  <2> DEFINE e == LockChanged(Head(feed))
  <2>1. /\ feed # <<>> /\ feed' = Tail(feed) /\ queue' = Append(queue, e)
        /\ UNCHANGED <<loop, subscribed, broker>>
    BY <1>6 DEF ForwardLock
  <2>2. Head(feed) \in BOOLEAN
    BY <1>t, <2>1, HeadTailType
  <2>3. e \in Events /\ e.type = "LockChanged" /\ e.locked = Head(feed)
    BY <2>2 DEF LockChanged, Events, EventTypes
  <2>4. /\ Len(feed) \in Nat /\ Len(feed) >= 1
        /\ feed' = <<>> => feed[Len(feed)] = Head(feed)
        /\ feed' # <<>> => feed'[Len(feed')] = feed[Len(feed)]
    BY <1>t, <2>1, TailLast
  <2> HIDE DEF e
  <2>5. LastLock(queue', Head(feed))
    BY <1>t, <2>1, <2>3, AppendLock
  <2>6. Heard'
    BY <2>1, <2>4, <2>5 DEF Heard, Hears
  <2>7. NoOrders'
    <3>1. /\ Len(queue) \in Nat /\ Len(queue') = Len(queue) + 1
          /\ \A i \in 1..Len(queue) : queue'[i] = queue[i]
          /\ queue'[Len(queue) + 1] = e
          /\ \A i \in 1..Len(queue') : i \in 1..Len(queue) \/ i = Len(queue) + 1
      BY <1>t, <2>1, <2>3
    <3> QED
      BY <2>3, <3>1 DEF NoOrders
  <2> QED
    BY <1>r, <2>1, <2>6, <2>7
<1> QED
  BY <1>1, <1>2, <1>3, <1>4, <1>5, <1>6 DEF Lifecycle, Crash, Exit

(* Handlers put in nothing but questions.                                  *)
LEMMA FollowClient ==
  ASSUME TypeOK, Calm, Retried, NoOrders, Heard, NEW c \in Callers, Client(c), Calm',
         count["refused"] + count["lost"] <= count'["refused"] + count'["lost"]
  PROVE  Retried' /\ NoOrders' /\ Heard'
<1>t. /\ calls \in [Callers -> Calls] /\ queue \in Seq(Events) /\ loop \in Loops
  BY DEF TypeOK
<1>u. UNCHANGED <<loop, feed, subscribed, session, broker>>
  BY DEF Client, Call, SendEvent, HangUp
<1>r. Retried'
  <2>1. CASE UNCHANGED count
    BY <1>u, <2>1 DEF Retried
  <2>2. CASE HangUp(c)
    <3>1. count'["refused"] = count["refused"] /\ count'["lost"] = count["lost"]
      <4>1. {"refused", "lost", "cancel"} \subseteq Happenings
        BY DEF Happenings
      <4> QED
        BY <2>2, <4>1, NoteRaises DEF HangUp, Happens, TypeOK
    <3> QED
      BY <1>u, <3>1 DEF Retried
  <2> QED
    BY <2>1, <2>2 DEF Client, Call, SendEvent
<1>1. CASE UNCHANGED queue
  <2>1. Heard'
    BY <1>u, <1>1, HearsStays
  <2> QED
    BY <1>r, <1>1, <2>1 DEF NoOrders
<1>2. CASE SendEvent(c)
  <2> DEFINE e == Request(EventOf(c), c)
  <2>1. calls[c].pc \in {"send", "resend"} /\ queue' = Append(queue, e)
    BY <1>2 DEF SendEvent
  <2>2. calls[c].rpc \in {"GetStatus", "GetRate"}
    BY <2>1 DEF Calm
  <2>3. e \in Events /\ e.type \in {"QueryStatus", "QueryRate"}
    BY <2>2 DEF EventOf, Request, Events, EventTypes
  <2> HIDE DEF e
  <2>4. Heard'
    <3>1. Heading' = Heading
      BY <1>u DEF Heading
    <3>2. /\ NoLock(queue) => NoLock(queue')
          /\ \A b : LastLock(queue, b) => LastLock(queue', b)
      BY <1>t, <2>1, <2>3, AppendQuery
    <3> QED
      BY <1>u, <3>1, <3>2 DEF Heard, Hears
  <2>5. NoOrders'
    <3>1. /\ Len(queue) \in Nat /\ Len(queue') = Len(queue) + 1
          /\ \A i \in 1..Len(queue) : queue'[i] = queue[i]
          /\ queue'[Len(queue) + 1] = e
          /\ \A i \in 1..Len(queue') : i \in 1..Len(queue) \/ i = Len(queue) + 1
      BY <1>t, <2>1, <2>3
    <3> QED
      BY <2>3, <3>1 DEF NoOrders
  <2> QED
    BY <1>r, <2>4, <2>5
<1> QED
  BY <1>1, <1>2 DEF Client, Call, HangUp

(* The loop takes a lock value, and heads for it, or a question.           *)
LEMMA FollowTake ==
  ASSUME TypeOK, Retried, NoOrders, Heard, Process
  PROVE  Retried' /\ NoOrders' /\ Heard'
<1> DEFINE e == Head(queue)
<1>t. queue \in Seq(Events) /\ loop \in Loops /\ count \in [Happenings -> Nat]
  BY DEF TypeOK
<1>1. /\ loop.pc = "recv" /\ queue # <<>> /\ queue' = Tail(queue)
      /\ UNCHANGED <<session, feed, subscribed, broker, count>>
  BY DEF Process, TakeRefused, TakeQuery, TakeCommand, Take
<1>2. e \in Events /\ e.type \notin {"ManualStart", "ManualStop"}
  <2>1. e = queue[1] /\ 1 \in 1..Len(queue)
    BY <1>t, <1>1
  <2>2. e \in Events
    BY <1>t, <1>1, HeadTailType
  <2> HIDE DEF e
  <2> QED
    BY <2>1, <2>2 DEF NoOrders
<1>3. /\ UNCHANGED loop
         \/ (loop'.pc = "post" /\ loop'.op = (IF WantsStart(e) THEN "start" ELSE "stop")
             /\ loop'.attempt = 0)
      /\ e.type # "LockChanged" => UNCHANGED loop
      /\ e.type = "LockChanged" => Heading' = e.locked
  <2> HIDE DEF e
  <2>1. CASE TakeQuery
    BY <2>1 DEF TakeQuery, e
  <2>2. CASE TakeRefused
    <3>1. /\ UNCHANGED loop
          /\ (WantsStart(e) /\ session # None) \/ (WantsStop(e) /\ session = None)
      BY <2>2 DEF TakeRefused, e
    <3> QED
      BY <1>1, <1>2, <3>1 DEF WantsStart, WantsStop, Heading, Events
  <2>3. CASE TakeCommand
    <3>1. /\ loop'.pc = "post" /\ loop'.op = (IF WantsStart(e) THEN "start" ELSE "stop")
          /\ loop'.attempt = 0
          /\ WantsStart(e) \/ WantsStop(e)
      BY <2>3 DEF TakeCommand, e
    <3> QED
      BY <1>2, <3>1 DEF WantsStart, WantsStop, Heading, Events
  <2> QED
    BY <2>1, <2>2, <2>3 DEF Process
<1>4. Retried'
  <2>1. {"refused", "lost"} \subseteq Happenings
    BY DEF Happenings
  <2>2. 0 <= count["refused"] + count["lost"]
    BY <1>t, <2>1
  <2> HIDE DEF e
  <2> QED
    BY <1>1, <1>3, <2>2 DEF Retried
<1>5. NoOrders'
  <2>1. \A i \in 1..Len(queue') : i + 1 \in 1..Len(queue) /\ queue'[i] = queue[i + 1]
    BY <1>t, <1>1
  <2> QED
    BY <2>1 DEF NoOrders
<1>6. Heard'
  <2> SUFFICES ASSUME subscribed PROVE Hears(broker.isLocked)'
    BY <1>1 DEF Heard
  <2> DEFINE b == broker.isLocked
  <2>1. Hears(b)
    BY DEF Heard
  <2>2. /\ NoLock(queue) => NoLock(queue') /\ e.type # "LockChanged"
        /\ LastLock(queue, b) => \/ LastLock(queue', b)
                                 \/ NoLock(queue') /\ e.type = "LockChanged" /\ e.locked = b
    <3> HIDE DEF b
    <3> QED
      BY <1>t, <1>1, TailLock
  <2> HIDE DEF e
  <2>3. UNCHANGED loop => Heading' = Heading
    BY <1>1 DEF Heading
  <2>4. b' = b
    BY <1>1
  <2> HIDE DEF b
  <2>5. CASE feed # <<>>
    BY <1>1, <2>1, <2>5 DEF Hears, b
  <2>6. CASE feed = <<>> /\ LastLock(queue, b)
    BY <1>1, <1>3, <2>2, <2>6 DEF Hears, b
  <2>7. CASE feed = <<>> /\ NoLock(queue) /\ Heading = b
    BY <1>1, <1>3, <2>2, <2>3, <2>7 DEF Hears, b
  <2> QED
    BY <2>1, <2>5, <2>6, <2>7 DEF Hears
<1> QED
  BY <1>4, <1>5, <1>6

(* The call of the operator: tried until it is answered.                   *)
LEMMA FollowCall ==
  ASSUME SafetyInv, Calm, Retried, NoOrders, Heard, Post \/ Answer \/ PublishOutcome, Calm',
         count["refused"] + count["lost"] <= count'["refused"] + count'["lost"]
  PROVE  Retried' /\ NoOrders' /\ Heard'
<1>t. /\ TypeOK /\ loop \in Loops /\ count \in [Happenings -> Nat]
      /\ broker \in [isLocked : BOOLEAN, sessionActive : BOOLEAN]
  BY DEF SafetyInv, TypeOK
<1>u. UNCHANGED <<queue, feed, subscribed>> /\ broker'.isLocked = broker.isLocked
  BY <1>t DEF Post, PostRefused, OperatorStarts, OperatorStops, Answer, AnswerRejects, AnswerLost,
         AnswerGarbled, AnswerAccepted, PublishOutcome, PublishActive
<1>o. NoOrders'
  BY <1>u DEF NoOrders
<1>1. CASE PostRefused \/ AnswerLost
  <2>1. /\ AttemptFails
        /\ Happens("refused") \/ Happens("lost")
        /\ loop.pc \in {"post", "sent"} /\ UNCHANGED session
    BY <1>1 DEF PostRefused, AnswerLost
  <2>2. count'["refused"] + count'["lost"] <= MaxRetries
    BY DEF Calm
  <2>3. Retried' /\ loop'.pc = "post" /\ loop'.op = loop.op
    BY <1>t, <2>1, <2>2, CalmRetries
  <2>4. Heard'
    BY <1>u, <2>1, <2>3, HearsStays
  <2> QED
    BY <1>o, <2>3, <2>4
<1>2. CASE OperatorStarts \/ OperatorStops
  <2>1. /\ loop.pc = "post" /\ loop'.pc = "sent" /\ loop'.op = loop.op
        /\ loop'.attempt = loop.attempt /\ UNCHANGED <<session, count>>
    BY <1>2, <1>t DEF OperatorStarts, OperatorStops, Loops
  <2>2. Heard'
    BY <1>u, <2>1, HearsStays
  <2> QED
    BY <1>o, <2>1, <2>2 DEF Retried
<1>3. CASE AnswerRejects
  BY <1>3, AnswerNames DEF AnswerRejects, Calm
<1>4. CASE AnswerGarbled
  <2>1. "garbled" \in Happenings
    BY DEF Happenings
  <2>2. count'["garbled"] = count["garbled"] + 1
    BY <1>4, <1>t, <2>1, NoteRaises DEF AnswerGarbled
  <2> QED
    BY <1>t, <2>1, <2>2 DEF Calm
<1>5. CASE AnswerAccepted
  <2>1. /\ loop.pc = "sent" /\ loop.answer # None
        /\ session' = IF loop.op = "start" THEN loop.answer ELSE None
        /\ loop'.pc = "publish" /\ loop'.attempt = loop.attempt /\ UNCHANGED count
    BY <1>5, <1>t DEF AnswerAccepted, Loops
  <2>2. Heading' = Heading
    BY <2>1 DEF Heading
  <2>3. Heard'
    BY <1>u, <2>2 DEF Heard, Hears
  <2> QED
    BY <1>o, <2>1, <2>3 DEF Retried
<1>6. CASE PublishOutcome
  <2>1. loop.pc = "publish" /\ loop'.pc = "recv" /\ loop'.attempt = 0 /\ UNCHANGED session
    BY <1>6 DEF PublishOutcome, IdleLoop
  <2>2. Heard'
    BY <1>u, <2>1, HearsStays
  <2>3. {"refused", "lost"} \subseteq Happenings
    BY DEF Happenings
  <2>4. 0 <= count["refused"] + count["lost"] /\ count["refused"] + count["lost"] \in Nat
    BY <1>t, <2>3
  <2>5. Retried'
    <3>1. TypeOK' => count' \in [Happenings -> Nat]
      BY DEF TypeOK
    <3>2. count' \in [Happenings -> Nat]
      <4>1. "publish" \in Happenings
        BY DEF Happenings
      <4> QED
        BY <1>6, <1>t, <4>1, NoteType DEF PublishOutcome, PublishActive, Happens
    <3>3. 0 <= count'["refused"] + count'["lost"]
      BY <2>3, <3>2
    <3> QED
      BY <2>1, <3>3 DEF Retried
  <2> QED
    BY <1>o, <2>2, <2>5
<1> QED
  BY <1>1, <1>2, <1>3, <1>4, <1>5, <1>6 DEF Post, Answer

LEMMA FollowStep == SafetyInv /\ FollowInv /\ [Next]_vars => FollowInv'
<1> SUFFICES ASSUME SafetyInv, FollowInv, [Next]_vars, Calm'
             PROVE  Retried' /\ NoOrders' /\ Heard'
  BY DEF FollowInv
<1>t. TypeOK /\ TypeOK'
  BY TypeStep DEF SafetyInv
<1>0. /\ Calm /\ Retried /\ NoOrders /\ Heard
      /\ count["refused"] + count["lost"] <= count'["refused"] + count'["lost"]
  BY <1>t, CalmBefore DEF FollowInv
<1>c. count \in [Happenings -> Nat] /\ count' \in [Happenings -> Nat]
  BY <1>t DEF TypeOK
<1>1. CASE Lifecycle \/ StreamEnds \/ ForwardLock
  BY <1>t, <1>0, <1>1, <1>c, FollowSignal
<1>2. ASSUME NEW b \in BOOLEAN, SetIsLocked(b) PROVE Retried' /\ NoOrders' /\ Heard'
  BY <1>t, <1>0, <1>2, <1>c, FollowSignal
<1>3. CASE OperatorRestart
  <2>1. "operatorRestart" \in Happenings
    BY DEF Happenings
  <2>2. count'["operatorRestart"] = count["operatorRestart"] + 1
    BY <1>3, <1>c, <2>1, NoteRaises DEF OperatorRestart, Happens
  <2> QED
    BY <1>0, <1>c, <2>1, <2>2 DEF Calm
<1>4. ASSUME NEW c \in Callers, Client(c) PROVE Retried' /\ NoOrders' /\ Heard'
  BY <1>t, <1>0, <1>4, FollowClient
<1>5. CASE Process
  BY <1>t, <1>0, <1>5, FollowTake
<1>6. CASE Post \/ Answer \/ PublishOutcome
  BY <1>0, <1>6, FollowCall
<1>7. CASE Rest \/ UNCHANGED vars
  <2>1. UNCHANGED vars
    BY <1>7 DEF Rest
  <2>2. UNCHANGED <<subscribed, feed, queue, session, loop, broker, count>>
    BY <2>1 DEF vars
  <2>3. Heard'
    BY <1>0, <2>2, HearsStays
  <2> QED
    BY <1>0, <2>2, <2>3 DEF Retried, NoOrders
<1> QED
  BY <1>1, <1>2, <1>3, <1>4, <1>5, <1>6, <1>7 DEF Next, Environment

(* The safety half of FollowsWhenCalm, for any number of callers and any   *)
(* channel: while no more requests failed than one command is retried, no  *)
(* answer was unreadable, the operator kept its sessions and callers only  *)
(* asked, a subscribed adaptor that has worked off the lock values it was  *)
(* sent has a session exactly if the vehicle is locked ("the latest state  *)
(* wins"), whatever publications failed and however often it crashed.      *)
THEOREM RestFollowsLock == Spec => []AtRestFollowsLock
<1>1. FollowInv => AtRestFollowsLock
  <2> SUFFICES ASSUME Retried /\ NoOrders /\ Heard, subscribed, feed = <<>>, NoLock(queue),
                      loop.pc \in {"recv", "publish"}
               PROVE  (session # None) <=> broker.isLocked
    BY DEF FollowInv, AtRestFollowsLock
  <2>1. ~LastLock(queue, broker.isLocked)
    BY DEF LastLock, NoLock
  <2>2. Heading = broker.isLocked /\ Heading = (session # None)
    BY <2>1 DEF Heard, Hears, Heading
  <2> QED
    BY <2>2
<1> QED
  BY <1>1, SafetyInit, SafetyStep, FollowInit, FollowStep, PTL DEF Spec

-----------------------------------------------------------------------------
(* The repository's own operator answers a start under "rate_type"; every  *)
(* such answer ends in a parse error, and no session is ever held.         *)
NeverHeld == operator.rateKey = "rate_type" => session = None

LEMMA NeverHeldStep == TypeOK /\ NeverHeld /\ [Next]_vars => NeverHeld'
<1> SUFFICES ASSUME TypeOK, NeverHeld, [Next]_vars, operator'.rateKey = "rate_type"
             PROVE  session' = None
  BY DEF NeverHeld
<1>1. operator.rateKey = operator'.rateKey
  <2>1. CASE OperatorStarts
    BY <2>1 DEF OperatorStarts, TypeOK, Operators
  <2>2. CASE OperatorStops
    BY <2>2 DEF OperatorStops, TypeOK, Operators
  <2>3. CASE OperatorRestart
    BY <2>3 DEF OperatorRestart, TypeOK, Operators
  <2>4. CASE UNCHANGED operator
    BY <2>4
  <2> QED
    BY <2>1, <2>2, <2>3, <2>4 DEF Next, Lifecycle, Environment, Client, Process, Post, Answer,
       Connect, PublishInitial, Subscribe, Crash, ShutdownSignal, AbortForwarder, Exit,
       Terminate, SetIsLocked, StreamEnds, ForwardLock, Call, SendEvent, HangUp, TakeRefused,
       TakeQuery, TakeCommand, Take, PostRefused, AnswerRejects, AnswerLost, AnswerGarbled,
       AnswerAccepted, PublishOutcome, Rest, vars
<1>2. session = None
  BY <1>1 DEF NeverHeld
<1>3. CASE AnswerAccepted
  BY <1>1, <1>3 DEF AnswerAccepted, Readable
<1>4. CASE UNCHANGED session
  BY <1>2, <1>4
<1>5. CASE Terminate
  BY <1>5 DEF Terminate
<1> QED
  BY <1>3, <1>4, <1>5 DEF Next, Lifecycle, Environment, Client, Process, Post, Answer,
     Connect, PublishInitial, Subscribe, Crash, ShutdownSignal, AbortForwarder, Exit,
     SetIsLocked, StreamEnds, ForwardLock, Call, SendEvent, HangUp, TakeRefused, TakeQuery,
     TakeCommand, Take, PostRefused, OperatorStarts, OperatorStops, AnswerRejects, AnswerLost,
     AnswerGarbled, PublishOutcome, OperatorRestart, Rest, vars

(* With an operator that answers as the repository's own does, the adaptor *)
(* never holds a session, whatever is locked, called, retried or restarted:*)
(* RateResponse requires the key "type" and StartResponse its rate.        *)
THEOREM OwnOperatorNeverHeld == Spec => [](operator.rateKey = "rate_type" => session = None)
<1>1. Init => NeverHeld
  BY DEF Init, NeverHeld
<1> QED
  BY <1>1, NeverHeldStep, TypeCorrect, PTL DEF Spec, NeverHeld
=============================================================================
