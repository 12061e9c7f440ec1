------------------------- MODULE CloudGatewayProofs -------------------------
(* The gateway's store, timers and answers, and that it implements         *)
(* CommandLedger: for any set of requests, any sharing of ids among them,  *)
(* and any budget of answers, losses, crashes and shutdowns.  The last     *)
(* part is about the way of its commands to the vehicle.                   *)
EXTENDS CommandPath, TLAPS

USE IdOfAssumption, ValidAssumption, BudgetAssumption, NoTimerAssumption,
    MaxRetriesAssumption

LEMMA EmptySequence ==
  ASSUME NEW S
  PROVE  <<>> \in Seq(S)
OBVIOUS

(* The head of a well-typed queue is an element, its tail a queue.         *)
LEMMA HeadTailType ==
  ASSUME NEW S, NEW s \in Seq(S), s # <<>>
  PROVE  Head(s) \in S /\ Tail(s) \in Seq(S) /\ Len(s) \in Nat \ {0}
OBVIOUS

(* Every element of a tail or of an extension is an old one or the new.    *)
LEMMA TailElements ==
  ASSUME NEW S, NEW s \in Seq(S), s # <<>>
  PROVE  \A k \in 1 .. Len(Tail(s)) : \E m \in 1 .. Len(s) : Tail(s)[k] = s[m]
<1> SUFFICES ASSUME NEW k \in 1 .. Len(Tail(s)) PROVE \E m \in 1 .. Len(s) : Tail(s)[k] = s[m]
  OBVIOUS
<1>1. k + 1 \in 1 .. Len(s) /\ Tail(s)[k] = s[k + 1]
  OBVIOUS
<1> QED
  BY <1>1

LEMMA AppendElements ==
  ASSUME NEW S, NEW s \in Seq(S), NEW e \in S
  PROVE  \A k \in 1 .. Len(Append(s, e)) :
           Append(s, e)[k] = e \/ \E m \in 1 .. Len(s) : Append(s, e)[k] = s[m]
<1> SUFFICES ASSUME NEW k \in 1 .. Len(Append(s, e))
             PROVE  Append(s, e)[k] = e \/ \E m \in 1 .. Len(s) : Append(s, e)[k] = s[m]
  OBVIOUS
<1>1. CASE k \in 1 .. Len(s)
  BY <1>1
<1>2. CASE k = Len(s) + 1
  BY <1>2
<1> QED
  BY <1>1, <1>2

(* Counting a happening keeps the counters natural numbers.                *)
LEMMA HappensType ==
  ASSUME count \in [Happenings -> Nat], NEW h \in Happenings, Happens(h)
  PROVE  count' \in [Happenings -> Nat]
BY DEF Happens

LEMMA TerminateType ==
  ASSUME TypeOK, Terminate
  PROVE  /\ phase' \in Phases /\ phase' # "connecting"
         /\ attempt' = attempt /\ commands' = commands
         /\ posts' \in [Requests -> Stages]
         /\ responses' \in [Ids -> Statuses]
         /\ timers' \in [Ids -> Requests \cup {NoTimer}]
         /\ alarms' \in [Requests -> Alarms]
         /\ inbox' \in Seq(Messages)
BY EmptySequence DEF TypeOK, Terminate, Phases, Stages, Statuses, Alarms

-----------------------------------------------------------------------------
(* Every state has the declared type.                                      *)
LEMMA TypeInit == Init => TypeOK
BY EmptySequence DEF Init, TypeOK, Phases, Stages, Statuses, Alarms

LEMMA TypeStep == TypeOK /\ [Next]_vars => TypeOK'
<1> SUFFICES ASSUME TypeOK, [Next]_vars PROVE TypeOK'
  OBVIOUS
<1> USE DEF TypeOK
<1>h. Happenings = {"answer", "lost", "crash", "shutdown"}
  BY DEF Happenings
<1>1. CASE Start
  BY <1>1 DEF Start, Untouched, Phases
<1>2. CASE Serve
  BY <1>2 DEF Serve, Untouched, Phases
<1>3. CASE StartFails \/ ConnectFails
  BY <1>3 DEF StartFails, ConnectFails, Untouched, Phases
<1>4. CASE ShutdownSignal
  BY <1>4, <1>h, HappensType DEF ShutdownSignal, Phases
<1>5. CASE Exit
  BY <1>5, TerminateType DEF Exit
<1>6. CASE Crash
  BY <1>6, <1>h, TerminateType, HappensType DEF Crash
<1>7. ASSUME NEW r \in Requests, Reject(r) PROVE TypeOK'
  BY <1>7 DEF Reject, Stages
<1>8. ASSUME NEW r \in Requests, Publish(r) PROVE TypeOK'
  BY <1>8 DEF Publish, Stages
<1>9. ASSUME NEW r \in Requests, StartTimeout(r) PROVE TypeOK'
  BY <1>9 DEF StartTimeout, Stages, Alarms
<1>10. ASSUME NEW r \in Requests, Expire(r) PROVE TypeOK'
  BY <1>10 DEF Expire, Alarms
<1>11. ASSUME NEW r \in Requests, TimeoutFires(r) PROVE TypeOK'
  BY <1>11 DEF TimeoutFires, Alarms, Statuses
<1>12. CASE StoreResponse
  <2>1. Head(inbox) \in Messages /\ Tail(inbox) \in Seq(Messages)
    BY <1>12, HeadTailType DEF StoreResponse
  <2>2. Stopped(timers[Head(inbox).id]) \in [Requests -> Alarms]
    BY DEF Stopped, Alarms
  <2> QED
    BY <1>12, <2>1, <2>2 DEF StoreResponse, Messages, Statuses
<1>13. ASSUME NEW id \in Ids, NEW status \in Answers, VehicleAnswers(id, status) PROVE TypeOK'
  <2>1. [id |-> id, status |-> status] \in Messages
    BY DEF Messages
  <2>2. Append(inbox, [id |-> id, status |-> status]) \in Seq(Messages)
    BY <2>1
  <2> QED
    BY <1>13, <1>h, <2>2, HappensType DEF VehicleAnswers
<1>14. CASE Lose
  BY <1>14, <1>h, HeadTailType, HappensType DEF Lose
<1>15. CASE UNCHANGED vars
  BY <1>15 DEF vars
<1> QED
  BY <1>1, <1>2, <1>3, <1>4, <1>5, <1>6, <1>7, <1>8, <1>9, <1>10, <1>11, <1>12, <1>13, <1>14, <1>15
  DEF Next

(* Type correctness, for every instance of the constants.                  *)
THEOREM TypeCorrect == Spec => []TypeOK
BY TypeInit, TypeStep, PTL DEF Spec

-----------------------------------------------------------------------------
(* What the store says goes with how far the requests are: alarms belong   *)
(* to accepted requests, a process that does not serve has no requests,    *)
(* alarms or outcomes, and nobody answers a command that was never sent.   *)
Orderly ==
  \A r \in Requests :
    /\ alarms[r] \in {"armed", "due"} => posts[r] = "accepted"
    /\ posts[r] \in {"published", "accepted"} => r \in commands /\ Up

Quiet == ~Up => \A id \in Ids : responses[id] = "none" /\ timers[id] = NoTimer

Asked == \A k \in 1 .. Len(inbox) : inbox[k].id \in Sent

SafetyInv == TypeOK /\ Orderly /\ Quiet /\ Asked /\ TimersAreLive /\ UndecidedIsTimed

LEMMA SafetyInit == Init => SafetyInv
<1> SUFFICES ASSUME Init PROVE SafetyInv
  OBVIOUS
<1>1. TypeOK
  BY TypeInit
<1>2. Orderly /\ Quiet /\ Asked /\ TimersAreLive /\ UndecidedIsTimed
  BY DEF Init, Orderly, Quiet, Asked, TimersAreLive, UndecidedIsTimed
<1> QED
  BY <1>1, <1>2 DEF SafetyInv

(* Steps before and after serving, and the end of the process.             *)
LEMMA LifecycleSafe ==
  ASSUME SafetyInv, Start \/ Serve \/ StartFails \/ ConnectFails \/ ShutdownSignal
  PROVE  Orderly' /\ Quiet' /\ Asked' /\ TimersAreLive' /\ UndecidedIsTimed'
<1> USE DEF SafetyInv, Orderly, Quiet, Asked, TimersAreLive, UndecidedIsTimed, Sent, Up
<1>1. CASE Start
  BY <1>1 DEF Start, Untouched
<1>2. CASE Serve
  BY <1>2 DEF Serve, Untouched
<1>3. CASE StartFails \/ ConnectFails
  BY <1>3 DEF StartFails, ConnectFails, Untouched
<1>4. CASE ShutdownSignal
  BY <1>4 DEF ShutdownSignal
<1> QED
  BY <1>1, <1>2, <1>3, <1>4

LEMMA TerminateSafe ==
  ASSUME SafetyInv, Terminate
  PROVE  Orderly' /\ Quiet' /\ Asked' /\ TimersAreLive' /\ UndecidedIsTimed'
BY DEF SafetyInv, Terminate, Orderly, Quiet, Asked, TimersAreLive, UndecidedIsTimed, TypeOK

(* Steps of one request.                                                   *)
LEMMA RequestSafe ==
  ASSUME SafetyInv, NEW r \in Requests,
         Reject(r) \/ Publish(r) \/ StartTimeout(r) \/ Expire(r) \/ TimeoutFires(r)
  PROVE  Orderly' /\ Quiet' /\ Asked' /\ TimersAreLive' /\ UndecidedIsTimed'
<1> USE DEF SafetyInv, TypeOK
<1>1. CASE Reject(r)
  BY <1>1 DEF Reject, Orderly, Quiet, Asked, TimersAreLive, UndecidedIsTimed, Sent, Up
<1>2. CASE Publish(r)
  <2>1. commands \subseteq commands'
    BY <1>2 DEF Publish
  <2>2. Asked'
    BY <1>2, <2>1 DEF Publish, Asked, Sent
  <2>3. Orderly' /\ Quiet'
    BY <1>2, <2>1 DEF Publish, Orderly, Quiet, Up
  <2> QED
    BY <1>2, <2>2, <2>3 DEF Publish, TimersAreLive, UndecidedIsTimed
<1>3. CASE StartTimeout(r)
  <2>1. Up
    BY <1>3 DEF StartTimeout, Orderly
  <2>2. Orderly' /\ Quiet' /\ Asked'
    BY <1>3, <2>1 DEF StartTimeout, Orderly, Quiet, Asked, Sent, Up
  <2>3. TimersAreLive'
    BY <1>3 DEF StartTimeout, TimersAreLive
  <2> QED
    BY <1>3, <2>2, <2>3 DEF StartTimeout, UndecidedIsTimed
<1>4. CASE Expire(r)
  BY <1>4 DEF Expire, Orderly, Quiet, Asked, TimersAreLive, UndecidedIsTimed, Sent, Up
<1>5. CASE TimeoutFires(r)
  <2>1. Up
    BY <1>5 DEF TimeoutFires, Orderly
  <2>2. Orderly' /\ Quiet' /\ Asked'
    BY <1>5, <2>1 DEF TimeoutFires, Orderly, Quiet, Asked, Sent, Up
  <2>3. TimersAreLive'
    BY <1>5 DEF TimeoutFires, TimersAreLive
  <2>4. UndecidedIsTimed'
    BY <1>5 DEF TimeoutFires, UndecidedIsTimed
  <2> QED
    BY <2>2, <2>3, <2>4
<1> QED
  BY <1>1, <1>2, <1>3, <1>4, <1>5

(* Answers: only the alarm that has the entry of the answer's id can be    *)
(* stopped, and it belongs to a request of that id.                        *)
LEMMA AnswerSafe ==
  ASSUME SafetyInv, StoreResponse
  PROVE  Orderly' /\ Quiet' /\ Asked' /\ TimersAreLive' /\ UndecidedIsTimed'
<1> USE DEF SafetyInv, TypeOK
<1> DEFINE answer == Head(inbox)
<1>0. answer \in Messages
  BY HeadTailType DEF StoreResponse
<1>1. answer.id \in Ids /\ answer.status \in Answers
  BY <1>0 DEF Messages
<1>2. \A r \in Requests : \/ alarms'[r] = alarms[r]
                          \/ alarms'[r] = "over" /\ IdOf[r] = answer.id
  BY <1>1 DEF StoreResponse, Stopped, TimersAreLive
<1>3. Orderly' /\ Quiet'
  BY <1>1, <1>2 DEF StoreResponse, Orderly, Quiet, Up
<1>4. Asked'
  BY TailElements DEF StoreResponse, Asked, Sent
<1>5. TimersAreLive'
  BY <1>1, <1>2 DEF StoreResponse, TimersAreLive
<1>6. UndecidedIsTimed'
  BY <1>1, <1>2 DEF StoreResponse, UndecidedIsTimed, Answers
<1> QED
  BY <1>3, <1>4, <1>5, <1>6

LEMMA SafetyStep == SafetyInv /\ [Next]_vars => SafetyInv'
<1> SUFFICES ASSUME SafetyInv, [Next]_vars PROVE SafetyInv'
  OBVIOUS
<1>0. TypeOK'
  BY TypeStep DEF SafetyInv
<1> SUFFICES Orderly' /\ Quiet' /\ Asked' /\ TimersAreLive' /\ UndecidedIsTimed'
  BY <1>0 DEF SafetyInv
<1>1. CASE Start \/ Serve \/ StartFails \/ ConnectFails \/ ShutdownSignal
  BY <1>1, LifecycleSafe
<1>2. CASE Exit \/ Crash
  BY <1>2, TerminateSafe DEF Exit, Crash
<1>3. ASSUME NEW r \in Requests,
             Reject(r) \/ Publish(r) \/ StartTimeout(r) \/ Expire(r) \/ TimeoutFires(r)
      PROVE  Orderly' /\ Quiet' /\ Asked' /\ TimersAreLive' /\ UndecidedIsTimed'
  BY <1>3, RequestSafe
<1>4. CASE StoreResponse
  BY <1>4, AnswerSafe
<1>5. ASSUME NEW id \in Ids, NEW status \in Answers, VehicleAnswers(id, status)
      PROVE  Orderly' /\ Quiet' /\ Asked' /\ TimersAreLive' /\ UndecidedIsTimed'
  <2> DEFINE answer == [id |-> id, status |-> status]
  <2>1. answer \in Messages /\ answer.id = id /\ inbox \in Seq(Messages)
    BY DEF Messages, SafetyInv, TypeOK
  <2>2. inbox' = Append(inbox, answer) /\ UNCHANGED commands /\ id \in Sent
    BY <1>5 DEF VehicleAnswers
  <2>3. Asked'
    <3> HIDE DEF answer
    <3> QED
      BY <2>1, <2>2, AppendElements DEF SafetyInv, Asked, Sent
  <2> QED
    BY <1>5, <2>3 DEF VehicleAnswers, SafetyInv, Orderly, Quiet, TimersAreLive,
                      UndecidedIsTimed, Up
<1>6. CASE Lose
  <2>1. Asked'
    BY <1>6, TailElements DEF Lose, SafetyInv, TypeOK, Asked, Sent
  <2> QED
    BY <1>6, <2>1 DEF Lose, SafetyInv, Orderly, Quiet, TimersAreLive, UndecidedIsTimed, Up
<1>7. CASE UNCHANGED vars
  BY <1>7 DEF vars, SafetyInv, Orderly, Quiet, Asked, TimersAreLive, UndecidedIsTimed, Sent, Up
<1> QED
  BY <1>1, <1>2, <1>3, <1>4, <1>5, <1>6, <1>7 DEF Next

(* The store holds entries of timers that are still to fire, and no others.*)
THEOREM TimersLive == Spec => []TimersAreLive
<1>1. SafetyInv => TimersAreLive
  BY DEF SafetyInv
<1> QED
  BY <1>1, SafetyInit, SafetyStep, PTL DEF Spec

(* An accepted submission without an outcome has a timer that will run.    *)
THEOREM UndecidedTimed == Spec => []UndecidedIsTimed
<1>1. SafetyInv => UndecidedIsTimed
  BY DEF SafetyInv
<1> QED
  BY <1>1, SafetyInit, SafetyStep, PTL DEF Spec

-----------------------------------------------------------------------------
(* An answer that is stored stays one, whichever timers fire and however   *)
(* often vehicles answer.                                                  *)
THEOREM AnswersStand == Spec => AnswerStands
<1>1. TypeOK /\ [Next]_vars =>
        [\A id \in Ids : responses[id] \in Answers /\ phase' # "down"
                        => responses'[id] \in Answers]_vars
  <2> SUFFICES ASSUME TypeOK, [Next]_vars, phase' # "down",
                      NEW id \in Ids, responses[id] \in Answers
               PROVE  responses'[id] \in Answers
    OBVIOUS
  <2>1. CASE Start \/ Serve \/ StartFails \/ ConnectFails \/ ShutdownSignal \/ Lose
    BY <2>1 DEF Start, Serve, StartFails, ConnectFails, ShutdownSignal, Lose, Untouched
  <2>2. CASE Exit \/ Crash
    BY <2>2 DEF Exit, Crash, Terminate
  <2>3. ASSUME NEW r \in Requests,
               Reject(r) \/ Publish(r) \/ StartTimeout(r) \/ Expire(r)
        PROVE  responses'[id] \in Answers
    BY <2>3 DEF Reject, Publish, StartTimeout, Expire
  <2>4. ASSUME NEW r \in Requests, TimeoutFires(r)
        PROVE  responses'[id] \in Answers
    BY <2>4 DEF TimeoutFires, TypeOK, Answers
  <2>5. CASE StoreResponse
    <3>1. Head(inbox) \in Messages
      BY <2>5, HeadTailType DEF StoreResponse, TypeOK
    <3> QED
      BY <2>5, <3>1 DEF StoreResponse, Messages, TypeOK
  <2>6. ASSUME NEW i \in Ids, NEW status \in Answers, VehicleAnswers(i, status)
        PROVE  responses'[id] \in Answers
    BY <2>6 DEF VehicleAnswers
  <2>7. CASE UNCHANGED vars
    BY <2>7 DEF vars
  <2> QED
    BY <2>1, <2>2, <2>3, <2>4, <2>5, <2>6, <2>7 DEF Next
<1> QED
  BY <1>1, TypeInit, TypeStep, PTL DEF Spec, AnswerStands

-----------------------------------------------------------------------------
(* The ledger's variables, as the gateway keeps them.                      *)
Promised == {IdOf[r] : r \in {q \in Requests : posts[q] = "accepted"}}

LEMMA LedgerInitial == Init => Ledger!Init
BY DEF Init, Ledger!Init, Ledger!Forgotten, Sent

(* Steps that neither send, promise nor decide.                            *)
LEMMA LedgerStutters ==
  ASSUME UNCHANGED <<commands, responses>>, Promised' = Promised
  PROVE  [Ledger!Next]_(Ledger!vars)
BY DEF Ledger!vars, Sent, Promised

LEMMA TerminateForgets ==
  ASSUME SafetyInv, Terminate
  PROVE  Ledger!Forget
<1>1. Promised' = {}
  BY DEF SafetyInv, TypeOK, Terminate, Promised
<1> QED
  BY <1>1 DEF Terminate, Ledger!Forget, Ledger!Forgotten, Sent, Promised

(* A request that did not become accepted leaves the promises alone.       *)
LEMMA SamePromises ==
  ASSUME \A q \in Requests : posts'[q] = "accepted" <=> posts[q] = "accepted"
  PROVE  Promised' = Promised
BY DEF Promised

LEMMA RequestSimulates ==
  ASSUME SafetyInv, NEW r \in Requests,
         Reject(r) \/ Publish(r) \/ StartTimeout(r) \/ Expire(r) \/ TimeoutFires(r)
  PROVE  [Ledger!Next]_(Ledger!vars)
<1> USE DEF SafetyInv, TypeOK
<1>i. IdOf[r] \in Ids
  OBVIOUS
<1>1. CASE Reject(r) \/ Expire(r)
  BY <1>1, LedgerStutters, SamePromises DEF Reject, Expire
<1>2. CASE Publish(r)
  <2>1. Promised' = Promised
    BY <1>2, SamePromises DEF Publish
  <2>2. CASE commands' = commands \cup {r}
    <3>1. Sent' = Sent \cup {IdOf[r]}
      BY <2>2 DEF Sent
    <3>2. UNCHANGED responses
      BY <1>2 DEF Publish
    <3>3. Ledger!Send(IdOf[r])
      BY <2>1, <3>1, <3>2 DEF Ledger!Send, Promised
    <3> QED
      BY <1>i, <3>3 DEF Ledger!Next
  <2>3. CASE UNCHANGED commands
    BY <1>2, <2>1, <2>3, LedgerStutters DEF Publish
  <2> QED
    BY <1>2, <2>2, <2>3 DEF Publish
<1>3. CASE StartTimeout(r)
  <2>1. IdOf[r] \in Sent
    BY <1>3 DEF StartTimeout, Orderly, Sent
  <2>2. Promised' = Promised \cup {IdOf[r]}
    BY <1>3 DEF StartTimeout, Promised
  <2>3. UNCHANGED <<Sent, responses>>
    BY <1>3 DEF StartTimeout, Sent
  <2>4. Ledger!Promise(IdOf[r])
    BY <2>1, <2>2, <2>3 DEF Ledger!Promise, Promised
  <2> QED
    BY <1>i, <2>4 DEF Ledger!Next
<1>4. CASE TimeoutFires(r)
  <2>1. Promised' = Promised
    BY <1>4, SamePromises DEF TimeoutFires
  <2>2. IdOf[r] \in Promised
    BY <1>4 DEF TimeoutFires, Orderly, Promised
  <2>3. CASE responses[IdOf[r]] = "none"
    <3>1. UNCHANGED Sent
      BY <1>4 DEF TimeoutFires, Sent
    <3>2. responses' = [responses EXCEPT ![IdOf[r]] = "timeout"]
      BY <1>4, <2>3 DEF TimeoutFires
    <3>3. Ledger!TimeOut(IdOf[r])
      BY <2>1, <2>2, <2>3, <3>1, <3>2 DEF Ledger!TimeOut, Promised
    <3> QED
      BY <1>i, <3>3 DEF Ledger!Next
  <2>4. CASE responses[IdOf[r]] # "none"
    <3>1. responses' = responses
      BY <1>4, <2>4 DEF TimeoutFires
    <3> QED
      BY <1>4, <2>1, <3>1, LedgerStutters DEF TimeoutFires
  <2> QED
    BY <2>3, <2>4
<1> QED
  BY <1>1, <1>2, <1>3, <1>4

LEMMA AnswerSimulates ==
  ASSUME SafetyInv, StoreResponse
  PROVE  [Ledger!Next]_(Ledger!vars)
<1> DEFINE answer == Head(inbox)
<1>1. answer \in Messages /\ Len(inbox) \in Nat \ {0}
  BY HeadTailType DEF StoreResponse, SafetyInv, TypeOK
<1>2. answer.id \in Ids /\ answer.status \in Answers
  BY <1>1 DEF Messages
<1>3. answer.id \in Sent
  <2>1. 1 \in 1 .. Len(inbox) /\ answer = inbox[1]
    BY <1>1 DEF SafetyInv, TypeOK
  <2> QED
    BY <2>1 DEF SafetyInv, Asked
<1>4. UNCHANGED Sent /\ Promised' = Promised
  BY DEF StoreResponse, Sent, Promised
<1>5. responses' = [responses EXCEPT ![answer.id] = answer.status]
  BY DEF StoreResponse
<1>6. Ledger!Answer(answer.id, answer.status)
  <2> HIDE DEF answer
  <2> QED
    BY <1>3, <1>4, <1>5 DEF Ledger!Answer, Promised
<1>7. answer.status \in Ledger!Answers
  BY <1>2 DEF Answers, Ledger!Answers
<1> QED
  BY <1>2, <1>6, <1>7 DEF Ledger!Next

(* Every step of the gateway is a step of the ledger, or none.             *)
LEMMA LedgerSimulation == SafetyInv /\ [Next]_vars => [Ledger!Next]_(Ledger!vars)
<1> SUFFICES ASSUME SafetyInv, [Next]_vars PROVE [Ledger!Next]_(Ledger!vars)
  OBVIOUS
<1>1. CASE Start \/ Serve \/ StartFails \/ ConnectFails \/ ShutdownSignal \/ Lose
  BY <1>1, LedgerStutters, SamePromises
  DEF Start, Serve, StartFails, ConnectFails, ShutdownSignal, Lose, Untouched
<1>2. CASE Exit \/ Crash
  BY <1>2, TerminateForgets DEF Exit, Crash, Ledger!Next
<1>3. ASSUME NEW r \in Requests,
             Reject(r) \/ Publish(r) \/ StartTimeout(r) \/ Expire(r) \/ TimeoutFires(r)
      PROVE  [Ledger!Next]_(Ledger!vars)
  BY <1>3, RequestSimulates
<1>4. CASE StoreResponse
  BY <1>4, AnswerSimulates
<1>5. ASSUME NEW id \in Ids, NEW status \in Answers, VehicleAnswers(id, status)
      PROVE  [Ledger!Next]_(Ledger!vars)
  BY <1>5, LedgerStutters, SamePromises DEF VehicleAnswers
<1>6. CASE UNCHANGED vars
  BY <1>6, LedgerStutters, SamePromises DEF vars
<1> QED
  BY <1>1, <1>2, <1>3, <1>4, <1>5, <1>6 DEF Next

(* The gateway keeps the promise of CommandLedger, whatever the budgets.   *)
THEOREM GatewayImplementsLedger == Spec => ImplementsLedger
<1>1. SafetyInv /\ [Next]_vars => [Ledger!Next]_(Ledger!vars)
  BY LedgerSimulation
<1> QED
  BY <1>1, SafetyInit, SafetyStep, LedgerInitial, PTL
  DEF Spec, ImplementsLedger, Ledger!Spec

(* A step of the ledger keeps its outcomes explained.                      *)
LEMMA LedgerStepExplained ==
  TypeOK /\ Ledger!OutcomesExplained /\ [Ledger!Next]_(Ledger!vars)
    => Ledger!OutcomesExplained'
<1> SUFFICES ASSUME responses \in [Ids -> Statuses], Ledger!OutcomesExplained,
                    [Ledger!Next]_(Ledger!vars)
             PROVE  Ledger!OutcomesExplained'
  BY DEF TypeOK
<1> DEFINE Explained(out, due, gone) ==
      \A id \in Ids : /\ out[id] = "timeout" => id \in due
                      /\ out[id] \in Answers => id \in gone
<1>0. /\ Ledger!OutcomesExplained <=> Explained(responses, Promised, Sent)
      /\ Ledger!OutcomesExplained' <=> Explained(responses', Promised', Sent')
  BY DEF Ledger!OutcomesExplained, Ledger!Answers, Answers, Promised
<1>1. ASSUME NEW id \in Ids, Ledger!Send(id) PROVE Ledger!OutcomesExplained'
  <2>1. UNCHANGED <<responses, Promised>> /\ Sent \subseteq Sent'
    BY <1>1 DEF Ledger!Send, Promised
  <2> QED
    BY <1>0, <2>1
<1>2. ASSUME NEW id \in Ids, Ledger!Promise(id) PROVE Ledger!OutcomesExplained'
  <2>1. UNCHANGED <<responses, Sent>> /\ Promised \subseteq Promised'
    BY <1>2 DEF Ledger!Promise, Promised
  <2> QED
    BY <1>0, <2>1
<1>3. ASSUME NEW id \in Ids, Ledger!TimeOut(id) PROVE Ledger!OutcomesExplained'
  <2>1. /\ UNCHANGED <<Promised, Sent>> /\ id \in Promised
        /\ responses' = [responses EXCEPT ![id] = "timeout"]
    BY <1>3 DEF Ledger!TimeOut, Promised
  <2> QED
    BY <1>0, <2>1 DEF Answers
<1>4. ASSUME NEW id \in Ids, NEW answer \in Ledger!Answers, Ledger!Answer(id, answer)
      PROVE  Ledger!OutcomesExplained'
  <2>1. /\ UNCHANGED <<Promised, Sent>> /\ id \in Sent
        /\ responses' = [responses EXCEPT ![id] = answer] /\ answer \in Answers
    BY <1>4 DEF Ledger!Answer, Promised, Ledger!Answers, Answers
  <2> QED
    BY <1>0, <2>1 DEF Answers
<1>5. CASE Ledger!Forget
  <2>1. responses' = [id \in Ids |-> "none"]
    BY <1>5 DEF Ledger!Forget, Ledger!Forgotten
  <2> QED
    BY <1>0, <2>1 DEF Answers
<1>6. CASE UNCHANGED Ledger!vars
  <2>1. UNCHANGED <<responses, Promised, Sent>>
    BY <1>6 DEF Ledger!vars, Promised
  <2> QED
    BY <1>0, <2>1
<1> QED
  BY <1>1, <1>2, <1>3, <1>4, <1>5, <1>6 DEF Ledger!Next

(* Nobody reads a timeout of a command whose submission was not accepted,  *)
(* or an answer to a command that never went out: what the ledger says of  *)
(* its outcomes holds for the gateway.                                     *)
THEOREM OutcomesHaveReasons == Spec => []Ledger!OutcomesExplained
<1>1. Ledger!Init => Ledger!OutcomesExplained
  BY DEF Ledger!Init, Ledger!OutcomesExplained, Ledger!Forgotten, Ledger!Answers
<1> QED
  BY <1>1, LedgerStepExplained, GatewayImplementsLedger, TypeCorrect, PTL
  DEF ImplementsLedger, Ledger!Spec
-----------------------------------------------------------------------------
(* The way to the vehicle: with a client behind it the gateway takes no    *)
(* other steps than on its own.                                            *)
LEMMA PathStepOfGateway == [PathNext]_pathVars => [Next]_vars
<1> SUFFICES ASSUME [PathNext]_pathVars
             PROVE  [Next]_vars
  OBVIOUS
<1>1. ASSUME NEW r \in Requests, Submit(r)
      PROVE  Next
  BY <1>1 DEF Submit, Next
<1>2. CASE GatewayStep
  BY <1>2 DEF GatewayStep, Next
<1>3. CASE ClientStep
  BY <1>3 DEF ClientStep
<1>4. CASE UNCHANGED pathVars
  BY <1>4 DEF pathVars
<1> QED
  BY <1>1, <1>2, <1>3, <1>4 DEF PathNext

(* With a client behind it the gateway behaves as it does on its own, so   *)
(* what is proved of it holds there too.                                   *)
THEOREM PathImplementsGateway == PathSpec => Spec
<1>1. PathInit => Init
  BY DEF PathInit
<1> QED
  BY <1>1, PathStepOfGateway, PTL DEF PathSpec, Spec

(* What the client receives lacks the key that it looks for; so nothing is *)
(* written, there is nothing to answer, and all outcomes are timeouts.     *)
Gateways == {MessageOf(r) : r \in Valid}

NeverWritten ==
  /\ commandSub \in Seq(Gateways)
  /\ NothingIsWritten
  /\ inbox = <<>>
  /\ NothingIsAnswered

LEMMA GatewaysNotValidated == \A m \in Gateways : ~Client!Validated(m)
BY DEF Gateways, MessageOf, Client!Validated

LEMMA NeverWrittenInit == PathInit => NeverWritten
<1> SUFFICES ASSUME PathInit
             PROVE  NeverWritten
  OBVIOUS
<1>1. commandSub = <<>> /\ dataBroker.command = Client!NoCommand
  BY DEF PathInit, Client!Init
<1>2. inbox = <<>> /\ \A id \in Ids : responses[id] = "none"
  BY DEF PathInit, Init
<1>3. commandSub \in Seq(Gateways)
  BY <1>1, EmptySequence
<1> QED
  BY <1>1, <1>2, <1>3 DEF NeverWritten, NothingIsWritten, NothingIsAnswered, Answers

(* A step of the gateway that is not an answer's.                          *)
LEMMA UnansweredStep ==
  ASSUME TypeOK, inbox = <<>>, NothingIsAnswered,
         \/ UNCHANGED vars
         \/ Start \/ Serve \/ StartFails \/ ConnectFails \/ ShutdownSignal
         \/ Exit \/ Crash \/ StoreResponse \/ Lose
         \/ \E r \in Requests : \/ Reject(r) \/ Publish(r) \/ StartTimeout(r)
                                \/ Expire(r) \/ TimeoutFires(r)
  PROVE  inbox' = <<>> /\ NothingIsAnswered'
<1>1. CASE \/ UNCHANGED vars \/ Start \/ Serve \/ StartFails \/ ConnectFails \/ ShutdownSignal
           \/ \E r \in Requests : \/ Reject(r) \/ Publish(r) \/ StartTimeout(r) \/ Expire(r)
  BY <1>1 DEF vars, Start, Serve, StartFails, ConnectFails, ShutdownSignal, Untouched,
              Reject, Publish, StartTimeout, Expire, NothingIsAnswered
<1>2. CASE Exit \/ Crash
  BY <1>2 DEF Exit, Crash, Terminate, NothingIsAnswered, Answers
<1>3. CASE StoreResponse \/ Lose
  BY <1>3 DEF StoreResponse, Lose
<1>4. ASSUME NEW r \in Requests, TimeoutFires(r)
      PROVE  inbox' = <<>> /\ NothingIsAnswered'
  <2>1. responses \in [Ids -> Statuses] /\ UNCHANGED inbox
        /\ responses' = [responses EXCEPT ![IdOf[r]] =
                           IF responses[IdOf[r]] = "none" THEN "timeout" ELSE responses[IdOf[r]]]
    BY <1>4 DEF TimeoutFires, TypeOK
  <2>2. \A id \in Ids : responses'[id] \in {responses[id], "timeout"}
    BY <2>1
  <2> QED
    BY <2>1, <2>2 DEF NothingIsAnswered, Answers
<1> QED
  BY <1>1, <1>2, <1>3, <1>4

LEMMA NeverWrittenStep == TypeOK /\ NeverWritten /\ [PathNext]_pathVars => NeverWritten'
<1> SUFFICES ASSUME TypeOK, NeverWritten, [PathNext]_pathVars
             PROVE  NeverWritten'
  OBVIOUS
<1>0. /\ commandSub \in Seq(Gateways) /\ dataBroker.command = Client!NoCommand
      /\ inbox = <<>> /\ NothingIsAnswered
  BY DEF NeverWritten, NothingIsWritten
<1>1. ASSUME NEW r \in Requests, Submit(r)
      PROVE  NeverWritten'
  <2>1. Publish(r) /\ r \in Valid
    BY <1>1 DEF Submit, Publish
  <2>2. inbox' = <<>> /\ NothingIsAnswered'
    BY <1>0, <2>1, UnansweredStep
  <2>3. UNCHANGED clientVars \/ Client!CloudSends(MessageOf(r))
    BY <1>1 DEF Submit
  <2>4. dataBroker' = dataBroker /\ commandSub' \in {commandSub, Append(commandSub, MessageOf(r))}
    BY <2>3 DEF clientVars, Client!CloudSends, Client!Outside
  <2>5. MessageOf(r) \in Gateways
    BY <2>1 DEF Gateways
  <2>6. Append(commandSub, MessageOf(r)) \in Seq(Gateways)
    BY <1>0, <2>5
  <2> QED
    BY <1>0, <2>2, <2>4, <2>6 DEF NeverWritten, NothingIsWritten
<1>2. CASE GatewayStep
  <2>1. UNCHANGED <<commandSub, dataBroker>>
    BY <1>2 DEF GatewayStep, clientVars
  <2>2. inbox' = <<>> /\ NothingIsAnswered'
    BY <1>0, <1>2, UnansweredStep DEF GatewayStep
  <2> QED
    BY <1>0, <2>1, <2>2 DEF NeverWritten, NothingIsWritten
<1>3. CASE ClientStep
  <2>1. inbox' = <<>> /\ NothingIsAnswered'
    <3>1. UNCHANGED vars
      BY <1>3 DEF ClientStep
    <3> QED
      BY <1>0, <3>1, UnansweredStep
  <2>2. CASE Client!Refuse
    <3>1. commandSub # <<>> /\ commandSub' = Tail(commandSub) /\ UNCHANGED dataBroker
      BY <2>2 DEF Client!Refuse, Client!HasMessage, Client!Outside
    <3>2. commandSub' \in Seq(Gateways)
      BY <1>0, <3>1
    <3> QED
      BY <1>0, <2>1, <3>1, <3>2 DEF NeverWritten, NothingIsWritten
  <2>3. CASE Client!Forward \/ Client!ForwardFails
    <3>1. commandSub # <<>> /\ Client!Validated(Head(commandSub))
      BY <2>3 DEF Client!Forward, Client!ForwardFails, Client!HasMessage
    <3>2. Head(commandSub) \in Gateways
      BY <1>0, <3>1
    <3> QED
      BY <3>1, <3>2, GatewaysNotValidated
  <2>4. CASE Client!StartupFails \/ Client!Crash
    <3>1. commandSub' = <<>> /\ UNCHANGED dataBroker
      BY <2>4 DEF Client!StartupFails, Client!Crash, Client!Terminate, Client!Outside
    <3>2. commandSub' \in Seq(Gateways)
      BY <3>1, EmptySequence
    <3> QED
      BY <1>0, <2>1, <3>1, <3>2 DEF NeverWritten, NothingIsWritten
  <2>5. CASE \/ Client!Boot \/ Client!ConnectNats \/ Client!ConnectBroker
             \/ Client!PublishRegistration \/ Client!SubscribeResponses
             \/ Client!SubscribeTelemetry \/ Client!SubscribeCommands \/ Client!NatsRefuses
    <3>1. UNCHANGED <<commandSub, dataBroker>>
      BY <2>5 DEF Client!Boot, Client!ConnectNats, Client!ConnectBroker,
                  Client!PublishRegistration, Client!SubscribeResponses,
                  Client!SubscribeTelemetry, Client!SubscribeCommands, Client!NatsRefuses,
                  Client!Memory, Client!Outside
    <3> QED
      BY <1>0, <2>1, <3>1 DEF NeverWritten, NothingIsWritten
  <2> QED
    BY <1>3, <2>2, <2>3, <2>4, <2>5 DEF ClientStep
<1>4. CASE UNCHANGED pathVars
  <2>1. UNCHANGED <<commandSub, dataBroker, inbox, responses>>
    BY <1>4 DEF pathVars, vars, clientVars
  <2> QED
    BY <1>0, <2>1 DEF NeverWritten, NothingIsWritten, NothingIsAnswered
<1> QED
  BY <1>1, <1>2, <1>3, <1>4 DEF PathNext

(* The gateway names a command's action "type", the client looks for       *)
(* "action": however many commands are posted, and whatever is restarted,  *)
(* none is written to the DATA_BROKER and no query ever finds an answer.   *)
THEOREM CommandsEndInTimeouts == PathSpec => [](NothingIsWritten /\ NothingIsAnswered)
<1>1. NeverWritten => NothingIsWritten /\ NothingIsAnswered
  BY DEF NeverWritten
<1>2. PathSpec => []TypeOK
  BY PathImplementsGateway, TypeCorrect, PTL
<1> QED
  BY <1>1, <1>2, NeverWrittenInit, NeverWrittenStep, PTL DEF PathSpec
=============================================================================
