--------------------------- MODULE ParkingAdaptor ---------------------------
(***************************************************************************)
(* The PARKING_OPERATOR_ADAPTOR (rhivos/parking-operator-adaptor): gRPC    *)
(* handlers and the forwarder of the lock subscription put events on one   *)
(* bounded channel; one event loop takes them off in order, calls the      *)
(* PARKING_OPERATOR over REST with retries, keeps the session in memory    *)
(* and publishes SessionActive to the DATA_BROKER.  The operator, the      *)
(* broker and the callers are modelled as far as the adaptor sees them.    *)
(*                                                                         *)
(* A session is named by the number the operator gave it (a uuid in the    *)
(* code: always a new one); None stands for "no session".  Zones, rates,   *)
(* times and amounts are left out.                                         *)
(***************************************************************************)
EXTENDS Naturals, Sequences, FiniteSets

CONSTANTS
  Callers,      \* gRPC calls made on the adaptor, one call each
  NoCaller,     \* the caller of an event that came from the lock signal
  QueueCap,     \* capacity of the event channel, 32 in main.rs
  MaxRetries,   \* MAX_RETRIES in operator.rs, 3
  RateKeys,     \* the JSON keys under which operators send the rate type:
                \* "rate_type" the repository's own, "type" one that the
                \* adaptor can read
  Budget        \* how often each environment event happens at most

(* What the environment does a bounded number of times. *)
Happenings == {"lock", "refused", "lost", "garbled", "publish", "streamEnd",
               "cancel", "crash", "shutdown", "exit", "operatorRestart"}

ASSUME CallersAssumption    == NoCaller \notin Callers
ASSUME QueueCapAssumption   == QueueCap \in Nat \ {0}
ASSUME MaxRetriesAssumption == MaxRetries \in Nat
ASSUME RateKeysAssumption   == RateKeys \subseteq {"type", "rate_type"}
ASSUME BudgetAssumption     == Budget \in [Happenings -> Nat]

VARIABLES
  phase,       \* where main.rs is: see Phases
  session,     \* the in-memory Session: the operator's session, or None
  loop,        \* the event loop: what it is doing for the event it took
  queue,       \* the mpsc channel of SessionEvents
  feed,        \* lock values between the broker and the forwarder
  subscribed,  \* the subscription stream is alive
  calls,       \* the gRPC handlers, one per caller
  broker,      \* the two signals in the DATA_BROKER
  operator,    \* the PARKING_OPERATOR's sessions
  count        \* how often each happening has occurred

vars == <<phase, session, loop, queue, feed, subscribed, calls, broker,
          operator, count>>

-----------------------------------------------------------------------------
None == 0

(* "down": no process; "connected": SessionActive=false not yet published; *)
(* "announced": not yet subscribed; "running"; "draining": shutdown was    *)
(* signalled, calls in flight are finishing; "closed": all senders of the  *)
(* channel are gone, the loop works off what is left.                      *)
Phases == {"down", "connected", "announced", "running", "draining", "closed"}

Serving == phase \in {"running", "draining", "closed"}

EventTypes == {"LockChanged", "ManualStart", "ManualStop", "QueryStatus",
               "QueryRate"}

Events == [type : EventTypes, locked : BOOLEAN, caller : Callers \cup {NoCaller}]

LockChanged(b) == [type |-> "LockChanged", locked |-> b, caller |-> NoCaller]

Request(type, c) == [type |-> type, locked |-> FALSE, caller |-> c]

(* The event loop: "recv" waits for an event, "post" is about to send the  *)
(* attempt-th request, "sent" awaits the answer, "publish" awaits set_bool.*)
(* answer is the session the operator's answer on the way names, or None   *)
(* when that answer is an error.                                           *)
Loops == [pc : {"recv", "post", "sent", "publish"}, op : {"start", "stop"},
          caller : Callers \cup {NoCaller}, attempt : 0..MaxRetries,
          answer : Nat]

IdleLoop == [pc |-> "recv", op |-> "start", caller |-> NoCaller,
             attempt |-> 0, answer |-> None]

Rpcs == {"StartSession", "StopSession", "GetStatus", "GetRate"}

(* A handler sends its event ("send"), awaits the reply ("wait"); a        *)
(* StartSession that succeeded does both again with a QueryStatus.  own is *)
(* start_resp.session_id, id the session in the response.  A "gone" caller *)
(* hung up or lost its connection.                                         *)
Calls == [pc : {"idle", "send", "wait", "resend", "rewait", "done", "gone"},
          rpc : Rpcs, own : Nat, id : Nat,
          status : {"none", "OK", "ALREADY_EXISTS", "FAILED_PRECONDITION",
                    "UNAVAILABLE"}]

IdleCall == [pc |-> "idle", rpc |-> "GetStatus", own |-> None, id |-> None,
             status |-> "none"]

InFlight(c) == calls[c].pc \in {"send", "wait", "resend", "rewait"}

(* opened: how many sessions were ever opened; known: those the operator   *)
(* remembers; active: those it is charging for; rateKey: the key under     *)
(* which it sends the rate type, in all its answers to a start.            *)
Operators == [opened : Nat, known : SUBSET (Nat \ {0}),
              active : SUBSET (Nat \ {0}), rateKey : RateKeys]

TypeOK ==
  /\ phase \in Phases
  /\ session \in Nat
  /\ loop \in Loops
  /\ queue \in Seq(Events)
  /\ feed \in Seq(BOOLEAN)
  /\ subscribed \in BOOLEAN
  /\ calls \in [Callers -> Calls]
  /\ broker \in [isLocked : BOOLEAN, sessionActive : BOOLEAN]
  /\ operator \in Operators
  /\ count \in [Happenings -> Nat]

Init ==
  /\ phase = "down"
  /\ session = None
  /\ loop = IdleLoop
  /\ queue = <<>>
  /\ feed = <<>>
  /\ subscribed = FALSE
  /\ calls = [c \in Callers |-> IdleCall]
  /\ broker \in [isLocked : BOOLEAN, sessionActive : {FALSE}]
  /\ operator \in [opened : {0}, known : {{}}, active : {{}}, rateKey : RateKeys]
  /\ count = [h \in Happenings |-> 0]

Note(h) == count' = [count EXCEPT ![h] = @ + 1]

Happens(h) == count[h] < Budget[h] /\ Note(h)

-----------------------------------------------------------------------------
(* publish_bool of SessionActive; on an error the value may have arrived.  *)
PublishActive(value) ==
  \/ /\ broker' = [broker EXCEPT !.sessionActive = value]
     /\ UNCHANGED count
  \/ /\ Happens("publish")
     /\ \/ broker' = [broker EXCEPT !.sessionActive = value]
        \/ UNCHANGED broker

(* main.rs up to the ready message.                                        *)
Connect ==
  /\ phase = "down"
  /\ phase' = "connected"
  /\ UNCHANGED <<session, loop, queue, feed, subscribed, calls, broker,
                 operator, count>>

(* Mutant: SessionActive is not reset at startup. *)
PublishInitial_Skipped ==
  /\ phase = "connected"
  /\ phase' = "announced"
  /\ UNCHANGED <<session, loop, queue, feed, subscribed, calls, broker, operator, count>>

PublishInitial ==
  /\ phase = "connected"
  /\ PublishActive(FALSE)
  /\ phase' = "announced"
  /\ UNCHANGED <<session, loop, queue, feed, subscribed, calls, operator>>

(* The subscription first delivers the current value.                      *)
Subscribe ==
  /\ phase = "announced"
  /\ phase' = "running"
  /\ subscribed' = TRUE
  /\ feed' = <<broker.isLocked>>
  /\ UNCHANGED <<session, loop, queue, calls, broker, operator, count>>

(* The process ends: memory is lost, callers see their connection close.   *)
Terminate ==
  /\ phase' = "down"
  /\ session' = None
  /\ loop' = IdleLoop
  /\ queue' = <<>>
  /\ feed' = <<>>
  /\ subscribed' = FALSE
  /\ calls' = [c \in Callers |->
                 IF InFlight(c) THEN [calls[c] EXCEPT !.pc = "gone"] ELSE calls[c]]
  /\ UNCHANGED <<broker, operator>>

(* A crash, a kill, or run() returning an error when subscribing fails.    *)
Crash ==
  /\ phase # "down"
  /\ Happens("crash")
  /\ Terminate

ShutdownSignal ==
  /\ phase = "running"
  /\ Happens("shutdown")
  /\ phase' = "draining"
  /\ UNCHANGED <<session, loop, queue, feed, subscribed, calls, broker, operator>>

(* server_handle.await, then lock_forwarder.abort().                       *)
AbortForwarder ==
  /\ phase = "draining"
  /\ \A c \in Callers : ~InFlight(c)
  /\ phase' = "closed"
  /\ feed' = <<>>
  /\ subscribed' = FALSE
  /\ UNCHANGED <<session, loop, queue, calls, broker, operator, count>>

(* recv() returns None: the loop and the process end.                      *)
Exit ==
  /\ phase = "closed"
  /\ loop.pc = "recv"
  /\ queue = <<>>
  /\ Note("exit")
  /\ Terminate

-----------------------------------------------------------------------------
(* The lock signal is written in the broker, with a new or the same value. *)
SetIsLocked(b) ==
  /\ Happens("lock")
  /\ broker' = [broker EXCEPT !.isLocked = b]
  /\ feed' = IF subscribed THEN Append(feed, b) ELSE feed
  /\ UNCHANGED <<phase, session, loop, queue, subscribed, calls, operator>>

(* The stream ends or fails; values not yet read from it are lost.         *)
StreamEnds ==
  /\ subscribed
  /\ Happens("streamEnd")
  /\ subscribed' = FALSE
  /\ \E n \in 0..Len(feed) : feed' = SubSeq(feed, 1, n)
  /\ UNCHANGED <<phase, session, loop, queue, calls, broker, operator>>

ForwardLock ==
  /\ phase \in {"running", "draining"}
  /\ feed # <<>>
  /\ Len(queue) < QueueCap
  /\ queue' = Append(queue, LockChanged(Head(feed)))
  /\ feed' = Tail(feed)
  /\ UNCHANGED <<phase, session, loop, subscribed, calls, broker, operator, count>>

-----------------------------------------------------------------------------
(* The gRPC handlers. *)
Call(c, rpc) ==
  /\ phase = "running"
  /\ calls[c].pc = "idle"
  /\ calls' = [calls EXCEPT ![c].pc = "send", ![c].rpc = rpc]
  /\ UNCHANGED <<phase, session, loop, queue, feed, subscribed, broker,
                 operator, count>>

EventOf(c) ==
  IF calls[c].pc = "resend" THEN "QueryStatus"
  ELSE CASE calls[c].rpc = "StartSession" -> "ManualStart"
         [] calls[c].rpc = "StopSession"  -> "ManualStop"
         [] calls[c].rpc = "GetStatus"    -> "QueryStatus"
         [] calls[c].rpc = "GetRate"      -> "QueryRate"

(* Mutant: after the shutdown signal no event is accepted any more. *)
SendEvent_OnlyRunning(c) ==
  /\ phase = "running"
  /\ calls[c].pc \in {"send", "resend"}
  /\ Len(queue) < QueueCap
  /\ queue' = Append(queue, Request(EventOf(c), c))
  /\ calls' = [calls EXCEPT ![c].pc = IF @ = "send" THEN "wait" ELSE "rewait"]
  /\ UNCHANGED <<phase, session, loop, feed, subscribed, broker, operator, count>>

SendEvent(c) ==
  /\ calls[c].pc \in {"send", "resend"}
  /\ Len(queue) < QueueCap
  /\ queue' = Append(queue, Request(EventOf(c), c))
  /\ calls' = [calls EXCEPT ![c].pc = IF @ = "send" THEN "wait" ELSE "rewait"]
  /\ UNCHANGED <<phase, session, loop, feed, subscribed, broker, operator, count>>

(* The client hangs up: its handler is dropped, its event is not.          *)
HangUp(c) ==
  /\ InFlight(c)
  /\ Happens("cancel")
  /\ calls' = [calls EXCEPT ![c].pc = "gone"]
  /\ UNCHANGED <<phase, session, loop, queue, feed, subscribed, broker, operator>>

(* Mutant: no fallback to the started session when the query finds none. *)
Reply_NoFallback(c, status, id) ==
  CASE c = NoCaller \/ calls[c].pc \notin {"wait", "rewait"} -> calls
    [] calls[c].pc = "wait" /\ calls[c].rpc = "StartSession" /\ status = "OK" ->
         [calls EXCEPT ![c].pc = "resend", ![c].own = id]
    [] OTHER ->
         [calls EXCEPT ![c].pc = "done", ![c].status = status, ![c].id = id]

(* reply.send of the loop and what the handler makes of it: calls after    *)
(* the answer of caller c.  A StartSession goes on to its QueryStatus; the *)
(* answer to that names the session it finds, else the one started.        *)
Reply(c, status, id) ==
  CASE c = NoCaller \/ calls[c].pc \notin {"wait", "rewait"} -> calls
    [] calls[c].pc = "wait" /\ calls[c].rpc = "StartSession" /\ status = "OK" ->
         [calls EXCEPT ![c].pc = "resend", ![c].own = id]
    [] calls[c].pc = "rewait" ->
         [calls EXCEPT ![c].pc = "done", ![c].status = "OK",
                       ![c].id = IF id = None THEN calls[c].own ELSE id]
    [] OTHER ->
         [calls EXCEPT ![c].pc = "done", ![c].status = status, ![c].id = id]

-----------------------------------------------------------------------------
(* run_event_loop takes the next event.                                    *)
Take ==
  /\ Serving
  /\ loop.pc = "recv"
  /\ queue # <<>>
  /\ queue' = Tail(queue)
  /\ UNCHANGED <<phase, session, feed, subscribed, broker, operator, count>>

WantsStart(e) == e.type = "ManualStart" \/ (e.type = "LockChanged" /\ e.locked)
WantsStop(e)  == e.type = "ManualStop"  \/ (e.type = "LockChanged" /\ ~e.locked)

(* Lock with a session, unlock without one, and the manual commands the    *)
(* session state refuses.                                                  *)
TakeRefused ==
  LET e == Head(queue) IN
  /\ Take
  /\ \/ WantsStart(e) /\ session # None
     \/ WantsStop(e) /\ session = None
  /\ calls' = Reply(e.caller,
                    IF WantsStart(e) THEN "ALREADY_EXISTS" ELSE "FAILED_PRECONDITION",
                    session)
  /\ UNCHANGED loop

TakeQuery ==
  LET e == Head(queue) IN
  /\ Take
  /\ e.type \in {"QueryStatus", "QueryRate"}
  /\ calls' = Reply(e.caller, "OK", session)
  /\ UNCHANGED loop

(* Mutant: a start is not refused while a session is held. *)
TakeCommand_Restart ==
  LET e == Head(queue) IN
  /\ Take
  /\ \/ WantsStart(e)
     \/ WantsStop(e) /\ session # None
  /\ loop' = [pc |-> "post", op |-> IF WantsStart(e) THEN "start" ELSE "stop",
              caller |-> e.caller, attempt |-> 0, answer |-> None]
  /\ UNCHANGED calls

TakeCommand ==
  LET e == Head(queue) IN
  /\ Take
  /\ \/ WantsStart(e) /\ session = None
     \/ WantsStop(e) /\ session # None
  /\ loop' = [pc |-> "post", op |-> IF WantsStart(e) THEN "start" ELSE "stop",
              caller |-> e.caller, attempt |-> 0, answer |-> None]
  /\ UNCHANGED calls

-----------------------------------------------------------------------------
(* post_with_retry. *)
OperatorCallFails ==
  /\ loop' = IdleLoop
  /\ calls' = Reply(loop.caller, "UNAVAILABLE", None)

(* Mutants: one retry too few, retries without end. *)
AttemptFails_OneLess ==
  IF loop.attempt + 1 < MaxRetries
  THEN /\ loop' = [loop EXCEPT !.pc = "post", !.attempt = @ + 1, !.answer = None]
       /\ UNCHANGED calls
  ELSE OperatorCallFails

AttemptFails_Forever ==
  /\ loop' = [loop EXCEPT !.pc = "post", !.answer = None]
  /\ UNCHANGED calls

AttemptFails ==
  IF loop.attempt < MaxRetries
  THEN /\ loop' = [loop EXCEPT !.pc = "post", !.attempt = @ + 1, !.answer = None]
       /\ UNCHANGED calls
  ELSE OperatorCallFails

(* Mutant: a stop that fails at the first try clears the session. *)
PostRefused_Forgets ==
  /\ loop.pc = "post"
  /\ Happens("refused")
  /\ AttemptFails
  /\ session' = IF loop.op = "stop" THEN None ELSE session
  /\ UNCHANGED <<phase, queue, feed, subscribed, broker, operator>>

(* The request does not reach the operator's handler.                      *)
PostRefused ==
  /\ loop.pc = "post"
  /\ Happens("refused")
  /\ AttemptFails
  /\ UNCHANGED <<phase, session, queue, feed, subscribed, broker, operator>>

(* handleStart: every request that arrives opens a session, and the answer *)
(* has the rate under the operator's own key (Readable).                   *)
OperatorStarts ==
  LET new == operator.opened + 1 IN
  /\ loop.pc = "post"
  /\ loop.op = "start"
  /\ operator' = [operator EXCEPT !.opened = new, !.known = @ \cup {new},
                                  !.active = @ \cup {new}]
  /\ loop' = [loop EXCEPT !.pc = "sent", !.answer = new]
  /\ UNCHANGED <<phase, session, queue, feed, subscribed, calls, broker, count>>

(* Mutant: a stop is acknowledged before, not after, the session ends. *)
OperatorStops_Lazy ==
  /\ loop.pc = "post"
  /\ loop.op = "stop"
  /\ UNCHANGED operator
  /\ loop' = [loop EXCEPT !.pc = "sent",
                          !.answer = IF session \in operator.known THEN session ELSE None]
  /\ UNCHANGED <<phase, session, queue, feed, subscribed, calls, broker, count>>

(* handleStop: 404 for a session it does not know, else the session is     *)
(* stopped, again if need be.                                              *)
OperatorStops ==
  /\ loop.pc = "post"
  /\ loop.op = "stop"
  /\ operator' = [operator EXCEPT !.active = @ \ {session}]
  /\ loop' = [loop EXCEPT !.pc = "sent",
                          !.answer = IF session \in operator.known THEN session ELSE None]
  /\ UNCHANGED <<phase, session, queue, feed, subscribed, calls, broker, count>>

AnswerRejects ==
  /\ loop.pc = "sent"
  /\ loop.answer = None
  /\ AttemptFails
  /\ UNCHANGED <<phase, session, queue, feed, subscribed, broker, operator, count>>

(* The operator did its part; the client sees an error or a 5xx instead.   *)
AnswerLost ==
  /\ loop.pc = "sent"
  /\ Happens("lost")
  /\ AttemptFails
  /\ UNCHANGED <<phase, session, queue, feed, subscribed, broker, operator>>

(* RateResponse is renamed to read the rate type under the key "type";     *)
(* a stop's answer carries no rate.                                        *)
Readable == loop.op = "stop" \/ operator.rateKey = "type"

(* A 2xx answer whose body does not parse ends the call without a retry.   *)
AnswerGarbled ==
  /\ loop.pc = "sent"
  /\ loop.answer # None
  /\ Readable => count["garbled"] < Budget["garbled"]
  /\ Note("garbled")
  /\ OperatorCallFails
  /\ UNCHANGED <<phase, session, queue, feed, subscribed, broker, operator>>

(* Mutant: a successful stop leaves the session in memory. *)
AnswerAccepted_KeepsSession ==
  /\ loop.pc = "sent"
  /\ loop.answer # None
  /\ Readable
  /\ session' = loop.answer
  /\ loop' = [loop EXCEPT !.pc = "publish"]
  /\ UNCHANGED <<phase, queue, feed, subscribed, calls, broker, operator, count>>

(* Ok(resp): session.start / session.stop, then set_bool is awaited.       *)
AnswerAccepted ==
  /\ loop.pc = "sent"
  /\ loop.answer # None
  /\ Readable
  /\ session' = IF loop.op = "start" THEN loop.answer ELSE None
  /\ loop' = [loop EXCEPT !.pc = "publish"]
  /\ UNCHANGED <<phase, queue, feed, subscribed, calls, broker, operator, count>>

(* A failed publish is logged; the caller is answered either way.          *)
PublishOutcome ==
  /\ loop.pc = "publish"
  /\ PublishActive(loop.op = "start")
  /\ loop' = IdleLoop
  /\ calls' = Reply(loop.caller, "OK", loop.answer)
  /\ UNCHANGED <<phase, session, queue, feed, subscribed, operator>>

(* The operator keeps its sessions in memory only.                         *)
OperatorRestart ==
  /\ Happens("operatorRestart")
  /\ operator' = [operator EXCEPT !.known = {}, !.active = {}]
  /\ UNCHANGED <<phase, session, loop, queue, feed, subscribed, calls, broker>>

-----------------------------------------------------------------------------
Post == PostRefused \/ OperatorStarts \/ OperatorStops

Answer == AnswerRejects \/ AnswerLost \/ AnswerGarbled \/ AnswerAccepted

Process == TakeRefused \/ TakeQuery \/ TakeCommand

Lifecycle == \/ Connect \/ PublishInitial \/ Subscribe \/ Crash
             \/ ShutdownSignal \/ AbortForwarder \/ Exit

Client(c) == (\E rpc \in Rpcs : Call(c, rpc)) \/ SendEvent(c) \/ HangUp(c)

(* A running adaptor with nothing to do waits in rx.recv(); stated as a     *)
(* step so that TLC reports every other state without a successor.         *)
Rest ==
  /\ phase = "running"
  /\ loop.pc = "recv"
  /\ queue = <<>>
  /\ feed = <<>>
  /\ \A c \in Callers : ~InFlight(c)
  /\ UNCHANGED vars

Environment == (\E b \in BOOLEAN : SetIsLocked(b)) \/ StreamEnds \/ OperatorRestart

Next ==
  \/ Lifecycle
  \/ Environment
  \/ ForwardLock
  \/ \E c \in Callers : Client(c)
  \/ Process \/ Post \/ Answer \/ PublishOutcome
  \/ Rest

(* The runtime polls every task; the operator or the network settles every *)
(* request.  Nothing promises that a terminated adaptor is started again,  *)
(* that a signal changes or that anybody calls.                            *)
Fairness ==
  /\ WF_vars(ForwardLock)
  /\ \A c \in Callers : WF_vars(SendEvent(c))
  /\ WF_vars(Process) /\ WF_vars(Post) /\ WF_vars(Answer) /\ WF_vars(PublishOutcome)
  /\ WF_vars(AbortForwarder) /\ WF_vars(Exit)

Spec == Init /\ [][Next]_vars

FairSpec == Spec /\ Fairness

-----------------------------------------------------------------------------
(* The session the adaptor can still stop: the one in memory, or the one   *)
(* named by a start answer on its way.                                     *)
Reachable == IF loop.pc = "sent" /\ loop.op = "start" THEN loop.answer ELSE session

Tracked == IF Reachable \in operator.active THEN Reachable ELSE None

(* What can separate the adaptor from a session it opened: the answer is   *)
(* lost or unreadable, or the process ends.                                *)
Disruptions == count["lost"] + count["garbled"] + count["crash"] + count["exit"]

(* The adaptor implements ParkingBilling.  main.rs and post_with_retry add *)
(* retries, queues, restarts and failures; none of them opens a session    *)
(* while another is reachable, or closes any other than the reachable one. *)
Billing == INSTANCE ParkingBilling WITH
  opened      <- operator.opened,
  active      <- operator.active,
  tracked     <- Tracked,
  disruptions <- Disruptions

ImplementsBilling == Billing!Spec

(* 08-REQ-9.1, seen from the operator's books: whatever the interleaving   *)
(* of lock events, manual calls, retries, crashes and restarts, each       *)
(* session that runs on without the adaptor is due to its own disruption.  *)
OrphansExplained == Billing!OrphansExplained

(* The session in memory is one the operator charges for, unless its stop  *)
(* is under way or the operator's answer to a stop, or its books, got lost.*)
(* process_lock_event and process_manual_stop drop the session only after  *)
(* the operator confirmed.                                                 *)
HeldSessionIsBilled ==
  session # None =>
    \/ session \in operator.active
    \/ loop.op = "stop" /\ loop.pc = "sent"
    \/ count["lost"] + count["garbled"] + count["operatorRestart"] > 0

(* While no publish has failed, SessionActive agrees with the session in   *)
(* memory whenever the adaptor runs and is not just publishing: through    *)
(* retries, refused commands, restarts after a crash (PublishInitial).     *)
SignalFollowsSession ==
  count["publish"] = 0 /\ phase \notin {"down", "connected"} /\ loop.pc # "publish"
    => broker.sessionActive = (session # None)

(* A StartSession that returns OK names the session it opened or one       *)
(* opened after it, never an earlier one: handler start_session builds its *)
(* response from a second event, which others may overtake.                *)
StartReplyNotOlder ==
  \A c \in Callers :
    calls[c].pc = "done" /\ calls[c].rpc = "StartSession" /\ calls[c].status = "OK"
      => calls[c].own # None /\ calls[c].id \in calls[c].own..operator.opened

(* An OK to StopSession means that the operator no longer charges for the  *)
(* session it names, whatever was queued before or after it.               *)
StoppedMeansStopped ==
  \A c \in Callers :
    calls[c].pc = "done" /\ calls[c].rpc = "StopSession" /\ calls[c].status = "OK"
      => calls[c].id \notin operator.active

(* Every call is answered or its connection closes, through retries, a     *)
(* full event channel and shutdown.                                        *)
EveryCallEnds == \A c \in Callers : InFlight(c) ~> ~InFlight(c)

(* 08-REQ-8.3: a signalled shutdown finishes what is in flight and ends    *)
(* the process.                                                            *)
ShutdownEnds == phase = "draining" ~> phase = "down"

(* 08-REQ-3.3 and 3.4: once the lock signal is at rest, the session of a   *)
(* running adaptor that nobody commands follows it, as long as the         *)
(* subscription lives (nothing renews it, main.rs:93-103).                 *)
FollowsLock ==
  <>[](phase = "running" /\ subscribed => ((session # None) <=> broker.isLocked))

(* What excuses a session that does not follow the lock has not happened:  *)
(* requests fail no oftener than one command is retried, the answers can   *)
(* be read, the operator remembers its sessions and callers only ask.      *)
Calm ==
  /\ count["refused"] + count["lost"] <= MaxRetries
  /\ count["garbled"] = 0
  /\ count["operatorRestart"] = 0
  /\ \A c \in Callers : calls[c].pc = "idle" \/ calls[c].rpc \in {"GetStatus", "GetRate"}

(* What holds of 08-REQ-3.3 and 3.4: a calm adaptor follows the lock, past *)
(* a full channel, retries, failed publications and restarts.              *)
FollowsWhenCalm ==
  <>[](Calm /\ phase = "running" /\ subscribed
         => ((session # None) <=> broker.isLocked))
=============================================================================
