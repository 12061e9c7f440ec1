---------------------------- MODULE UpdateEvents ----------------------------
(***************************************************************************)
(* The event stream of the UPDATE_SERVICE: tasks change the StateManager's *)
(* map under its mutex and send an event while they hold it; the broadcast *)
(* channel keeps the last Capacity events; each WatchAdapterStates stream  *)
(* reads them at its own pace, and one that falls behind skips silently.   *)
(* create_adapter and remove_adapter send nothing.                         *)
(*                                                                         *)
(* The tasks are those of UpdateService; here any task may make any        *)
(* transition.  log holds every event ever sent; the channel's ring is its *)
(* end.                                                                    *)
(***************************************************************************)
EXTENDS Naturals, Sequences

CONSTANTS
  Adapters,   \* adapter ids
  States,     \* the states tasks give to adapters: any but UNKNOWN
  Tasks,      \* install tasks, monitors, removers and the offload timer
  Watchers,   \* clients that call WatchAdapterStates
  NoEvent,    \* not an event
  Capacity,   \* events the channel keeps (256 in main)
  MaxEvents   \* bound: events sent

ASSUME StatesAssumption   == States \cap {"UNKNOWN", "ABSENT", "unseen"} = {}
ASSUME CapacityAssumption == Capacity \in Nat \ {0}
ASSUME BoundsAssumption   == MaxEvents \in Nat

VARIABLES
  adapters,   \* the state of each entry of the map; "ABSENT": no entry
  pending,    \* the event that each task in transition() is about to send
  log,        \* the events sent
  watching,   \* the open streams
  since,      \* events sent before the stream was opened
  cursor,     \* events each stream has read or skipped
  skipped,    \* events up to this one may have been skipped
  view        \* the last state each stream told its client

vars == <<adapters, pending, log, watching, since, cursor, skipped, view>>

streams == <<watching, since, cursor, skipped, view>>

-----------------------------------------------------------------------------
EntryStates == States \cup {"UNKNOWN"}

Events == [adapter : Adapters, old : EntryStates, new : States]

ASSUME NoEventAssumption  == NoEvent \notin Events

TypeOK ==
  /\ adapters \in [Adapters -> EntryStates \cup {"ABSENT"}]
  /\ pending \in [Tasks -> Events \cup {NoEvent}]
  /\ log \in Seq(Events)
  /\ watching \subseteq Watchers
  /\ since \in [Watchers -> Nat]
  /\ cursor \in [Watchers -> Nat]
  /\ skipped \in [Watchers -> Nat]
  /\ view \in [Watchers -> [Adapters -> States \cup {"unseen"}]]
  /\ \A w \in Watchers : since[w] <= cursor[w] /\ cursor[w] <= Len(log)

Blank == [a \in Adapters |-> "unseen"]

Init ==
  /\ adapters = [a \in Adapters |-> "ABSENT"]
  /\ pending = [t \in Tasks |-> NoEvent]
  /\ log = <<>>
  /\ watching = {}
  /\ since = [w \in Watchers |-> 0]
  /\ cursor = [w \in Watchers |-> 0]
  /\ skipped = [w \in Watchers |-> 0]
  /\ view = [w \in Watchers |-> Blank]

-----------------------------------------------------------------------------
(* A task holds the mutex from the change of the map to the send.          *)
Unlocked == \A t \in Tasks : pending[t] = NoEvent

(* create_adapter: a new entry, or one that replaces an old one.           *)
CreateAdapter(a) ==
  /\ Unlocked
  /\ adapters' = [adapters EXCEPT ![a] = "UNKNOWN"]
  /\ UNCHANGED <<pending, log, streams>>

RemoveAdapter(a) ==
  /\ Unlocked
  /\ adapters[a] # "ABSENT"
  /\ adapters' = [adapters EXCEPT ![a] = "ABSENT"]
  /\ UNCHANGED <<pending, log, streams>>

(* Mutant: the mutex is released before the event is sent.                *)
Transition_Unlocked(t, a, s) ==
  /\ pending[t] = NoEvent
  /\ Len(log) < MaxEvents
  /\ adapters[a] # "ABSENT"
  /\ pending' = [pending EXCEPT ![t] = [adapter |-> a, old |-> adapters[a], new |-> s]]
  /\ adapters' = [adapters EXCEPT ![a] = s]
  /\ UNCHANGED <<log, streams>>

(* transition up to the send: nothing for an id without an entry.          *)
Transition(t, a, s) ==
  /\ Unlocked
  /\ Len(log) < MaxEvents
  /\ adapters[a] # "ABSENT"
  /\ pending' = [pending EXCEPT ![t] = [adapter |-> a, old |-> adapters[a], new |-> s]]
  /\ adapters' = [adapters EXCEPT ![a] = s]
  /\ UNCHANGED <<log, streams>>

(* Mutant: the first event of an entry, out of UNKNOWN, is not sent.       *)
Send_Unless(t) ==
  /\ pending[t] # NoEvent
  /\ log' = IF pending[t].old = "UNKNOWN" THEN log ELSE Append(log, pending[t])
  /\ pending' = [pending EXCEPT ![t] = NoEvent]
  /\ UNCHANGED <<adapters, streams>>

(* The send and the end of transition.                                     *)
Send(t) ==
  /\ pending[t] # NoEvent
  /\ log' = Append(log, pending[t])
  /\ pending' = [pending EXCEPT ![t] = NoEvent]
  /\ UNCHANGED <<adapters, streams>>

-----------------------------------------------------------------------------
(* The oldest event in the ring comes after this many others.              *)
Overwritten == IF Len(log) > Capacity THEN Len(log) - Capacity ELSE 0

(* Mutant: the stream begins with what the ring still holds.               *)
Watch_Replay(w) ==
  /\ w \notin watching
  /\ watching' = watching \cup {w}
  /\ since' = [since EXCEPT ![w] = Len(log)]
  /\ cursor' = [cursor EXCEPT ![w] = Overwritten]
  /\ skipped' = [skipped EXCEPT ![w] = Overwritten]
  /\ view' = [view EXCEPT ![w] = Blank]
  /\ UNCHANGED <<adapters, pending, log>>

(* watch_adapter_states: subscribe() starts after the last event sent.     *)
Watch(w) ==
  /\ w \notin watching
  /\ watching' = watching \cup {w}
  /\ since' = [since EXCEPT ![w] = Len(log)]
  /\ cursor' = [cursor EXCEPT ![w] = Len(log)]
  /\ skipped' = [skipped EXCEPT ![w] = Len(log)]
  /\ view' = [view EXCEPT ![w] = Blank]
  /\ UNCHANGED <<adapters, pending, log>>

Hangup(w) ==
  /\ w \in watching
  /\ watching' = watching \ {w}
  /\ UNCHANGED <<adapters, pending, log, since, cursor, skipped, view>>

(* The next event is still in the ring and goes to the client.             *)
Deliver(w) ==
  /\ w \in watching
  /\ Overwritten <= cursor[w] /\ cursor[w] < Len(log)
  /\ LET e == log[cursor[w] + 1]
     IN view' = [view EXCEPT ![w][e.adapter] = e.new]
  /\ cursor' = [cursor EXCEPT ![w] = @ + 1]
  /\ UNCHANGED <<adapters, pending, log, watching, since, skipped>>

(* Mutant: a stream that fell behind subscribes anew.                      *)
SkipLag_Anew(w) ==
  /\ w \in watching
  /\ cursor[w] < Overwritten
  /\ cursor' = [cursor EXCEPT ![w] = Len(log)]
  /\ skipped' = [skipped EXCEPT ![w] = Len(log)]
  /\ UNCHANGED <<adapters, pending, log, watching, since, view>>

(* RecvError::Lagged moves the receiver to the oldest event of the ring;   *)
(* filter_map drops the error.                                             *)
SkipLag(w) ==
  /\ w \in watching
  /\ cursor[w] < Overwritten
  /\ cursor' = [cursor EXCEPT ![w] = Overwritten]
  /\ skipped' = [skipped EXCEPT ![w] = Overwritten]
  /\ UNCHANGED <<adapters, pending, log, watching, since, view>>

-----------------------------------------------------------------------------
Next ==
  \/ \E a \in Adapters : CreateAdapter(a) \/ RemoveAdapter(a)
  \/ \E t \in Tasks : \/ \E a \in Adapters, s \in States : Transition(t, a, s)
                      \/ Send(t)
  \/ \E w \in Watchers : Watch(w) \/ Hangup(w) \/ Deliver(w) \/ SkipLag(w)

Spec == Init /\ [][Next]_vars

(* transition does not await between lock and send; the server polls the   *)
(* streams of clients that read.                                           *)
FairSpec ==
  /\ Spec
  /\ \A t \in Tasks : WF_vars(Send(t))
  /\ \A w \in Watchers : WF_vars(Deliver(w)) /\ WF_vars(SkipLag(w))

-----------------------------------------------------------------------------
(* The event at i is the last one about a up to n.                         *)
IsLast(a, i, n) ==
  /\ i \in 1 .. n
  /\ log[i].adapter = a
  /\ \A k \in i + 1 .. n : log[k].adapter # a

CaughtUp(w) == w \in watching /\ Unlocked /\ cursor[w] = Len(log)

(* A stream that has read everything has told the state the map holds of   *)
(* each adapter with an event since it was opened, or that event was       *)
(* skipped, or the entry was removed or created anew without an event      *)
(* (07-REQ-8.3: the order of transitions is the order of events).          *)
ViewIsCurrent ==
  \A w \in Watchers, a \in Adapters : CaughtUp(w) =>
    \/ adapters[a] \in {"ABSENT", "UNKNOWN", view[w][a]}
    \/ \A i \in since[w] + 1 .. Len(log) : IsLast(a, i, Len(log)) => i <= skipped[w]

(* What a stream told comes from an event after it was opened (07-REQ-3.4) *)
(* and is older only than events it skipped.                               *)
ViewIsExplained ==
  \A w \in watching, a \in Adapters : view[w][a] # "unseen" =>
    \E i \in since[w] + 1 .. cursor[w] :
      /\ log[i].adapter = a /\ log[i].new = view[w][a]
      /\ \A k \in i + 1 .. cursor[w] : log[k].adapter = a => k <= skipped[w]

(* The events about one adapter follow on each other: each begins where    *)
(* the last one ended, or with a new entry (07-REQ-8.3).                   *)
EventsChain ==
  \A i \in 1 .. Len(log), k \in 1 .. Len(log) :
    i < k /\ IsLast(log[k].adapter, i, k - 1)
      => log[k].old \in {log[i].new, "UNKNOWN"}

(* What holds of "all active subscribers SHALL receive the corresponding   *)
(* AdapterStateEvent" (design of spec 07, Property 4; 07-REQ-3.3, 8.3): an *)
(* event goes to every stream that was open when it was sent and stays     *)
(* open, unless Capacity newer ones are sent.  Those that are overwritten  *)
(* first are lost, and the client is not told.                             *)
LostOnlyWhenOverwritten ==
  \A w \in Watchers, n \in 1 .. MaxEvents :
    w \in watching /\ since[w] < n /\ n <= Len(log)
      ~> \/ w \notin watching
         \/ skipped[w] < n /\ n <= cursor[w]
         \/ n + Capacity <= Len(log)
=============================================================================
