------------------------- MODULE UpdateEventsProofs -------------------------
(* What watchers may trust: for any number of adapters, tasks, watchers    *)
(* and events, and any capacity of the channel.                            *)
EXTENDS UpdateEvents, TLAPS

USE StatesAssumption, CapacityAssumption, BoundsAssumption, NoEventAssumption

(* What Append does to a log.                                              *)
LEMMA AppendFacts ==
  ASSUME NEW S, NEW s \in Seq(S), NEW e \in S
  PROVE  /\ Append(s, e) \in Seq(S)
         /\ Len(Append(s, e)) = Len(s) + 1
         /\ \A i \in 1 .. Len(s) : Append(s, e)[i] = s[i]
         /\ Append(s, e)[Len(s) + 1] = e
OBVIOUS

LEMMA EventParts ==
  ASSUME NEW e \in Events
  PROVE  e.adapter \in Adapters /\ e.old \in EntryStates /\ e.new \in States
BY DEF Events

(* The place where the ring begins is within the log.                      *)
LEMMA OverwrittenType ==
  ASSUME log \in Seq(Events)
  PROVE  Overwritten \in Nat /\ Overwritten <= Len(log)
BY DEF Overwritten

-----------------------------------------------------------------------------
(* Every state has the declared type.                                      *)
LEMMA TypeInit == Init => TypeOK
<1> SUFFICES ASSUME Init PROVE TypeOK
  OBVIOUS
<1>1. log \in Seq(Events) /\ Len(log) = 0
  BY DEF Init
<1>2. view \in [Watchers -> [Adapters -> States \cup {"unseen"}]]
  BY DEF Init, Blank
<1> QED
  BY <1>1, <1>2 DEF Init, TypeOK

LEMMA TypeStep == TypeOK /\ [Next]_vars => TypeOK'
<1> SUFFICES ASSUME TypeOK, [Next]_vars PROVE TypeOK'
  OBVIOUS
<1> USE DEF TypeOK
<1>1. ASSUME NEW a \in Adapters, CreateAdapter(a) \/ RemoveAdapter(a) PROVE TypeOK'
  BY <1>1 DEF CreateAdapter, RemoveAdapter, streams, EntryStates
<1>2. ASSUME NEW t \in Tasks, NEW a \in Adapters, NEW s \in States, Transition(t, a, s)
      PROVE  TypeOK'
  <2>1. [adapter |-> a, old |-> adapters[a], new |-> s] \in Events
    BY <1>2 DEF Transition, Events
  <2> QED
    BY <1>2, <2>1 DEF Transition, streams, EntryStates
<1>3. ASSUME NEW t \in Tasks, Send(t) PROVE TypeOK'
  <2>1. pending[t] \in Events
    BY <1>3 DEF Send
  <2>2. log' \in Seq(Events) /\ Len(log') = Len(log) + 1
    BY <1>3, <2>1, AppendFacts DEF Send
  <2> QED
    BY <1>3, <2>2 DEF Send, streams
<1>4. ASSUME NEW w \in Watchers, Watch(w) PROVE TypeOK'
  BY <1>4 DEF Watch, Blank
<1>5. ASSUME NEW w \in Watchers, Hangup(w) PROVE TypeOK'
  BY <1>5 DEF Hangup
<1>6. ASSUME NEW w \in Watchers, Deliver(w) PROVE TypeOK'
  <2>1. cursor[w] + 1 \in 1 .. Len(log)
    BY <1>6 DEF Deliver
  <2>2. log[cursor[w] + 1] \in Events
    BY <2>1
  <2>3. log[cursor[w] + 1].adapter \in Adapters /\ log[cursor[w] + 1].new \in States
    BY <2>2, EventParts
  <2>4. view' \in [Watchers -> [Adapters -> States \cup {"unseen"}]]
    BY <1>6, <2>3 DEF Deliver
  <2> QED
    BY <1>6, <2>1, <2>4 DEF Deliver
<1>7. ASSUME NEW w \in Watchers, SkipLag(w) PROVE TypeOK'
  BY <1>7, OverwrittenType DEF SkipLag
<1>8. CASE UNCHANGED vars
  BY <1>8 DEF vars, streams
<1> QED
  BY <1>1, <1>2, <1>3, <1>4, <1>5, <1>6, <1>7, <1>8 DEF Next

(* Type correctness, for every instance of the constants.                  *)
THEOREM TypeCorrect == Spec => []TypeOK
BY TypeInit, TypeStep, PTL DEF Spec

-----------------------------------------------------------------------------
(* The mutex: one task at a time is between the map and the channel.       *)
OneSender ==
  \A t, u \in Tasks : pending[t] # NoEvent /\ pending[u] # NoEvent => t = u

(* The map is where the last event about an adapter left it, or the entry  *)
(* is new or gone, or the next event is under way.                         *)
MapFollowsLog ==
  \A a \in Adapters, i \in 1 .. Len(log) : IsLast(a, i, Len(log)) =>
    \/ adapters[a] \in {"ABSENT", "UNKNOWN", log[i].new}
    \/ \E t \in Tasks : pending[t] # NoEvent /\ pending[t].adapter = a

(* An event under way is what made the map, and follows on the last one.   *)
PendingFollows ==
  \A t \in Tasks : pending[t] # NoEvent =>
    /\ adapters[pending[t].adapter] = pending[t].new
    /\ \A i \in 1 .. Len(log) :
         IsLast(pending[t].adapter, i, Len(log)) => pending[t].old \in {log[i].new, "UNKNOWN"}

(* What a stream told its client last is the last event it read.           *)
ViewFollows ==
  \A w \in watching, a \in Adapters, i \in 1 .. Len(log) :
    IsLast(a, i, cursor[w]) /\ i > since[w] /\ i > skipped[w] => view[w][a] = log[i].new

MapInv == OneSender /\ MapFollowsLog /\ PendingFollows /\ EventsChain

ViewInv == ViewFollows /\ ViewIsExplained

(* Events that are there stay where they are.                              *)
LEMMA LastStays ==
  ASSUME TypeOK, NEW t \in Tasks, Send(t)
  PROVE  /\ pending[t] \in Events
         /\ Len(log') = Len(log) + 1 /\ Len(log) \in Nat
         /\ \A i \in 1 .. Len(log) : log'[i] = log[i]
         /\ log'[Len(log) + 1] = pending[t]
         /\ \A a \in Adapters, n \in 0 .. Len(log), i \in 1 .. Len(log) :
              IsLast(a, i, n)' <=> IsLast(a, i, n)
         /\ \A a \in Adapters, i \in 1 .. Len(log) :
              IsLast(a, i, Len(log))' <=> IsLast(a, i, Len(log)) /\ pending[t].adapter # a
         /\ \A a \in Adapters :
              IsLast(a, Len(log), Len(log))' => a = pending[t].adapter
<1>1. pending[t] \in Events /\ log \in Seq(Events) /\ log' = Append(log, pending[t])
  BY DEF TypeOK, Send
<1>2. /\ Len(log') = Len(log) + 1 /\ Len(log) \in Nat
      /\ \A i \in 1 .. Len(log) : log'[i] = log[i]
      /\ log'[Len(log) + 1] = pending[t]
  BY <1>1, AppendFacts
<1>3. \A a \in Adapters, n \in 0 .. Len(log), i \in 1 .. Len(log) :
        IsLast(a, i, n)' <=> IsLast(a, i, n)
  BY <1>2 DEF IsLast
<1>4. \A a \in Adapters, i \in 1 .. Len(log) :
        IsLast(a, i, Len(log))' <=> IsLast(a, i, Len(log)) /\ pending[t].adapter # a
  <2> SUFFICES ASSUME NEW a \in Adapters, NEW i \in 1 .. Len(log)
               PROVE  IsLast(a, i, Len(log))' <=> IsLast(a, i, Len(log)) /\ pending[t].adapter # a
    OBVIOUS
  <2>1. \A k : k \in i + 1 .. Len(log) + 1 <=> k \in i + 1 .. Len(log) \/ k = Len(log) + 1
    BY <1>2
  <2>2. IsLast(a, i, Len(log))' <=>
          /\ log'[i].adapter = a
          /\ \A k \in i + 1 .. Len(log) + 1 : log'[k].adapter # a
    BY <1>2 DEF IsLast
  <2>3. \A k \in i + 1 .. Len(log) : log'[k] = log[k]
    BY <1>2
  <2> QED
    BY <1>2, <2>1, <2>2, <2>3 DEF IsLast
<1>5. \A a \in Adapters : IsLast(a, Len(log), Len(log))' => a = pending[t].adapter
  BY <1>2 DEF IsLast
<1> QED
  BY <1>1, <1>2, <1>3, <1>4, <1>5

LEMMA SendKeepsMap ==
  ASSUME TypeOK, MapInv, NEW t \in Tasks, Send(t)
  PROVE  MapInv'
<1> USE DEF MapInv
<1> DEFINE p == pending[t]
<1>1. /\ p # NoEvent /\ p \in Events
      /\ pending' = [pending EXCEPT ![t] = NoEvent] /\ adapters' = adapters
  BY LastStays DEF Send
<1>2. Unlocked'
  BY <1>1 DEF OneSender, Unlocked, TypeOK
<1>3. OneSender' /\ PendingFollows'
  BY <1>2 DEF OneSender, PendingFollows, Unlocked
<1>4. MapFollowsLog'
  <2> SUFFICES ASSUME NEW a \in Adapters, NEW i \in 1 .. Len(log'), IsLast(a, i, Len(log))'
               PROVE  adapters[a] \in {"ABSENT", "UNKNOWN", log'[i].new}
    BY <1>1 DEF MapFollowsLog
  <2>1. CASE i \in 1 .. Len(log)
    <3>1. IsLast(a, i, Len(log)) /\ p.adapter # a /\ log'[i] = log[i]
      BY <2>1, LastStays
    <3>2. \A u \in Tasks : pending[u] # NoEvent => pending[u].adapter # a
      BY <1>1, <3>1 DEF OneSender
    <3> QED
      BY <2>1, <3>1, <3>2 DEF MapFollowsLog
  <2>2. CASE i = Len(log')
    <3>1. a = p.adapter /\ log'[i] = p
      BY <2>2, LastStays
    <3> QED
      BY <1>1, <3>1 DEF PendingFollows
  <2> QED
    BY <2>1, <2>2, LastStays
<1>5. EventsChain'
  <2> SUFFICES ASSUME NEW i \in 1 .. Len(log'), NEW k \in 1 .. Len(log'), i < k,
                      IsLast(log[k].adapter, i, k - 1)'
               PROVE  log'[k].old \in {log'[i].new, "UNKNOWN"}
    BY DEF EventsChain
  <2>0. /\ Len(log) \in Nat /\ Len(log') = Len(log) + 1 /\ log'[Len(log) + 1] = p
        /\ i \in 1 .. Len(log) /\ log'[i] = log[i] /\ k - 1 \in 0 .. Len(log)
    BY LastStays
  <2>1. CASE k \in 1 .. Len(log)
    <3>1. log'[k] = log[k] /\ log[k] \in Events
      BY <2>1, LastStays DEF TypeOK
    <3>2. IsLast(log[k].adapter, i, k - 1)
      BY <2>0, <3>1, LastStays, EventParts
    <3> QED
      BY <2>0, <2>1, <3>1, <3>2 DEF EventsChain
  <2>2. CASE k = Len(log) + 1
    <3>1. IsLast(p.adapter, i, Len(log))
      BY <1>1, <2>0, <2>2, LastStays, EventParts
    <3> QED
      BY <1>1, <2>0, <2>2, <3>1 DEF PendingFollows
  <2> QED
    BY <2>0, <2>1, <2>2
<1> QED
  BY <1>3, <1>4, <1>5

LEMMA MapStep == TypeOK /\ MapInv /\ [Next]_vars => MapInv'
<1> SUFFICES ASSUME TypeOK, MapInv, [Next]_vars PROVE MapInv'
  OBVIOUS
<1> USE DEF MapInv
<1>1. ASSUME NEW a \in Adapters, CreateAdapter(a) \/ RemoveAdapter(a) PROVE MapInv'
  <2>1. Unlocked /\ UNCHANGED <<pending, log>>
    BY <1>1 DEF CreateAdapter, RemoveAdapter
  <2>2. \A b \in Adapters : adapters'[b] \in {"ABSENT", "UNKNOWN", adapters[b]}
    BY <1>1 DEF CreateAdapter, RemoveAdapter, TypeOK
  <2>3. OneSender' /\ PendingFollows' /\ EventsChain'
    BY <2>1 DEF OneSender, PendingFollows, Unlocked, EventsChain, IsLast
  <2>4. MapFollowsLog'
    BY <2>1, <2>2 DEF MapFollowsLog, Unlocked, IsLast
  <2> QED
    BY <2>3, <2>4
<1>2. ASSUME NEW t \in Tasks, NEW a \in Adapters, NEW s \in States, Transition(t, a, s)
      PROVE  MapInv'
  <2>1. /\ Unlocked /\ log' = log /\ adapters[a] # "ABSENT"
        /\ pending' = [pending EXCEPT ![t] = [adapter |-> a, old |-> adapters[a], new |-> s]]
        /\ adapters' = [adapters EXCEPT ![a] = s]
    BY <1>2 DEF Transition
  <2>2. [adapter |-> a, old |-> adapters[a], new |-> s] \in Events
    BY <2>1 DEF TypeOK, Events
  <2>3. \A u \in Tasks : pending'[u] # NoEvent => u = t
    BY <2>1 DEF Unlocked, TypeOK
  <2>4. pending'[t] # NoEvent /\ pending'[t].adapter = a
          /\ pending'[t].old = adapters[a] /\ pending'[t].new = s
    BY <2>1, <2>2 DEF TypeOK
  <2>5. OneSender' /\ EventsChain'
    BY <2>1, <2>3 DEF OneSender, EventsChain, IsLast
  <2>6. \A i \in 1 .. Len(log) : IsLast(a, i, Len(log)) =>
          adapters[a] \in {log[i].new, "UNKNOWN"}
    BY <2>1 DEF MapFollowsLog, Unlocked
  <2>7. PendingFollows'
    <3>1. \A i : IsLast(a, i, Len(log))' <=> IsLast(a, i, Len(log))
      BY <2>1 DEF IsLast
    <3>2. adapters'[a] = s
      BY <2>1 DEF TypeOK
    <3> QED
      BY <2>1, <2>3, <2>4, <2>6, <3>1, <3>2 DEF PendingFollows
  <2>8. MapFollowsLog'
    <3> SUFFICES ASSUME NEW b \in Adapters, NEW i \in 1 .. Len(log), IsLast(b, i, Len(log))
                 PROVE  \/ adapters'[b] \in {"ABSENT", "UNKNOWN", log[i].new}
                        \/ \E u \in Tasks : pending'[u] # NoEvent /\ pending'[u].adapter = b
      BY <2>1 DEF MapFollowsLog, IsLast
    <3>1. CASE b = a
      BY <2>4, <3>1
    <3>2. CASE b # a
      BY <2>1, <3>2 DEF MapFollowsLog, Unlocked, TypeOK
    <3> QED
      BY <3>1, <3>2
  <2> QED
    BY <2>5, <2>7, <2>8
<1>3. ASSUME NEW t \in Tasks, Send(t) PROVE MapInv'
  BY <1>3, SendKeepsMap
<1>4. CASE UNCHANGED <<adapters, pending, log>>
  BY <1>4 DEF OneSender, PendingFollows, MapFollowsLog, EventsChain, IsLast
<1>5. ASSUME NEW w \in Watchers, Watch(w) \/ Hangup(w) \/ Deliver(w) \/ SkipLag(w)
      PROVE  UNCHANGED <<adapters, pending, log>>
  BY <1>5 DEF Watch, Hangup, Deliver, SkipLag
<1> QED
  BY <1>1, <1>2, <1>3, <1>4, <1>5 DEF Next, vars

LEMMA MapInit == Init => MapInv
BY DEF Init, MapInv, OneSender, MapFollowsLog, PendingFollows, EventsChain

(* Events about one adapter follow on each other.                          *)
THEOREM EventsFollow == Spec => []EventsChain
<1>1. MapInv => EventsChain
  BY DEF MapInv
<1> QED
  BY <1>1, TypeInit, TypeStep, MapInit, MapStep, PTL DEF Spec

-----------------------------------------------------------------------------
(* Steps of tasks leave the streams alone, and the events they have read.  *)
LEMMA TasksKeepViews ==
  ASSUME TypeOK, ViewInv, UNCHANGED streams,
         UNCHANGED log \/ \E t \in Tasks : Send(t)
  PROVE  ViewInv'
<1> USE DEF ViewInv, streams
<1>0. \A w \in watching : since[w] \in Nat /\ cursor[w] \in 0 .. Len(log)
  BY DEF TypeOK
<1>1. /\ Len(log) \in Nat /\ Len(log') \in Nat /\ Len(log) <= Len(log')
      /\ \A i \in 1 .. Len(log) : log'[i] = log[i]
  BY LastStays DEF TypeOK
<1>2. ViewFollows'
  <2> SUFFICES ASSUME NEW w \in watching, NEW a \in Adapters, NEW i \in 1 .. Len(log'),
                      IsLast(a, i, cursor[w])', i > since[w], i > skipped[w]
               PROVE  view[w][a] = log'[i].new
    BY DEF ViewFollows
  <2>1. i \in 1 .. cursor[w] /\ i \in 1 .. Len(log)
    BY <1>0, <1>1 DEF IsLast
  <2>2. IsLast(a, i, cursor[w])
    BY <1>0, <1>1, <2>1 DEF IsLast
  <2> QED
    BY <1>1, <2>1, <2>2 DEF ViewFollows
<1>3. ViewIsExplained'
  <2> SUFFICES ASSUME NEW w \in watching, NEW a \in Adapters, view[w][a] # "unseen"
               PROVE  \E i \in since[w] + 1 .. cursor[w] :
                        /\ log'[i].adapter = a /\ log'[i].new = view[w][a]
                        /\ \A k \in i + 1 .. cursor[w] : log'[k].adapter = a => k <= skipped[w]
    BY DEF ViewIsExplained
  <2>1. PICK i \in since[w] + 1 .. cursor[w] :
          /\ log[i].adapter = a /\ log[i].new = view[w][a]
          /\ \A k \in i + 1 .. cursor[w] : log[k].adapter = a => k <= skipped[w]
    BY DEF ViewIsExplained
  <2> WITNESS i \in since[w] + 1 .. cursor[w]
  <2> QED
    BY <1>0, <1>1, <2>1
<1> QED
  BY <1>2, <1>3

(* The next event becomes what the stream told of its adapter.             *)
LEMMA DeliverKeepsViews ==
  ASSUME TypeOK, ViewInv, NEW w \in Watchers, Deliver(w)
  PROVE  ViewInv'
<1> USE DEF ViewInv
<1> DEFINE c == cursor[w] + 1
           e == log[c]
<1>1. /\ cursor[w] \in Nat /\ since[w] \in Nat /\ since[w] <= cursor[w]
      /\ c \in 1 .. Len(log) /\ e \in Events
  BY DEF TypeOK, Deliver
<1>2. e.adapter \in Adapters /\ e.new \in States
  BY <1>1, EventParts
<1>3. /\ UNCHANGED <<log, watching, since, skipped>>
      /\ cursor' = [cursor EXCEPT ![w] = c]
      /\ view' = [view EXCEPT ![w][e.adapter] = e.new]
  BY DEF Deliver, TypeOK
<1>4. /\ \A x \in Watchers \ {w} : cursor'[x] = cursor[x] /\ view'[x] = view[x]
      /\ cursor'[w] = c
      /\ view'[w][e.adapter] = e.new
      /\ \A a \in Adapters \ {e.adapter} : view'[w][a] = view[w][a]
  <2> HIDE DEF e, c
  <2> QED
    BY <1>2, <1>3 DEF TypeOK
<1> HIDE DEF e
<1>5. ViewFollows'
  <2> SUFFICES ASSUME NEW x \in watching, NEW a \in Adapters, NEW i \in 1 .. Len(log),
                      IsLast(a, i, cursor[x])', i > since[x], i > skipped[x]
               PROVE  view'[x][a] = log[i].new
    BY <1>3 DEF ViewFollows
  <2>0. x \in Watchers
    BY DEF TypeOK
  <2>1. CASE x # w
    <3>1. IsLast(a, i, cursor[x])
      BY <1>3, <1>4, <2>0, <2>1 DEF IsLast
    <3> QED
      BY <1>4, <2>0, <2>1, <3>1 DEF ViewFollows
  <2>2. CASE x = w
    <3>1. /\ i \in 1 .. c /\ log[i].adapter = a
          /\ \A k \in i + 1 .. c : log[k].adapter # a
      BY <1>3, <1>4, <2>2 DEF IsLast
    <3>2. CASE i = c
      BY <1>4, <2>2, <3>1, <3>2 DEF e
    <3>3. CASE i # c
      <4>1. e.adapter # a
        BY <1>1, <3>1, <3>3 DEF e
      <4>2. IsLast(a, i, cursor[w])
        BY <1>1, <3>1, <3>3 DEF IsLast
      <4> QED
        BY <1>4, <2>2, <4>1, <4>2 DEF ViewFollows
    <3> QED
      BY <3>2, <3>3
  <2> QED
    BY <2>1, <2>2
<1>6. ViewIsExplained'
  <2> SUFFICES ASSUME NEW x \in watching, NEW a \in Adapters, view'[x][a] # "unseen"
               PROVE  \E i \in since[x] + 1 .. cursor'[x] :
                        /\ log[i].adapter = a /\ log[i].new = view'[x][a]
                        /\ \A k \in i + 1 .. cursor'[x] : log[k].adapter = a => k <= skipped[x]
    BY <1>3 DEF ViewIsExplained
  <2>0. x \in Watchers
    BY DEF TypeOK
  <2>1. CASE x # w
    BY <1>4, <2>0, <2>1 DEF ViewIsExplained
  <2>2. CASE x = w /\ a = e.adapter
    <3>1. /\ c \in since[x] + 1 .. cursor'[x]
          /\ log[c].adapter = a /\ log[c].new = view'[x][a]
          /\ \A k \in c + 1 .. cursor'[x] : log[k].adapter = a => k <= skipped[x]
      BY <1>1, <1>4, <2>2 DEF e
    <3> QED
      BY <3>1
  <2>3. CASE x = w /\ a # e.adapter
    <3>1. view'[x][a] = view[x][a]
      BY <1>4, <2>3
    <3>2. PICK i \in since[x] + 1 .. cursor[x] :
            /\ log[i].adapter = a /\ log[i].new = view[x][a]
            /\ \A k \in i + 1 .. cursor[x] : log[k].adapter = a => k <= skipped[x]
      BY <3>1 DEF ViewIsExplained
    <3>3. i \in since[x] + 1 .. cursor'[x]
      BY <1>1, <1>4, <2>3
    <3>4. \A k \in i + 1 .. cursor'[x] : log[k].adapter = a => k <= skipped[x]
      <4> SUFFICES ASSUME NEW k \in i + 1 .. cursor'[x], log[k].adapter = a
                   PROVE  k <= skipped[x]
        OBVIOUS
      <4>1. k # c
        BY <2>3 DEF e
      <4>2. k \in i + 1 .. cursor[x]
        BY <1>1, <1>4, <2>3, <4>1
      <4> QED
        BY <3>2, <4>2
    <3> QED
      BY <3>1, <3>2, <3>3, <3>4
  <2> QED
    BY <2>1, <2>2, <2>3
<1> QED
  BY <1>5, <1>6

(* A stream that falls behind, opens or closes.                            *)
LEMMA SkipKeepsViews ==
  ASSUME TypeOK, ViewInv, NEW w \in Watchers, SkipLag(w)
  PROVE  ViewInv'
<1> USE DEF ViewInv
<1>1. /\ UNCHANGED <<log, watching, since, view>>
      /\ cursor[w] < Overwritten /\ cursor[w] \in Nat /\ Overwritten \in Nat
      /\ \A x \in Watchers \ {w} : cursor'[x] = cursor[x] /\ skipped'[x] = skipped[x]
      /\ cursor'[w] = Overwritten /\ skipped'[w] = Overwritten
      /\ watching \subseteq Watchers /\ since[w] \in Nat
  BY OverwrittenType DEF SkipLag, TypeOK
<1>2. ViewFollows'
  BY <1>1 DEF ViewFollows, IsLast
<1>3. ViewIsExplained'
  <2> SUFFICES ASSUME NEW x \in watching, NEW a \in Adapters, view[x][a] # "unseen"
               PROVE  \E i \in since[x] + 1 .. cursor'[x] :
                        /\ log[i].adapter = a /\ log[i].new = view[x][a]
                        /\ \A k \in i + 1 .. cursor'[x] : log[k].adapter = a => k <= skipped'[x]
    BY <1>1 DEF ViewIsExplained
  <2>1. PICK i \in since[x] + 1 .. cursor[x] :
          /\ log[i].adapter = a /\ log[i].new = view[x][a]
          /\ \A k \in i + 1 .. cursor[x] : log[k].adapter = a => k <= skipped[x]
    BY DEF ViewIsExplained
  <2>2. CASE x = w
    <3>1. i \in since[x] + 1 .. cursor'[x]
      BY <1>1, <2>1, <2>2
    <3>2. \A k \in i + 1 .. cursor'[x] : k <= skipped'[x]
      BY <1>1, <2>1, <2>2
    <3> QED
      BY <2>1, <3>1, <3>2
  <2>3. CASE x # w
    BY <1>1, <2>1, <2>3
  <2> QED
    BY <2>2, <2>3
<1> QED
  BY <1>2, <1>3

LEMMA WatchKeepsViews ==
  ASSUME TypeOK, ViewInv, NEW w \in Watchers, Watch(w) \/ Hangup(w)
  PROVE  ViewInv'
<1> USE DEF ViewInv
<1>1. CASE Watch(w)
  <2>1. /\ log' = log /\ watching' = watching \cup {w} /\ watching \subseteq Watchers
        /\ \A x \in Watchers \ {w} : /\ cursor'[x] = cursor[x] /\ skipped'[x] = skipped[x]
                                     /\ since'[x] = since[x] /\ view'[x] = view[x]
        /\ cursor'[w] = Len(log) /\ since'[w] = Len(log) /\ view'[w] = Blank
        /\ Len(log) \in Nat
    BY <1>1 DEF Watch, TypeOK
  <2>2. ViewFollows'
    BY <2>1 DEF ViewFollows, IsLast
  <2>3. ViewIsExplained'
    BY <2>1 DEF ViewIsExplained, Blank
  <2> QED
    BY <2>2, <2>3
<1>2. CASE Hangup(w)
  BY <1>2 DEF Hangup, ViewFollows, ViewIsExplained, IsLast
<1> QED
  BY <1>1, <1>2

LEMMA ViewStep == TypeOK /\ ViewInv /\ [Next]_vars => ViewInv'
<1> SUFFICES ASSUME TypeOK, ViewInv, [Next]_vars PROVE ViewInv'
  OBVIOUS
<1>1. ASSUME NEW a \in Adapters, CreateAdapter(a) \/ RemoveAdapter(a) PROVE ViewInv'
  BY <1>1, TasksKeepViews DEF CreateAdapter, RemoveAdapter
<1>2. ASSUME NEW t \in Tasks, NEW a \in Adapters, NEW s \in States, Transition(t, a, s)
      PROVE  ViewInv'
  BY <1>2, TasksKeepViews DEF Transition
<1>3. ASSUME NEW t \in Tasks, Send(t) PROVE ViewInv'
  BY <1>3, TasksKeepViews DEF Send
<1>4. ASSUME NEW w \in Watchers, Watch(w) \/ Hangup(w) PROVE ViewInv'
  BY <1>4, WatchKeepsViews
<1>5. ASSUME NEW w \in Watchers, Deliver(w) PROVE ViewInv'
  BY <1>5, DeliverKeepsViews
<1>6. ASSUME NEW w \in Watchers, SkipLag(w) PROVE ViewInv'
  BY <1>6, SkipKeepsViews
<1>7. CASE UNCHANGED vars
  BY <1>7, TasksKeepViews DEF vars, streams
<1> QED
  BY <1>1, <1>2, <1>3, <1>4, <1>5, <1>6, <1>7 DEF Next

LEMMA ViewInit == Init => ViewInv
BY DEF Init, ViewInv, ViewFollows, ViewIsExplained

(* What a stream told comes from an event it was owed, and only skipped    *)
(* events are newer.                                                       *)
THEOREM ViewsExplained == Spec => []ViewIsExplained
<1>1. ViewInv => ViewIsExplained
  BY DEF ViewInv
<1> QED
  BY <1>1, TypeInit, TypeStep, ViewInit, ViewStep, PTL DEF Spec

(* A stream that has caught up has told the state of the map, unless the   *)
(* last event was skipped: from how the map follows the log and how the    *)
(* stream does.                                                            *)
THEOREM ViewsCurrent == Spec => []ViewIsCurrent
<1>1. TypeOK /\ MapInv /\ ViewInv => ViewIsCurrent
  <2> SUFFICES ASSUME TypeOK, MapInv, ViewInv, NEW w \in Watchers, NEW a \in Adapters,
                      CaughtUp(w), adapters[a] \notin {"ABSENT", "UNKNOWN", view[w][a]},
                      NEW i \in since[w] + 1 .. Len(log), IsLast(a, i, Len(log))
               PROVE  i <= skipped[w]
    BY DEF ViewIsCurrent
  <2>1. /\ i \in 1 .. Len(log) /\ i > since[w]
        /\ skipped[w] \in Nat /\ w \in watching /\ cursor[w] = Len(log)
    BY DEF TypeOK, CaughtUp
  <2>2. adapters[a] = log[i].new
    BY <2>1 DEF MapInv, MapFollowsLog, CaughtUp, Unlocked
  <2>3. i > skipped[w] => view[w][a] = log[i].new
    BY <2>1 DEF ViewInv, ViewFollows
  <2> QED
    BY <2>1, <2>2, <2>3
<1> QED
  BY <1>1, TypeInit, TypeStep, MapInit, MapStep, ViewInit, ViewStep, PTL DEF Spec
=============================================================================
