# Verification of the parking-fee-service demonstrator

TLA+ models of the concurrent parts of this repository, TLC configurations that
check them on small instances, and TLAPS proofs of what matters most for every
size. Paths are relative to the repository, which is referred to as `src/`.

## 1. Inventory

```
 companion app --REST--> cloud-gateway --NATS--> cloud-gateway-client
                                                      |  (vehicle)
                                                 DATA_BROKER  <-- sensors
                                     commands, answers |  IsLocked, SessionActive
                                   locking-service ----+---- parking-operator-adaptor
                                                                 |        ^
                                                   PARKING_OPERATOR       | gRPC
                                                                          |
 parking app --REST--> parking-fee-service (zones)      parking app ------+
             --gRPC--> update-service --podman--> adapter containers
```

| Component | State | Operations | Interacts by | What is hard | What makes it correct |
|---|---|---|---|---|---|
| `rhivos/parking-operator-adaptor` | one session in memory, an event channel of 32, the task's current call | start/stop by lock event or by gRPC, status and rate queries, shutdown | subscription of IsLocked, publication of SessionActive, REST with 3 retries, 4 gRPC handlers | retries of a non-idempotent start, failed publications, several writers of one channel, shutdown under load, restart | no session is charged for without a reason, the signal follows the session, replies can be trusted, calls and shutdown end, the session follows the lock |
| `rhivos/update-service` | a map of adapters behind a mutex, images and containers in podman | install, remove, status, container monitors, the offload timer | gRPC, podman commands, event broadcast | every podman command is a suspension point; monitors report late; the offload cycle works on a snapshot; a handler dropped by its client | one adapter RUNNING, no adapter stuck or unwatched, documented transitions only, idle adapters are offloaded, nothing is left in podman |
| `rhivos/locking-service` | `lock_state`, the attempts to resubscribe | lock, unlock, refusals | subscription of the command signal, readings of speed and door, publications of IsLocked and of the response | partial failure of a command, stale readings, streams that end, replayed commands, restart | IsLocked is the lock remembered, no lock on an unsafe vehicle, answers in order, the last command is answered |
| `rhivos/cloud-gateway-client` | the last telemetry values | forward commands to the broker, relay answers and telemetry to NATS | NATS, DATA_BROKER | validation of commands, three concurrent relays, lost or repeated messages, telemetry that publishes on change only | no invalid command reaches the vehicle, answers are relayed unaltered, telemetry ends up current |
| `backend/cloud-gateway` | a store of command states with one timer per command | submit a command, read its state, take an answer or a timeout, drain at shutdown | REST, NATS | the timer is started after the publication; an answer and the timer race; ids may be reused | a command has one outcome, an answered command does not become a timeout |
| `backend/parking-fee-service` | none that changes | zones near a position, operators, health | REST | the geometry of a point in a polygon and its distance to the edge | the zones found are those that contain the point or are near enough |
| `mock/parking-operator` | sessions by id | start, stop, status | REST | each start makes a new session | the counterpart of the adaptor |
| command line tools, `mock-sensors` | none | one request each | REST, gRPC, DATA_BROKER | nothing | - |
| DATA_BROKER (Kuksa), NATS, podman | third-party | | | modelled as far as our code uses them | - |
| `gen/`, `proto/`, `android/`, `mobile/` | generated, declarative or empty | | | | - |

`PROJECT.json` lists each with its status, and under `hazards` the places in the
code that tests hardly reach, with the property that watches each.

## 2. Modules

| Module | Models | Theorems |
|---|---|---|
| `ParkingAdaptor` | the adaptor with operator, broker and callers | `ParkingAdaptorProofs` |
| `ParkingBilling` | abstract: what the adaptor promises about an operator's books | `ParkingBillingProofs` |
| `UpdateService` | the update service with podman and its clients | `UpdateServiceProofs` |
| `UpdateEvents` | the update service's state events and the streams that read them | `UpdateEventsProofs` |
| `LockingService` | the locking service with broker, sensors and senders | `LockingServiceProofs` |
| `CloudGateway` | the gateway with its store, timers, NATS and the vehicles it hears of | `CloudGatewayProofs` |
| `CommandLedger` | abstract: what the gateway promises about a command's outcome | `CloudGatewayProofs` |
| `CloudGatewayClient` | the client in the vehicle: startup and three relays | `VehiclePathProofs` |
| `VehiclePath` | composition: client, DATA_BROKER and locking service | `VehiclePathProofs` |
| `CommandPath` | composition: gateway, NATS and client | `CloudGatewayProofs` |
| `ParkingZones` | the location lookup of the parking-fee-service | `ParkingZonesProofs` |
| `MC...` | the values TLC needs | |

Compositions. `VehiclePath` EXTENDS `LockingService` and takes
`CloudGatewayClient` as an INSTANCE whose `dataBroker` is an expression over the
locking service's `broker`: what one side writes is what the other side's stream
gets. `CommandPath` EXTENDS `CloudGateway` and hands to the client instance
what `PublishCommand` published.

Conventions. Environment events that may happen any number of times are bounded
by a `Budget` (or `Limits`, `MaxFailures`, `MaxCrashes`, `MaxEvents`); the proofs
hold for every budget. Each module has one type invariant; it is the first part
of the inductive invariant that its proof module proves, and no run repeats it.
A definition `X_Suffix` next to `X` is a variant of `X` with a plausible bug: it
occurs in no specification and is there to show, by replacing `X`, that a property
can fail. `PROJECT.json` maps each definition to its lines of code.

### ParkingAdaptor

`phase` is the place in `main.rs::run`: SessionActive is published as false
before the subscription, shutdown drains the gRPC server, aborts the lock
forwarder and closes the channel; only then the event loop and the process end.
`feed` is the path from the broker to the forwarder, `queue` the channel, `loop`
the event loop with its current attempt, `calls` the handlers. An operator's
request is two steps: the effect at the operator, and the arrival of the answer,
which may be lost (retried), garbled (not retried) or a rejection (retried).
Times between retries are left out. A publication that
fails may have been stored. `StartSession` is two events, as in `grpc_server.rs`,
and others may come between them. The operator names sessions 1, 2, 3...
`operator.rateKey` is the key under which it sends the rate type: with the one of the
repository's own operator every answer to a start ends as a garbled one does
(`Readable`).

`ParkingBilling` has four actions: a session is opened only while none is
tracked, only the tracked session is closed, the tracked session may be lost by a
disruption, and the operator may lose its books. The refinement maps `tracked` to
the session the adaptor can still stop: the one in memory or the one in an answer
that is on its way.

### UpdateService

Each task (install, monitor, remove, offload cycle) has a program counter; every
access to the map under the mutex and every podman command is one step.
`adapters[a].stoppedAt` abstracts `stopped_at` to "never", "recent" and "expired".
`Transition` does nothing on a missing entry, as in `state.rs`.
Podman is external: `run` refuses a name in use and pulls a missing image, `rm`
refuses a running or missing container, `rmi` an image in use. A request whose
client goes away is dropped at the await it is in. `Restart` loses the map, the
tasks and the monitors but not the containers.

### LockingService

One task. `task.pc` is the RPC it awaits: the readings of `check_safety`
(speed first, then door), `set_bool` of IsLocked, `set_string` of the response.
Payloads are reduced to their kind, which says what parsing and validation make
of them. `inbox` stands for the stream and the channel of 32 behind it; a stream
that ends loses what was not yet read, and a new one begins with the current
command. `lock_state` changes although `set_bool` failed, as in `process.rs`.
`lasting` is a history variable: the hazards that have been there ever since the
command was taken. The command id is the command's place in the order of
publications.

### CloudGateway

`phase` is the place in `main.go`; `posts` the handlers of POST /commands,
`timers` the store's map from ids to timers, `alarms` the Go timers themselves.
`time.AfterFunc` gives three steps: a timer is armed, becomes "due" (its function
has been started and waits for the store's mutex, so `Stop` returns false) and
runs. `Publish` and `StartTimeout` are two steps because the handler does them in
that order without the mutex; an answer may come between. Timers are named after
the request that started them, since an id may be submitted twice: then the map
has one entry for two timers, and each deletes the other's. The subscription's
callback stores any answer, for unknown ids and second answers too. `Drain` and
`srv.Shutdown` let handlers end; `Exit` forgets store and timers.

`CommandLedger` is the promise: a command sent has no outcome, then possibly
"timeout", then possibly the vehicle's answer, and never goes back; the service
may forget everything at once, as its store is in memory.

### CloudGatewayClient and VehiclePath

`stage` is the next step of `main.rs`, each of which ends the process when it
fails; then three loops share nothing. `commandSub` holds what NATS delivered
and the command loop has not read (nothing is delivered to a client that is
not subscribed). `responseStream` and `telemetryStream` are broker subscriptions:
they begin with the current values, get every later write, and one that ends is
not subscribed again while the process goes on. `known` is `TelemetryState`:
only a value that changes is published, and a publication that fails counts as
done. In the broker the `write` of a command
is the publication the locking service is subscribed to, and its answers and IsLocked are
what the client's streams carry. Payloads are reduced to their keys and kind.

`CommandPath` knows of a payload only what the two programs disagree about: the
JSON names of its fields, from `model.go` and from `command_validator.rs`. A
vehicle answers only when a command was written to its DATA_BROKER.

### UpdateEvents

`UpdateService` leaves the events out; here tasks make any transition, and the
subject is the broadcast channel: `log` is all that was ever sent, of which the
ring keeps the last `Capacity`. `transition` changes the map and sends before it
releases the mutex, so `Transition` and `Send` are two steps with the mutex
between (`Unlocked`). A stream that finds its place overwritten moves to the
oldest event of the ring without telling its client (`SkipLag`).
`create_adapter` and `remove_adapter` send nothing.

### ParkingZones

The loops of `NewStore`, `FindMatchingZones`, `PointInPolygon` and
`GetOperatorsByZoneIDs` are actions, one turn at a time (`stage` says which loop
runs); the distance of a point to an edge is the operator `SegmentWithin`. Nothing
is asked before `Listen`, and the two maps do not change after it.
Coordinates are integers on a flat grid and arithmetic is exact: the Haversine
distance becomes the squared Euclidean one, the factor cos(latitude) is 1, and
"the minimum over the edges is within the threshold" is "some edge is within it".
Rounding, NaN and the poles are therefore out of what is shown. The references it
is checked against use none of the code's algorithms: orientations of the
triangles of a fan for "inside", all points t = k / len of an edge for "near".

## 3. Runs

Runs that pass:

| Run | Question | Instance |
|---|---|---|
| `adaptor_faults` | Are the books and the signal right, and does the adaptor implement ParkingBilling, when every fault happens? | one caller, who may hang up, channel of 1, 1 retry, a vehicle locked or unlocked at the beginning and one lock change, one each of refused, lost, garbled answers, failed publication, end of the stream, crash, shutdown; operators of both kinds |
| `adaptor_races` | Can replies be trusted, do calls and shutdown end, and does the session of a calm adaptor come to follow the lock? | two callers of any RPC, channel of 1, 1 retry, one lock change, one refused request, an operator restart, a shutdown; operators of both kinds |
| `update_overlap` | Is any adapter ever stuck or unwatched, and do passing states pass? | two overlapping installs of one adapter, both with the right checksum, so that the monitor of the first may report when the second is RUNNING; a removal, the offload timer, one unexplained podman failure, one restart |
| `update_once` | At most one RUNNING adapter, no stray containers, with clients that wait? | three adapters, one install each, one of them with a wrong checksum, a removal, the offload timer, one unexplained podman failure; restarts are in `update_overlap` and in the proofs |
| `locking_faults` | All properties of the locking service | two commands of any kind, one change of a sensor, one failure of each RPC, two ends of the stream with 1 attempt to resubscribe, a crash, a shutdown |
| `gateway` | Do timers and answers race to the right outcome, is every accepted command decided, and does the gateway implement CommandLedger? | two submissions of one id and an invalid one, three answers (early, late, repeated), one loss in NATS, a crash, a shutdown, 2 attempts to connect |
| `vehicle_path` | Do answers and telemetry reach the cloud right, over both processes? | two messages of three kinds (lock, unlock, empty id), any two mishaps out of: a refused connection, a failed startup step, publication or write, a stream that ends, a crash of either process, a failed reading or publication of the locking service, a sensor that changes, a change of SessionActive |
| `update_watch` | What do watchers know of the adapters? | two tasks, two adapters, two states, three events in a ring of two, one watcher that comes and goes |
| `parking_zones` | Do the loops find the zones the definition says, and the reply their operators? | all 243 triangles on a 3x3 grid with one vertex on an edge of it, and lists of three zones out of a square, an L with points whose ray runs along an edge and that are inside, a concave and a self-crossing shape, a segment, a point and nothing; triangles with edges of length zero; all 35 points in and around; threshold 1; two operators in one zone, one in none, one id used twice |

Runs that show where the program does not do what its documents say (each ends in
a counterexample; `findings` quotes the documents):

- `adaptor_own_operator`: three lock changes, nothing fails and nobody calls, but
  the operator is the repository's own. It sends the rate type under `rate_type`
  (`mock/parking-operator/server/server.go:16`), as the adaptor's `prd.md` has it
  too; the adaptor requires `type` (`rhivos/parking-operator-adaptor/src/operator.rs:26`).
  Each start opens a session at the operator that the adaptor never holds:
  `FollowsLock` (08-REQ-3.3 and 3.4) fails. `OwnOperatorNeverHeld` says so for any
  number of callers and faults.
- `update_two_running`: overlapping installs leave two adapters RUNNING.
- `command_format`: the gateway marshals the action of a command under the key
  "type", the client refuses a payload without the key "action": no command of
  the gateway gets past the vehicle's validation. The theorem
  `CommandsEndInTimeouts` says the same of any number of commands and faults, and
  what follows: no query ever finds a vehicle's answer.

Known disagreements without a run:

- A `StartSession` reply may name a session that another call started: the
  handler asks for the session with a second event
  (`rhivos/parking-operator-adaptor/src/grpc_server.rs:59`). The requirement
  08-REQ-1.2 has the call start a session and return its id.
  `StartReplyNotOlder` is what does hold.
- After a failed publication of SessionActive the signal keeps its old value until
  the next start or stop, while
  `.agent-fox/specs/08_parking_operator_adaptor/design.md:323` has it always match.
  `SignalFollowsSession` states what holds until then.
- Stopping an adapter for the next install makes its monitor report too, along
  transitions that Property 3 of the update service's design excludes.
- The offload cycle works on a snapshot and offloads an adapter that is being
  installed again, against Property 6 of the same design.
- A watcher that falls more than 256 events behind loses the oldest of them and is
  not told (`rhivos/update-service/src/grpc.rs:106`), while Property 4 of the same
  design (`.agent-fox/specs/07_update_service/design.md:247`), 07-REQ-3.3 and
  07-REQ-8.3 have all active subscribers receive every event. The loss occurs in
  `update_watch`; `LostOnlyWhenOverwritten` states what holds: nothing else is lost.
- A lock command is answered with a success although IsLocked was not published
  (`rhivos/locking-service/src/process.rs:63`), and later ones skip the
  publication; Property 4 of the locking service's design has success imply the
  signal. `StateIsPublished` states what holds while publications work.
- Property 6 of `06_cloud_gateway/design.md` has an answer cancel the timer. If the
  answer comes before `StartTimeout` there is nothing to cancel and the timer
  runs out later; it finds an outcome and does nothing (`AnswerStands`).

Further behaviour that the models show and no document speaks of: of an id that
was submitted twice, the first timer may time out the second submission, and an
answer to the first stands for both; the monitor of a container
that ended may report after the next install of its adapter is RUNNING, and marks it
STOPPED or ERROR while the new container runs; streams of the locking service that
break before the command delivered anew is worked off use up its attempts to
resubscribe; a failed `write_command` is never told to
the cloud; the client announces itself as online before it is subscribed to
commands; a restart of the gateway forgets all outcomes; a vehicle's answer to a
command with an empty id would break the order of the relay if the client did not
refuse such a command first (`RelayInOrder` needs that check).

Why the bounds are enough. A channel of 1 makes every sender wait, which a
channel of 32 does only under load; one retry is the smallest number at which a
lost answer leads to a second session; two callers suffice for a stop and a start
between the two halves of a third `StartSession` (the lock event is the third
party); two installs of one adapter, one removal and the timer are each a task of
every kind on one entry. Two commands and two ends of stream reach a replay of a
command already processed and the end of the attempts. Two requests with one id
are the smallest case in which one timer has another's entry; three answers let
each of them be answered, and one of them twice. Three events in a ring of two
make a watcher skip one and read the rest; a second watcher would add nothing, as
streams do not see each other. Every rule of the ray (a vertex on the ray, an edge
along it, a point on the border) occurs on a 3x3 grid with points between its
lines. What the bounds cut off is
what the proofs cover: they hold for every number of callers, adapters, requests,
faults, commands, watchers, and for polygons of any size.

Deadlock is checked except in `locking_faults`, `gateway`, `vehicle_path` and
`command_format`, where the system rests when no command comes. In `ParkingAdaptor` and `UpdateService` being idle, or a bounded
environment at its end, is not taken for a deadlock: the adaptor can
be started and the update service has an explicit `Rest` that requires that all
tasks wait.

Fairness. Weak fairness is assumed of the steps of a task that can run: the tokio
runtime polls a task that was woken, and each RPC, REST request or podman command
ends in a result or an error. For the operator's REST calls and podman this is an
assumption about the other side, as the code sets no timeout. Nothing is assumed
of the environment: no command, lock change, request, restart, timeout or end of
container needs to come. The gateway's timers expire, as the Go runtime
has them do. `FollowsWhenCalm`, `LastCommandAnswered` and `LastAnswerRelayed` speak of
services while they run (and, for the first and the last, are subscribed), because
nothing in the code renews the adaptor's or the client's subscriptions or starts a
service again.

## 4. Proofs

All theorems are for arbitrary constants under the `ASSUME`s of the modules.

- `ParkingAdaptorProofs`. `TypeCorrect`; `HeldSessionBilled`, `SignalFollows`
  from `SafetyInv`, which adds to the type invariant what the operator's books
  look like (`BooksOK`: active sessions are known and were opened), what an answer on the way means
  (`CallOK`: a start answer names an opened session, no session is held while a
  start is under way) and that a stopped service holds none (`DownOK`).
  `HeldSessionIsBilled` alone is not inductive: the step that accepts an answer
  needs `CallOK`. `AdaptorImplementsBilling` shows step by step that each action
  is a step or a stutter of `ParkingBilling` under the refinement mapping, and
  `AdaptorOrphansExplained` carries over the theorem
  `BillingOrphansExplained` of the abstract module. `StartReplies` and `StopReplies`
  add `RepliesInv`: a handler has at most one event in the channel or with the
  loop, and it is the one it awaits (`MailOK`, `BusyOK`); the answer about to be
  passed on names the session in memory, or one the operator no longer charges for
  (`AnswerOK`); a handler between its two events knows no session newer than the
  one in memory (`SaidOK`). Numbers are never given twice, so what was said stays true.
  Two theorems are the safety halves of liveness properties. `NobodyForgotten`
  (of `EveryCallEnds` and `ShutdownEnds`): a handler that awaits a reply has its
  event in the channel or with the loop, and while a call is in flight the loop is
  not told to end. `RestFollowsLock` (of `FollowsWhenCalm`): a subscribed adaptor that
  has worked off the lock values it was sent has a session exactly if the vehicle
  is locked, while requests fail no oftener than one command is retried, answers are
  readable, the operator remembers and callers only ask (`Calm`). Its invariant
  `FollowInv` follows the last lock value through feed, channel and loop
  (`Heard`), finds no manual order among them (`NoOrders`) and bounds the attempts by
  the requests that failed (`Retried`), so none is given up. `OwnOperatorNeverHeld`
  is about the other kind of operator: as the answer to a start cannot be read,
  no session is ever held.
- `UpdateServiceProofs`. The inductive invariant `TypeInv` adds to the types what
  each task aims at (`AimsOK`: an install that stops an adapter first, and a
  cleaner at work, have an adapter to do it to). `NoInstallStuck`, `NoOffloadStuck`,
  `NoRunningUnwatched` are the parts of `Attended`, inductive with `TypeInv`,
  with every overlap of requests. `OneRunning`
  has the proviso `ClientsWait`; its invariant `Serial` says that at most one
  install is at work, that it stops the adapter that was RUNNING before it starts
  its own, and none is RUNNING from then until it is done. `NoneStray` assumes
  besides that an adapter is installed once (`InstalledOnce`); its invariant `Tidy`
  says, of the first life of the process, that until an install is over nobody else
  has to do with its adapter, and that after `podman rm` there is no container of it.
  `InstallFollowsPath` adds to it the state in which each step of an install finds
  its entry (`Stages`) and that a candidate of the offload cycle has ended
  (`CandidatesEnded`): entries move along the design's path only, and none that is
  RUNNING is offloaded. `OnlyVerified` has no proviso: whatever overlaps, is dropped
  or restarted, podman holds a container, and the map an entry in INSTALLING or
  RUNNING, only of an adapter that a request with the image's digest was made for;
  it is inductive with `Gated` (who is past the checksum has it right). It speaks of
  image references: `podman run` pulls again, unchecked, what was removed since.
- `LockingServiceProofs`. `TypeCorrect`; `LockPublished` (with `Starting`: a
  service that is not subscribed remembers an unlocked door); `AttemptsComeBack`
  (broken streams add up only until the service has worked off its stream, inductive
  with the types: the step that takes the last message resets the counter);
  `AnswersOrdered` from `InOrder`: the command at work, or the last one answered, is a lower
  bound of everything still in the inbox, which is sorted and bounded by the broker's
  current command; `NoUnsafeLock` from `Checked`: hazards already looked for have
  not lasted.

- `CloudGatewayProofs`. `TypeCorrect`; `TimersLive`, `UndecidedTimed` from
  `SafetyInv`, whose part `Orderly` says that a timer armed or due belongs to an accepted request, and
  that a request under way or accepted is of this life of the process, its command
  published; `Quiet` that a process that is not up holds nothing; `Asked` that
  answers on their way are to commands that were sent. `AnswersStand` is the action property.
  `GatewayImplementsLedger` maps each action to a step or a stutter of
  `CommandLedger`; `OutcomesHaveReasons` carries over its invariant.
  `PathImplementsGateway`: every step of `CommandPath` is a step or a stutter of the
  gateway, so its theorems hold with a client behind it. `CommandsEndInTimeouts` from
  `NeverWritten`: all that is on its way to the client lacks the key the
  client looks for, so nothing is forwarded and nothing answered.
- `UpdateEventsProofs`. `EventsFollow` from `OneSender` (one task holds the mutex),
  `MapFollowsLog` (the map holds what the last event about an adapter said, unless
  the entry is new or removed or the event is pending) and `PendingFollows`;
  `ViewsExplained` is inductive with the types; `ViewsCurrent` joins the two.
- `VehiclePathProofs`. `PathImplementsLocking`: every step of the composition is a
  step or a stutter of `LockingService`, so its theorems hold there. `RelayedInOrder`
  from `RelayInv`: the answers in the client's stream are sorted, none is older
  than what the cloud has heard and none newer than the broker's, over crashes of
  both sides; it rests on `AnswersNameCommands` and on the locking
  service's `InOrder`. `TelemetryCurrent` from `TelemetryInv`: for each signal, the
  last update on the open stream is the broker's value, and without one the client
  knows that value already; what it knows it has published. `CloudAgrees` joins
  it to the locking service's `StateIsPublished`, to `DoneInv` (the command last in
  the inbox, or at work, or answered, is the broker's, and a success goes with the
  remembered lock) and to `LatestInv` (the last response on the stream is the
  broker's; an empty stream means the cloud has it).
- `ParkingZonesProofs`. `ParityKept`: in the loop over a polygon of any size
  `inside` is the parity of the edges crossed so far (`CrossedNext`: one turn adds
  at most one edge to a finite set). `ResultFilters` from `FilterInv`: the result
  is sorted and holds exactly the matching ones of the zones seen
  (`AppendSorted`), where a zone that the ray was not inside of is one that only
  its distance can bring in (`NotInside`).
  `InsideRight` needs no theorem about curves: `FanSoFar` says that the ray has
  crossed the edges walked so far, and the two lines that lead back from where the
  walk is over the first vertex, an odd number of times exactly if the point is in
  an odd number of the fan's triangles so far. One more vertex adds one triangle
  (`FanNext`), and for one triangle `TriangleCut` compares the code's half-open rule
  with orientations by the identity that the three orientations, weighted with the
  heights of the vertices over the point, add up to zero (`TriangleSigns`); a point on
  the line of an edge but not on the edge, as when the ray runs along it, has both
  ends on one side, and the other two edges are crossed alike (`OnLineCut`). Points on
  the border and on the fan's diagonals are excepted: there the fan does not
  decide. Those of the border are in the zone by their distance, whatever the ray
  says, which `ResultRight` covers.
  `SegmentRight` shows the clamped projection to be the nearest point of a segment:
  the squared distance to the point at k / len grows with (k - dot) squared
  (`PointDistance`). `ResultRight` joins both to `ResultFilters`; its part
  `ZonesRight` remembers what the ray said of the zones already tested.
  `ReplyComplete` from `StoreInv` (a zone's list holds its operators among those
  stored so far, each once and in order) and `FoundSoFar` (each operator has been
  found as often as its zone was looked up); when all results are looked up, the
  sorted result is a bijection onto the zones that match (`AllLookedUp`).
  `AdapterRight` says what the other map answers: the last operator with an id.

Only model-checked: liveness under fairness (`EveryCallEnds`, `ShutdownEnds`,
`FollowsWhenCalm`, `Settles`, `EndIsNoticed`, `IdleIsOffloaded`,
`LastCommandAnswered`, `SubmissionDecided`, `LostOnlyWhenOverwritten`,
`LastAnswerRelayed`), which is out of the prover's reach. Of several the
safety half is proved, which says that whoever waits is attended to: `NobodyForgotten`,
`RestFollowsLock`, `NoInstallStuck`, `NoOffloadStuck`, `NoRunningUnwatched`,
`UndecidedTimed`. What is left for TLC is that the scheduler gets there. Every
invariant and every action property of the passing runs is a theorem.

## 5. Not modelled

Connection attempts at startup of the Rust services other than the client (a
bounded loop with delays), configuration, logging, wording of messages, rates and
amounts. The gateway's status queries only read, its telemetry subscription only
logs. REST calls that never return are excluded by assumption (the HTTP client has
no timeout). Restarts of the DATA_BROKER: it is deployed as one container and no
service is told of its restart. Rounding and curvature in the geometry. The
command line tools and `mock-sensors` make one request and end; `gen/` and
`proto/` are generated or declarative; `android/` and `mobile/` hold no code.

## 6. What could come next

1. `ParkingChain`: locking service, broker and adaptor together: a locked vehicle
   comes to have a session at the operator.
2. The refinement of `UpdateEvents` by `UpdateService` extended with its events.
