---------------------------- MODULE UpdateService ----------------------------
(***************************************************************************)
(* The UPDATE_SERVICE (rhivos/update-service): the StateManager's map of   *)
(* adapters behind a mutex, and the tasks that work on it concurrently -   *)
(* one per install request, one container monitor per started adapter, one *)
(* per remove request, and the offload timer - each awaiting podman        *)
(* commands between its accesses to the map.  Every access to the map and  *)
(* every podman command is a step of its own.                              *)
(*                                                                         *)
(* Podman is modelled from the commands of RealPodmanExecutor: containers  *)
(* are named by adapter id, `run` refuses a name in use, `rm` a running or *)
(* missing container, `rmi` an image in use or missing.                    *)
(***************************************************************************)
EXTENDS Naturals, FiniteSets

CONSTANTS
  Adapters,      \* adapter ids
  Images,        \* image references
  AdapterOf,     \* the adapter id derived from an image reference
  Jobs,          \* InstallAdapter requests
  ImageOf,       \* the image a request names
  Matching,      \* the requests whose checksum is the image's digest
  Removals,      \* RemoveAdapter requests
  Offloader,     \* the offload timer
  Nobody,        \* no adapter, no image
  ClientsWait,   \* clients send a request only after the last one is over
  MaxFailures,   \* how many podman commands fail without a visible reason
  MaxCrashes     \* how often the service is restarted

ASSUME AdapterOfAssumption   == AdapterOf \in [Images -> Adapters]
ASSUME ImageOfAssumption     == ImageOf \in [Jobs -> Images]
ASSUME MatchingAssumption    == Matching \subseteq Jobs
ASSUME OffloaderAssumption   == Offloader \notin Removals
ASSUME NobodyAssumption      == Nobody \notin Adapters \cup Images
ASSUME ClientsWaitAssumption == ClientsWait \in BOOLEAN
ASSUME BoundsAssumption      == MaxFailures \in Nat /\ MaxCrashes \in Nat

VARIABLES
  adapters,     \* StateManager.adapters; "ABSENT": no entry under this id
  containers,   \* podman's containers, by name
  images,       \* podman's local images
  jobs,         \* the install tasks
  monitors,     \* the container monitors, by the job that spawned them
  cleaners,     \* the remove handlers and the offload cycle
  todo,         \* candidates the offload cycle still has to treat
  failures, crashes

vars == <<adapters, containers, images, jobs, monitors, cleaners, todo,
          failures, crashes>>

-----------------------------------------------------------------------------
AdapterStates == {"UNKNOWN", "DOWNLOADING", "INSTALLING", "RUNNING", "STOPPED",
                  "ERROR", "OFFLOADING"}

(* stoppedAt: whether stopped_at is set, and if so, whether the inactivity *)
(* timeout has passed since.                                               *)
Entries == [state : AdapterStates \cup {"ABSENT"}, image : Images \cup {Nobody},
            stoppedAt : {"never", "recent", "expired"}]

NoEntry == [state |-> "ABSENT", image |-> Nobody, stoppedAt |-> "never"]

Containers == [status : {"absent", "running", "exited"},
               image : Images \cup {Nobody}, code : {"zero", "nonzero"}]

NoContainer == [status |-> "absent", image |-> Nobody, code |-> "zero"]

(* Where an install task is; victim is the adapter it stops first.         *)
JobStates == [pc : {"idle", "stop", "stopped", "stopFailed", "create", "download",
                    "pull", "inspect", "matched", "mismatched", "discard", "run",
                    "started", "failed", "done"},
              victim : Adapters \cup {Nobody}]

MonitorStates == [pc : {"off", "waiting", "report"},
                  outcome : {"zero", "nonzero", "error"}]

Cleaners == Removals \cup {Offloader}

CleanerStates == [pc : {"idle", "stop", "rm", "rmi", "forget", "failed", "next", "done"},
                  id : Adapters \cup {Nobody}, image : Images \cup {Nobody}]

(* The state of the service: an entry has an image exactly when it exists, *)
(* and so has a container (transition never makes an entry).               *)
TypeOK ==
  /\ adapters \in [Adapters -> Entries]
  /\ containers \in [Adapters -> Containers]
  /\ images \in SUBSET Images
  /\ jobs \in [Jobs -> JobStates]
  /\ monitors \in [Jobs -> MonitorStates]
  /\ cleaners \in [Cleaners -> CleanerStates]
  /\ todo \in SUBSET [id : Adapters, image : Images \cup {Nobody}]
  /\ failures \in 0..MaxFailures
  /\ crashes \in 0..MaxCrashes
  /\ \A a \in Adapters : adapters[a].state = "ABSENT" <=> adapters[a].image = Nobody
  /\ \A a \in Adapters : containers[a].status = "absent" <=> containers[a].image = Nobody

IdleCleaner == [pc |-> "idle", id |-> Nobody, image |-> Nobody]

Init ==
  /\ adapters = [a \in Adapters |-> NoEntry]
  /\ containers = [a \in Adapters |-> NoContainer]
  /\ images = {}
  /\ jobs = [j \in Jobs |-> [pc |-> "idle", victim |-> Nobody]]
  /\ monitors = [j \in Jobs |-> [pc |-> "off", outcome |-> "zero"]]
  /\ cleaners = [c \in Cleaners |-> IdleCleaner]
  /\ todo = {}
  /\ failures = 0
  /\ crashes = 0

JobBusy(j)     == jobs[j].pc \notin {"idle", "done"}
CleanerBusy(c) == cleaners[c].pc \notin {"idle", "done"}
AdapterIdOf(j) == AdapterOf[ImageOf[j]]
Known(a)       == adapters[a].state # "ABSENT"

(* A client that waits has seen every earlier request through.             *)
ClientFree == ClientsWait => /\ \A j \in Jobs : ~JobBusy(j)
                             /\ \A r \in Removals : ~CleanerBusy(r)

-----------------------------------------------------------------------------
(* The StateManager. *)

(* transition: any state to any state; nothing for an id without an entry. *)
Transition(a, s) ==
  adapters' = IF Known(a)
              THEN [adapters EXCEPT ![a].state = s,
                                    ![a].stoppedAt = IF s = "STOPPED" THEN "recent" ELSE @]
              ELSE adapters

RunningAdapters == {a \in Adapters : adapters[a].state = "RUNNING"}

OffloadCandidates ==
  {[id |-> a, image |-> adapters[a].image] :
     a \in {b \in Adapters : adapters[b].state = "STOPPED" /\ adapters[b].stoppedAt = "expired"}}

-----------------------------------------------------------------------------
(* Podman: each command ends well (ok) or not. *)
Mishap == failures < MaxFailures /\ failures' = failures + 1

Exited(a, code) == [containers EXCEPT ![a].status = "exited", ![a].code = code]

PodmanPull(i, ok) ==
  \/ ok /\ images' = images \cup {i} /\ UNCHANGED <<containers, failures>>
  \/ ~ok /\ Mishap /\ UNCHANGED <<containers, images>>

(* A missing image is pulled; a container that fails to start stays.       *)
PodmanRun(a, i, ok) ==
  \/ /\ ok /\ containers[a].status = "absent"
     /\ containers' = [containers EXCEPT ![a] =
                         [status |-> "running", image |-> i, code |-> "zero"]]
     /\ images' = images \cup {i}
     /\ UNCHANGED failures
  \/ ~ok /\ containers[a].status # "absent" /\ UNCHANGED <<containers, images, failures>>
  \/ /\ ~ok /\ containers[a].status = "absent" /\ Mishap
     /\ \/ UNCHANGED containers
        \/ containers' = [containers EXCEPT ![a] =
                            [status |-> "exited", image |-> i, code |-> "nonzero"]]
     /\ UNCHANGED images

PodmanStop(a, ok) ==
  \/ /\ ok /\ containers[a].status # "absent"
     /\ IF containers[a].status = "running"
        THEN \E code \in {"zero", "nonzero"} : containers' = Exited(a, code)
        ELSE UNCHANGED containers
     /\ UNCHANGED <<images, failures>>
  \/ ~ok /\ containers[a].status = "absent" /\ UNCHANGED <<containers, images, failures>>
  \/ ~ok /\ Mishap /\ UNCHANGED <<containers, images>>

PodmanRm(a, ok) ==
  \/ /\ ok /\ containers[a].status = "exited"
     /\ containers' = [containers EXCEPT ![a] = NoContainer]
     /\ UNCHANGED <<images, failures>>
  \/ ~ok /\ containers[a].status # "exited" /\ UNCHANGED <<containers, images, failures>>
  \/ ~ok /\ Mishap /\ UNCHANGED <<containers, images>>

PodmanRmi(i, ok) ==
  LET free == i \in images /\ \A a \in Adapters : containers[a].image # i IN
  \/ ok /\ free /\ images' = images \ {i} /\ UNCHANGED <<containers, failures>>
  \/ ~ok /\ ~free /\ UNCHANGED <<containers, images, failures>>
  \/ ~ok /\ Mishap /\ UNCHANGED <<containers, images>>

ContainerExits(a) ==
  /\ containers[a].status = "running"
  /\ \E code \in {"zero", "nonzero"} : containers' = Exited(a, code)
  /\ UNCHANGED <<adapters, images, jobs, monitors, cleaners, todo, failures, crashes>>

-----------------------------------------------------------------------------
(* install_adapter: the handler, then the spawned task. *)
GoTo(j, pc) == jobs' = [jobs EXCEPT ![j].pc = pc]

(* What the steps of an install task leave alone.                          *)
JobOnly    == UNCHANGED <<monitors, cleaners, todo, crashes>>
JobNoPodman == JobOnly /\ UNCHANGED <<containers, images, failures>>

Install_StopsNothing(j) ==
  /\ jobs[j].pc = "idle"
  /\ ClientFree
  /\ GoTo(j, "create")
  /\ UNCHANGED adapters
  /\ JobNoPodman

Install(j) ==
  /\ jobs[j].pc = "idle"
  /\ ClientFree
  /\ IF RunningAdapters = {}
     THEN GoTo(j, "create")
     ELSE \E a \in RunningAdapters : jobs' = [jobs EXCEPT ![j] = [pc |-> "stop", victim |-> a]]
  /\ UNCHANGED adapters
  /\ JobNoPodman

StopVictim(j) ==
  /\ jobs[j].pc = "stop"
  /\ \E ok \in BOOLEAN : /\ PodmanStop(jobs[j].victim, ok)
                         /\ GoTo(j, IF ok THEN "stopped" ELSE "stopFailed")
  /\ UNCHANGED adapters
  /\ JobOnly

(* The client hangs up: the handler is dropped where it awaits podman, the *)
(* podman process runs to its end.                                         *)
InstallDropped(j) ==
  /\ jobs[j].pc = "stop"
  /\ \E ok \in BOOLEAN : PodmanStop(jobs[j].victim, ok)
  /\ GoTo(j, "done")
  /\ UNCHANGED adapters
  /\ JobOnly

VictimStopped(j) ==
  /\ jobs[j].pc \in {"stopped", "stopFailed"}
  /\ Transition(jobs[j].victim, IF jobs[j].pc = "stopped" THEN "STOPPED" ELSE "ERROR")
  /\ GoTo(j, "create")
  /\ JobNoPodman

(* create_adapter overwrites an entry of the same id.                      *)
CreateAdapter(j) ==
  /\ jobs[j].pc = "create"
  /\ adapters' = [adapters EXCEPT ![AdapterIdOf(j)] =
                    [state |-> "UNKNOWN", image |-> ImageOf[j], stoppedAt |-> "never"]]
  /\ GoTo(j, "download")
  /\ JobNoPodman

Download(j) ==
  /\ jobs[j].pc = "download"
  /\ Transition(AdapterIdOf(j), "DOWNLOADING")
  /\ GoTo(j, "pull")
  /\ JobNoPodman

Pull(j) ==
  /\ jobs[j].pc = "pull"
  /\ \E ok \in BOOLEAN : /\ PodmanPull(ImageOf[j], ok)
                         /\ GoTo(j, IF ok THEN "inspect" ELSE "failed")
  /\ UNCHANGED adapters
  /\ JobOnly

(* inspect_digest, which has the checksum of the request or another.       *)
Inspect(j) ==
  /\ jobs[j].pc = "inspect"
  /\ ImageOf[j] \in images
  /\ GoTo(j, IF j \in Matching THEN "matched" ELSE "mismatched")
  /\ UNCHANGED adapters
  /\ JobNoPodman

InspectFails(j) ==
  /\ jobs[j].pc = "inspect"
  /\ IF ImageOf[j] \in images THEN Mishap ELSE UNCHANGED failures
  /\ GoTo(j, "failed")
  /\ UNCHANGED <<adapters, containers, images>>
  /\ JobOnly

Verify(j) ==
  /\ \/ /\ jobs[j].pc = "matched"
        /\ Transition(AdapterIdOf(j), "INSTALLING")
        /\ GoTo(j, "run")
     \/ /\ jobs[j].pc = "mismatched"
        /\ Transition(AdapterIdOf(j), "ERROR")
        /\ GoTo(j, "discard")
  /\ JobNoPodman

Discard(j) ==
  /\ jobs[j].pc = "discard"
  /\ \E ok \in BOOLEAN : PodmanRmi(ImageOf[j], ok)
  /\ GoTo(j, "done")
  /\ UNCHANGED adapters
  /\ JobOnly

Run(j) ==
  /\ jobs[j].pc = "run"
  /\ \E ok \in BOOLEAN : /\ PodmanRun(AdapterIdOf(j), ImageOf[j], ok)
                         /\ GoTo(j, IF ok THEN "started" ELSE "failed")
  /\ UNCHANGED adapters
  /\ JobOnly

Started_Unmonitored(j) ==
  /\ jobs[j].pc = "started"
  /\ Transition(AdapterIdOf(j), "RUNNING")
  /\ GoTo(j, "done")
  /\ UNCHANGED <<containers, images, monitors, cleaners, todo, failures, crashes>>

(* RUNNING, and the monitor is spawned.                                    *)
Started(j) ==
  /\ jobs[j].pc = "started"
  /\ Transition(AdapterIdOf(j), "RUNNING")
  /\ GoTo(j, "done")
  /\ monitors' = [monitors EXCEPT ![j].pc = "waiting"]
  /\ UNCHANGED <<containers, images, cleaners, todo, failures, crashes>>

InstallFailed_Silent(j) ==
  /\ jobs[j].pc = "failed"
  /\ UNCHANGED adapters
  /\ GoTo(j, "done")
  /\ JobNoPodman

InstallFailed(j) ==
  /\ jobs[j].pc = "failed"
  /\ Transition(AdapterIdOf(j), "ERROR")
  /\ GoTo(j, "done")
  /\ JobNoPodman

InstallStep(j) ==
  \/ StopVictim(j) \/ VictimStopped(j) \/ CreateAdapter(j) \/ Download(j)
  \/ Pull(j) \/ Inspect(j) \/ InspectFails(j) \/ Verify(j) \/ Discard(j) \/ Run(j)
  \/ Started(j) \/ InstallFailed(j)

-----------------------------------------------------------------------------
(* monitor_container: podman wait ends, with the exit code or an error.    *)
WaitReturns(j) ==
  LET c == containers[AdapterIdOf(j)] IN
  /\ monitors[j].pc = "waiting"
  /\ \/ /\ c.status = "exited"
        /\ monitors' = [monitors EXCEPT ![j] = [pc |-> "report", outcome |-> c.code]]
        /\ UNCHANGED failures
     \/ /\ IF c.status = "absent" THEN UNCHANGED failures ELSE Mishap
        /\ monitors' = [monitors EXCEPT ![j] = [pc |-> "report", outcome |-> "error"]]
  /\ UNCHANGED <<adapters, containers, images, jobs, cleaners, todo, crashes>>

MonitorReports(j) ==
  /\ monitors[j].pc = "report"
  /\ Transition(AdapterIdOf(j), IF monitors[j].outcome = "zero" THEN "STOPPED" ELSE "ERROR")
  /\ monitors' = [monitors EXCEPT ![j].pc = "off"]
  /\ UNCHANGED <<containers, images, jobs, cleaners, todo, failures, crashes>>

-----------------------------------------------------------------------------
(* remove_adapter and run_offload_cycle share rm, rmi and remove.          *)
CleanTo(c, pc) == cleaners' = [cleaners EXCEPT ![c].pc = pc]

CleanerDone(c) == CleanTo(c, IF c = Offloader THEN "next" ELSE "done")

Remove(r, a) ==
  /\ cleaners[r].pc = "idle"
  /\ ClientFree
  /\ cleaners' = [cleaners EXCEPT ![r] =
       [pc    |-> IF ~Known(a) THEN "done"
                  ELSE IF adapters[a].state = "RUNNING" THEN "stop" ELSE "rm",
        id    |-> a,
        image |-> adapters[a].image]]
  /\ UNCHANGED <<adapters, containers, images, jobs, monitors, todo, failures, crashes>>

OffloadCheck ==
  /\ cleaners[Offloader].pc = "idle"
  /\ OffloadCandidates # {}
  /\ todo' = OffloadCandidates
  /\ CleanTo(Offloader, "next")
  /\ UNCHANGED <<adapters, containers, images, jobs, monitors, failures, crashes>>

OffloadNext(e) ==
  /\ cleaners[Offloader].pc = "next"
  /\ e \in todo
  /\ todo' = todo \ {e}
  /\ Transition(e.id, "OFFLOADING")
  /\ cleaners' = [cleaners EXCEPT ![Offloader] = [pc |-> "rm", id |-> e.id, image |-> e.image]]
  /\ UNCHANGED <<containers, images, jobs, monitors, failures, crashes>>

OffloadSleeps_Ends ==
  /\ cleaners[Offloader].pc = "next"
  /\ todo = {}
  /\ CleanTo(Offloader, "done")
  /\ UNCHANGED <<adapters, containers, images, jobs, monitors, todo, failures, crashes>>

OffloadSleeps ==
  /\ cleaners[Offloader].pc = "next"
  /\ todo = {}
  /\ cleaners' = [cleaners EXCEPT ![Offloader] = IdleCleaner]
  /\ UNCHANGED <<adapters, containers, images, jobs, monitors, todo, failures, crashes>>

(* The podman command a cleaner awaits.                                    *)
CleanerCommand(c, ok) ==
  \/ cleaners[c].pc = "stop" /\ PodmanStop(cleaners[c].id, ok)
  \/ cleaners[c].pc = "rm"   /\ PodmanRm(cleaners[c].id, ok)
  \/ cleaners[c].pc = "rmi"  /\ PodmanRmi(cleaners[c].image, ok)

AfterCommand == [stop |-> "rm", rm |-> "rmi", rmi |-> "forget"]

CleanerPodman(c) ==
  /\ cleaners[c].pc \in DOMAIN AfterCommand
  /\ \E ok \in BOOLEAN :
       /\ CleanerCommand(c, ok)
       /\ CleanTo(c, IF ok THEN AfterCommand[cleaners[c].pc] ELSE "failed")
  /\ UNCHANGED <<adapters, jobs, monitors, todo, crashes>>

(* As InstallDropped, for a RemoveAdapter request.                         *)
RemoveDropped(r) ==
  /\ r \in Removals
  /\ \E ok \in BOOLEAN : CleanerCommand(r, ok)
  /\ CleanTo(r, "done")
  /\ UNCHANGED <<adapters, jobs, monitors, todo, crashes>>

Forget(c) ==
  /\ cleaners[c].pc = "forget"
  /\ adapters' = [adapters EXCEPT ![cleaners[c].id] = NoEntry]
  /\ CleanerDone(c)
  /\ UNCHANGED <<containers, images, jobs, monitors, todo, failures, crashes>>

CleanupFailed_Silent(c) ==
  /\ cleaners[c].pc = "failed"
  /\ UNCHANGED adapters
  /\ CleanerDone(c)
  /\ UNCHANGED <<containers, images, jobs, monitors, todo, failures, crashes>>

CleanupFailed_Forgets(c) ==
  /\ cleaners[c].pc = "failed"
  /\ adapters' = [adapters EXCEPT ![cleaners[c].id] = NoEntry]
  /\ CleanerDone(c)
  /\ UNCHANGED <<containers, images, jobs, monitors, todo, failures, crashes>>

CleanupFailed(c) ==
  /\ cleaners[c].pc = "failed"
  /\ Transition(cleaners[c].id, "ERROR")
  /\ CleanerDone(c)
  /\ UNCHANGED <<containers, images, jobs, monitors, todo, failures, crashes>>

CleanStep(c) == CleanerPodman(c) \/ Forget(c) \/ CleanupFailed(c)

OffloadStep == OffloadCheck \/ (\E e \in todo : OffloadNext(e)) \/ OffloadSleeps

-----------------------------------------------------------------------------
(* The inactivity timeout passes for a stopped_at.                         *)
TimePasses(a) ==
  /\ adapters[a].stoppedAt = "recent"
  /\ adapters' = [adapters EXCEPT ![a].stoppedAt = "expired"]
  /\ UNCHANGED <<containers, images, jobs, monitors, cleaners, todo, failures, crashes>>

(* The service ends, by a signal or a crash, and starts again: its tasks   *)
(* and its map are gone, the containers and images are not.                *)
Restart ==
  /\ crashes < MaxCrashes
  /\ crashes' = crashes + 1
  /\ adapters' = [a \in Adapters |-> NoEntry]
  /\ jobs' = [j \in Jobs |-> IF JobBusy(j) THEN [jobs[j] EXCEPT !.pc = "done"] ELSE jobs[j]]
  /\ monitors' = [j \in Jobs |-> [pc |-> "off", outcome |-> "zero"]]
  /\ cleaners' = [c \in Cleaners |->
                    IF c = Offloader THEN IdleCleaner
                    ELSE IF CleanerBusy(c) THEN [cleaners[c] EXCEPT !.pc = "done"]
                    ELSE cleaners[c]]
  /\ todo' = {}
  /\ UNCHANGED <<containers, images, failures>>

(* All tasks wait: for a request, a container's exit or the timeout.       *)
Rest ==
  /\ \A j \in Jobs : ~JobBusy(j) /\ monitors[j].pc # "report"
  /\ \A c \in Cleaners : ~CleanerBusy(c)
  /\ UNCHANGED vars

Next ==
  \/ \E j \in Jobs : \/ Install(j) \/ InstallStep(j) \/ InstallDropped(j)
                     \/ WaitReturns(j) \/ MonitorReports(j)
  \/ \E r \in Removals : RemoveDropped(r) \/ \E a \in Adapters : Remove(r, a)
  \/ \E c \in Cleaners : CleanStep(c)
  \/ OffloadStep
  \/ \E a \in Adapters : ContainerExits(a) \/ TimePasses(a)
  \/ Restart
  \/ Rest

(* The runtime polls every task and every podman command ends.             *)
Fairness ==
  /\ \A j \in Jobs : /\ WF_vars(InstallStep(j))
                     /\ WF_vars(WaitReturns(j))
                     /\ WF_vars(MonitorReports(j))
  /\ \A c \in Cleaners : WF_vars(CleanStep(c))
  /\ WF_vars(OffloadStep)

Spec == Init /\ [][Next]_vars

FairSpec == Spec /\ Fairness

-----------------------------------------------------------------------------
(* Properties. *)

(* An entry on its way to RUNNING has an install task that will move it    *)
(* on, however installs, removals, offloading and late monitors cross and  *)
(* whichever podman command fails (install.rs:67-122).                     *)
InstallingIsAttended ==
  \A a \in Adapters : adapters[a].state \in {"UNKNOWN", "DOWNLOADING", "INSTALLING"} =>
    \E j \in Jobs :
      /\ AdapterIdOf(j) = a
      /\ jobs[j].pc \in {"download", "pull", "inspect", "matched", "mismatched", "run",
                         "started", "failed"}

(* An entry in OFFLOADING is the one the offload cycle works on: none is   *)
(* left behind by a failed rm or rmi (offload.rs:17-45).                   *)
OffloadingIsAttended ==
  \A a \in Adapters : adapters[a].state = "OFFLOADING" =>
    /\ cleaners[Offloader].id = a
    /\ cleaners[Offloader].pc \in {"rm", "rmi", "forget", "failed"}

(* A RUNNING entry has a monitor that will hear of its container's end,    *)
(* also when an older monitor reports late (install.rs:113-121).           *)
RunningIsWatched ==
  \A a \in Adapters : adapters[a].state = "RUNNING" =>
    \E j \in Jobs : AdapterIdOf(j) = a /\ monitors[j].pc # "off"

(* Property 2 of the service's design: at most one adapter RUNNING.  True  *)
(* of clients that wait for each install to end (install.rs:36), not of    *)
(* overlapping installs.                                                   *)
SingleRunning == \A a, b \in RunningAdapters : a = b

(* No container outlives its entry while the service runs, if no adapter   *)
(* is installed twice: rm precedes remove_adapter (install.rs:188-208).    *)
NoStrayContainers ==
  crashes = 0 => \A a \in Adapters : containers[a].status # "absent" => Known(a)

(* Passing states pass: every install ends in RUNNING, ERROR or STOPPED,   *)
(* every offload in a removed entry or ERROR.                              *)
Settles ==
  \A a \in Adapters :
    adapters[a].state \in {"UNKNOWN", "DOWNLOADING", "INSTALLING", "OFFLOADING"}
      ~> adapters[a].state \notin {"UNKNOWN", "DOWNLOADING", "INSTALLING", "OFFLOADING"}

(* An adapter does not stay RUNNING with its container ended, before the   *)
(* monitor waits or after: it leaves the state, or the container that the  *)
(* next install has put in the place of the old one runs (monitor.rs).     *)
EndIsNoticed ==
  \A a \in Adapters :
    adapters[a].state = "RUNNING" /\ containers[a].status # "running"
      ~> adapters[a].state # "RUNNING" \/ containers[a].status = "running"

(* An adapter STOPPED for longer than the timeout is offloaded, or brought *)
(* back (07-REQ-6.1).                                                      *)
IdleIsOffloaded ==
  \A a \in Adapters :
    adapters[a].state = "STOPPED" /\ adapters[a].stoppedAt = "expired"
      ~> ~(adapters[a].state = "STOPPED" /\ adapters[a].stoppedAt = "expired")
=============================================================================
