------------------------- MODULE UpdateServiceProofs -------------------------
(* Theorems about UpdateService, for any number of adapters, images,       *)
(* requests, podman failures and restarts.                                 *)
EXTENDS UpdateService, TLAPS

USE AdapterOfAssumption, ImageOfAssumption, OffloaderAssumption, NobodyAssumption,
    BoundsAssumption

-----------------------------------------------------------------------------
(* Type correctness, in the parts the steps disturb. *)
AdaptersOK ==
  /\ adapters \in [Adapters -> Entries]
  /\ \A a \in Adapters : adapters[a].state = "ABSENT" <=> adapters[a].image = Nobody

PodmanOK ==
  /\ containers \in [Adapters -> Containers]
  /\ \A a \in Adapters : containers[a].status = "absent" <=> containers[a].image = Nobody
  /\ images \in SUBSET Images
  /\ failures \in 0..MaxFailures

TasksOK ==
  /\ jobs \in [Jobs -> JobStates]
  /\ monitors \in [Jobs -> MonitorStates]
  /\ cleaners \in [Cleaners -> CleanerStates]
  /\ todo \in SUBSET [id : Adapters, image : Images \cup {Nobody}]
  /\ crashes \in 0..MaxCrashes

LEMMA TypeOKParts == TypeOK <=> AdaptersOK /\ PodmanOK /\ TasksOK
  BY DEF TypeOK, AdaptersOK, PodmanOK, TasksOK

LEMMA JobAdapter == ASSUME NEW j \in Jobs
                    PROVE  ImageOf[j] \in Images /\ AdapterIdOf(j) \in Adapters
  BY DEF AdapterIdOf

(* transition keeps the map an adapter map: it makes no entry and keeps    *)
(* the image of the one it changes.                                        *)
LEMMA TransitionTyped ==
  ASSUME AdaptersOK, NEW a \in Adapters, NEW s \in AdapterStates, Transition(a, s)
  PROVE  AdaptersOK'
<1>1. CASE ~Known(a)
  BY <1>1 DEF Transition, AdaptersOK
<1>2. CASE Known(a)
  <2> DEFINE e == [adapters[a] EXCEPT !.state = s,
                                      !.stoppedAt = IF s = "STOPPED" THEN "recent" ELSE @]
  <2>1. adapters' = [adapters EXCEPT ![a] = e]
    BY <1>2 DEF Transition, AdaptersOK
  <2>2. e \in Entries /\ e.state # "ABSENT" /\ e.image = adapters[a].image
    BY DEF AdaptersOK, Entries, AdapterStates
  <2>3. adapters[a].image # Nobody
    BY <1>2 DEF AdaptersOK, Known
  <2> QED BY <2>1, <2>2, <2>3 DEF AdaptersOK
<1> QED BY <1>1, <1>2

(* What transition does to the states.                                     *)
LEMMA TransitionEffect ==
  ASSUME AdaptersOK, NEW a \in Adapters, NEW s \in AdapterStates, Transition(a, s)
  PROVE  /\ \A b \in Adapters \ {a} : adapters'[b] = adapters[b]
         /\ adapters'[a].state = s \/ (adapters'[a] = adapters[a] /\ adapters[a].state = "ABSENT")
<1>1. CASE ~Known(a)
  BY <1>1 DEF Transition, Known
<1>2. CASE Known(a)
  BY <1>2 DEF Transition, AdaptersOK, Entries
<1> QED BY <1>1, <1>2

(* Every podman command leaves podman's state well formed.                 *)
LEMMA ExitTyped ==
  ASSUME PodmanOK, NEW a \in Adapters, containers[a].status # "absent",
         NEW code \in {"zero", "nonzero"}, containers' = Exited(a, code),
         UNCHANGED images, failures' \in 0..MaxFailures
  PROVE  PodmanOK'
<1> DEFINE c == [containers[a] EXCEPT !.status = "exited", !.code = code]
<1>1. containers' = [containers EXCEPT ![a] = c]
  BY DEF Exited, PodmanOK
<1>2. containers[a] \in Containers /\ containers[a].image # Nobody
  BY DEF PodmanOK
<1>3. c \in Containers
  BY <1>2 DEF Containers
<1>4. c.status = "exited" /\ c.image = containers[a].image
  BY <1>2 DEF Containers
<1> QED BY <1>1, <1>2, <1>3, <1>4 DEF PodmanOK

LEMMA MishapTyped == ASSUME PodmanOK, Mishap PROVE failures' \in 0..MaxFailures
  BY DEF Mishap, PodmanOK

LEMMA PullTyped ==
  ASSUME PodmanOK, NEW i \in Images, NEW ok \in BOOLEAN, PodmanPull(i, ok)
  PROVE  PodmanOK'
<1>1. CASE ok /\ images' = images \cup {i} /\ UNCHANGED <<containers, failures>>
  BY <1>1 DEF PodmanOK
<1>2. CASE Mishap /\ UNCHANGED <<containers, images>>
  BY <1>2, MishapTyped DEF PodmanOK
<1> QED BY <1>1, <1>2 DEF PodmanPull

LEMMA RunTyped ==
  ASSUME PodmanOK, NEW a \in Adapters, NEW i \in Images, NEW ok \in BOOLEAN,
         PodmanRun(a, i, ok)
  PROVE  PodmanOK'
<1>1. ASSUME NEW s \in {"running", "exited"}, NEW k \in {"zero", "nonzero"},
             containers' = [containers EXCEPT ![a] = [status |-> s, image |-> i, code |-> k]],
             images' \in SUBSET Images, failures' \in 0..MaxFailures
      PROVE  PodmanOK'
  <2>1. [status |-> s, image |-> i, code |-> k] \in Containers
    BY DEF Containers
  <2> QED BY <1>1, <2>1 DEF PodmanOK
<1>2. CASE /\ containers' = [containers EXCEPT ![a] =
                               [status |-> "running", image |-> i, code |-> "zero"]]
           /\ images' = images \cup {i} /\ UNCHANGED failures
  BY <1>1, <1>2 DEF PodmanOK
<1>3. CASE UNCHANGED <<containers, images>> /\ (Mishap \/ UNCHANGED failures)
  BY <1>3, MishapTyped DEF PodmanOK
<1>4. CASE /\ containers' = [containers EXCEPT ![a] =
                               [status |-> "exited", image |-> i, code |-> "nonzero"]]
           /\ UNCHANGED images /\ Mishap
  BY <1>1, <1>4, MishapTyped DEF PodmanOK
<1> QED BY <1>2, <1>3, <1>4 DEF PodmanRun

LEMMA StopTyped ==
  ASSUME PodmanOK, NEW a \in Adapters, NEW ok \in BOOLEAN, PodmanStop(a, ok)
  PROVE  PodmanOK'
<1>1. CASE UNCHANGED <<containers, images>> /\ (Mishap \/ UNCHANGED failures)
  BY <1>1, MishapTyped DEF PodmanOK
<1>2. CASE /\ containers[a].status # "absent"
           /\ \E code \in {"zero", "nonzero"} : containers' = Exited(a, code)
           /\ UNCHANGED <<images, failures>>
  BY <1>2, ExitTyped DEF PodmanOK
<1> QED BY <1>1, <1>2 DEF PodmanStop

LEMMA RmTyped ==
  ASSUME PodmanOK, NEW a \in Adapters, NEW ok \in BOOLEAN, PodmanRm(a, ok)
  PROVE  PodmanOK'
<1>1. CASE UNCHANGED <<containers, images>> /\ (Mishap \/ UNCHANGED failures)
  BY <1>1, MishapTyped DEF PodmanOK
<1>2. CASE /\ containers' = [containers EXCEPT ![a] = NoContainer]
           /\ UNCHANGED <<images, failures>>
  <2>1. NoContainer \in Containers /\ NoContainer.status = "absent" /\ NoContainer.image = Nobody
    BY DEF NoContainer, Containers
  <2> QED BY <1>2, <2>1 DEF PodmanOK
<1> QED BY <1>1, <1>2 DEF PodmanRm

LEMMA RmiTyped ==
  ASSUME PodmanOK, NEW i, NEW ok \in BOOLEAN, PodmanRmi(i, ok)
  PROVE  PodmanOK'
<1>1. CASE UNCHANGED <<containers, images>> /\ (Mishap \/ UNCHANGED failures)
  BY <1>1, MishapTyped DEF PodmanOK
<1>2. CASE images' = images \ {i} /\ UNCHANGED <<containers, failures>>
  BY <1>2 DEF PodmanOK
<1> QED BY <1>1, <1>2 DEF PodmanRmi

-----------------------------------------------------------------------------
(* The steps, one lemma a group: all tasks keep their types. *)
LEMMA GoToTyped ==
  ASSUME jobs \in [Jobs -> JobStates], NEW j \in Jobs,
         NEW pc \in {"idle", "stop", "stopped", "stopFailed", "create", "download",
                     "pull", "inspect", "matched", "mismatched", "discard", "run",
                     "started", "failed", "done"},
         GoTo(j, pc)
  PROVE  jobs' \in [Jobs -> JobStates]
<1>1. [jobs[j] EXCEPT !.pc = pc] \in JobStates
  BY DEF JobStates
<1>2. jobs' = [jobs EXCEPT ![j] = [jobs[j] EXCEPT !.pc = pc]]
  BY DEF GoTo
<1> QED BY <1>1, <1>2

LEMMA CleanToTyped ==
  ASSUME cleaners \in [Cleaners -> CleanerStates], NEW c \in Cleaners,
         NEW pc \in {"idle", "stop", "rm", "rmi", "forget", "failed", "next", "done"},
         CleanTo(c, pc)
  PROVE  cleaners' \in [Cleaners -> CleanerStates]
<1>1. [cleaners[c] EXCEPT !.pc = pc] \in CleanerStates
  BY DEF CleanerStates
<1>2. cleaners' = [cleaners EXCEPT ![c] = [cleaners[c] EXCEPT !.pc = pc]]
  BY DEF CleanTo
<1> QED BY <1>1, <1>2

-----------------------------------------------------------------------------
(* What the tasks aim at: a task that is about to stop, remove or forget   *)
(* an adapter has one.  Inductive together with the types.                 *)
AimsOK ==
  /\ \A j \in Jobs : jobs[j].pc \in {"stop", "stopped", "stopFailed"}
                       => jobs[j].victim \in Adapters
  /\ \A c \in Cleaners : cleaners[c].pc \in {"stop", "rm", "rmi", "forget", "failed"}
                           => cleaners[c].id \in Adapters

TypeInv == AdaptersOK /\ PodmanOK /\ TasksOK /\ AimsOK

LEMMA TypeInvInit == Init => TypeInv
<1> SUFFICES ASSUME Init PROVE TypeInv
  OBVIOUS
<1>1. NoEntry \in Entries /\ NoEntry.state = "ABSENT" /\ NoEntry.image = Nobody
  BY DEF NoEntry, Entries
<1>2. NoContainer \in Containers /\ NoContainer.status = "absent" /\ NoContainer.image = Nobody
  BY DEF NoContainer, Containers
<1>3. AdaptersOK
  BY <1>1 DEF Init, AdaptersOK
<1>4. PodmanOK
  BY <1>2 DEF Init, PodmanOK
<1>5. TasksOK
  BY DEF Init, TasksOK, JobStates, MonitorStates, CleanerStates, IdleCleaner
<1>6. AimsOK
  BY DEF Init, AimsOK, IdleCleaner
<1> QED BY <1>3, <1>4, <1>5, <1>6 DEF TypeInv

(* A job goes on, and only the map or podman change besides.               *)
LEMMA JobGoesOn ==
  ASSUME TypeInv, NEW j \in Jobs, JobOnly,
         NEW pc \in {"stopped", "stopFailed", "create", "download", "pull", "inspect",
                     "matched", "mismatched", "discard", "run", "started", "failed", "done"},
         GoTo(j, pc),
         pc \in {"stopped", "stopFailed"} => jobs[j].pc = "stop"
  PROVE  TasksOK' /\ AimsOK'
<1>1. TasksOK'
  BY GoToTyped DEF TypeInv, TasksOK, JobOnly
<1>2. AimsOK'
  BY DEF TypeInv, TasksOK, AimsOK, GoTo, JobStates, JobOnly
<1> QED BY <1>1, <1>2

(* A cleaner goes on likewise.                                             *)
LEMMA CleanerGoesOn ==
  ASSUME TypeInv, NEW c \in Cleaners, UNCHANGED <<jobs, monitors, todo, crashes>>,
         NEW pc \in {"rm", "rmi", "forget", "failed", "next", "done"},
         CleanTo(c, pc),
         pc \in {"rm", "rmi", "forget", "failed"} => cleaners[c].id \in Adapters
  PROVE  TasksOK' /\ AimsOK'
<1>1. TasksOK'
  BY CleanToTyped DEF TypeInv, TasksOK
<1>2. AimsOK'
  BY DEF TypeInv, TasksOK, AimsOK, CleanTo, CleanerStates
<1> QED BY <1>1, <1>2

LEMMA InstallTyped == ASSUME TypeInv, NEW j \in Jobs, Install(j) PROVE TypeInv'
<1>1. UNCHANGED <<adapters, containers, images, monitors, cleaners, todo, failures, crashes>>
  BY DEF Install, JobNoPodman, JobOnly
<1>2. CASE GoTo(j, "create")
  <2>1. TasksOK' /\ AimsOK'
    BY <1>1, <1>2, JobGoesOn DEF JobOnly
  <2> QED BY <1>1, <2>1 DEF TypeInv, AdaptersOK, PodmanOK
<1>3. ASSUME NEW a \in Adapters, jobs' = [jobs EXCEPT ![j] = [pc |-> "stop", victim |-> a]]
      PROVE  TypeInv'
  BY <1>1, <1>3 DEF TypeInv, AdaptersOK, PodmanOK, TasksOK, AimsOK, JobStates
<1> QED BY <1>2, <1>3 DEF Install, RunningAdapters

LEMMA InstallStepTyped ==
  ASSUME TypeInv, NEW j \in Jobs, InstallStep(j) \/ InstallDropped(j) PROVE TypeInv'
<1> USE JobAdapter
<1>a. AdaptersOK /\ PodmanOK
  BY DEF TypeInv
<1>b. UNCHANGED adapters => AdaptersOK'
  BY <1>a DEF AdaptersOK
<1>c. UNCHANGED <<containers, images, failures>> => PodmanOK'
  BY <1>a DEF PodmanOK
<1>d. jobs[j].pc \in {"stop", "stopped", "stopFailed"} => jobs[j].victim \in Adapters
  BY DEF TypeInv, AimsOK
<1>1. CASE StopVictim(j)
  BY <1>1, <1>a, <1>b, <1>d, StopTyped, JobGoesOn DEF StopVictim, TypeInv
<1>2. CASE InstallDropped(j)
  BY <1>2, <1>a, <1>b, <1>d, StopTyped, JobGoesOn DEF InstallDropped, TypeInv
<1>3. CASE VictimStopped(j)
  <2>1. AdaptersOK'
    BY <1>3, <1>a, <1>d, TransitionTyped DEF VictimStopped, AdapterStates
  <2> QED BY <1>3, <2>1, <1>c, JobGoesOn DEF VictimStopped, JobNoPodman, TypeInv
<1>4. CASE CreateAdapter(j)
  <2>1. [state |-> "UNKNOWN", image |-> ImageOf[j], stoppedAt |-> "never"] \in Entries
    BY DEF Entries, AdapterStates
  <2>2. AdaptersOK'
    BY <1>4, <1>a, <2>1 DEF CreateAdapter, AdaptersOK
  <2> QED BY <1>4, <2>2, <1>c, JobGoesOn DEF CreateAdapter, JobNoPodman, TypeInv
<1>5. CASE Download(j)
  <2>1. AdaptersOK'
    BY <1>5, <1>a, TransitionTyped DEF Download, AdapterStates
  <2> QED BY <1>5, <2>1, <1>c, JobGoesOn DEF Download, JobNoPodman, TypeInv
<1>6. CASE Pull(j)
  BY <1>6, <1>a, <1>b, PullTyped, JobGoesOn DEF Pull, TypeInv
<1>7. CASE Verify(j)
  <2>1. AdaptersOK'
    BY <1>7, <1>a, TransitionTyped DEF Verify, AdapterStates
  <2> QED BY <1>7, <2>1, <1>c, JobGoesOn DEF Verify, JobNoPodman, TypeInv
<1>13. CASE Inspect(j)
  BY <1>13, <1>b, <1>c, JobGoesOn DEF Inspect, JobNoPodman, TypeInv
<1>8. CASE InspectFails(j)
  <2>1. PodmanOK'
    BY <1>8, <1>a, MishapTyped DEF InspectFails, PodmanOK
  <2> QED BY <1>8, <2>1, <1>b, JobGoesOn DEF InspectFails, TypeInv
<1>9. CASE Discard(j)
  BY <1>9, <1>a, <1>b, RmiTyped, JobGoesOn DEF Discard, TypeInv
<1>10. CASE Run(j)
  BY <1>10, <1>a, <1>b, RunTyped, JobGoesOn DEF Run, TypeInv
<1>11. CASE Started(j)
  <2>1. AdaptersOK'
    BY <1>11, <1>a, TransitionTyped DEF Started, AdapterStates
  <2>2. UNCHANGED <<containers, images, cleaners, todo, failures, crashes>>
    BY <1>11 DEF Started
  <2>3. jobs' \in [Jobs -> JobStates]
    BY <1>11, GoToTyped DEF Started, TypeInv, TasksOK
  <2>4. monitors' \in [Jobs -> MonitorStates]
    BY <1>11 DEF Started, TypeInv, TasksOK, MonitorStates
  <2>5. TasksOK'
    BY <2>2, <2>3, <2>4 DEF TypeInv, TasksOK
  <2>6. AimsOK'
    BY <1>11, <2>2 DEF Started, TypeInv, TasksOK, AimsOK, GoTo, JobStates
  <2> QED BY <2>1, <2>2, <1>c, <2>5, <2>6 DEF TypeInv
<1>12. CASE InstallFailed(j)
  <2>1. AdaptersOK'
    BY <1>12, <1>a, TransitionTyped DEF InstallFailed, AdapterStates
  <2> QED BY <1>12, <2>1, <1>c, JobGoesOn DEF InstallFailed, JobNoPodman, TypeInv
<1> QED BY <1>1, <1>2, <1>3, <1>4, <1>5, <1>6, <1>7, <1>8, <1>9, <1>10, <1>11, <1>12, <1>13
        DEF InstallStep

LEMMA MonitorTyped ==
  ASSUME TypeInv, NEW j \in Jobs, WaitReturns(j) \/ MonitorReports(j) PROVE TypeInv'
<1> USE JobAdapter
<1>1. CASE WaitReturns(j)
  <2>1. containers[AdapterIdOf(j)].code \in {"zero", "nonzero"}
    BY DEF TypeInv, PodmanOK, Containers
  <2>2. monitors' \in [Jobs -> MonitorStates]
    BY <1>1, <2>1 DEF WaitReturns, TypeInv, TasksOK, MonitorStates
  <2>3. failures' \in 0..MaxFailures
    BY <1>1, MishapTyped DEF WaitReturns, TypeInv, PodmanOK
  <2> QED BY <1>1, <2>2, <2>3 DEF WaitReturns, TypeInv, AdaptersOK, PodmanOK, TasksOK, AimsOK
<1>2. CASE MonitorReports(j)
  <2>1. AdaptersOK'
    BY <1>2, TransitionTyped DEF MonitorReports, AdapterStates, TypeInv
  <2>2. monitors' \in [Jobs -> MonitorStates]
    BY <1>2 DEF MonitorReports, TypeInv, TasksOK, MonitorStates
  <2> QED BY <1>2, <2>1, <2>2 DEF MonitorReports, TypeInv, PodmanOK, TasksOK, AimsOK
<1> QED BY <1>1, <1>2

LEMMA RemoveTyped ==
  ASSUME TypeInv, NEW r \in Removals, NEW a \in Adapters, Remove(r, a) PROVE TypeInv'
<1> DEFINE pc == IF ~Known(a) THEN "done"
                 ELSE IF adapters[a].state = "RUNNING" THEN "stop" ELSE "rm"
           c == [pc |-> pc, id |-> a, image |-> adapters[a].image]
<1>1. cleaners' = [cleaners EXCEPT ![r] = c] /\ r \in Cleaners
  BY DEF Remove, Cleaners
<1>2. adapters[a].image \in Images \cup {Nobody}
  BY DEF TypeInv, AdaptersOK, Entries
<1>3. c \in CleanerStates /\ c.id \in Adapters
  BY <1>2 DEF CleanerStates
<1> HIDE DEF c
<1>4. TasksOK' /\ AimsOK'
  BY <1>1, <1>3 DEF Remove, TypeInv, TasksOK, AimsOK
<1> QED BY <1>4 DEF Remove, TypeInv, AdaptersOK, PodmanOK

LEMMA CommandTyped ==
  ASSUME TypeInv, NEW c \in Cleaners, NEW ok \in BOOLEAN, CleanerCommand(c, ok)
  PROVE  PodmanOK' /\ cleaners[c].id \in Adapters /\ cleaners[c].pc \in {"stop", "rm", "rmi"}
<1>1. cleaners[c].pc \in {"stop", "rm", "rmi"}
  BY DEF CleanerCommand
<1>2. cleaners[c].id \in Adapters
  BY <1>1 DEF TypeInv, AimsOK
<1>3. PodmanOK'
  BY <1>2, StopTyped, RmTyped, RmiTyped DEF CleanerCommand, TypeInv
<1> QED BY <1>1, <1>2, <1>3

LEMMA CleanStepTyped ==
  ASSUME TypeInv, NEW c \in Cleaners, CleanStep(c) \/ RemoveDropped(c) PROVE TypeInv'
<1>a. UNCHANGED adapters => AdaptersOK'
  BY DEF TypeInv, AdaptersOK
<1>b. UNCHANGED <<containers, images, failures>> => PodmanOK'
  BY DEF TypeInv, PodmanOK
<1>1. CASE CleanerPodman(c)
  <2>1. PICK ok \in BOOLEAN :
          /\ CleanerCommand(c, ok)
          /\ CleanTo(c, IF ok THEN AfterCommand[cleaners[c].pc] ELSE "failed")
    BY <1>1 DEF CleanerPodman
  <2>2. PodmanOK' /\ cleaners[c].id \in Adapters /\ cleaners[c].pc \in {"stop", "rm", "rmi"}
    BY <2>1, CommandTyped
  <2>3. AfterCommand[cleaners[c].pc] \in {"rm", "rmi", "forget"}
    BY <2>2 DEF AfterCommand
  <2>4. TasksOK' /\ AimsOK'
    BY <1>1, <2>1, <2>2, <2>3, CleanerGoesOn DEF CleanerPodman
  <2> QED BY <1>1, <1>a, <2>2, <2>4 DEF CleanerPodman, TypeInv
<1>2. CASE RemoveDropped(c)
  <2>1. PodmanOK'
    BY <1>2, CommandTyped DEF RemoveDropped
  <2>2. TasksOK' /\ AimsOK'
    BY <1>2, CleanerGoesOn DEF RemoveDropped
  <2> QED BY <1>2, <1>a, <2>1, <2>2 DEF RemoveDropped, TypeInv
<1>3. CASE Forget(c)
  <2>1. cleaners[c].id \in Adapters
    BY <1>3 DEF Forget, TypeInv, AimsOK
  <2>2. NoEntry \in Entries /\ NoEntry.state = "ABSENT" /\ NoEntry.image = Nobody
    BY DEF NoEntry, Entries
  <2>3. AdaptersOK'
    BY <1>3, <2>1, <2>2 DEF Forget, TypeInv, AdaptersOK
  <2>4. TasksOK' /\ AimsOK'
    BY <1>3, CleanerGoesOn DEF Forget, CleanerDone
  <2> QED BY <1>3, <1>b, <2>3, <2>4 DEF Forget, TypeInv
<1>4. CASE CleanupFailed(c)
  <2>1. cleaners[c].id \in Adapters
    BY <1>4 DEF CleanupFailed, TypeInv, AimsOK
  <2>2. AdaptersOK'
    BY <1>4, <2>1, TransitionTyped DEF CleanupFailed, TypeInv, AdapterStates
  <2>3. TasksOK' /\ AimsOK'
    BY <1>4, CleanerGoesOn DEF CleanupFailed, CleanerDone
  <2> QED BY <1>4, <1>b, <2>2, <2>3 DEF CleanupFailed, TypeInv
<1> QED BY <1>1, <1>2, <1>3, <1>4 DEF CleanStep

LEMMA OffloadTyped == ASSUME TypeInv, OffloadStep PROVE TypeInv'
<1>a. UNCHANGED adapters => AdaptersOK'
  BY DEF TypeInv, AdaptersOK
<1>b. UNCHANGED <<containers, images, failures>> => PodmanOK'
  BY DEF TypeInv, PodmanOK
<1>c. Offloader \in Cleaners
  BY DEF Cleaners
<1>1. CASE OffloadCheck
  <2>1. OffloadCandidates \in SUBSET [id : Adapters, image : Images \cup {Nobody}]
    BY DEF OffloadCandidates, TypeInv, AdaptersOK, Entries
  <2>2. cleaners' \in [Cleaners -> CleanerStates]
    BY <1>1, <1>c, CleanToTyped DEF OffloadCheck, TypeInv, TasksOK
  <2>3. TasksOK'
    BY <1>1, <2>1, <2>2 DEF OffloadCheck, TypeInv, TasksOK
  <2>4. AimsOK'
    BY <1>1, <1>c DEF OffloadCheck, CleanTo, TypeInv, TasksOK, AimsOK, CleanerStates
  <2> QED BY <1>1, <1>a, <1>b, <2>3, <2>4 DEF OffloadCheck, TypeInv
<1>2. ASSUME NEW e \in todo, OffloadNext(e) PROVE TypeInv'
  <2>1. e.id \in Adapters /\ e.image \in Images \cup {Nobody}
    BY DEF TypeInv, TasksOK
  <2>2. AdaptersOK'
    BY <1>2, <2>1, TransitionTyped DEF OffloadNext, TypeInv, AdapterStates
  <2>3. TasksOK'
    BY <1>2, <1>c, <2>1 DEF OffloadNext, TypeInv, TasksOK, CleanerStates
  <2>4. AimsOK'
    BY <1>2, <1>c, <2>1 DEF OffloadNext, TypeInv, TasksOK, AimsOK, CleanerStates
  <2> QED BY <1>2, <1>b, <2>2, <2>3, <2>4 DEF OffloadNext, TypeInv
<1>3. CASE OffloadSleeps
  <2>1. TasksOK' /\ AimsOK'
    BY <1>3, <1>c DEF OffloadSleeps, IdleCleaner, TypeInv, TasksOK, AimsOK, CleanerStates
  <2> QED BY <1>3, <1>a, <1>b, <2>1 DEF OffloadSleeps, TypeInv
<1> QED BY <1>1, <1>2, <1>3 DEF OffloadStep

LEMMA WorldTyped ==
  ASSUME TypeInv, NEW a \in Adapters, ContainerExits(a) \/ TimePasses(a) PROVE TypeInv'
<1>1. CASE ContainerExits(a)
  <2>1. PodmanOK'
    BY <1>1, ExitTyped DEF ContainerExits, TypeInv, PodmanOK
  <2> QED BY <1>1, <2>1 DEF ContainerExits, TypeInv, AdaptersOK, TasksOK, AimsOK
<1>2. CASE TimePasses(a)
  <2>1. AdaptersOK'
    <3>1. [adapters[a] EXCEPT !.stoppedAt = "expired"] \in Entries
      BY DEF TypeInv, AdaptersOK, Entries
    <3>2. adapters' = [adapters EXCEPT ![a] = [adapters[a] EXCEPT !.stoppedAt = "expired"]]
      BY <1>2 DEF TimePasses
    <3>3. [adapters[a] EXCEPT !.stoppedAt = "expired"].state = adapters[a].state
          /\ [adapters[a] EXCEPT !.stoppedAt = "expired"].image = adapters[a].image
      BY DEF TypeInv, AdaptersOK, Entries
    <3> QED BY <3>1, <3>2, <3>3 DEF TypeInv, AdaptersOK
  <2> QED BY <1>2, <2>1 DEF TimePasses, TypeInv, PodmanOK, TasksOK, AimsOK
<1> QED BY <1>1, <1>2

LEMMA RestartTyped == ASSUME TypeInv, Restart PROVE TypeInv'
<1>1. NoEntry \in Entries /\ NoEntry.state = "ABSENT" /\ NoEntry.image = Nobody
  BY DEF NoEntry, Entries
<1>2. AdaptersOK'
  BY <1>1 DEF Restart, AdaptersOK
<1>3. jobs' \in [Jobs -> JobStates]
  BY DEF Restart, TypeInv, TasksOK, JobStates
<1>4. cleaners' \in [Cleaners -> CleanerStates]
  BY DEF Restart, TypeInv, TasksOK, CleanerStates, IdleCleaner
<1>5. crashes' \in 0..MaxCrashes
  BY DEF Restart, TypeInv, TasksOK
<1>6. TasksOK'
  BY <1>3, <1>4, <1>5 DEF Restart, TasksOK, MonitorStates
<1>7. \A j \in Jobs : jobs'[j].pc \notin {"stop", "stopped", "stopFailed"}
  BY DEF Restart, JobBusy, TypeInv, TasksOK, JobStates
<1>8. \A c \in Cleaners : cleaners'[c].pc \notin {"stop", "rm", "rmi", "forget", "failed"}
  BY DEF Restart, CleanerBusy, IdleCleaner, TypeInv, TasksOK, CleanerStates
<1>9. AimsOK'
  BY <1>7, <1>8 DEF AimsOK
<1> QED BY <1>2, <1>6, <1>9 DEF Restart, TypeInv, PodmanOK

LEMMA TypeInvStep == TypeInv /\ [Next]_vars => TypeInv'
<1> SUFFICES ASSUME TypeInv, [Next]_vars PROVE TypeInv'
  OBVIOUS
<1>1. CASE UNCHANGED vars
  BY <1>1 DEF vars, TypeInv, AdaptersOK, PodmanOK, TasksOK, AimsOK
<1>2. CASE Next
  BY <1>1, <1>2, InstallTyped, InstallStepTyped, MonitorTyped, RemoveTyped, CleanStepTyped,
     OffloadTyped, WorldTyped, RestartTyped DEF Next, Rest, Cleaners
<1> QED BY <1>1, <1>2

(* The map, podman's state and the tasks keep their types, whatever        *)
(* installs, removals, offloads, failures and restarts cross.              *)
THEOREM TypeCorrect == Spec => []TypeOK
<1>1. TypeInv => TypeOK
  BY TypeOKParts DEF TypeInv
<1> QED BY <1>1, TypeInvInit, TypeInvStep, PTL DEF Spec

-----------------------------------------------------------------------------
(* No adapter is stuck.  The three claims are inductive as they stand,     *)
(* given the types; a step matters through what it makes of the states.    *)
Attended == InstallingIsAttended /\ OffloadingIsAttended /\ RunningIsWatched

Working  == {"download", "pull", "inspect", "matched", "mismatched", "run", "started", "failed"}
Clearing == {"rm", "rmi", "forget", "failed"}

(* It is enough that an adapter in a new state has its task, and that a    *)
(* task that ends leaves its adapter in another state.                     *)
LEMMA StaysAttended ==
  ASSUME TypeInv, Attended,
         \A a \in Adapters :
           /\ adapters'[a].state \in {"UNKNOWN", "DOWNLOADING", "INSTALLING"} =>
                \/ \E j \in Jobs : AdapterIdOf(j) = a /\ jobs'[j].pc \in Working
                \/ /\ adapters[a].state \in {"UNKNOWN", "DOWNLOADING", "INSTALLING"}
                   /\ \A j \in Jobs : AdapterIdOf(j) = a /\ jobs[j].pc \in Working
                                        => jobs'[j].pc \in Working
           /\ adapters'[a].state = "OFFLOADING" =>
                \/ cleaners'[Offloader].id = a /\ cleaners'[Offloader].pc \in Clearing
                \/ /\ adapters[a].state = "OFFLOADING"
                   /\ cleaners'[Offloader].id = cleaners[Offloader].id
                   /\ cleaners[Offloader].pc \in Clearing => cleaners'[Offloader].pc \in Clearing
           /\ adapters'[a].state = "RUNNING" =>
                \/ \E j \in Jobs : AdapterIdOf(j) = a /\ monitors'[j].pc # "off"
                \/ /\ adapters[a].state = "RUNNING"
                   /\ \A j \in Jobs : AdapterIdOf(j) = a /\ monitors[j].pc # "off"
                                        => monitors'[j].pc # "off"
  PROVE  Attended'
<1>1. InstallingIsAttended'
  BY DEF Attended, InstallingIsAttended, AdapterIdOf, Working
<1>2. OffloadingIsAttended'
  BY DEF Attended, OffloadingIsAttended, Clearing
<1>3. RunningIsWatched'
  BY DEF Attended, RunningIsWatched, AdapterIdOf
<1> QED BY <1>1, <1>2, <1>3 DEF Attended

LEMMA AttendedInit == Init => Attended
  BY DEF Init, NoEntry, Attended, InstallingIsAttended, OffloadingIsAttended, RunningIsWatched

(* A job that goes on and changes its own adapter only, if at all.         *)
LEMMA JobStaysAttended ==
  ASSUME TypeInv, Attended, NEW j \in Jobs, UNCHANGED <<monitors, cleaners>>,
         NEW pc \in {"stopped", "stopFailed", "create", "download", "pull", "inspect",
                     "matched", "mismatched", "discard", "run", "started", "failed", "done"},
         GoTo(j, pc),
         NEW b \in Adapters,
         \A a \in Adapters \ {b} : adapters'[a].state = adapters[a].state,
         \/ adapters'[b].state = adapters[b].state
         \/ adapters'[b].state \in {"STOPPED", "ERROR", "ABSENT"}
         \/ b = AdapterIdOf(j) /\ pc \in Working
            /\ adapters'[b].state \in {"UNKNOWN", "DOWNLOADING", "INSTALLING"},
         jobs[j].pc \in Working /\ pc \notin Working =>
           b = AdapterIdOf(j) /\ adapters'[b].state \in {"STOPPED", "ERROR", "ABSENT"}
  PROVE  Attended'
<1>1. /\ jobs'[j].pc = pc
      /\ \A k \in Jobs \ {j} : jobs'[k] = jobs[k]
  BY DEF TypeInv, TasksOK, JobStates, GoTo
<1>2. ASSUME NEW a \in Adapters,
             adapters'[a].state \in {"UNKNOWN", "DOWNLOADING", "INSTALLING"}
      PROVE  \/ \E k \in Jobs : AdapterIdOf(k) = a /\ jobs'[k].pc \in Working
             \/ /\ adapters[a].state \in {"UNKNOWN", "DOWNLOADING", "INSTALLING"}
                /\ \A k \in Jobs : AdapterIdOf(k) = a /\ jobs[k].pc \in Working
                                     => jobs'[k].pc \in Working
  BY <1>1, <1>2
<1>3. ASSUME NEW a \in Adapters, adapters'[a].state \in {"OFFLOADING", "RUNNING"}
      PROVE  adapters[a].state = adapters'[a].state
  BY <1>3
<1> QED BY <1>2, <1>3, StaysAttended

LEMMA InstallAttended == ASSUME TypeInv, Attended, NEW j \in Jobs, Install(j) PROVE Attended'
<1>1. UNCHANGED <<adapters, monitors, cleaners>> /\ jobs[j].pc = "idle"
  BY DEF Install, JobNoPodman, JobOnly
<1>2. \A k \in Jobs \ {j} : jobs'[k] = jobs[k]
  BY DEF Install, GoTo, TypeInv, TasksOK
<1>3. \A k \in Jobs : jobs[k].pc \in Working => jobs'[k].pc \in Working
  BY <1>1, <1>2 DEF Working
<1> QED BY <1>1, <1>3, StaysAttended

LEMMA InstallStepAttended ==
  ASSUME TypeInv, Attended, NEW j \in Jobs, InstallStep(j) \/ InstallDropped(j)
  PROVE  Attended'
<1> DEFINE b == AdapterIdOf(j)
<1>a. AdaptersOK /\ b \in Adapters
  BY JobAdapter DEF TypeInv
<1>b. ASSUME NEW a \in Adapters, NEW s \in {"STOPPED", "ERROR", "DOWNLOADING", "INSTALLING"},
             Transition(a, s)
      PROVE  /\ \A c \in Adapters \ {a} : adapters'[c].state = adapters[c].state
             /\ adapters'[a].state = s \/ adapters'[a].state = adapters[a].state
             /\ adapters'[a].state = s \/ adapters'[a].state = "ABSENT"
  BY <1>a, <1>b, TransitionEffect DEF AdapterStates
<1> HIDE DEF b
<1>1. CASE StopVictim(j) \/ InstallDropped(j)
  <2>1. /\ UNCHANGED <<adapters, monitors, cleaners>> /\ jobs[j].pc = "stop"
        /\ GoTo(j, "stopped") \/ GoTo(j, "stopFailed") \/ GoTo(j, "done")
    BY <1>1 DEF StopVictim, InstallDropped, JobOnly
  <2> QED BY <2>1, <1>a, JobStaysAttended DEF Working
<1>2. CASE VictimStopped(j)
  <2> DEFINE v == jobs[j].victim
  <2>1. v \in Adapters
    BY <1>2 DEF VictimStopped, TypeInv, AimsOK
  <2>2. /\ UNCHANGED <<monitors, cleaners>> /\ GoTo(j, "create")
        /\ jobs[j].pc \in {"stopped", "stopFailed"}
        /\ Transition(v, "STOPPED") \/ Transition(v, "ERROR")
    BY <1>2 DEF VictimStopped, JobNoPodman, JobOnly
  <2>3. /\ \A c \in Adapters \ {v} : adapters'[c].state = adapters[c].state
        /\ adapters'[v].state \in {"STOPPED", "ERROR", "ABSENT"}
    BY <1>b, <2>1, <2>2
  <2> HIDE DEF v
  <2> QED BY <2>1, <2>2, <2>3, JobStaysAttended DEF Working
<1>3. CASE CreateAdapter(j)
  <2>1. /\ UNCHANGED <<monitors, cleaners>> /\ GoTo(j, "download") /\ jobs[j].pc = "create"
        /\ \A c \in Adapters \ {b} : adapters'[c].state = adapters[c].state
        /\ adapters'[b].state = "UNKNOWN"
    BY <1>3, <1>a DEF CreateAdapter, JobNoPodman, JobOnly, AdaptersOK, b
  <2> QED BY <2>1, <1>a, JobStaysAttended DEF Working, b
<1>4. CASE Download(j)
  <2>1. /\ UNCHANGED <<monitors, cleaners>> /\ GoTo(j, "pull")
        /\ Transition(b, "DOWNLOADING")
    BY <1>4 DEF Download, JobNoPodman, JobOnly, b
  <2>2. /\ \A c \in Adapters \ {b} : adapters'[c].state = adapters[c].state
        /\ adapters'[b].state = "DOWNLOADING" \/ adapters'[b].state = adapters[b].state
    BY <2>1, <1>a, <1>b
  <2> QED BY <2>1, <2>2, <1>a, JobStaysAttended DEF Working, b
<1>5. CASE Pull(j) \/ Run(j) \/ Inspect(j) \/ InspectFails(j) \/ Discard(j)
  <2>1. /\ UNCHANGED <<adapters, monitors, cleaners>>
        /\ \/ GoTo(j, "inspect") \/ GoTo(j, "matched") \/ GoTo(j, "mismatched")
           \/ GoTo(j, "started") \/ GoTo(j, "failed")
           \/ GoTo(j, "done") /\ jobs[j].pc = "discard"
    BY <1>5 DEF Pull, Run, Inspect, InspectFails, Discard, JobNoPodman, JobOnly
  <2> QED BY <2>1, <1>a, JobStaysAttended DEF Working
<1>6. CASE Verify(j)
  <2>1. /\ UNCHANGED <<monitors, cleaners>>
        /\ \/ GoTo(j, "run") /\ Transition(b, "INSTALLING")
           \/ GoTo(j, "discard") /\ Transition(b, "ERROR")
    BY <1>6 DEF Verify, JobNoPodman, JobOnly, b
  <2>2. CASE GoTo(j, "run") /\ Transition(b, "INSTALLING")
    <3>1. /\ \A c \in Adapters \ {b} : adapters'[c].state = adapters[c].state
          /\ adapters'[b].state = "INSTALLING" \/ adapters'[b].state = adapters[b].state
      BY <2>2, <1>a, <1>b
    <3> QED BY <2>1, <2>2, <3>1, <1>a, JobStaysAttended DEF Working, b
  <2>3. CASE GoTo(j, "discard") /\ Transition(b, "ERROR")
    <3>1. /\ \A c \in Adapters \ {b} : adapters'[c].state = adapters[c].state
          /\ adapters'[b].state \in {"ERROR", "ABSENT"}
      BY <2>3, <1>a, <1>b
    <3> QED BY <2>1, <2>3, <3>1, <1>a, JobStaysAttended DEF Working, b
  <2> QED BY <2>1, <2>2, <2>3
<1>7. CASE InstallFailed(j)
  <2>1. UNCHANGED <<monitors, cleaners>> /\ GoTo(j, "done") /\ Transition(b, "ERROR")
    BY <1>7 DEF InstallFailed, JobNoPodman, JobOnly, b
  <2>2. /\ \A c \in Adapters \ {b} : adapters'[c].state = adapters[c].state
        /\ adapters'[b].state \in {"ERROR", "ABSENT"}
    BY <2>1, <1>a, <1>b
  <2> QED BY <2>1, <2>2, <1>a, JobStaysAttended DEF Working, b
<1>8. CASE Started(j)
  <2>1. /\ Transition(b, "RUNNING") /\ GoTo(j, "done") /\ UNCHANGED cleaners
        /\ monitors' = [monitors EXCEPT ![j].pc = "waiting"]
    BY <1>8 DEF Started, b
  <2>2. /\ \A c \in Adapters \ {b} : adapters'[c].state = adapters[c].state
        /\ adapters'[b].state \in {"RUNNING", "ABSENT"}
    BY <2>1, <1>a, TransitionEffect DEF AdapterStates
  <2>3. /\ monitors'[j].pc = "waiting"
        /\ \A k \in Jobs : monitors[k].pc # "off" => monitors'[k].pc # "off"
    BY <2>1 DEF TypeInv, TasksOK, MonitorStates
  <2>4. \A k \in Jobs \ {j} : jobs'[k] = jobs[k]
    BY <2>1 DEF GoTo, TypeInv, TasksOK
  <2>5. ASSUME NEW a \in Adapters,
               adapters'[a].state \in {"UNKNOWN", "DOWNLOADING", "INSTALLING"}
        PROVE  /\ adapters[a].state = adapters'[a].state
               /\ \A k \in Jobs : AdapterIdOf(k) = a /\ jobs[k].pc \in Working
                                    => jobs'[k].pc \in Working
    BY <2>2, <2>4, <2>5 DEF b
  <2>6. ASSUME NEW a \in Adapters, adapters'[a].state = "OFFLOADING"
        PROVE  adapters[a].state = "OFFLOADING"
    BY <2>2, <2>6
  <2>7. ASSUME NEW a \in Adapters, adapters'[a].state = "RUNNING"
        PROVE  \/ \E k \in Jobs : AdapterIdOf(k) = a /\ monitors'[k].pc # "off"
               \/ /\ adapters[a].state = "RUNNING"
                  /\ \A k \in Jobs : AdapterIdOf(k) = a /\ monitors[k].pc # "off"
                                       => monitors'[k].pc # "off"
    BY <2>2, <2>3, <2>7 DEF b
  <2> QED BY <2>1, <2>5, <2>6, <2>7, StaysAttended
<1> QED BY <1>1, <1>2, <1>3, <1>4, <1>5, <1>6, <1>7, <1>8 DEF InstallStep

LEMMA MonitorAttended ==
  ASSUME TypeInv, Attended, NEW j \in Jobs, WaitReturns(j) \/ MonitorReports(j)
  PROVE  Attended'
<1> DEFINE b == AdapterIdOf(j)
<1>1. CASE WaitReturns(j)
  <2>1. UNCHANGED <<adapters, jobs, cleaners>>
    BY <1>1 DEF WaitReturns
  <2>2. \A k \in Jobs : monitors[k].pc # "off" => monitors'[k].pc # "off"
    BY <1>1 DEF WaitReturns, TypeInv, TasksOK
  <2> QED BY <2>1, <2>2, StaysAttended
<1>2. CASE MonitorReports(j)
  <2>1. monitors' = [monitors EXCEPT ![j].pc = "off"]
    BY <1>2 DEF MonitorReports
  <2>2. /\ \A c \in Adapters \ {b} : adapters'[c].state = adapters[c].state
        /\ adapters'[b].state \in {"STOPPED", "ERROR", "ABSENT"}
    BY <1>2, JobAdapter, TransitionEffect DEF TypeInv, AdapterStates, MonitorReports
  <2>3. \A k \in Jobs \ {j} : monitors'[k] = monitors[k]
    BY <2>1 DEF TypeInv, TasksOK
  <2>4. UNCHANGED <<jobs, cleaners>>
    BY <1>2 DEF MonitorReports
  <2> QED BY <2>2, <2>3, <2>4, StaysAttended
<1> QED BY <1>1, <1>2

LEMMA CleanersAttended ==
  ASSUME TypeInv, Attended,
         \/ \E c \in Cleaners : CleanStep(c) \/ RemoveDropped(c)
         \/ \E r \in Removals, a \in Adapters : Remove(r, a)
  PROVE  Attended'
<1>a. AdaptersOK /\ Offloader \notin Removals
  BY DEF TypeInv
<1>1. ASSUME NEW c \in Cleaners, CleanerPodman(c) PROVE Attended'
  <2>1. UNCHANGED <<adapters, jobs, monitors>> /\ cleaners[c].pc \in {"stop", "rm", "rmi"}
    BY <1>1 DEF CleanerPodman, AfterCommand
  <2>2. CleanTo(c, AfterCommand[cleaners[c].pc]) \/ CleanTo(c, "failed")
    BY <1>1 DEF CleanerPodman
  <2>3. CleanTo(c, "rm") \/ CleanTo(c, "rmi") \/ CleanTo(c, "forget") \/ CleanTo(c, "failed")
    BY <2>1, <2>2 DEF AfterCommand
  <2>4. /\ cleaners'[Offloader].id = cleaners[Offloader].id
        /\ cleaners[Offloader].pc \in Clearing => cleaners'[Offloader].pc \in Clearing
    BY <2>3 DEF CleanTo, TypeInv, TasksOK, CleanerStates, Cleaners, Clearing
  <2> QED BY <2>1, <2>4, StaysAttended
<1>2. ASSUME NEW r \in Removals, RemoveDropped(r) \/ \E a \in Adapters : Remove(r, a)
      PROVE  Attended'
  <2>1. UNCHANGED <<adapters, jobs, monitors>> /\ cleaners'[Offloader] = cleaners[Offloader]
    BY <1>2 DEF RemoveDropped, Remove, CleanTo, TypeInv, TasksOK, Cleaners
  <2> QED BY <2>1, StaysAttended
<1>3. ASSUME NEW c \in Cleaners, Forget(c) \/ CleanupFailed(c) PROVE Attended'
  <2> DEFINE b == cleaners[c].id
  <2>1. b \in Adapters
    BY <1>3 DEF Forget, CleanupFailed, TypeInv, AimsOK
  <2>2. UNCHANGED <<jobs, monitors>> /\ (c # Offloader => cleaners'[Offloader] = cleaners[Offloader])
    BY <1>3 DEF Forget, CleanupFailed, CleanerDone, CleanTo, TypeInv, TasksOK, Cleaners
  <2>3. /\ \A a \in Adapters \ {b} : adapters'[a].state = adapters[a].state
        /\ adapters'[b].state \in {"ERROR", "ABSENT"}
    <3>1. CASE Forget(c)
      BY <3>1, <2>1, <1>a DEF Forget, AdaptersOK, NoEntry
    <3>2. CASE CleanupFailed(c)
      BY <3>2, <2>1, <1>a, TransitionEffect DEF CleanupFailed, AdapterStates
    <3> QED BY <1>3, <3>1, <3>2
  <2>4. ASSUME NEW a \in Adapters, adapters'[a].state = "OFFLOADING"
        PROVE  adapters[a].state = "OFFLOADING" /\ cleaners'[Offloader] = cleaners[Offloader]
    <3>1. a # b /\ adapters[a].state = "OFFLOADING"
      BY <2>3, <2>4
    <3>2. cleaners[Offloader].id = a
      BY <3>1 DEF Attended, OffloadingIsAttended
    <3> QED BY <3>1, <3>2, <2>2
  <2>5. ASSUME NEW a \in Adapters,
               adapters'[a].state \in {"UNKNOWN", "DOWNLOADING", "INSTALLING", "RUNNING"}
        PROVE  adapters[a].state = adapters'[a].state
    BY <2>3, <2>5
  <2> HIDE DEF b
  <2> QED BY <2>2, <2>4, <2>5, StaysAttended
<1> QED BY <1>1, <1>2, <1>3 DEF CleanStep, RemoveDropped

LEMMA OffloadAttended == ASSUME TypeInv, Attended, OffloadStep PROVE Attended'
<1>a. Offloader \in Cleaners /\ AdaptersOK
  BY DEF Cleaners, TypeInv
<1>1. CASE OffloadCheck
  <2>1. UNCHANGED <<adapters, jobs, monitors>> /\ cleaners[Offloader].pc = "idle"
        /\ cleaners'[Offloader].id = cleaners[Offloader].id
    BY <1>1, <1>a DEF OffloadCheck, CleanTo, TypeInv, TasksOK, CleanerStates
  <2> QED BY <2>1, StaysAttended DEF Clearing
<1>2. CASE OffloadSleeps
  <2>1. UNCHANGED <<adapters, jobs, monitors>> /\ cleaners[Offloader].pc = "next"
    BY <1>2 DEF OffloadSleeps
  <2>2. \A a \in Adapters : adapters[a].state # "OFFLOADING"
    BY <2>1 DEF Attended, OffloadingIsAttended
  <2> QED BY <2>1, <2>2, StaysAttended
<1>3. ASSUME NEW e \in todo, OffloadNext(e) PROVE Attended'
  <2>1. e.id \in Adapters
    BY DEF TypeInv, TasksOK
  <2>2. /\ \A a \in Adapters \ {e.id} : adapters'[a].state = adapters[a].state
        /\ adapters'[e.id].state \in {"OFFLOADING", "ABSENT"}
    BY <1>3, <1>a, <2>1, TransitionEffect DEF OffloadNext, AdapterStates
  <2>3. /\ UNCHANGED <<jobs, monitors>> /\ cleaners[Offloader].pc = "next"
        /\ cleaners'[Offloader].id = e.id /\ cleaners'[Offloader].pc = "rm"
    BY <1>3, <1>a DEF OffloadNext, TypeInv, TasksOK
  <2>4. \A a \in Adapters : adapters[a].state # "OFFLOADING"
    BY <2>3 DEF Attended, OffloadingIsAttended
  <2>5. \A a \in Adapters : adapters'[a].state = "OFFLOADING" => a = e.id
    BY <2>2, <2>4
  <2>6. ASSUME NEW a \in Adapters,
               adapters'[a].state \in {"UNKNOWN", "DOWNLOADING", "INSTALLING", "RUNNING"}
        PROVE  adapters[a].state = adapters'[a].state
    BY <2>2, <2>6
  <2> QED BY <2>3, <2>5, <2>6, StaysAttended DEF Clearing
<1> QED BY <1>1, <1>2, <1>3 DEF OffloadStep

LEMMA AttendedStep == TypeInv /\ Attended /\ [Next]_vars => Attended'
<1> SUFFICES ASSUME TypeInv, Attended, [Next]_vars PROVE Attended'
  OBVIOUS
<1>1. CASE UNCHANGED <<adapters, jobs, monitors, cleaners>>
  BY <1>1, StaysAttended
<1>2. ASSUME NEW a \in Adapters, ContainerExits(a) \/ TimePasses(a) PROVE Attended'
  <2>1. UNCHANGED <<jobs, monitors, cleaners>>
    BY <1>2 DEF ContainerExits, TimePasses
  <2>2. \A b \in Adapters : adapters'[b].state = adapters[b].state
    BY <1>2 DEF ContainerExits, TimePasses, TypeInv, AdaptersOK, Entries
  <2> QED BY <2>1, <2>2, StaysAttended
<1>3. CASE Restart
  <2>1. \A a \in Adapters : adapters'[a].state = "ABSENT"
    BY <1>3 DEF Restart, NoEntry
  <2> QED BY <2>1, StaysAttended
<1>4. CASE Next
  BY <1>1, <1>2, <1>3, <1>4, InstallAttended, InstallStepAttended, MonitorAttended,
     CleanersAttended, OffloadAttended DEF Next, Rest, vars, Cleaners
<1> QED BY <1>1, <1>4 DEF vars

(* An adapter in UNKNOWN, DOWNLOADING or INSTALLING always has an install  *)
(* task at work on it.                                                     *)
THEOREM NoInstallStuck == Spec => []InstallingIsAttended
<1>1. Attended => InstallingIsAttended
  BY DEF Attended
<1> QED BY <1>1, TypeInvInit, TypeInvStep, AttendedInit, AttendedStep, PTL DEF Spec

(* An adapter in OFFLOADING is the one the offload cycle works on.         *)
THEOREM NoOffloadStuck == Spec => []OffloadingIsAttended
<1>1. Attended => OffloadingIsAttended
  BY DEF Attended
<1> QED BY <1>1, TypeInvInit, TypeInvStep, AttendedInit, AttendedStep, PTL DEF Spec

(* A RUNNING adapter always has a monitor on it.                           *)
THEOREM NoRunningUnwatched == Spec => []RunningIsWatched
<1>1. Attended => RunningIsWatched
  BY DEF Attended
<1> QED BY <1>1, TypeInvInit, TypeInvStep, AttendedInit, AttendedStep, PTL DEF Spec

-----------------------------------------------------------------------------
(* One adapter RUNNING, if clients wait.  SingleRunning is not inductive:  *)
(* an install makes its adapter RUNNING trusting that the one it stopped   *)
(* first was the only one and that no other install works beside it.       *)
Stopping == {"stop", "stopped", "stopFailed"}
Building == {"create", "download", "pull", "inspect", "matched", "mismatched", "discard",
             "run", "started", "failed"}

Serial ==
  /\ \A j, k \in Jobs : JobBusy(j) /\ JobBusy(k) => j = k
  /\ \A j \in Jobs : jobs[j].pc \in Stopping => RunningAdapters \subseteq {jobs[j].victim}
  /\ \A j \in Jobs : jobs[j].pc \in Building => RunningAdapters = {}
  /\ SingleRunning

LEMMA SerialInit == Init => Serial
  BY DEF Init, NoEntry, Serial, SingleRunning, RunningAdapters, JobBusy, Stopping, Building

(* Tasks that make no adapter RUNNING and start no job.                    *)
LEMMA SerialBesides ==
  ASSUME Serial, UNCHANGED jobs,
         \A a \in Adapters : adapters'[a].state = "RUNNING" => adapters[a].state = "RUNNING"
  PROVE  Serial'
<1>1. RunningAdapters' \subseteq RunningAdapters
  BY DEF RunningAdapters
<1>2. SingleRunning'
  BY <1>1 DEF Serial, SingleRunning
<1> QED BY <1>1, <1>2 DEF Serial, JobBusy

(* A step of the one busy job.                                             *)
LEMMA SerialJob ==
  ASSUME TypeInv, Serial, NEW j \in Jobs, JobBusy(j),
         NEW pc \in Stopping \cup Building \cup {"done"}, GoTo(j, pc),
         RunningAdapters' \subseteq RunningAdapters,
         pc \in Stopping => jobs[j].pc \in Stopping,
         pc \in Building => RunningAdapters' = {}
  PROVE  Serial'
<1>1. /\ jobs'[j].pc = pc /\ jobs'[j].victim = jobs[j].victim
      /\ \A k \in Jobs \ {j} : jobs'[k] = jobs[k] /\ ~JobBusy(k)
  BY DEF GoTo, TypeInv, TasksOK, JobStates, Serial, Stopping, Building
<1>2. \A k \in Jobs \ {j} : jobs'[k].pc \in {"idle", "done"}
  BY <1>1 DEF JobBusy
<1>3. \A k, l \in Jobs : JobBusy(k)' /\ JobBusy(l)' => k = l
  BY <1>2 DEF JobBusy
<1>4. \A k \in Jobs : jobs'[k].pc \in Stopping => RunningAdapters' \subseteq {jobs'[k].victim}
  BY <1>1, <1>2 DEF Serial, Stopping
<1>5. \A k \in Jobs : jobs'[k].pc \in Building => RunningAdapters' = {}
  BY <1>1, <1>2 DEF Building
<1>6. SingleRunning'
  BY DEF Serial, SingleRunning
<1> QED BY <1>3, <1>4, <1>5, <1>6 DEF Serial

LEMMA SerialInstall ==
  ASSUME TypeInv, Serial, ClientsWait, NEW j \in Jobs, Install(j) PROVE Serial'
<1>1. UNCHANGED adapters /\ \A k \in Jobs : jobs[k].pc \in {"idle", "done"}
  BY DEF Install, ClientFree, JobBusy
<1>2. \A k \in Jobs \ {j} : jobs'[k] = jobs[k]
  BY DEF Install, GoTo, TypeInv, TasksOK
<1>3. \A k, l \in Jobs : JobBusy(k)' /\ JobBusy(l)' => k = l
  BY <1>1, <1>2 DEF JobBusy
<1>4. RunningAdapters' = RunningAdapters /\ SingleRunning'
  BY <1>1 DEF RunningAdapters, Serial, SingleRunning
<1>5. CASE RunningAdapters = {} /\ GoTo(j, "create")
  <2>1. jobs'[j].pc = "create"
    BY <1>5 DEF GoTo, TypeInv, TasksOK, JobStates
  <2> QED BY <1>1, <1>2, <1>3, <1>4, <1>5, <2>1 DEF Serial, Stopping, Building
<1>6. ASSUME NEW a \in RunningAdapters, jobs' = [jobs EXCEPT ![j] = [pc |-> "stop", victim |-> a]]
      PROVE  Serial'
  <2>1. jobs'[j].pc = "stop" /\ jobs'[j].victim = a
    BY <1>6 DEF TypeInv, TasksOK
  <2>2. RunningAdapters = {a}
    BY <1>6 DEF Serial, SingleRunning
  <2> QED BY <1>1, <1>2, <1>3, <1>4, <2>1, <2>2 DEF Serial, Stopping, Building
<1> QED BY <1>5, <1>6 DEF Install

LEMMA SerialInstallStep ==
  ASSUME TypeInv, Serial, NEW j \in Jobs, InstallStep(j) \/ InstallDropped(j) PROVE Serial'
<1> DEFINE b == AdapterIdOf(j)
<1>a. AdaptersOK /\ b \in Adapters
  BY JobAdapter DEF TypeInv
<1>b. ASSUME NEW a \in Adapters, NEW s \in AdapterStates \ {"RUNNING"}, Transition(a, s)
      PROVE  RunningAdapters' = RunningAdapters \ {a}
  <2>1. /\ \A c \in Adapters \ {a} : adapters'[c] = adapters[c]
        /\ adapters'[a].state \in {s, "ABSENT"}
    BY <1>a, <1>b, TransitionEffect
  <2> QED BY <2>1 DEF RunningAdapters, AdapterStates
<1>c. UNCHANGED adapters => RunningAdapters' = RunningAdapters
  BY DEF RunningAdapters
<1> HIDE DEF b
<1>1. CASE StopVictim(j) \/ InstallDropped(j)
  <2>1. /\ UNCHANGED adapters /\ jobs[j].pc = "stop"
        /\ GoTo(j, "stopped") \/ GoTo(j, "stopFailed") \/ GoTo(j, "done")
    BY <1>1 DEF StopVictim, InstallDropped
  <2> QED BY <2>1, <1>c, SerialJob DEF JobBusy, Stopping, Building
<1>2. CASE VictimStopped(j)
  <2> DEFINE v == jobs[j].victim
  <2>1. v \in Adapters /\ RunningAdapters \subseteq {v}
    BY <1>2 DEF VictimStopped, TypeInv, AimsOK, Serial, Stopping
  <2>2. /\ GoTo(j, "create") /\ jobs[j].pc \in Stopping
        /\ Transition(v, "STOPPED") \/ Transition(v, "ERROR")
    BY <1>2 DEF VictimStopped, Stopping
  <2>3. RunningAdapters' = {}
    BY <1>b, <2>1, <2>2 DEF AdapterStates
  <2> QED BY <2>2, <2>3, SerialJob DEF JobBusy, Stopping, Building
<1>3. CASE jobs[j].pc \in Building /\ InstallStep(j)
  <2>1. RunningAdapters = {} /\ JobBusy(j)
    BY <1>3 DEF Serial, JobBusy, Building
  <2>2. CASE CreateAdapter(j)
    <3>1. RunningAdapters' = {}
      BY <2>1, <2>2, <1>a DEF CreateAdapter, RunningAdapters, AdaptersOK
    <3> QED BY <2>1, <2>2, <3>1, SerialJob DEF CreateAdapter, Stopping, Building
  <2>3. CASE Download(j) \/ Verify(j) \/ InstallFailed(j)
    <3>1. /\ \/ Transition(b, "DOWNLOADING") \/ Transition(b, "INSTALLING")
             \/ Transition(b, "ERROR")
          /\ GoTo(j, "pull") \/ GoTo(j, "run") \/ GoTo(j, "discard") \/ GoTo(j, "done")
      BY <2>3 DEF Download, Verify, InstallFailed, b
    <3>2. RunningAdapters' = {}
      BY <1>a, <1>b, <2>1, <3>1 DEF AdapterStates
    <3> QED BY <2>1, <3>1, <3>2, SerialJob DEF Stopping, Building
  <2>4. CASE Pull(j) \/ Inspect(j) \/ InspectFails(j) \/ Discard(j) \/ Run(j)
    <3>1. /\ UNCHANGED adapters
          /\ \/ GoTo(j, "inspect") \/ GoTo(j, "matched") \/ GoTo(j, "mismatched")
             \/ GoTo(j, "failed") \/ GoTo(j, "done") \/ GoTo(j, "started")
      BY <2>4 DEF Pull, Inspect, InspectFails, Discard, Run
    <3> QED BY <2>1, <3>1, <1>c, SerialJob DEF Stopping, Building
  <2>5. CASE Started(j)
    <3>1. GoTo(j, "done") /\ Transition(b, "RUNNING")
      BY <2>5 DEF Started, b
    <3>2. \A c \in Adapters \ {b} : adapters'[c] = adapters[c]
      BY <1>a, <3>1, TransitionEffect DEF AdapterStates
    <3>3. RunningAdapters' \subseteq {b}
      BY <2>1, <3>2 DEF RunningAdapters
    <3>4. SingleRunning'
      BY <3>3 DEF SingleRunning
    <3>5. \A k \in Jobs : jobs'[k].pc \in {"idle", "done"}
      BY <2>1, <3>1 DEF GoTo, TypeInv, TasksOK, JobStates, Serial, JobBusy
    <3> QED BY <3>4, <3>5 DEF Serial, JobBusy, Stopping, Building
  <2> QED BY <1>3, <2>2, <2>3, <2>4, <2>5
          DEF InstallStep, StopVictim, VictimStopped, Building
<1>4. InstallStep(j) => StopVictim(j) \/ VictimStopped(j) \/ jobs[j].pc \in Building
  BY DEF InstallStep, CreateAdapter, Download, Pull, Inspect, InspectFails, Verify, Discard,
         Run, Started, InstallFailed, Building
<1> QED BY <1>1, <1>2, <1>3, <1>4

LEMMA SerialStep == ASSUME ClientsWait PROVE TypeInv /\ Serial /\ [Next]_vars => Serial'
<1> SUFFICES ASSUME TypeInv, Serial, [Next]_vars PROVE Serial'
  OBVIOUS
<1>a. AdaptersOK
  BY DEF TypeInv
<1>b. ASSUME NEW a \in Adapters, NEW s \in AdapterStates \ {"RUNNING"}, Transition(a, s)
      PROVE  \A c \in Adapters : adapters'[c].state = "RUNNING" => adapters[c].state = "RUNNING"
  BY <1>a, <1>b, TransitionEffect DEF AdapterStates
<1>1. CASE UNCHANGED <<adapters, jobs>>
  BY <1>1, SerialBesides
<1>2. ASSUME NEW j \in Jobs, MonitorReports(j) PROVE Serial'
  <2>1. UNCHANGED jobs /\ (Transition(AdapterIdOf(j), "STOPPED") \/ Transition(AdapterIdOf(j), "ERROR"))
    BY <1>2 DEF MonitorReports
  <2> QED BY <2>1, <1>b, JobAdapter, SerialBesides DEF AdapterStates
<1>3. ASSUME NEW c \in Cleaners, CleanStep(c) \/ RemoveDropped(c) PROVE Serial'
  <2>1. CASE UNCHANGED <<adapters, jobs>>
    BY <2>1, <1>1
  <2>2. CASE Forget(c)
    BY <2>2, <1>a, SerialBesides DEF Forget, NoEntry, AdaptersOK
  <2>3. CASE CleanupFailed(c)
    <3>1. cleaners[c].id \in Adapters
      BY <2>3 DEF CleanupFailed, TypeInv, AimsOK
    <3> QED BY <2>3, <3>1, <1>b, SerialBesides DEF CleanupFailed, AdapterStates
  <2> QED BY <1>3, <2>1, <2>2, <2>3 DEF CleanStep, CleanerPodman, RemoveDropped
<1>4. ASSUME NEW e \in todo, OffloadNext(e) PROVE Serial'
  <2>1. e.id \in Adapters
    BY DEF TypeInv, TasksOK
  <2> QED BY <1>4, <2>1, <1>b, SerialBesides DEF OffloadNext, AdapterStates
<1>5. ASSUME NEW a \in Adapters, TimePasses(a) PROVE Serial'
  BY <1>5, <1>a, SerialBesides DEF TimePasses, AdaptersOK, Entries
<1>6. CASE Restart
  <2>1. \A a \in Adapters : adapters'[a].state = "ABSENT"
    BY <1>6 DEF Restart, NoEntry
  <2>2. \A j \in Jobs : jobs'[j].pc \in {"idle", "done"}
    BY <1>6 DEF Restart, JobBusy, TypeInv, TasksOK, JobStates
  <2> QED BY <2>1, <2>2 DEF Serial, SingleRunning, RunningAdapters, JobBusy, Stopping, Building
<1>7. (\E j \in Jobs : WaitReturns(j)) \/ (\E r \in Removals, a \in Adapters : Remove(r, a))
        \/ (\E a \in Adapters : ContainerExits(a)) \/ OffloadCheck \/ OffloadSleeps \/ Rest
        => UNCHANGED <<adapters, jobs>>
  BY DEF WaitReturns, Remove, ContainerExits, OffloadCheck, OffloadSleeps, Rest, vars
<1>8. CASE Next
  BY <1>1, <1>2, <1>3, <1>4, <1>5, <1>6, <1>7, <1>8, SerialInstall, SerialInstallStep
     DEF Next, OffloadStep, Cleaners
<1> QED BY <1>1, <1>8 DEF vars

(* At most one adapter is RUNNING, provided that every client sends its    *)
(* request after the last one is over; TLC shows the proviso is needed.    *)
THEOREM OneRunning == ASSUME ClientsWait PROVE Spec => []SingleRunning
<1>1. TypeInv /\ Serial /\ [Next]_vars => Serial'
  BY SerialStep
<1>2. Serial => SingleRunning
  BY DEF Serial
<1> QED BY <1>1, <1>2, TypeInvInit, TypeInvStep, SerialInit, PTL DEF Spec

-----------------------------------------------------------------------------
(* No stray containers, if no adapter is installed twice and clients wait. *)
InstalledOnce == \A j, k \in Jobs : AdapterIdOf(j) = AdapterIdOf(k) => j = k

Cleaning == {"stop", "rm", "rmi", "forget", "failed"}

(* Until an install is over nobody else has to do with its adapter: it was *)
(* never RUNNING, so no monitor reports, no candidate names it, no install *)
(* stops it, and no removal begins while clients wait.                     *)
Undisturbed(j) ==
  LET a == AdapterIdOf(j) IN
  jobs[j].pc # "done" =>
    /\ adapters[a].state \notin {"RUNNING", "STOPPED"}
    /\ monitors[j].pc = "off"
    /\ \A e \in todo : e.id # a
    /\ \A c \in Cleaners : cleaners[c].pc \in Cleaning => cleaners[c].id # a
    /\ \A k \in Jobs : jobs[k].pc \in Stopping => jobs[k].victim # a
    /\ jobs[j].pc \in {"idle", "create"} \cup Stopping => ~Known(a)
    /\ jobs[j].pc \in {"download", "pull", "inspect", "matched", "mismatched", "run"} => Known(a)

(* After rm there is no container any more.                                *)
Emptied == \A c \in Cleaners :
  cleaners[c].pc \in {"rmi", "forget"} => containers[cleaners[c].id].status = "absent"

Housed == \A a \in Adapters : containers[a].status # "absent" => Known(a)

Tidy == Housed /\ Emptied /\ \A j \in Jobs : Undisturbed(j)

LEMMA TidyInit == Init => Tidy
<1> SUFFICES ASSUME Init PROVE Tidy
  OBVIOUS
<1>1. \A a \in Adapters : adapters[a].state = "ABSENT" /\ containers[a].status = "absent"
  BY DEF Init, NoEntry, NoContainer
<1>2. \A j \in Jobs : jobs[j].pc = "idle" /\ monitors[j].pc = "off"
  BY DEF Init
<1>3. \A c \in Cleaners : cleaners[c].pc = "idle"
  BY DEF Init, IdleCleaner
<1>4. todo = {}
  BY DEF Init
<1>5. Housed /\ Emptied
  BY <1>1, <1>3 DEF Housed, Emptied
<1>6. \A j \in Jobs : Undisturbed(j)
  BY <1>1, <1>2, <1>3, <1>4, JobAdapter DEF Undisturbed, Known, Cleaning, Stopping
<1> QED BY <1>5, <1>6 DEF Tidy

(* transition makes and drops no entry.                                    *)
LEMMA TransitionKnown ==
  ASSUME AdaptersOK, NEW a \in Adapters, NEW s \in AdapterStates, Transition(a, s)
  PROVE  /\ \A b \in Adapters : Known(b)' <=> Known(b)
         /\ \A b \in Adapters \ {a} : adapters'[b] = adapters[b]
         /\ adapters'[a].state \in {s, "ABSENT"}
<1>1. \A b \in Adapters \ {a} : adapters'[b] = adapters[b]
  BY TransitionEffect
<1>2. s # "ABSENT"
  BY DEF AdapterStates
<1>3. Known(a)' <=> Known(a)
  <2>1. CASE ~Known(a)
    BY <2>1 DEF Transition, Known
  <2>2. CASE Known(a)
    BY <2>2, <1>2 DEF Transition, Known, AdaptersOK, Entries
  <2> QED BY <2>1, <2>2
<1> QED BY <1>1, <1>3, TransitionEffect DEF Known

(* Only run makes a container; stop, rmi and pull leave all in place.      *)
LEMMA PodmanKeeps ==
  ASSUME PodmanOK, NEW ok \in BOOLEAN,
         \/ \E a \in Adapters : PodmanStop(a, ok)
         \/ \E i \in Images \cup {Nobody} : PodmanRmi(i, ok)
         \/ \E i \in Images : PodmanPull(i, ok)
  PROVE  \A b \in Adapters : containers'[b].status = "absent" <=> containers[b].status = "absent"
<1>1. ASSUME NEW a \in Adapters, containers[a].status # "absent",
             NEW code \in {"zero", "nonzero"}, containers' = Exited(a, code)
      PROVE  \A b \in Adapters : containers'[b].status = "absent" <=> containers[b].status = "absent"
  BY <1>1 DEF Exited, PodmanOK, Containers
<1>2. CASE UNCHANGED containers
  BY <1>2
<1> QED BY <1>1, <1>2 DEF PodmanStop, PodmanRmi, PodmanPull

(* rm makes none, and after it there is none.                              *)
LEMMA RmEmpties ==
  ASSUME PodmanOK, NEW a \in Adapters, NEW ok \in BOOLEAN, PodmanRm(a, ok)
  PROVE  /\ \A b \in Adapters : containers[b].status = "absent" => containers'[b].status = "absent"
         /\ ok => containers'[a].status = "absent"
BY DEF PodmanRm, PodmanOK, NoContainer

(* A job that does not move stays undisturbed if its adapter and what      *)
(* others aim at stay as they are.                                         *)
LEMMA StaysUndisturbed ==
  ASSUME NEW j \in Jobs, Undisturbed(j),
         jobs'[j].pc = jobs[j].pc, 
         jobs[j].pc # "done" =>
           LET a == AdapterIdOf(j) IN
           /\ adapters'[a].state = adapters[a].state
           /\ monitors'[j] = monitors[j]
           /\ \A e \in todo' : e.id # a
           /\ \A c \in Cleaners : cleaners'[c].pc \in Cleaning => cleaners'[c].id # a
           /\ \A k \in Jobs : jobs'[k].pc \in Stopping => jobs'[k].victim # a
  PROVE  Undisturbed(j)'
BY DEF Undisturbed, Known, AdapterIdOf

(* A job goes on: what it may do to its own adapter and to others.         *)
LEMMA JobStaysTidy ==
  ASSUME TypeInv, Tidy, InstalledOnce, NEW j \in Jobs, jobs[j].pc # "done",
         NEW pc, GoTo(j, pc), pc \in Stopping => jobs[j].pc \in Stopping,
         UNCHANGED <<cleaners, todo>>,
         \A k \in Jobs \ {j} : monitors'[k] = monitors[k],
         \A b \in Adapters \ {AdapterIdOf(j)} :
           containers'[b].status # "absent" => containers[b].status # "absent",
         containers'[AdapterIdOf(j)].status # "absent" => Known(AdapterIdOf(j))',
         \A b \in Adapters : Known(b) => Known(b)',
         \A k \in Jobs \ {j} : jobs[k].pc # "done"
           => adapters'[AdapterIdOf(k)] = adapters[AdapterIdOf(k)],
         pc # "done" =>
           /\ monitors'[j] = monitors[j]
           /\ adapters'[AdapterIdOf(j)].state \notin {"RUNNING", "STOPPED"}
           /\ pc \in {"idle", "create"} \cup Stopping => ~Known(AdapterIdOf(j))'
           /\ pc \in {"download", "pull", "inspect", "matched", "mismatched", "run"}
                => Known(AdapterIdOf(j))'
  PROVE  Tidy'
<1> DEFINE b == AdapterIdOf(j)
<1>a. b \in Adapters
  BY JobAdapter
<1>b. Undisturbed(j) /\ Housed /\ Emptied
  BY DEF Tidy
<1>c. /\ jobs'[j].pc = pc /\ jobs'[j].victim = jobs[j].victim
      /\ \A k \in Jobs \ {j} : jobs'[k] = jobs[k]
  BY DEF GoTo, TypeInv, TasksOK, JobStates
<1>d. \A k \in Jobs : jobs'[k].pc \in Stopping
                       => jobs[k].pc \in Stopping /\ jobs'[k].victim = jobs[k].victim
  BY <1>c
<1>1. Housed'
  BY <1>a, <1>b DEF Housed
<1>2. Emptied'
  <2> SUFFICES ASSUME NEW c \in Cleaners, cleaners[c].pc \in {"rmi", "forget"}
               PROVE  containers'[cleaners[c].id].status = "absent"
    BY DEF Emptied
  <2>1. cleaners[c].id \in Adapters /\ containers[cleaners[c].id].status = "absent"
    BY <1>b DEF Emptied, TypeInv, AimsOK
  <2>2. cleaners[c].id # b
    BY <1>b DEF Undisturbed, Cleaning
  <2> QED BY <2>1, <2>2
<1>3. ASSUME NEW k \in Jobs \ {j} PROVE Undisturbed(k)'
  <2>1. Undisturbed(k) /\ jobs'[k] = jobs[k]
    BY <1>c DEF Tidy
  <2> QED BY <2>1, <1>d, StaysUndisturbed DEF Undisturbed
<1>4. Undisturbed(j)'
  BY <1>b, <1>c, <1>d DEF Undisturbed, AdapterIdOf
<1> QED BY <1>1, <1>2, <1>3, <1>4 DEF Tidy

(* A new install: what it stops was RUNNING, so no install of it goes on.  *)
LEMMA InstallTidy ==
  ASSUME TypeInv, Tidy, NEW j \in Jobs, Install(j) PROVE Tidy'
<1>1. UNCHANGED <<adapters, containers, monitors, cleaners, todo>> /\ jobs[j].pc = "idle"
  BY DEF Install, JobNoPodman, JobOnly
<1>2. Housed' /\ Emptied'
  BY <1>1 DEF Tidy, Housed, Emptied, Known
<1>3. /\ \A k \in Jobs \ {j} : jobs'[k] = jobs[k]
      /\ \/ jobs'[j].pc = "create"
         \/ jobs'[j].pc = "stop" /\ jobs'[j].victim \in RunningAdapters
  BY DEF Install, GoTo, TypeInv, TasksOK, JobStates
<1>4. ASSUME NEW k \in Jobs, jobs[k].pc # "done", NEW l \in Jobs, jobs'[l].pc \in Stopping
      PROVE  jobs'[l].victim # AdapterIdOf(k)
  <2>1. Undisturbed(k)
    BY DEF Tidy
  <2>2. CASE l = j
    BY <1>3, <1>4, <2>1, <2>2 DEF Undisturbed, RunningAdapters, Stopping
  <2>3. CASE l # j
    BY <1>3, <1>4, <2>1, <2>3 DEF Undisturbed
  <2> QED BY <2>2, <2>3
<1>5. \A k \in Jobs \ {j} : Undisturbed(k)'
  BY <1>1, <1>3, <1>4, StaysUndisturbed DEF Tidy, Undisturbed
<1>6. Undisturbed(j)'
  <2>1. Undisturbed(j)
    BY DEF Tidy
  <2> QED BY <1>1, <1>3, <1>4, <2>1 DEF Undisturbed, Known, Stopping, AdapterIdOf
<1> QED BY <1>2, <1>5, <1>6 DEF Tidy

LEMMA InstallStepTidy ==
  ASSUME TypeInv, Tidy, InstalledOnce, NEW j \in Jobs, InstallStep(j) \/ InstallDropped(j)
  PROVE  Tidy'
<1> DEFINE b == AdapterIdOf(j)
<1>a. AdaptersOK /\ PodmanOK /\ b \in Adapters /\ ImageOf[j] \in Images
  BY JobAdapter DEF TypeInv
<1>b. Undisturbed(j) /\ Housed
  BY DEF Tidy
<1>c. \A k \in Jobs \ {j} : AdapterIdOf(k) \in Adapters \ {b}
  BY JobAdapter DEF InstalledOnce
<1>d. jobs[j].pc \notin {"idle", "done"}
  BY DEF InstallStep, InstallDropped, StopVictim, VictimStopped, CreateAdapter, Download, Pull,
         Inspect, InspectFails, Verify, Discard, Run, Started, InstallFailed
(* Steps that leave the map as it is. *)
<1>1. ASSUME NEW pc, GoTo(j, pc), pc \in {"stopped", "stopFailed"} => jobs[j].pc = "stop",
             pc \notin {"idle", "create", "stop", "download", "pull", "run"},
             pc \in {"inspect", "matched", "mismatched"} => jobs[j].pc \in {"pull", "inspect"},
             UNCHANGED adapters, JobOnly,
             \A a \in Adapters : containers'[a].status # "absent"
                                   => containers[a].status # "absent" \/ (a = b /\ Known(b))
      PROVE  Tidy'
  <2>1. UNCHANGED <<monitors, cleaners, todo>> /\ \A a \in Adapters : Known(a)' <=> Known(a)
    BY <1>1 DEF JobOnly, Known
  <2>2. containers'[b].status # "absent" => Known(b)'
    BY <1>1, <1>a, <1>b, <2>1 DEF Housed
  <2>3. pc \in Stopping => jobs[j].pc \in Stopping /\ ~Known(b)
    BY <1>1, <1>b DEF Stopping, Undisturbed
  <2>4. pc \in {"inspect", "matched", "mismatched"} => Known(b)
    BY <1>1, <1>b DEF Undisturbed
  <2>5. adapters'[b].state \notin {"RUNNING", "STOPPED"}
    BY <1>1, <1>b, <1>d DEF Undisturbed
  <2> HIDE DEF b
  <2> QED BY <1>1, <1>a, <1>d, <2>1, <2>2, <2>3, <2>4, <2>5, JobStaysTidy DEF b
(* Steps that give the job's own adapter a state. *)
<1>2. ASSUME NEW s \in {"DOWNLOADING", "INSTALLING", "ERROR"}, Transition(b, s), JobNoPodman,
             NEW pc \in {"pull", "run", "discard", "done"}, GoTo(j, pc),
             pc = "pull" => jobs[j].pc = "download", pc = "run" => jobs[j].pc = "matched"
      PROVE  Tidy'
  <2>1. UNCHANGED <<containers, monitors, cleaners, todo>>
    BY <1>2 DEF JobNoPodman, JobOnly
  <2>2. /\ \A a \in Adapters : Known(a)' <=> Known(a)
        /\ \A a \in Adapters \ {b} : adapters'[a] = adapters[a]
        /\ adapters'[b].state \in {s, "ABSENT"}
    BY <1>2, <1>a, TransitionKnown DEF AdapterStates
  <2>3. pc \in {"pull", "run"} => Known(b)
    BY <1>2, <1>b DEF Undisturbed
  <2>4. containers'[b].status # "absent" => Known(b)'
    BY <2>1, <2>2, <1>a, <1>b DEF Housed
  <2>5. pc \notin Stopping
    BY DEF Stopping
  <2> HIDE DEF b
  <2> QED BY <1>2, <1>a, <1>c, <1>d, <2>1, <2>2, <2>3, <2>4, <2>5, JobStaysTidy DEF b
<1>3. CASE StopVictim(j) \/ InstallDropped(j)
  <2>1. PICK ok \in BOOLEAN : PodmanStop(jobs[j].victim, ok)
    BY <1>3 DEF StopVictim, InstallDropped
  <2>2. jobs[j].victim \in Adapters
    BY <1>3 DEF StopVictim, InstallDropped, TypeInv, AimsOK
  <2>3. \A a \in Adapters : containers'[a].status # "absent" => containers[a].status # "absent"
    BY <1>a, <2>1, <2>2, PodmanKeeps
  <2>4. /\ jobs[j].pc = "stop" /\ UNCHANGED adapters /\ JobOnly
        /\ GoTo(j, "stopped") \/ GoTo(j, "stopFailed") \/ GoTo(j, "done")
    BY <1>3 DEF StopVictim, InstallDropped
  <2> QED BY <1>1, <2>3, <2>4
<1>4. CASE VictimStopped(j)
  <2> DEFINE v == jobs[j].victim
  <2>1. /\ jobs[j].pc \in Stopping /\ GoTo(j, "create")
        /\ Transition(v, "STOPPED") \/ Transition(v, "ERROR")
        /\ UNCHANGED <<containers, monitors, cleaners, todo>>
    BY <1>4 DEF VictimStopped, JobNoPodman, JobOnly, Stopping
  <2>2. v \in Adapters
    BY <2>1 DEF Stopping, TypeInv, AimsOK
  <2>3. \A k \in Jobs : jobs[k].pc # "done" => AdapterIdOf(k) # v
    BY <2>1 DEF Tidy, Undisturbed
  <2>4. /\ \A a \in Adapters : Known(a)' <=> Known(a)
        /\ \A a \in Adapters \ {v} : adapters'[a] = adapters[a]
    BY <1>a, <2>1, <2>2, TransitionKnown DEF AdapterStates
  <2>5. adapters'[b] = adapters[b] /\ ~Known(b) /\ adapters[b].state \notin {"RUNNING", "STOPPED"}
    BY <1>a, <1>b, <1>d, <2>1, <2>3, <2>4 DEF Undisturbed
  <2>6. containers'[b].status # "absent" => Known(b)'
    BY <2>1, <2>4, <1>a, <1>b DEF Housed
  <2>7. \A k \in Jobs \ {j} : jobs[k].pc # "done"
          => adapters'[AdapterIdOf(k)] = adapters[AdapterIdOf(k)]
    BY <1>c, <2>3, <2>4
  <2> HIDE DEF b, v
  <2> QED BY <1>a, <1>d, <2>1, <2>4, <2>5, <2>6, <2>7, JobStaysTidy DEF b
<1>5. CASE CreateAdapter(j)
  <2>1. /\ GoTo(j, "download") /\ UNCHANGED <<containers, monitors, cleaners, todo>>
        /\ adapters'[b].state = "UNKNOWN"
        /\ \A a \in Adapters \ {b} : adapters'[a] = adapters[a]
    BY <1>5, <1>a DEF CreateAdapter, JobNoPodman, JobOnly, AdaptersOK
  <2>2. Known(b)' /\ \A a \in Adapters : Known(a) => Known(a)'
    BY <2>1 DEF Known
  <2>3. "download" \notin Stopping
    BY DEF Stopping
  <2> HIDE DEF b
  <2> QED BY <1>c, <1>d, <2>1, <2>2, <2>3, JobStaysTidy DEF b
<1>6. CASE Download(j) \/ Verify(j) \/ InstallFailed(j)
  BY <1>2, <1>6 DEF Download, Verify, InstallFailed
<1>7. CASE Pull(j) \/ Inspect(j) \/ InspectFails(j) \/ Discard(j)
  <2>1. \A a \in Adapters : containers'[a].status # "absent" => containers[a].status # "absent"
    BY <1>7, <1>a, PodmanKeeps DEF Pull, Inspect, InspectFails, Discard, JobNoPodman
  <2>2. /\ UNCHANGED adapters /\ JobOnly
        /\ \/ jobs[j].pc = "pull" /\ GoTo(j, "inspect")
           \/ jobs[j].pc = "inspect" /\ (GoTo(j, "matched") \/ GoTo(j, "mismatched"))
           \/ GoTo(j, "failed") \/ GoTo(j, "done")
    BY <1>7 DEF Pull, Inspect, InspectFails, Discard, JobNoPodman
  <2> QED BY <1>1, <2>1, <2>2
<1>8. CASE Run(j)
  <2>1. PICK ok \in BOOLEAN : PodmanRun(b, ImageOf[j], ok)
    BY <1>8 DEF Run
  <2>2. \A a \in Adapters \ {b} : containers'[a] = containers[a]
    BY <1>a, <2>1 DEF PodmanRun, PodmanOK
  <2>3. Known(b)
    BY <1>8, <1>b DEF Run, Undisturbed
  <2>4. UNCHANGED adapters /\ JobOnly /\ (GoTo(j, "started") \/ GoTo(j, "failed"))
    BY <1>8 DEF Run
  <2> QED BY <1>1, <2>2, <2>3, <2>4
<1>9. CASE Started(j)
  <2>1. /\ GoTo(j, "done") /\ Transition(b, "RUNNING")
        /\ UNCHANGED <<containers, cleaners, todo>>
        /\ \A k \in Jobs \ {j} : monitors'[k] = monitors[k]
    BY <1>9 DEF Started, TypeInv, TasksOK
  <2>2. /\ \A a \in Adapters : Known(a)' <=> Known(a)
        /\ \A a \in Adapters \ {b} : adapters'[a] = adapters[a]
    BY <1>a, <2>1, TransitionKnown DEF AdapterStates
  <2>3. containers'[b].status # "absent" => Known(b)'
    BY <2>1, <2>2, <1>a, <1>b DEF Housed
  <2>4. "done" \notin Stopping
    BY DEF Stopping
  <2> HIDE DEF b
  <2> QED BY <1>c, <1>d, <2>1, <2>2, <2>3, <2>4, JobStaysTidy DEF b
<1> QED BY <1>3, <1>4, <1>5, <1>6, <1>7, <1>8, <1>9 DEF InstallStep

(* Tasks other than installs: what keeps every install undisturbed.        *)
LEMMA OthersStayTidy ==
  ASSUME TypeInv, Tidy, UNCHANGED jobs, Housed', Emptied',
         \A j \in Jobs : jobs[j].pc # "done" =>
           LET a == AdapterIdOf(j) IN
           /\ adapters'[a].state = adapters[a].state
           /\ monitors'[j] = monitors[j]
           /\ \A e \in todo' : e.id # a
           /\ \A c \in Cleaners : cleaners'[c].pc \in Cleaning => cleaners'[c].id # a
  PROVE  Tidy'
<1>1. ASSUME NEW j \in Jobs PROVE Undisturbed(j)'
  <2>1. Undisturbed(j)
    BY DEF Tidy
  <2> QED BY <2>1, StaysUndisturbed DEF Undisturbed
<1> QED BY <1>1 DEF Tidy

LEMMA MonitorTidy ==
  ASSUME TypeInv, Tidy, InstalledOnce, NEW j \in Jobs, WaitReturns(j) \/ MonitorReports(j)
  PROVE  Tidy'
<1>1. /\ jobs[j].pc = "done"
      /\ UNCHANGED <<containers, jobs, cleaners, todo>>
      /\ \A k \in Jobs \ {j} : monitors'[k] = monitors[k]
  BY DEF WaitReturns, MonitorReports, Tidy, Undisturbed, TypeInv, TasksOK
<1>2. /\ \A a \in Adapters : Known(a)' <=> Known(a)
      /\ \A a \in Adapters \ {AdapterIdOf(j)} : adapters'[a] = adapters[a]
  <2>1. CASE UNCHANGED adapters
    BY <2>1 DEF Known
  <2>2. CASE Transition(AdapterIdOf(j), "STOPPED") \/ Transition(AdapterIdOf(j), "ERROR")
    BY <2>2, JobAdapter, TransitionKnown DEF AdapterStates, TypeInv
  <2> QED BY <2>1, <2>2 DEF WaitReturns, MonitorReports
<1>3. Housed' /\ Emptied'
  BY <1>1, <1>2 DEF Tidy, Housed, Emptied
<1>4. \A k \in Jobs \ {j} : AdapterIdOf(k) \in Adapters \ {AdapterIdOf(j)}
  BY JobAdapter DEF InstalledOnce
<1> QED BY <1>1, <1>2, <1>3, <1>4, OthersStayTidy DEF Tidy, Undisturbed

(* A removal begins when no install is under way, and finds an entry only  *)
(* of an adapter whose install is over.                                    *)
LEMMA RemoveTidy ==
  ASSUME TypeInv, Tidy, ClientsWait, NEW r \in Removals, NEW a \in Adapters, Remove(r, a)
  PROVE  Tidy'
<1>1. /\ UNCHANGED <<adapters, containers, jobs, monitors, todo>>
      /\ \A j \in Jobs : jobs[j].pc \in {"idle", "done"}
      /\ \A c \in Cleaners \ {r} : cleaners'[c] = cleaners[c]
      /\ cleaners'[r].pc \in {"done", "stop", "rm"}
      /\ cleaners'[r].pc # "done" => Known(a) /\ cleaners'[r].id = a
  BY DEF Remove, ClientFree, JobBusy, Cleaners, TypeInv, TasksOK
<1>2. Housed' /\ Emptied'
  BY <1>1 DEF Tidy, Housed, Emptied, Known
<1>3. ASSUME NEW j \in Jobs, jobs[j].pc # "done", NEW c \in Cleaners, cleaners'[c].pc \in Cleaning
      PROVE  cleaners'[c].id # AdapterIdOf(j)
  <2>1. Undisturbed(j) /\ jobs[j].pc = "idle"
    BY <1>1, <1>3 DEF Tidy
  <2>2. CASE c = r
    BY <1>1, <1>3, <2>1, <2>2 DEF Undisturbed, Cleaning
  <2>3. CASE c # r
    BY <1>1, <1>3, <2>1, <2>3 DEF Undisturbed
  <2> QED BY <2>2, <2>3
<1> QED BY <1>1, <1>2, <1>3, OthersStayTidy DEF Tidy, Undisturbed

(* A cleaner goes on; only its own adapter's entry and container change.   *)
LEMMA CleanTidy ==
  ASSUME TypeInv, Tidy, NEW c \in Cleaners, CleanStep(c) \/ RemoveDropped(c)
  PROVE  Tidy'
<1> DEFINE b == cleaners[c].id
<1>a. AdaptersOK /\ PodmanOK /\ Housed /\ Emptied
  BY DEF Tidy, TypeInv
<1>b. /\ UNCHANGED <<jobs, monitors, todo>> /\ cleaners[c].pc \in Cleaning
      /\ \A d \in Cleaners \ {c} : cleaners'[d] = cleaners[d]
      /\ cleaners'[c].id = b
  BY DEF CleanStep, CleanerPodman, RemoveDropped, CleanerCommand, Forget, CleanupFailed,
         CleanerDone, CleanTo, Cleaning, AfterCommand, TypeInv, TasksOK, CleanerStates
<1>c. b \in Adapters
  BY <1>b DEF Cleaning, TypeInv, AimsOK
<1>d. \A j \in Jobs : jobs[j].pc # "done" => AdapterIdOf(j) # b
  BY <1>b DEF Tidy, Undisturbed
(* Its podman commands make no container, and rm takes one away. *)
<1>1. CASE CleanerPodman(c) \/ RemoveDropped(c)
  <2>1. PICK ok \in BOOLEAN :
          /\ CleanerCommand(c, ok)
          /\ \/ cleaners'[c].pc = IF ok THEN AfterCommand[cleaners[c].pc] ELSE "failed"
             \/ cleaners'[c].pc = "done"
    BY <1>1 DEF CleanerPodman, RemoveDropped, CleanTo, TypeInv, TasksOK, CleanerStates
  <2>2. \A a \in Adapters : containers[a].status = "absent" => containers'[a].status = "absent"
    <3>1. CASE PodmanRm(b, ok)
      BY <1>a, <1>c, <3>1, RmEmpties
    <3>2. CASE PodmanStop(b, ok) \/ PodmanRmi(cleaners[c].image, ok)
      <4>1. cleaners[c].image \in Images \cup {Nobody}
        BY DEF TypeInv, TasksOK, CleanerStates
      <4> QED BY <1>a, <1>c, <3>2, <4>1, PodmanKeeps
    <3> QED BY <2>1, <3>1, <3>2 DEF CleanerCommand
  <2>3. cleaners'[c].pc \in {"rmi", "forget"} => containers'[b].status = "absent"
    <3>1. CASE cleaners[c].pc = "rm"
      <4>1. PodmanRm(b, ok) /\ (cleaners'[c].pc \in {"rmi", "forget"} => ok)
        BY <2>1, <3>1 DEF CleanerCommand
      <4> QED BY <4>1, <1>a, <1>c, RmEmpties
    <3>2. CASE cleaners[c].pc = "rmi"
      BY <1>a, <1>c, <2>2, <3>2 DEF Emptied
    <3>3. CASE cleaners[c].pc = "stop"
      BY <2>1, <3>3 DEF AfterCommand
    <3> QED BY <2>1, <3>1, <3>2, <3>3 DEF CleanerCommand
  <2>4. UNCHANGED adapters
    BY <1>1 DEF CleanerPodman, RemoveDropped
  <2>5. Housed'
    BY <1>a, <2>2, <2>4 DEF Housed, Known
  <2>6. Emptied'
    <3> SUFFICES ASSUME NEW d \in Cleaners, cleaners'[d].pc \in {"rmi", "forget"}
                 PROVE  containers'[cleaners'[d].id].status = "absent"
      BY DEF Emptied
    <3>1. CASE d = c
      BY <1>b, <2>3, <3>1
    <3>2. CASE d # c
      <4>1. cleaners'[d] = cleaners[d] /\ cleaners[d].id \in Adapters
        BY <1>b, <3>2 DEF TypeInv, AimsOK
      <4> QED BY <1>a, <2>2, <4>1 DEF Emptied
    <3> QED BY <3>1, <3>2
  <2> QED BY <1>b, <1>d, <2>4, <2>5, <2>6, OthersStayTidy DEF Tidy, Undisturbed
(* The entry goes, or gets a state; the container has gone before. *)
<1>2. CASE Forget(c) \/ CleanupFailed(c)
  <2>1. UNCHANGED containers /\ cleaners'[c].pc \notin {"rmi", "forget"} \cup Cleaning
    BY <1>2 DEF Forget, CleanupFailed, CleanerDone, CleanTo, Cleaning, TypeInv, TasksOK,
                CleanerStates
  <2>2. \A a \in Adapters \ {b} : adapters'[a] = adapters[a]
    <3>1. CASE Forget(c)
      BY <1>a, <3>1 DEF Forget, AdaptersOK
    <3>2. CASE CleanupFailed(c)
      BY <1>a, <1>c, <3>2, TransitionKnown DEF CleanupFailed, AdapterStates
    <3> QED BY <1>2, <3>1, <3>2
  <2>3. containers[b].status # "absent" => adapters'[b].state # "ABSENT"
    <3>1. CASE Forget(c)
      BY <1>a, <3>1 DEF Forget, Emptied
    <3>2. CASE CleanupFailed(c)
      BY <1>a, <1>c, <3>2, TransitionKnown DEF CleanupFailed, AdapterStates, Housed, Known
    <3> QED BY <1>2, <3>1, <3>2
  <2>4. Housed'
    BY <1>a, <2>1, <2>2, <2>3 DEF Housed, Known
  <2>5. Emptied'
    BY <1>a, <1>b, <2>1 DEF Emptied
  <2>6. \A j \in Jobs : jobs[j].pc # "done" => adapters'[AdapterIdOf(j)] = adapters[AdapterIdOf(j)]
    BY <1>d, <2>2, JobAdapter
  <2> QED BY <1>b, <1>d, <2>1, <2>4, <2>5, <2>6, OthersStayTidy DEF Tidy, Undisturbed
<1> QED BY <1>1, <1>2 DEF CleanStep

(* Candidates were STOPPED, so no install of them is under way.            *)
LEMMA OffloadTidy == ASSUME TypeInv, Tidy, OffloadStep PROVE Tidy'
<1>a. Offloader \in Cleaners
  BY DEF Cleaners
<1>b. \A d \in Cleaners \ {Offloader} : cleaners'[d] = cleaners[d]
  BY DEF OffloadStep, OffloadCheck, OffloadNext, OffloadSleeps, CleanTo, TypeInv, TasksOK
<1>1. CASE OffloadCheck \/ OffloadSleeps
  <2>1. /\ UNCHANGED <<adapters, containers, jobs, monitors>>
        /\ cleaners'[Offloader].pc \in {"next", "idle"}
        /\ todo' = OffloadCandidates \/ todo' = todo
    BY <1>1, <1>a DEF OffloadCheck, OffloadSleeps, CleanTo, IdleCleaner, TypeInv, TasksOK,
                      CleanerStates
  <2>2. Housed' /\ Emptied'
    BY <1>a, <1>b, <2>1 DEF Tidy, Housed, Emptied, Known
  <2>3. ASSUME NEW j \in Jobs, jobs[j].pc # "done", NEW e \in todo' PROVE e.id # AdapterIdOf(j)
    <3>1. Undisturbed(j)
      BY DEF Tidy
    <3>2. CASE e \in todo
      BY <2>3, <3>1, <3>2 DEF Undisturbed
    <3>3. CASE e \in OffloadCandidates
      <4>1. adapters[e.id].state = "STOPPED"
        BY <3>3 DEF OffloadCandidates
      <4> QED BY <2>3, <3>1, <4>1 DEF Undisturbed
    <3> QED BY <2>1, <2>3, <3>2, <3>3
  <2> QED BY <1>a, <1>b, <2>1, <2>2, <2>3, OthersStayTidy DEF Tidy, Undisturbed, Cleaning
<1>2. ASSUME NEW e \in todo, OffloadNext(e) PROVE Tidy'
  <2>1. /\ UNCHANGED <<containers, jobs, monitors>> /\ todo' \subseteq todo
        /\ cleaners'[Offloader].pc = "rm" /\ cleaners'[Offloader].id = e.id
        /\ Transition(e.id, "OFFLOADING") /\ e.id \in Adapters
    BY <1>2, <1>a DEF OffloadNext, TypeInv, TasksOK
  <2>2. /\ \A a \in Adapters : Known(a)' <=> Known(a)
        /\ \A a \in Adapters \ {e.id} : adapters'[a] = adapters[a]
    BY <2>1, TransitionKnown DEF AdapterStates, TypeInv
  <2>3. \A j \in Jobs : jobs[j].pc # "done" => AdapterIdOf(j) # e.id
    BY DEF Tidy, Undisturbed
  <2>4. Housed' /\ Emptied'
    BY <1>a, <1>b, <2>1, <2>2 DEF Tidy, Housed, Emptied
  <2> QED BY <1>a, <1>b, <2>1, <2>2, <2>3, <2>4, OthersStayTidy, JobAdapter
             DEF Tidy, Undisturbed
<1> QED BY <1>1, <1>2 DEF OffloadStep

LEMMA WorldTidy ==
  ASSUME TypeInv, Tidy, NEW a \in Adapters, ContainerExits(a) \/ TimePasses(a)
  PROVE  Tidy'
<1>1. /\ UNCHANGED <<jobs, monitors, cleaners, todo>>
      /\ \A b \in Adapters : adapters'[b].state = adapters[b].state
      /\ \A b \in Adapters : containers'[b].status = "absent" <=> containers[b].status = "absent"
  <2>1. CASE ContainerExits(a)
    <3>1. \A b \in Adapters : containers'[b].status = "absent" <=> containers[b].status = "absent"
      BY <2>1 DEF ContainerExits, Exited, TypeInv, PodmanOK, Containers
    <3> QED BY <2>1, <3>1 DEF ContainerExits
  <2>2. CASE TimePasses(a)
    <3>1. \A b \in Adapters : adapters'[b].state = adapters[b].state
      BY <2>2 DEF TimePasses, TypeInv, AdaptersOK, Entries
    <3> QED BY <2>2, <3>1 DEF TimePasses
  <2> QED BY <2>1, <2>2
<1>2. Housed' /\ Emptied'
  BY <1>1 DEF Tidy, Housed, Emptied, Known, TypeInv, AimsOK
<1> QED BY <1>1, <1>2, OthersStayTidy, JobAdapter DEF Tidy, Undisturbed

(* Before the first restart.                                               *)
FirstLife == crashes = 0 => Tidy

LEMMA FirstLifeStep ==
  ASSUME ClientsWait, InstalledOnce
  PROVE  TypeInv /\ FirstLife /\ [Next]_vars => FirstLife'
<1> SUFFICES ASSUME TypeInv, FirstLife, [Next]_vars, crashes' = 0 PROVE Tidy'
  BY DEF FirstLife
<1>1. CASE UNCHANGED vars
  BY <1>1 DEF vars, FirstLife, Tidy, Housed, Emptied, Undisturbed, Known
<1>2. CASE Restart
  BY <1>2 DEF Restart, TypeInv, TasksOK
<1>3. CASE Next /\ ~Restart /\ ~Rest
  <2>1. UNCHANGED crashes
    BY <1>3 DEF Next, Install, InstallStep, InstallDropped, WaitReturns, MonitorReports,
       RemoveDropped, Remove, CleanStep, CleanerPodman, Forget, CleanupFailed, OffloadStep,
       OffloadCheck, OffloadNext, OffloadSleeps, ContainerExits, TimePasses, StopVictim,
       VictimStopped, CreateAdapter, Download, Pull, Inspect, InspectFails, Verify, Discard, Run,
       Started, InstallFailed, JobNoPodman, JobOnly
  <2>2. Tidy
    BY <2>1 DEF FirstLife
  <2> QED BY <1>3, <2>2, InstallTidy, InstallStepTidy, MonitorTidy, RemoveTidy, CleanTidy,
             OffloadTidy, WorldTidy DEF Next, Cleaners
<1> QED BY <1>1, <1>2, <1>3 DEF Rest

(* Until the service is restarted no container outlives its entry, if no   *)
(* adapter is installed twice and clients wait: removals that fail or are  *)
(* dropped half way, offloads and late monitors included.                  *)
THEOREM NoneStray ==
  ASSUME ClientsWait, InstalledOnce
  PROVE  Spec => []NoStrayContainers
<1>1. TypeInv /\ FirstLife /\ [Next]_vars => FirstLife'
  BY FirstLifeStep
<1>2. Init => FirstLife
  BY TidyInit DEF FirstLife
<1>3. FirstLife => NoStrayContainers
  BY DEF FirstLife, Tidy, Housed, NoStrayContainers
<1> QED BY <1>1, <1>2, <1>3, TypeInvInit, TypeInvStep, PTL DEF Spec

-----------------------------------------------------------------------------
(***************************************************************************)
(* The checksum: however requests overlap, are dropped or cross restarts,  *)
(* only a request with the image's digest gets past INSTALLING, and podman *)
(* holds no container of any other (install.rs:90-112).                    *)
(***************************************************************************)
Passed(j) == j \in Matching /\ jobs[j].pc \in {"run", "started", "failed", "done"}
Ran(j)    == j \in Matching /\ jobs[j].pc \in {"started", "failed", "done"}

Gated == \A j \in Jobs : jobs[j].pc \in {"matched", "run", "started"} => j \in Matching

VerifiedContainers ==
  \A a \in Adapters : containers[a].status # "absent" =>
    \E j \in Jobs : Ran(j) /\ AdapterIdOf(j) = a /\ ImageOf[j] = containers[a].image

VerifiedEntries ==
  \A a \in Adapters : adapters[a].state \in {"INSTALLING", "RUNNING"} =>
    \E j \in Jobs : Passed(j) /\ AdapterIdOf(j) = a

VerifiedOnly == VerifiedContainers /\ VerifiedEntries

(* A step that makes no container, moves no entry to INSTALLING or RUNNING *)
(* and takes no request back.                                              *)
LEMMA VerifiedKeeps ==
  ASSUME VerifiedOnly,
         \A j \in Jobs : (Passed(j) => Passed(j)') /\ (Ran(j) => Ran(j)'),
         \A a \in Adapters : containers'[a].status # "absent" =>
           containers[a].status # "absent" /\ containers'[a].image = containers[a].image,
         \A a \in Adapters : adapters'[a].state \in {"INSTALLING", "RUNNING"} =>
           adapters[a].state \in {"INSTALLING", "RUNNING"}
  PROVE  VerifiedOnly'
<1>1. \A j \in Jobs : AdapterIdOf(j)' = AdapterIdOf(j)
  BY DEF AdapterIdOf
<1>2. VerifiedContainers'
  BY <1>1 DEF VerifiedOnly, VerifiedContainers
<1>3. VerifiedEntries'
  BY <1>1 DEF VerifiedOnly, VerifiedEntries
<1> QED BY <1>2, <1>3 DEF VerifiedOnly

(* Of podman's commands only run makes a container.                        *)
LEMMA PodmanMakesNone ==
  ASSUME PodmanOK, NEW ok \in BOOLEAN,
         \/ \E a \in Adapters : PodmanStop(a, ok) \/ PodmanRm(a, ok)
         \/ \E i \in Images \cup {Nobody} : PodmanRmi(i, ok)
         \/ \E i \in Images : PodmanPull(i, ok)
  PROVE  \A b \in Adapters : containers'[b].status # "absent" =>
           containers[b].status # "absent" /\ containers'[b].image = containers[b].image
<1>1. ASSUME NEW a \in Adapters, containers[a].status # "absent",
             NEW code \in {"zero", "nonzero"}, containers' = Exited(a, code)
      PROVE  \A b \in Adapters : containers'[b].status # "absent" =>
               containers[b].status # "absent" /\ containers'[b].image = containers[b].image
  BY <1>1 DEF Exited, PodmanOK, Containers
<1>2. ASSUME NEW a \in Adapters, containers' = [containers EXCEPT ![a] = NoContainer]
      PROVE  \A b \in Adapters : containers'[b].status # "absent" =>
               containers[b].status # "absent" /\ containers'[b].image = containers[b].image
  BY <1>2 DEF NoContainer, PodmanOK
<1>3. CASE UNCHANGED containers
  BY <1>3
<1> QED BY <1>1, <1>2, <1>3 DEF PodmanStop, PodmanRm, PodmanRmi, PodmanPull

(* A job goes on: it neither leaves the path of a request that passed nor  *)
(* enters it without the digest.                                           *)
LEMMA JobPasses ==
  ASSUME TypeInv, Gated, NEW j \in Jobs, NEW pc, GoTo(j, pc),
         jobs[j].pc \notin {"idle", "done"},
         pc \in {"matched", "run", "started"} => j \in Matching,
         jobs[j].pc = "run" => pc \in {"started", "failed"},
         jobs[j].pc = "started" => pc = "done",
         jobs[j].pc = "failed" => pc = "done"
  PROVE  /\ Gated'
         /\ \A k \in Jobs : (Passed(k) => Passed(k)') /\ (Ran(k) => Ran(k)')
         /\ jobs'[j].pc = pc
<1>1. /\ jobs'[j].pc = pc
      /\ \A k \in Jobs \ {j} : jobs'[k] = jobs[k]
  BY DEF TypeInv, TasksOK, JobStates, GoTo
<1>2. Gated'
  BY <1>1 DEF Gated
<1>3. ASSUME NEW k \in Jobs PROVE (Passed(k) => Passed(k)') /\ (Ran(k) => Ran(k)')
  <2>1. CASE k = j
    BY <1>1, <2>1 DEF Passed, Ran
  <2>2. CASE k # j
    BY <1>1, <2>2 DEF Passed, Ran
  <2> QED BY <2>1, <2>2
<1> QED BY <1>1, <1>2, <1>3

LEMMA InstallVerified ==
  ASSUME TypeInv, Gated, VerifiedOnly, NEW j \in Jobs, InstallStep(j) \/ InstallDropped(j)
  PROVE  Gated' /\ VerifiedOnly'
<1> DEFINE b == AdapterIdOf(j)
<1>a. AdaptersOK /\ PodmanOK /\ b \in Adapters /\ ImageOf[j] \in Images
  BY JobAdapter DEF TypeInv
<1> HIDE DEF b
<1>g. jobs[j].pc \in {"matched", "run", "started"} => j \in Matching
  BY DEF Gated
(* Steps that make no container, and move no entry on to INSTALLING. *)
<1>1. CASE \/ StopVictim(j) \/ InstallDropped(j) \/ Pull(j)
           \/ Inspect(j) \/ InspectFails(j) \/ Discard(j)
  <2>1. UNCHANGED adapters
    BY <1>1 DEF StopVictim, InstallDropped, Pull, Inspect, InspectFails, Discard
  <2>2. \A a \in Adapters : containers'[a].status # "absent" =>
           containers[a].status # "absent" /\ containers'[a].image = containers[a].image
    <3>1. jobs[j].pc = "stop" => jobs[j].victim \in Adapters
      BY DEF TypeInv, AimsOK
    <3> QED
      BY <1>1, <1>a, <3>1, PodmanMakesNone
         DEF StopVictim, InstallDropped, Pull, Inspect, InspectFails, Discard, JobNoPodman
  <2>3. PICK pc : /\ GoTo(j, pc) /\ pc \notin {"run", "started"}
                  /\ pc = "matched" => j \in Matching
                  /\ jobs[j].pc \in {"stop", "pull", "inspect", "discard"}
    BY <1>1 DEF StopVictim, InstallDropped, Pull, Inspect, InspectFails, Discard
  <2>4. /\ Gated'
        /\ \A k \in Jobs : (Passed(k) => Passed(k)') /\ (Ran(k) => Ran(k)')
    BY <2>3, JobPasses
  <2> QED BY <2>1, <2>2, <2>4, VerifiedKeeps
<1>2. CASE VictimStopped(j) \/ CreateAdapter(j) \/ Download(j) \/ InstallFailed(j)
  <2>1. \A a \in Adapters : adapters'[a].state \in {"INSTALLING", "RUNNING"} =>
           adapters[a].state \in {"INSTALLING", "RUNNING"}
    <3>1. ASSUME NEW a \in Adapters, NEW s \in {"STOPPED", "ERROR", "DOWNLOADING"},
                 Transition(a, s)
          PROVE  \A c \in Adapters : adapters'[c].state \in {"INSTALLING", "RUNNING"} =>
                   adapters[c].state \in {"INSTALLING", "RUNNING"}
      <4>1. /\ \A c \in Adapters \ {a} : adapters'[c] = adapters[c]
            /\ adapters'[a].state = s \/ adapters'[a] = adapters[a]
        BY <1>a, <3>1, TransitionEffect DEF AdapterStates
      <4> QED BY <4>1
    <3>2. jobs[j].pc \in {"stopped", "stopFailed"} => jobs[j].victim \in Adapters
      BY DEF TypeInv, AimsOK
    <3>3. CASE VictimStopped(j)
      BY <3>1, <3>2, <3>3 DEF VictimStopped
    <3>4. CASE CreateAdapter(j)
      BY <1>a, <3>4 DEF CreateAdapter, AdaptersOK, b
    <3>5. CASE Download(j) \/ InstallFailed(j)
      BY <1>a, <3>1, <3>5 DEF Download, InstallFailed, b
    <3> QED BY <1>2, <3>3, <3>4, <3>5
  <2>2. UNCHANGED containers
    BY <1>2 DEF VictimStopped, CreateAdapter, Download, InstallFailed, JobNoPodman
  <2>3. PICK pc : /\ GoTo(j, pc) /\ pc \notin {"matched", "run", "started"}
                  /\ jobs[j].pc \in {"stopped", "stopFailed", "create", "download", "failed"}
                  /\ jobs[j].pc = "failed" => pc = "done"
    BY <1>2 DEF VictimStopped, CreateAdapter, Download, InstallFailed
  <2>4. /\ Gated'
        /\ \A k \in Jobs : (Passed(k) => Passed(k)') /\ (Ran(k) => Ran(k)')
    BY <2>3, JobPasses
  <2> QED BY <2>1, <2>2, <2>4, VerifiedKeeps
(* The digest is compared, and the entry moves on or ends. *)
<1>3. CASE Verify(j)
  <2>1. /\ jobs[j].pc \in {"matched", "mismatched"} /\ UNCHANGED containers
        /\ \/ j \in Matching /\ Transition(b, "INSTALLING") /\ GoTo(j, "run")
           \/ Transition(b, "ERROR") /\ GoTo(j, "discard")
    BY <1>3, <1>g DEF Verify, JobNoPodman, b
  <2>2. /\ \A c \in Adapters \ {b} : adapters'[c] = adapters[c]
        /\ \/ adapters'[b] = adapters[b]
           \/ adapters'[b].state = "ERROR"
           \/ j \in Matching /\ GoTo(j, "run")
    BY <1>a, <2>1, TransitionEffect DEF AdapterStates
  <2>3. /\ Gated'
        /\ \A k \in Jobs : (Passed(k) => Passed(k)') /\ (Ran(k) => Ran(k)')
        /\ GoTo(j, "run") => jobs'[j].pc = "run"
    <3>1. CASE j \in Matching /\ GoTo(j, "run")
      BY <2>1, <3>1, JobPasses
    <3>2. CASE GoTo(j, "discard")
      <4>1. jobs'[j].pc = "discard"
        BY <2>1, <3>2, JobPasses
      <4>2. GoTo(j, "run") => jobs'[j].pc = "run"
        BY DEF GoTo, TypeInv, TasksOK, JobStates
      <4> QED BY <2>1, <3>2, <4>2, JobPasses
    <3> QED BY <2>1, <3>1, <3>2
  <2>4. VerifiedContainers'
    BY <2>1, <2>3 DEF VerifiedOnly, VerifiedContainers, AdapterIdOf
  <2>5. VerifiedEntries'
    <3> SUFFICES ASSUME NEW a \in Adapters, adapters'[a].state \in {"INSTALLING", "RUNNING"}
                 PROVE  \E k \in Jobs : Passed(k)' /\ AdapterIdOf(k) = a
      BY DEF VerifiedEntries, AdapterIdOf
    <3>1. CASE adapters'[a] = adapters[a]
      BY <2>3, <3>1 DEF VerifiedOnly, VerifiedEntries
    <3>2. CASE a = b /\ j \in Matching /\ GoTo(j, "run")
      BY <2>3, <3>2 DEF Passed, b
    <3> QED BY <2>2, <3>1, <3>2
  <2> QED BY <2>3, <2>4, <2>5 DEF VerifiedOnly
(* The container, running or failed at its start, is this request's. *)
<1>4. CASE Run(j)
  <2>1. /\ jobs[j].pc = "run" /\ UNCHANGED adapters
        /\ \/ GoTo(j, "started")
           \/ GoTo(j, "failed")
        /\ \A a \in Adapters : containers'[a].status # "absent" =>
             \/ containers'[a] = containers[a]
             \/ a = b /\ containers'[a].image = ImageOf[j]
    BY <1>4, <1>a DEF Run, PodmanRun, PodmanOK, b
  <2>2. /\ Gated' /\ Ran(j)'
        /\ \A k \in Jobs : (Passed(k) => Passed(k)') /\ (Ran(k) => Ran(k)')
    <3>1. CASE GoTo(j, "started")
      BY <1>g, <2>1, <3>1, JobPasses DEF Ran
    <3>2. CASE GoTo(j, "failed")
      BY <1>g, <2>1, <3>2, JobPasses DEF Ran
    <3> QED BY <2>1, <3>1, <3>2
  <2>3. VerifiedContainers'
    <3> SUFFICES ASSUME NEW a \in Adapters, containers'[a].status # "absent"
                 PROVE  \E k \in Jobs : /\ Ran(k)' /\ AdapterIdOf(k) = a
                                        /\ ImageOf[k] = containers'[a].image
      BY DEF VerifiedContainers, AdapterIdOf
    <3>1. CASE containers'[a] = containers[a]
      BY <2>2, <3>1 DEF VerifiedOnly, VerifiedContainers
    <3>2. CASE a = b /\ containers'[a].image = ImageOf[j]
      BY <2>2, <3>2 DEF b
    <3> QED BY <2>1, <3>1, <3>2
  <2>4. VerifiedEntries'
    BY <2>1, <2>2 DEF VerifiedOnly, VerifiedEntries, AdapterIdOf
  <2> QED BY <2>2, <2>3, <2>4 DEF VerifiedOnly
<1>5. CASE Started(j)
  <2>1. /\ jobs[j].pc = "started" /\ UNCHANGED containers /\ GoTo(j, "done")
        /\ Transition(b, "RUNNING")
    BY <1>5 DEF Started, b
  <2>2. /\ Gated' /\ Passed(j)'
        /\ \A k \in Jobs : (Passed(k) => Passed(k)') /\ (Ran(k) => Ran(k)')
    BY <1>g, <2>1, JobPasses DEF Passed
  <2>3. \A a \in Adapters \ {b} : adapters'[a] = adapters[a]
    BY <1>a, <2>1, TransitionEffect DEF AdapterStates
  <2>4. VerifiedContainers'
    BY <2>1, <2>2 DEF VerifiedOnly, VerifiedContainers, AdapterIdOf
  <2>5. VerifiedEntries'
    BY <2>2, <2>3 DEF VerifiedOnly, VerifiedEntries, AdapterIdOf, b
  <2> QED BY <2>2, <2>4, <2>5 DEF VerifiedOnly
<1> QED BY <1>1, <1>2, <1>3, <1>4, <1>5 DEF InstallStep

LEMMA VerifiedStep == TypeInv /\ Gated /\ VerifiedOnly /\ [Next]_vars => Gated' /\ VerifiedOnly'
<1> SUFFICES ASSUME TypeInv, Gated, VerifiedOnly, [Next]_vars PROVE Gated' /\ VerifiedOnly'
  OBVIOUS
<1>a. AdaptersOK /\ PodmanOK
  BY DEF TypeInv
<1>0. ASSUME UNCHANGED jobs,
             \A a \in Adapters : containers'[a].status # "absent" =>
               containers[a].status # "absent" /\ containers'[a].image = containers[a].image,
             \A a \in Adapters : adapters'[a].state \in {"INSTALLING", "RUNNING"} =>
               adapters[a].state \in {"INSTALLING", "RUNNING"}
      PROVE  Gated' /\ VerifiedOnly'
  BY <1>0, VerifiedKeeps DEF Gated, Passed, Ran
<1>t. ASSUME NEW a \in Adapters, NEW s \in {"STOPPED", "ERROR", "OFFLOADING"}, Transition(a, s)
      PROVE  \A c \in Adapters : adapters'[c].state \in {"INSTALLING", "RUNNING"} =>
               adapters[c].state \in {"INSTALLING", "RUNNING"}
  <2>1. /\ \A c \in Adapters \ {a} : adapters'[c] = adapters[c]
        /\ adapters'[a].state = s \/ adapters'[a] = adapters[a]
    BY <1>a, <1>t, TransitionEffect DEF AdapterStates
  <2> QED BY <2>1
<1>1. ASSUME NEW j \in Jobs, Install(j) PROVE Gated' /\ VerifiedOnly'
  <2>1. /\ jobs[j].pc = "idle" /\ jobs'[j].pc \in {"stop", "create"}
        /\ \A k \in Jobs \ {j} : jobs'[k] = jobs[k]
        /\ UNCHANGED <<adapters, containers>>
    BY <1>1 DEF Install, GoTo, JobNoPodman, TypeInv, TasksOK, JobStates
  <2>2. ASSUME NEW k \in Jobs PROVE (Passed(k) => Passed(k)') /\ (Ran(k) => Ran(k)')
    <3>1. CASE k = j
      BY <2>1, <3>1 DEF Passed, Ran
    <3>2. CASE k # j
      BY <2>1, <3>2 DEF Passed, Ran
    <3> QED BY <3>1, <3>2
  <2>3. Gated'
    BY <2>1 DEF Gated
  <2> QED BY <2>1, <2>2, <2>3, VerifiedKeeps
<1>2. ASSUME NEW j \in Jobs, InstallStep(j) \/ InstallDropped(j) PROVE Gated' /\ VerifiedOnly'
  BY <1>2, InstallVerified
<1>3. ASSUME NEW j \in Jobs, WaitReturns(j) \/ MonitorReports(j) PROVE Gated' /\ VerifiedOnly'
  <2>1. UNCHANGED <<jobs, containers>>
    BY <1>3 DEF WaitReturns, MonitorReports
  <2>2. UNCHANGED adapters \/ \E s \in {"STOPPED", "ERROR"} : Transition(AdapterIdOf(j), s)
    BY <1>3 DEF WaitReturns, MonitorReports
  <2> QED BY <1>0, <1>t, <2>1, <2>2, JobAdapter
<1>4. ASSUME NEW c \in Cleaners, CleanStep(c) \/ RemoveDropped(c) PROVE Gated' /\ VerifiedOnly'
  <2>1. cleaners[c].pc \in Cleaning => cleaners[c].id \in Adapters
    BY DEF Cleaning, TypeInv, AimsOK
  <2>2. CASE CleanerPodman(c) \/ RemoveDropped(c)
    <3>1. UNCHANGED <<jobs, adapters>> /\ \E ok \in BOOLEAN : CleanerCommand(c, ok)
      BY <2>2 DEF CleanerPodman, RemoveDropped
    <3>2. cleaners[c].image \in Images \cup {Nobody}
      BY DEF TypeInv, TasksOK, CleanerStates
    <3> QED BY <1>0, <1>a, <2>1, <3>1, <3>2, PodmanMakesNone DEF CleanerCommand, Cleaning
  <2>3. CASE Forget(c)
    <3>1. \A a \in Adapters : adapters'[a] = adapters[a] \/ adapters'[a].state = "ABSENT"
      BY <2>3, <1>a DEF Forget, AdaptersOK, NoEntry
    <3>2. UNCHANGED <<jobs, containers>>
      BY <2>3 DEF Forget
    <3> QED BY <1>0, <3>1, <3>2
  <2>4. CASE CleanupFailed(c)
    BY <1>0, <1>t, <2>1, <2>4 DEF CleanupFailed, Cleaning
  <2> QED BY <1>4, <2>2, <2>3, <2>4 DEF CleanStep
<1>5. CASE OffloadStep
  <2>1. CASE OffloadCheck \/ OffloadSleeps
    BY <1>0, <2>1 DEF OffloadCheck, OffloadSleeps
  <2>2. ASSUME NEW e \in todo, OffloadNext(e) PROVE Gated' /\ VerifiedOnly'
    BY <1>0, <1>t, <2>2 DEF OffloadNext, TypeInv, TasksOK
  <2> QED BY <1>5, <2>1, <2>2 DEF OffloadStep
<1>6. ASSUME NEW a \in Adapters, ContainerExits(a) \/ TimePasses(a) PROVE Gated' /\ VerifiedOnly'
  <2>1. /\ UNCHANGED jobs
        /\ \A c \in Adapters : adapters'[c].state = adapters[c].state
    BY <1>6, <1>a DEF ContainerExits, TimePasses, AdaptersOK, Entries
  <2>2. \A c \in Adapters : containers'[c].status # "absent" =>
          containers[c].status # "absent" /\ containers'[c].image = containers[c].image
    BY <1>6, <1>a DEF ContainerExits, TimePasses, Exited, PodmanOK, Containers
  <2> QED BY <1>0, <2>1, <2>2
<1>7. CASE Restart
  <2>1. \A k \in Jobs : jobs'[k].pc = IF jobs[k].pc = "idle" THEN "idle" ELSE "done"
    BY <1>7 DEF Restart, JobBusy, TypeInv, TasksOK, JobStates
  <2>2. /\ UNCHANGED containers
        /\ \A a \in Adapters : adapters'[a].state = "ABSENT"
    BY <1>7 DEF Restart, NoEntry
  <2>3. \A k \in Jobs : (Passed(k) => Passed(k)') /\ (Ran(k) => Ran(k)')
    BY <2>1 DEF Passed, Ran
  <2>4. Gated'
    BY <2>1 DEF Gated
  <2> QED BY <2>2, <2>3, <2>4, VerifiedKeeps
<1>8. CASE UNCHANGED vars \/ \E r \in Removals, a \in Adapters : Remove(r, a)
  BY <1>0, <1>8 DEF vars, Remove
<1> QED BY <1>1, <1>2, <1>3, <1>4, <1>5, <1>6, <1>7, <1>8 DEF Next, Rest, Cleaners

(* No container and no entry in INSTALLING or RUNNING without a request of *)
(* that adapter whose checksum was the image's digest: over overlapping    *)
(* installs of one adapter, dropped requests, failures and restarts.       *)
THEOREM OnlyVerified == Spec => []VerifiedOnly
<1>1. Init => Gated /\ VerifiedOnly
  BY DEF Init, Gated, VerifiedOnly, VerifiedContainers, VerifiedEntries, NoEntry, NoContainer
<1> QED BY <1>1, TypeInvInit, TypeInvStep, VerifiedStep, PTL DEF Spec

-----------------------------------------------------------------------------
(***************************************************************************)
(* The path of an adapter, with the provisos of NoneStray: Property 3 of   *)
(* the service's design up to RUNNING, and what the monitors, removals and *)
(* the offload timer make of it afterwards.                                *)
(***************************************************************************)
Installing == {"UNKNOWN", "DOWNLOADING", "INSTALLING"}
Ended      == {"STOPPED", "ERROR", "OFFLOADING"}

Onward ==
  {<<"ABSENT", "UNKNOWN">>, <<"UNKNOWN", "DOWNLOADING">>,
   <<"DOWNLOADING", "INSTALLING">>, <<"DOWNLOADING", "ERROR">>,
   <<"INSTALLING", "RUNNING">>, <<"INSTALLING", "ERROR">>}
  \cup {"RUNNING"} \X {"STOPPED", "ERROR", "ABSENT"}
  \cup Ended \X (Ended \cup {"ABSENT"})

GoesOnward(a) == \/ adapters'[a].state = adapters[a].state
                 \/ <<adapters[a].state, adapters'[a].state>> \in Onward

FollowsThePath == [][crashes' = 0 => \A a \in Adapters : GoesOnward(a)]_vars

(* The state in which a request's task leaves the entry for its next step. *)
Stages ==
  \A j \in Jobs : LET s == adapters[AdapterIdOf(j)].state IN
    /\ jobs[j].pc = "download" => s = "UNKNOWN"
    /\ jobs[j].pc \in {"pull", "inspect", "matched", "mismatched"} => s = "DOWNLOADING"
    /\ jobs[j].pc \in {"run", "started"} => s = "INSTALLING"
    /\ jobs[j].pc = "failed" => s \in {"DOWNLOADING", "INSTALLING"}

CandidatesEnded == \A e \in todo : adapters[e.id].state # "RUNNING"

PathInv == Tidy /\ Attended /\ Stages /\ CandidatesEnded

LEMMA PathInit == Init => PathInv
<1> SUFFICES ASSUME Init PROVE PathInv
  OBVIOUS
<1>1. Stages /\ CandidatesEnded
  BY DEF Init, Stages, CandidatesEnded
<1> QED BY <1>1, TidyInit, AttendedInit DEF PathInv

(* What a step preserves of the path, beside Tidy and Attended.            *)
Path == Stages /\ CandidatesEnded

Aside(j) == jobs'[j].pc \notin Working \/ jobs'[j].pc = jobs[j].pc

(* A step that is of no request's task under way: it changes an entry that *)
(* no request is at work on.                                               *)
LEMMA AsidePath ==
  ASSUME TypeInv, PathInv, NEW a \in Adapters,
         \A j \in Jobs : Aside(j) /\ (jobs'[j].pc \in Working => AdapterIdOf(j) # a),
         \A c \in Adapters \ {a} : adapters'[c].state = adapters[c].state,
         \/ adapters'[a].state = adapters[a].state
         \/ /\ \A j \in Jobs : jobs[j].pc \in Working => AdapterIdOf(j) # a
            /\ Known(a)
            /\ adapters'[a].state \in Ended \cup {"ABSENT"}
            /\ adapters'[a].state = "OFFLOADING" => adapters[a].state # "RUNNING",
         \A e \in todo' : e.id \in Adapters /\ (e \in todo \/ adapters[e.id].state # "RUNNING")
  PROVE  (\A c \in Adapters : GoesOnward(c)) /\ Path'
<1>a. adapters[a].state \in AdapterStates \cup {"ABSENT"}
  BY DEF TypeInv, AdaptersOK, Entries
<1>1. ASSUME NEW c \in Adapters PROVE GoesOnward(c)
  <2>1. CASE adapters'[c].state = adapters[c].state
    BY <2>1 DEF GoesOnward
  <2>2. CASE c = a /\ adapters'[a].state # adapters[a].state
    <3>1. adapters[a].state \notin Installing
      BY <2>2 DEF PathInv, Attended, InstallingIsAttended, Installing, Working
    <3>2. adapters[a].state \in {"RUNNING"} \cup Ended
      BY <1>a, <2>2, <3>1 DEF Known, AdapterStates, Installing, Ended
    <3> QED BY <2>2, <3>2 DEF GoesOnward, Onward, Ended
  <2> QED BY <2>1, <2>2
<1>2. Stages'
  <2> SUFFICES ASSUME NEW j \in Jobs, jobs'[j].pc \in Working
               PROVE  /\ jobs'[j].pc = jobs[j].pc
                      /\ adapters'[AdapterIdOf(j)].state = adapters[AdapterIdOf(j)].state
    BY DEF PathInv, Stages, Working, AdapterIdOf
  <2>1. AdapterIdOf(j) \in Adapters \ {a} /\ Aside(j)
    BY JobAdapter
  <2> QED BY <2>1 DEF Aside
<1>3. CandidatesEnded'
  <2> SUFFICES ASSUME NEW e \in todo' PROVE adapters'[e.id].state # "RUNNING"
    BY DEF CandidatesEnded
  <2>1. adapters[e.id].state # "RUNNING"
    BY DEF PathInv, CandidatesEnded
  <2>2. CASE e.id = a
    BY <2>1, <2>2 DEF Ended
  <2>3. CASE e.id \in Adapters \ {a}
    BY <2>1, <2>3
  <2> QED BY <2>2, <2>3
<1> QED BY <1>1, <1>2, <1>3 DEF Path

(* The same for a transition of such an entry.                             *)
LEMMA TransitionPath ==
  ASSUME TypeInv, PathInv, NEW a \in Adapters, NEW s \in Ended, Transition(a, s),
         s = "OFFLOADING" => adapters[a].state # "RUNNING",
         \A j \in Jobs : Aside(j) /\ (jobs[j].pc \in Working => AdapterIdOf(j) # a),
         todo' \subseteq todo
  PROVE  (\A c \in Adapters : GoesOnward(c)) /\ Path'
<1>1. /\ \A c \in Adapters \ {a} : adapters'[c].state = adapters[c].state
      /\ \/ adapters'[a].state = adapters[a].state
         \/ Known(a) /\ adapters'[a].state = s
  <2>1. s \in AdapterStates /\ AdaptersOK
    BY DEF Ended, AdapterStates, TypeInv
  <2> QED BY <2>1, TransitionEffect DEF Known, Transition
<1>2. \A j \in Jobs : Aside(j) /\ (jobs'[j].pc \in Working => AdapterIdOf(j) # a)
  BY DEF Aside
<1>3. \A e \in todo' : e.id \in Adapters /\ e \in todo
  BY DEF TypeInv, TasksOK
<1> QED BY <1>1, <1>2, <1>3, AsidePath

(* A request's task under way goes on along the path of its own adapter.   *)
LEMMA OwnPath ==
  ASSUME TypeInv, PathInv, InstalledOnce, NEW j \in Jobs, jobs[j].pc # "done", UNCHANGED todo,
         \A k \in Jobs \ {j} : jobs'[k] = jobs[k],
         \A c \in Adapters \ {AdapterIdOf(j)} : adapters'[c].state = adapters[c].state,
         GoesOnward(AdapterIdOf(j)),
         LET s == adapters'[AdapterIdOf(j)].state IN
           /\ jobs'[j].pc = "download" => s = "UNKNOWN"
           /\ jobs'[j].pc \in {"pull", "inspect", "matched", "mismatched"} => s = "DOWNLOADING"
           /\ jobs'[j].pc \in {"run", "started"} => s = "INSTALLING"
           /\ jobs'[j].pc = "failed" => s \in {"DOWNLOADING", "INSTALLING"}
  PROVE  (\A c \in Adapters : GoesOnward(c)) /\ Path'
<1>1. \A c \in Adapters : GoesOnward(c)
  BY DEF GoesOnward
<1>2. ASSUME NEW k \in Jobs \ {j}
      PROVE  jobs'[k] = jobs[k]
             /\ adapters'[AdapterIdOf(k)].state = adapters[AdapterIdOf(k)].state
  BY JobAdapter DEF InstalledOnce
<1>3. Stages'
  BY <1>2 DEF PathInv, Stages, AdapterIdOf
<1>4. ASSUME NEW e \in todo PROVE adapters'[e.id].state # "RUNNING"
  <2>1. e.id \in Adapters \ {AdapterIdOf(j)}
    BY DEF PathInv, Tidy, Undisturbed, TypeInv, TasksOK
  <2> QED BY <2>1 DEF PathInv, CandidatesEnded
<1> QED BY <1>1, <1>3, <1>4 DEF Path, CandidatesEnded

LEMMA InstallStepPath ==
  ASSUME TypeInv, PathInv, InstalledOnce, NEW j \in Jobs, InstallStep(j) \/ InstallDropped(j)
  PROVE  (\A c \in Adapters : GoesOnward(c)) /\ Path'
<1> DEFINE b == AdapterIdOf(j)
<1>a. AdaptersOK /\ b \in Adapters
  BY JobAdapter DEF TypeInv
<1>b. Undisturbed(j) /\ Stages
  BY DEF PathInv, Tidy
<1>c. /\ jobs[j].pc \notin {"idle", "done"}
      /\ \A k \in Jobs \ {j} : jobs'[k] = jobs[k]
      /\ UNCHANGED todo
  BY DEF InstallStep, InstallDropped, StopVictim, VictimStopped, CreateAdapter, Download, Pull,
         Inspect, InspectFails, Verify, Discard, Run, Started, InstallFailed, GoTo, JobNoPodman, JobOnly,
         TypeInv, TasksOK
<1>d. ASSUME NEW pc, GoTo(j, pc) PROVE jobs'[j].pc = pc
  BY <1>d DEF GoTo, TypeInv, TasksOK, JobStates
<1>e. ASSUME NEW s \in AdapterStates, Transition(b, s), Known(b)
      PROVE  adapters'[b].state = s
             /\ \A c \in Adapters \ {b} : adapters'[c].state = adapters[c].state
  BY <1>e, <1>a, TransitionEffect DEF Known
<1>1. CASE VictimStopped(j)
  <2> DEFINE v == jobs[j].victim
  <2>1. v \in Adapters /\ jobs[j].pc \in Stopping
    BY <1>1 DEF VictimStopped, Stopping, TypeInv, AimsOK
  <2>2. \A k \in Jobs : jobs[k].pc \in Working => AdapterIdOf(k) # v
    BY <2>1 DEF PathInv, Tidy, Undisturbed, Working
  <2>3. \A k \in Jobs : Aside(k)
    BY <1>1, <1>c, <1>d DEF VictimStopped, Aside, Working
  <2>4. Transition(v, "STOPPED") \/ Transition(v, "ERROR")
    BY <1>1 DEF VictimStopped
  <2> HIDE DEF v
  <2> QED BY <1>c, <2>1, <2>2, <2>3, <2>4, TransitionPath DEF Ended
<1>2. CASE CreateAdapter(j)
  <2>1. /\ jobs'[j].pc = "download" /\ adapters'[b].state = "UNKNOWN"
        /\ \A c \in Adapters \ {b} : adapters'[c].state = adapters[c].state
    BY <1>2, <1>a, <1>d DEF CreateAdapter, AdaptersOK
  <2>2. adapters[b].state = "ABSENT"
    BY <1>2, <1>b DEF CreateAdapter, Undisturbed, Known
  <2>3. GoesOnward(b)
    BY <2>1, <2>2 DEF GoesOnward, Onward
  <2> HIDE DEF b
  <2> QED BY <1>c, <2>1, <2>3, OwnPath DEF b
<1>3. CASE Download(j)
  <2>1. adapters[b].state = "UNKNOWN"
    BY <1>3, <1>b DEF Download, Stages
  <2>2. jobs'[j].pc = "pull" /\ Transition(b, "DOWNLOADING") /\ Known(b)
    BY <1>3, <1>d, <2>1 DEF Download, Known
  <2>3. /\ adapters'[b].state = "DOWNLOADING"
        /\ \A c \in Adapters \ {b} : adapters'[c].state = adapters[c].state
    BY <2>2, <1>e DEF AdapterStates
  <2>4. GoesOnward(b)
    BY <2>1, <2>3 DEF GoesOnward, Onward
  <2> HIDE DEF b
  <2> QED BY <1>c, <2>2, <2>3, <2>4, OwnPath DEF b
<1>4. CASE Verify(j)
  <2>1. adapters[b].state = "DOWNLOADING"
    BY <1>4, <1>b DEF Verify, Stages
  <2>2. PICK s \in {"INSTALLING", "ERROR"} :
          /\ Transition(b, s) /\ Known(b)
          /\ jobs'[j].pc = IF s = "INSTALLING" THEN "run" ELSE "discard"
    BY <1>4, <1>d, <2>1 DEF Verify, Known
  <2>3. /\ adapters'[b].state = s
        /\ \A c \in Adapters \ {b} : adapters'[c].state = adapters[c].state
    BY <2>2, <1>e DEF AdapterStates
  <2>4. GoesOnward(b)
    BY <2>1, <2>3 DEF GoesOnward, Onward
  <2> HIDE DEF b
  <2> QED BY <1>c, <2>2, <2>3, <2>4, OwnPath DEF b
<1>5. CASE Started(j)
  <2>1. adapters[b].state = "INSTALLING"
    BY <1>5, <1>b DEF Started, Stages
  <2>2. jobs'[j].pc = "done" /\ Transition(b, "RUNNING") /\ Known(b)
    BY <1>5, <1>d, <2>1 DEF Started, Known
  <2>3. /\ adapters'[b].state = "RUNNING"
        /\ \A c \in Adapters \ {b} : adapters'[c].state = adapters[c].state
    BY <2>2, <1>e DEF AdapterStates
  <2>4. GoesOnward(b)
    BY <2>1, <2>3 DEF GoesOnward, Onward
  <2> HIDE DEF b
  <2> QED BY <1>c, <2>2, <2>3, <2>4, OwnPath DEF b
<1>6. CASE InstallFailed(j)
  <2>1. adapters[b].state \in {"DOWNLOADING", "INSTALLING"}
    BY <1>6, <1>b DEF InstallFailed, Stages
  <2>2. jobs'[j].pc = "done" /\ Transition(b, "ERROR") /\ Known(b)
    BY <1>6, <1>d, <2>1 DEF InstallFailed, Known
  <2>3. /\ adapters'[b].state = "ERROR"
        /\ \A c \in Adapters \ {b} : adapters'[c].state = adapters[c].state
    BY <2>2, <1>e DEF AdapterStates
  <2>4. GoesOnward(b)
    BY <2>1, <2>3 DEF GoesOnward, Onward
  <2> HIDE DEF b
  <2> QED BY <1>c, <2>2, <2>3, <2>4, OwnPath DEF b
(* Steps that leave the map as it is. *)
<1>7. CASE \/ StopVictim(j) \/ InstallDropped(j) \/ Pull(j) \/ Inspect(j) \/ InspectFails(j)
           \/ Discard(j) \/ Run(j)
  <2>1. UNCHANGED adapters
    BY <1>7 DEF StopVictim, InstallDropped, Pull, Inspect, InspectFails, Discard, Run
  <2>2. \/ jobs'[j].pc \in {"stopped", "stopFailed", "done"}
        \/ jobs[j].pc = "pull" /\ jobs'[j].pc \in {"inspect", "failed"}
        \/ jobs[j].pc = "inspect" /\ jobs'[j].pc \in {"matched", "mismatched", "failed"}
        \/ jobs[j].pc = "run" /\ jobs'[j].pc \in {"started", "failed"}
    BY <1>7, <1>d DEF StopVictim, InstallDropped, Pull, Inspect, InspectFails, Discard, Run
  <2>3. GoesOnward(b)
    BY <2>1 DEF GoesOnward
  <2>4. /\ jobs[j].pc \in {"pull", "inspect"} => adapters[b].state = "DOWNLOADING"
        /\ jobs[j].pc = "run" => adapters[b].state = "INSTALLING"
    BY <1>b DEF Stages
  <2> HIDE DEF b
  <2> QED BY <1>c, <2>1, <2>2, <2>3, <2>4, OwnPath DEF b
<1> QED BY <1>1, <1>2, <1>3, <1>4, <1>5, <1>6, <1>7 DEF InstallStep

LEMMA CleanPath ==
  ASSUME TypeInv, PathInv, NEW c \in Cleaners, CleanStep(c) \/ RemoveDropped(c)
  PROVE  (\A a \in Adapters : GoesOnward(a)) /\ Path'
<1> DEFINE b == cleaners[c].id
<1>1. /\ UNCHANGED <<jobs, todo>> /\ cleaners[c].pc \in Cleaning
  BY DEF CleanStep, CleanerPodman, RemoveDropped, CleanerCommand, Forget, CleanupFailed,
         Cleaning, AfterCommand
<1>2. b \in Adapters
  BY <1>1 DEF Cleaning, TypeInv, AimsOK
<1>3. /\ \A j \in Jobs : jobs[j].pc \in Working => AdapterIdOf(j) # b
      /\ \A j \in Jobs : jobs'[j].pc = jobs[j].pc /\ Aside(j)
  BY <1>1 DEF PathInv, Tidy, Undisturbed, Working, Aside
<1>4. \A e \in todo' : e.id \in Adapters /\ e \in todo
  BY <1>1 DEF TypeInv, TasksOK
<1>5. CASE UNCHANGED adapters
  <2> HIDE DEF b
  <2> QED BY <1>2, <1>3, <1>4, <1>5, AsidePath
<1>6. CASE Forget(c)
  <2>1. /\ \A a \in Adapters \ {b} : adapters'[a].state = adapters[a].state
        /\ adapters'[b].state = "ABSENT"
    BY <1>2, <1>6 DEF Forget, NoEntry, TypeInv, AdaptersOK
  <2>2. adapters'[b].state # adapters[b].state => Known(b)
    BY <2>1 DEF Known
  <2> HIDE DEF b
  <2> QED BY <1>2, <1>3, <1>4, <2>1, <2>2, AsidePath
<1>7. CASE CleanupFailed(c)
  <2>1. Transition(b, "ERROR")
    BY <1>7 DEF CleanupFailed
  <2> HIDE DEF b
  <2> QED BY <1>1, <1>2, <1>3, <2>1, TransitionPath DEF Ended
<1> QED BY <1>5, <1>6, <1>7 DEF CleanStep, CleanerPodman, RemoveDropped

LEMMA OthersPath ==
  ASSUME TypeInv, PathInv, InstalledOnce,
         \/ \E j \in Jobs : Install(j) \/ WaitReturns(j) \/ MonitorReports(j)
         \/ \E r \in Removals, a \in Adapters : Remove(r, a)
         \/ OffloadStep
         \/ \E a \in Adapters : ContainerExits(a) \/ TimePasses(a)
  PROVE  (\A a \in Adapters : GoesOnward(a)) /\ Path'
<1>a. \A e \in todo : e.id \in Adapters
  BY DEF TypeInv, TasksOK
(* The states stay, and new candidates have stopped. *)
<1>1. ASSUME \A a \in Adapters : adapters'[a].state = adapters[a].state,
             \A j \in Jobs : Aside(j),
             \A e \in todo' : e \in todo \/ e \in OffloadCandidates
      PROVE  (\A a \in Adapters : GoesOnward(a)) /\ Path'
  <2>1. \A a \in Adapters : GoesOnward(a)
    BY <1>1 DEF GoesOnward
  <2>2. Stages'
    <3> SUFFICES ASSUME NEW j \in Jobs, jobs'[j].pc \in Working
                 PROVE  /\ jobs'[j].pc = jobs[j].pc
                        /\ adapters'[AdapterIdOf(j)].state = adapters[AdapterIdOf(j)].state
      BY DEF PathInv, Stages, Working, AdapterIdOf
    <3> QED BY <1>1, JobAdapter DEF Aside
  <2>3. ASSUME NEW e \in todo' PROVE adapters'[e.id].state # "RUNNING"
    <3>1. e.id \in Adapters /\ adapters[e.id].state # "RUNNING"
      BY <1>1, <1>a DEF PathInv, CandidatesEnded, OffloadCandidates
    <3> QED BY <1>1, <3>1
  <2> QED BY <2>1, <2>2, <2>3 DEF Path, CandidatesEnded
<1>2. ASSUME NEW j \in Jobs, Install(j)
      PROVE  (\A a \in Adapters : GoesOnward(a)) /\ Path'
  <2>1. UNCHANGED <<adapters, todo>>
    BY <1>2 DEF Install, JobNoPodman, JobOnly
  <2>2. \A k \in Jobs : Aside(k)
    BY <1>2 DEF Install, GoTo, Aside, Working, TypeInv, TasksOK, JobStates
  <2> QED BY <1>1, <2>1, <2>2
<1>3. ASSUME NEW j \in Jobs, MonitorReports(j)
      PROVE  (\A a \in Adapters : GoesOnward(a)) /\ Path'
  <2> DEFINE b == AdapterIdOf(j)
  <2>1. b \in Adapters /\ UNCHANGED <<jobs, todo>> /\ (Transition(b, "STOPPED") \/ Transition(b, "ERROR"))
    BY <1>3, JobAdapter DEF MonitorReports
  <2>2. jobs[j].pc = "done"
    BY <1>3 DEF MonitorReports, PathInv, Tidy, Undisturbed
  <2>3. \A k \in Jobs : Aside(k) /\ (jobs[k].pc \in Working => AdapterIdOf(k) # b)
    BY <2>1, <2>2 DEF Aside, Working, InstalledOnce
  <2> HIDE DEF b
  <2> QED BY <2>1, <2>3, TransitionPath DEF Ended
<1>4. ASSUME NEW e \in todo, OffloadNext(e)
      PROVE  (\A a \in Adapters : GoesOnward(a)) /\ Path'
  <2>1. /\ Transition(e.id, "OFFLOADING") /\ todo' \subseteq todo /\ UNCHANGED jobs
        /\ e.id \in Adapters /\ adapters[e.id].state # "RUNNING"
    BY <1>4, <1>a DEF OffloadNext, PathInv, CandidatesEnded
  <2>2. \A k \in Jobs : Aside(k) /\ (jobs[k].pc \in Working => AdapterIdOf(k) # e.id)
    BY <2>1 DEF Aside, Working, PathInv, Tidy, Undisturbed
  <2> QED BY <2>1, <2>2, TransitionPath DEF Ended
<1>5. ASSUME NEW a \in Adapters, TimePasses(a)
      PROVE  (\A b \in Adapters : GoesOnward(b)) /\ Path'
  <2>1. /\ \A b \in Adapters : adapters'[b].state = adapters[b].state
        /\ UNCHANGED <<jobs, todo>>
    BY <1>5 DEF TimePasses, TypeInv, AdaptersOK, Entries
  <2> QED BY <1>1, <2>1 DEF Aside
<1>6. ASSUME UNCHANGED <<adapters, jobs>>, todo' = todo \/ todo' = OffloadCandidates
      PROVE  (\A a \in Adapters : GoesOnward(a)) /\ Path'
  BY <1>1, <1>6 DEF Aside
<1>7. (\E j \in Jobs : WaitReturns(j)) \/ (\E r \in Removals, a \in Adapters : Remove(r, a))
        \/ (\E a \in Adapters : ContainerExits(a)) \/ OffloadCheck \/ OffloadSleeps
        => UNCHANGED <<adapters, jobs>> /\ (todo' = todo \/ todo' = OffloadCandidates)
  BY DEF WaitReturns, Remove, ContainerExits, OffloadCheck, OffloadSleeps
<1> QED BY <1>2, <1>3, <1>4, <1>5, <1>6, <1>7 DEF OffloadStep

(* Before the first restart.                                               *)
OnPath == crashes = 0 => PathInv

LEMMA OnPathStep ==
  ASSUME ClientsWait, InstalledOnce
  PROVE  TypeInv /\ OnPath /\ [Next]_vars
           => OnPath' /\ (crashes' = 0 => \A a \in Adapters : GoesOnward(a))
<1> SUFFICES ASSUME TypeInv, OnPath, [Next]_vars, crashes' = 0
             PROVE  PathInv' /\ \A a \in Adapters : GoesOnward(a)
  BY DEF OnPath
<1>1. CASE UNCHANGED vars
  <2>1. PathInv
    BY <1>1 DEF OnPath, vars
  <2>2. Stages' /\ CandidatesEnded' /\ \A a \in Adapters : GoesOnward(a)
    BY <1>1, <2>1 DEF vars, PathInv, Stages, CandidatesEnded, AdapterIdOf, GoesOnward
  <2>3. Tidy' /\ Attended'
    BY <1>1, <2>1, FirstLifeStep, AttendedStep DEF FirstLife, PathInv
  <2> QED BY <2>2, <2>3 DEF PathInv
<1>2. CASE Restart
  BY <1>2 DEF Restart, TypeInv, TasksOK
<1>3. CASE Next /\ ~Restart /\ ~Rest
  <2>1. UNCHANGED crashes
    BY <1>3 DEF Next, Install, InstallStep, InstallDropped, WaitReturns, MonitorReports,
       RemoveDropped, Remove, CleanStep, CleanerPodman, Forget, CleanupFailed, OffloadStep,
       OffloadCheck, OffloadNext, OffloadSleeps, ContainerExits, TimePasses, StopVictim,
       VictimStopped, CreateAdapter, Download, Pull, Inspect, InspectFails, Verify, Discard, Run,
       Started, InstallFailed, JobNoPodman, JobOnly
  <2>2. PathInv
    BY <2>1 DEF OnPath
  <2>3. Tidy' /\ Attended'
    BY <2>2, FirstLifeStep, AttendedStep DEF FirstLife, PathInv
  <2>4. Path' /\ \A a \in Adapters : GoesOnward(a)
    BY <1>3, <2>2, InstallStepPath, CleanPath, OthersPath DEF Next, Cleaners
  <2> QED BY <2>3, <2>4 DEF PathInv, Path
<1> QED BY <1>1, <1>2, <1>3 DEF Rest

(* Until the service is restarted an entry's state moves only along the    *)
(* path of the design - UNKNOWN, DOWNLOADING, INSTALLING, RUNNING, or ERROR *)
(* on the way - and leaves RUNNING only for its container's end, its stop  *)
(* by another install or its removal: no late monitor, removal or offload  *)
(* moves an entry whose install is under way.  If no adapter is installed  *)
(* twice and clients wait, as NoneStray (install.rs:36-122).               *)
THEOREM InstallFollowsPath ==
  ASSUME ClientsWait, InstalledOnce
  PROVE  Spec => FollowsThePath
<1>1. TypeInv /\ OnPath /\ [Next]_vars
        => OnPath' /\ (crashes' = 0 => \A a \in Adapters : GoesOnward(a))
  BY OnPathStep
<1>2. Init => OnPath
  BY PathInit DEF OnPath
<1> QED BY <1>1, <1>2, TypeInvInit, TypeInvStep, PTL DEF Spec, FollowsThePath
=============================================================================
