------------------------ MODULE SpotInvariant_proof ------------------------
(***************************************************************************)
(* IInv is an invariant of SpotController: it holds initially, and one     *)
(* lemma per action shows that the action preserves it.                    *)
(***************************************************************************)
EXTENDS SpotInvariant, TLAPS

USE SpotAssumption, ControllerAssumption DEF SpotAssumption, ControllerAssumption
USE DEF storeVars, dockerVars, scanVars, reclaimVars, launchVars, memoryVars, daemonVars,
        worldVars

-----------------------------------------------------------------------------
(* Facts about states, and what is preserved when nothing relevant changes *)

\* An active job's row names its GPU and the container of its current attempt.
LEMMA ActiveFacts ==
    ASSUME StoreTypeOK, RowInv
    PROVE  \A j \in Active : /\ j \in Jobs
                             /\ containerOf[j] \in Containers
                             /\ containerOf[j] # NoContainer
                             /\ containerOf[j] = <<j, attempts[j]>>
                             /\ gpuOf[j] \in Gpus
                             /\ ~closed[j]
  BY DEF StoreTypeOK, RowInv, Active

\* What reconciling finds to finish: active jobs, once each, whose container has
\* ended in one of the ways finish() tells apart.
LEMMA EndedFacts ==
    ASSUME TypeOK, RowInv, LiveInv, NEW up \in BOOLEAN, NEW e \in EndedRuns(up)
    PROVE  /\ e[1] \in Active /\ e = <<e[1], docker[containerOf[e[1]]]>>
           /\ ~Running(containerOf[e[1]])
           /\ e \in Jobs \X Ends
  <1>1. PICK j \in Active : ~Running(containerOf[j]) /\ e = <<j, docker[containerOf[j]]>>
    BY DEF EndedRuns
  <1>2. j \in Jobs /\ containerOf[j] \in Containers /\ containerOf[j] = <<j, attempts[j]>>
    BY ActiveFacts DEF TypeOK
  <1>3. docker[containerOf[j]] \in Ends
    <2>1. docker[containerOf[j]] # "pending"
      BY <1>2 DEF LiveInv
    <2> QED
      BY <1>1, <1>2, <2>1 DEF TypeOK, DockerTypeOK, Statuses, Ends, ExitCodes, Running
  <1> QED
    BY <1>1, <1>2, <1>3

\* The parts of IInv that speak of the database alone.
LEMMA StoreFrame ==
    ASSUME StoreTypeOK, RowInv, OneLeasePerGpu, RunsMatchJobs, UNCHANGED storeVars
    PROVE  /\ StoreTypeOK' /\ RowInv' /\ OneLeasePerGpu' /\ RunsMatchJobs'
           /\ Active' = Active
           /\ \A g \in Gpus : OnGpu(g)' = OnGpu(g)
  BY DEF StoreTypeOK, RowInv, OneLeasePerGpu, RunsMatchJobs, Active, OnGpu

\* A step that leaves docker and the active runs alone keeps LiveInv.
LEMMA LiveFrame ==
    ASSUME LiveInv, UNCHANGED storeVars, UNCHANGED docker
    PROVE  LiveInv'
  BY DEF LiveInv, Running, Active

\* LaunchInv depends on the launches, the leases and the launched containers alone.
LEMMA LaunchFrame ==
    ASSUME LaunchInv, UNCHANGED storeVars, UNCHANGED docker, UNCHANGED launchVars
    PROVE  LaunchInv'
  BY DEF LaunchInv, OnGpu, Active, NextRun

-----------------------------------------------------------------------------

\* Nothing is submitted, nothing runs, nothing is to be done.
LEMMA InitInv == Init => IInv
  <1> SUFFICES ASSUME Init PROVE IInv
    OBVIOUS
  <1>a. Active = {} /\ \A g \in Gpus : OnGpu(g) = {}
    BY DEF Init, StoreInit, Active, OnGpu
  <1>1. TypeOK
    BY DEF Init, StoreInit, DockerInit, TypeOK, StoreTypeOK, DockerTypeOK, DaemonTypeOK,
           JobStates, Outcomes, Statuses, ExitCodes, Phases, ObsKinds, NotObserved, NoTrackers
  <1>2. RowInv
    <2> SUFFICES ASSUME NEW j \in Jobs PROVE RowInv!(j)
      BY DEF RowInv
    <2> QED
      BY <1>a DEF Init, StoreInit
  <1>3. PhaseInv /\ TodoInv
    BY DEF Init, PhaseInv, TodoInv, Reclaimed
  <1>4. OneLeasePerGpu /\ LaunchInv
    BY <1>a DEF Init, OneLeasePerGpu, LaunchInv
  <1>5. LiveInv
    BY DEF Init, DockerInit, LiveInv, Running
  <1>6. RunsMatchJobs
    BY <1>a DEF Init, StoreInit, RunsMatchJobs, Containers
  <1>7. StopIssuedIsLive
    BY DEF Init, StopIssuedIsLive
  <1> QED
    BY <1>1, <1>2, <1>3, <1>4, <1>5, <1>6, <1>7 DEF IInv

\* A tick reads the world: its list of ended runs names active jobs that run no more.
LEMMA ObserveInv == ASSUME IInv, Observe PROVE IInv'
  <1> USE DEF IInv
  <1>s. /\ StoreTypeOK' /\ RowInv' /\ OneLeasePerGpu' /\ RunsMatchJobs' /\ Active' = Active
        /\ LiveInv'
    BY StoreFrame, LiveFrame DEF Observe, TypeOK
  <1>e. \A e \in ended' : /\ e[1] \in Active /\ e = <<e[1], docker[containerOf[e[1]]]>>
                          /\ ~Running(containerOf[e[1]])
                          /\ e \in Jobs \X Ends
    <2>1. PICK up \in BOOLEAN : ended' = EndedRuns(up)
      BY DEF Observe, May
    <2> QED
      BY <2>1, EndedFacts
  <1>1. TypeOK'
    BY <1>s, <1>e DEF Observe, TypeOK, DockerTypeOK, DaemonTypeOK, Unmanaged, Phases, May
  <1>2. PhaseInv'
    BY DEF Observe, PhaseInv, Reclaimed
  <1>3. TodoInv'
    BY <1>s, <1>e DEF Observe, PhaseInv, TodoInv, Reclaimed, Running
  <1>4. LaunchInv'
    BY LaunchFrame DEF Observe
  <1>5. StopIssuedIsLive'
    BY <1>s DEF Observe, StopIssuedIsLive
  <1> QED
    BY <1>s, <1>1, <1>2, <1>3, <1>4, <1>5

\* Archiving removes a container that runs for no active job, or leaves it.
LEMMA ArchiveInv == ASSUME IInv, NEW c \in Containers, Archive(c) PROVE IInv'
  <1> USE DEF IInv
  <1>s. StoreTypeOK' /\ RowInv' /\ OneLeasePerGpu' /\ RunsMatchJobs' /\ Active' = Active
    BY StoreFrame DEF Archive, TypeOK
  <1>d. \A d \in Containers : docker'[d] = docker[d] \/ docker'[d] = "absent"
    BY DEF Archive, Remove, TypeOK, DockerTypeOK
  <1>1. TypeOK'
    BY <1>s DEF Archive, Remove, TypeOK, DockerTypeOK, DaemonTypeOK, Statuses
  <1>2. PhaseInv'
    BY DEF Archive, PhaseInv, Reclaimed
  <1>3. TodoInv'
    <2>1. \A e \in ended : containerOf[e[1]] \in Containers
      BY ActiveFacts DEF TodoInv, TypeOK
    <2> QED
      BY <1>s, <1>d, <2>1 DEF Archive, TodoInv, Running
  <1>4. LaunchInv'
    BY DEF Archive, PhaseInv, LaunchInv
  <1>5. LiveInv'
    BY <1>s, <1>d DEF Archive, LiveInv, Running
  <1>6. StopIssuedIsLive'
    BY <1>s DEF Archive, StopIssuedIsLive
  <1> QED
    BY <1>s, <1>1, <1>2, <1>3, <1>4, <1>5, <1>6

\* The plan launches on GPUs nobody leases, each GPU once, and reclaims active jobs.
LEMMA PlanInv == ASSUME IInv, Plan PROVE IInv'
  <1> USE DEF IInv
  <1>s. /\ StoreTypeOK' /\ RowInv' /\ OneLeasePerGpu' /\ RunsMatchJobs' /\ Active' = Active
        /\ \A g \in Gpus : OnGpu(g)' = OnGpu(g)
    BY StoreFrame DEF Plan, TypeOK
  <1>w. WantedStops \subseteq Containers
    BY ActiveFacts DEF WantedStops, TypeOK
  <1>m. PICK polls \in Elapsed :
           /\ quiet' = [g \in Gpus |-> Tracked(g, polls)]
           /\ launches' \in LaunchPlans({g \in Gpus : Lendable(g, polls)},
                                        IF dockerOk THEN Queued ELSE {})
    BY DEF Plan
  <1>l. /\ launches' \subseteq Gpus \X Jobs
        /\ \A l \in launches' : OnGpu(l[1]) = {}
        /\ \A k, l \in launches' : k[1] = l[1] => k = l
    <2>1. launches' \subseteq {g \in Gpus : Lendable(g, polls)} \X Queued
      BY <1>m DEF LaunchPlans
    <2>2. \A k, l \in launches' : k # l => k[1] # l[1]
      BY <1>m DEF LaunchPlans
    <2> QED
      BY <2>1, <2>2 DEF Lendable, Queued
  <1>q. quiet' \in [Gpus -> -1 .. IdleTicks]
    BY <1>m DEF Tracked, Capped, TypeOK, DaemonTypeOK, ObsKinds
  <1>1. TypeOK'
    BY <1>s, <1>w, <1>l, <1>q DEF Plan, StopAsync, TypeOK, DockerTypeOK, DaemonTypeOK, Phases,
                                  NotObserved, ObsKinds, Active
  <1>2. PhaseInv'
    BY DEF Plan, PhaseInv, Reclaimed
  <1>3. TodoInv'
    BY <1>s DEF Plan, TodoInv, PhaseInv, Reclaimed, Active
  <1>4. LaunchInv'
    BY <1>s, <1>l DEF Plan, LaunchInv, PhaseInv
  <1>5. LiveInv'
    BY LiveFrame DEF Plan, StopAsync
  <1>6. StopIssuedIsLive'
    BY <1>s DEF Plan, StopIssuedIsLive, WantedStops
  <1> QED
    BY <1>s, <1>1, <1>2, <1>3, <1>4, <1>5, <1>6

-----------------------------------------------------------------------------
(* Steps that leave the database and docker alone *)

\* The local variables of a tick that is abandoned, the database and docker as
\* they were.
LEMMA DropTickInv ==
    ASSUME IInv, DropTick, UNCHANGED <<storeVars, docker>>,
           TypeOK', PhaseInv', StopIssuedIsLive', reclaims' \subseteq Active
    PROVE  IInv'
  <1> USE DEF IInv
  <1>s. StoreTypeOK' /\ RowInv' /\ OneLeasePerGpu' /\ RunsMatchJobs' /\ Active' = Active
    BY StoreFrame DEF TypeOK
  <1>1. TodoInv'
    BY <1>s DEF DropTick, TodoInv
  <1>2. LaunchInv'
    BY DEF DropTick, LaunchInv
  <1>3. LiveInv'
    BY LiveFrame
  <1> QED
    BY <1>s, <1>1, <1>2, <1>3

\* reclaim_all starts from whatever the tick left.
LEMMA ReclaimAllInv ==
    ASSUME IInv, NEW in \in {"recover", "shutdown"}, ReclaimAll(in), halts' \in 0 .. MaxHalts
    PROVE  IInv'
  <1> USE DEF IInv
  <1>s. StoreTypeOK' /\ Active' = Active
    BY StoreFrame DEF ReclaimAll, TypeOK
  <1>1. TypeOK'
    BY <1>s DEF ReclaimAll, DropTick, TypeOK, DockerTypeOK, DaemonTypeOK, Phases, NotObserved,
                ObsKinds, Holding, Active
  <1>2. PhaseInv'
    BY DEF ReclaimAll, DropTick, PhaseInv
  <1>3. StopIssuedIsLive'
    BY <1>s DEF ReclaimAll, StopIssuedIsLive
  <1> QED
    BY <1>1, <1>2, <1>3, DropTickInv DEF ReclaimAll, Holding

\* mark_running refuses a cancelled job: the tick is abandoned for reclaim_all.
LEMMA LaunchRefusedInv == ASSUME IInv, LaunchRefused PROVE IInv'
  BY ReclaimAllInv DEF LaunchRefused, IInv, TypeOK, DaemonTypeOK

\* A step of a tick raises: the tick is abandoned for reclaim_all.
LEMMA TickErrorInv == ASSUME IInv, TickError PROVE IInv'
  BY ReclaimAllInv DEF TickError, IInv, TypeOK, DaemonTypeOK

\* SIGTERM: reclaim_all goes through every active job.
LEMMA TerminateInv == ASSUME IInv, Terminate PROVE IInv'
  BY ReclaimAllInv DEF Terminate, IInv, TypeOK, DaemonTypeOK

\* The loop goes on after reclaim_all, finished or not.
LEMMA EndRecoverInv == ASSUME IInv, EndRecover PROVE IInv'
  <1> USE DEF IInv
  <1>s. StoreTypeOK' /\ Active' = Active
    BY StoreFrame DEF EndRecover, TypeOK
  <1>1. TypeOK'
    BY <1>s DEF EndRecover, DropTick, TypeOK, DockerTypeOK, DaemonTypeOK, Phases, NotObserved,
                ObsKinds
  <1>2. PhaseInv'
    BY DEF EndRecover, DropTick, PhaseInv, Reclaimed
  <1>3. StopIssuedIsLive'
    BY <1>s DEF EndRecover, StopIssuedIsLive
  <1> QED
    BY <1>1, <1>2, <1>3, DropTickInv DEF EndRecover

\* The daemon's memory is gone, the rest is as it was.
LEMMA HaltInv ==
    ASSUME IInv, NEW to \in {"exited", "crashed"}, Halt(to), halts' \in 0 .. MaxHalts
    PROVE  IInv'
  <1> USE DEF IInv
  <1>s. StoreTypeOK' /\ Active' = Active
    BY StoreFrame DEF Halt, TypeOK
  <1>1. TypeOK'
    BY <1>s DEF Halt, DropTick, TypeOK, DockerTypeOK, DaemonTypeOK, Phases, NotObserved,
                ObsKinds, NoTrackers
  <1>2. PhaseInv'
    BY DEF Halt, DropTick, PhaseInv, Reclaimed
  <1>3. StopIssuedIsLive'
    BY <1>s DEF Halt, StopIssuedIsLive
  <1> QED
    BY <1>1, <1>2, <1>3, DropTickInv DEF Halt

\* The daemon ends after wait_stops.
LEMMA ExitInv == ASSUME IInv, Exit PROVE IInv'
  BY HaltInv DEF Exit, IInv, TypeOK, DaemonTypeOK

\* The daemon ends in the middle of any step.
LEMMA CrashInv == ASSUME IInv, Crash PROVE IInv'
  BY HaltInv DEF Crash, IInv, TypeOK, DaemonTypeOK

\* A stop is remembered for a container of an active job.
LEMMA ReclaimStopInv == ASSUME IInv, ReclaimStop PROVE IInv'
  <1> USE DEF IInv
  <1>s. StoreTypeOK' /\ RowInv' /\ OneLeasePerGpu' /\ RunsMatchJobs' /\ Active' = Active
    BY StoreFrame DEF ReclaimStop, TypeOK
  <1>1. TypeOK'
    BY <1>s DEF ReclaimStop, StopAsync, TypeOK, DockerTypeOK, DaemonTypeOK
  <1>2. PhaseInv'
    BY DEF ReclaimStop, PhaseInv, Reclaimed
  <1>3. TodoInv'
    BY <1>s DEF ReclaimStop, StopAsync, TodoInv, Running
  <1>4. LaunchInv'
    BY LaunchFrame DEF ReclaimStop, StopAsync
  <1>5. LiveInv'
    BY LiveFrame DEF ReclaimStop, StopAsync
  <1>6. StopIssuedIsLive'
    BY <1>s DEF ReclaimStop, StopIssuedIsLive, TodoInv
  <1> QED
    BY <1>s, <1>1, <1>2, <1>3, <1>4, <1>5, <1>6

\* A job that is not QUEUED any more is struck off the launches.
LEMMA LaunchSkipInv ==
    ASSUME IInv, NEW g \in Gpus, NEW j \in Jobs, LaunchSkip(g, j) PROVE IInv'
  <1> USE DEF IInv
  <1>s. /\ StoreTypeOK' /\ RowInv' /\ OneLeasePerGpu' /\ RunsMatchJobs' /\ Active' = Active
        /\ \A h \in Gpus : OnGpu(h)' = OnGpu(h)
    BY StoreFrame DEF LaunchSkip, TypeOK
  <1>1. TypeOK'
    BY <1>s DEF LaunchSkip, TypeOK, DockerTypeOK, DaemonTypeOK
  <1>2. PhaseInv'
    BY DEF LaunchSkip, PhaseInv, ReadyToLaunch, Reclaimed
  <1>3. TodoInv'
    BY <1>s DEF LaunchSkip, TodoInv, Running
  <1>4. LaunchInv'
    BY <1>s DEF LaunchSkip, LaunchInv, ReadyToLaunch, TypeOK, DaemonTypeOK
  <1>5. LiveInv'
    BY LiveFrame DEF LaunchSkip
  <1>6. StopIssuedIsLive'
    BY <1>s DEF LaunchSkip, StopIssuedIsLive
  <1> QED
    BY <1>s, <1>1, <1>2, <1>3, <1>4, <1>5, <1>6

\* A tick ends with nothing left to do.
LEMMA EndTickInv == ASSUME IInv, EndTick PROVE IInv'
  <1> USE DEF IInv
  <1>s. StoreTypeOK' /\ RowInv' /\ OneLeasePerGpu' /\ RunsMatchJobs' /\ Active' = Active
    BY StoreFrame DEF EndTick, TypeOK
  <1>1. TypeOK'
    BY <1>s DEF EndTick, TypeOK, DockerTypeOK, DaemonTypeOK, Phases
  <1>2. PhaseInv'
    BY DEF EndTick, PhaseInv, Reclaimed
  <1>3. TodoInv'
    BY <1>s DEF EndTick, TodoInv, Running
  <1>4. LaunchInv' /\ LiveInv'
    BY LaunchFrame, LiveFrame DEF EndTick
  <1>5. StopIssuedIsLive'
    BY <1>s DEF EndTick, StopIssuedIsLive
  <1> QED
    BY <1>s, <1>1, <1>2, <1>3, <1>4, <1>5

\* A new daemon starts with an empty memory.
LEMMA RestartInv == ASSUME IInv, Restart PROVE IInv'
  <1> USE DEF IInv
  <1>s. StoreTypeOK' /\ RowInv' /\ OneLeasePerGpu' /\ RunsMatchJobs' /\ Active' = Active
    BY StoreFrame DEF Restart, TypeOK
  <1>1. TypeOK'
    BY <1>s DEF Restart, TypeOK, DockerTypeOK, DaemonTypeOK, Phases
  <1>2. PhaseInv'
    BY DEF Restart, PhaseInv, Reclaimed
  <1>3. TodoInv'
    BY <1>s DEF Restart, TodoInv, Running
  <1>4. LaunchInv' /\ LiveInv'
    BY LaunchFrame, LiveFrame DEF Restart
  <1>5. StopIssuedIsLive'
    BY <1>s DEF Restart, StopIssuedIsLive
  <1> QED
    BY <1>s, <1>1, <1>2, <1>3, <1>4, <1>5

\* Owners, pauses and resumes, and a step that changes nothing.
LEMMA OutsideInv ==
    ASSUME IInv, UNCHANGED <<storeVars, dockerVars, daemonVars>>,
           halts' = halts, held' \subseteq Gpus, busy' \subseteq Gpus
    PROVE  IInv'
  <1> USE DEF IInv
  <1>s. StoreTypeOK' /\ RowInv' /\ OneLeasePerGpu' /\ RunsMatchJobs' /\ Active' = Active
    BY StoreFrame DEF TypeOK
  <1>1. TypeOK'
    BY <1>s DEF TypeOK, DockerTypeOK, DaemonTypeOK
  <1>2. PhaseInv'
    BY DEF PhaseInv, Reclaimed
  <1>3. TodoInv'
    BY <1>s DEF TodoInv, Running
  <1>4. LaunchInv' /\ LiveInv'
    BY LaunchFrame, LiveFrame
  <1>5. StopIssuedIsLive'
    BY <1>s DEF StopIssuedIsLive
  <1> QED
    BY <1>s, <1>1, <1>2, <1>3, <1>4, <1>5

-----------------------------------------------------------------------------
(* Docker on its own *)

\* Containers may end, disappear, or start when they were pending; the database
\* and the daemon do not notice.
LEMMA ContainersInv ==
    ASSUME IInv, UNCHANGED <<storeVars, daemonVars>>,
           halts' = halts, held' = held, busy' = busy, DockerTypeOK',
           \A c \in Containers : \/ docker'[c] = docker[c]
                                 \/ docker'[c] \in {"absent", "exit0", "exit1"} /\ Listed(c)
                                 \/ docker'[c] = "running" /\ docker[c] = "pending"
    PROVE  IInv'
  <1> USE DEF IInv
  <1>s. StoreTypeOK' /\ RowInv' /\ OneLeasePerGpu' /\ RunsMatchJobs' /\ Active' = Active
    BY StoreFrame DEF TypeOK
  <1>1. TypeOK'
    BY <1>s DEF TypeOK, DaemonTypeOK
  <1>2. PhaseInv'
    BY DEF PhaseInv, Reclaimed
  <1>3. TodoInv'
    <2>1. \A j \in Active : containerOf[j] \in Containers /\ docker[containerOf[j]] # "pending"
      BY ActiveFacts DEF LiveInv, TypeOK
    <2> QED
      BY <1>s, <2>1 DEF TodoInv, Running
  <1>4. LaunchInv'
    <2>1. ASSUME launching # NoLaunch, launching.ok, state[launching.job] = "QUEUED"
          PROVE  docker'[NextRun(launching.job)] # "pending"
      <3>1. NextRun(launching.job) \in Containers
        BY <2>1 DEF NextRun, RowInv, TypeOK, DaemonTypeOK, StoreTypeOK, Launchings, Containers
      <3> QED
        BY <2>1, <3>1 DEF LaunchInv
    <2> QED
      BY <1>s, <2>1 DEF LaunchInv, NextRun, OnGpu, Active
  <1>5. LiveInv'
    BY <1>s DEF LiveInv, Running, Listed
  <1>6. StopIssuedIsLive'
    BY <1>s DEF StopIssuedIsLive
  <1> QED
    BY <1>s, <1>1, <1>2, <1>3, <1>4, <1>5, <1>6

\* docker stop ends a container, if it still runs.
LEMMA StopEndsInv == ASSUME IInv, NEW c \in Containers, StopEnds(c) PROVE IInv'
  <1> USE DEF IInv
  <1>1. DockerTypeOK'
    BY DEF StopEnds, StopTakesEffect, TypeOK, DockerTypeOK, Statuses, ExitCodes
  <1>2. \A d \in Containers : \/ docker'[d] = docker[d]
                              \/ docker'[d] \in ExitCodes /\ Running(d)
    BY DEF StopEnds, StopTakesEffect, TypeOK, DockerTypeOK
  <1> QED
    BY <1>1, <1>2, ContainersInv DEF StopEnds, Running, Listed, ExitCodes

\* Containers end, start late or are removed, stops fail.
LEMMA DockerActsInv == ASSUME IInv, DockerActs PROVE IInv'
  <1> USE DEF IInv
  <1>1. PICK c \in Containers : \/ ContainerExits(c)
                                \/ StartsLate(c)
                                \/ "stop-fails" \in Faults /\ StopFails(c)
                                \/ "vanish" \in Faults /\ Listed(c) /\ Remove(c)
    BY DEF DockerActs
  <1>2. DockerTypeOK'
    BY <1>1 DEF ContainerExits, StartsLate, StopFails, Remove, TypeOK, DockerTypeOK, Statuses,
                ExitCodes
  <1>3. \A d \in Containers : \/ docker'[d] = docker[d]
                              \/ docker'[d] \in {"absent", "exit0", "exit1"} /\ Listed(d)
                              \/ docker'[d] = "running" /\ docker[d] = "pending"
    BY <1>1 DEF ContainerExits, StartsLate, StopFails, Remove, TypeOK, DockerTypeOK, ExitCodes,
                Running, Listed
  <1> QED
    BY <1>2, <1>3, ContainersInv DEF DockerActs

\* ExecStopPost ends every running container; the database does not notice.
LEMMA StopPostInv == ASSUME IInv, StopPost PROVE IInv'
  <1> USE DEF IInv
  <1>c. PICK code \in [{c \in Containers : Running(c)} -> ExitCodes] :
           docker' = [c \in Containers |-> IF Running(c) THEN code[c] ELSE docker[c]]
    BY DEF StopPost, StopEverything
  <1>d. \A c \in Containers : docker'[c] = docker[c] \/ (docker'[c] \in ExitCodes /\ Running(c))
    BY <1>c
  <1>t. docker' \in [Containers -> Statuses]
    BY <1>c, <1>d DEF StopPost, StopEverything, TypeOK, DockerTypeOK, Statuses, ExitCodes
  <1>s. StoreTypeOK' /\ RowInv' /\ OneLeasePerGpu' /\ RunsMatchJobs' /\ Active' = Active
    BY StoreFrame DEF StopPost, TypeOK
  <1>1. TypeOK'
    BY <1>s, <1>t DEF StopPost, StopEverything, TypeOK, DockerTypeOK, DaemonTypeOK, Phases
  <1>2. PhaseInv'
    BY DEF StopPost, PhaseInv, Reclaimed
  <1>3. TodoInv'
    BY <1>s DEF StopPost, TodoInv, PhaseInv, Reclaimed
  <1>4. LaunchInv'
    BY <1>s DEF StopPost, LaunchInv, PhaseInv
  <1>5. LiveInv'
    BY <1>s, <1>d DEF LiveInv, Running, ExitCodes, StopPost
  <1>6. StopIssuedIsLive'
    BY <1>s DEF StopPost, StopIssuedIsLive
  <1> QED
    BY <1>s, <1>1, <1>2, <1>3, <1>4, <1>5, <1>6

-----------------------------------------------------------------------------
(* Steps that change the database *)

\* A change of state and closed that leaves the active jobs the same.
LEMMA ActiveFrame ==
    ASSUME OneLeasePerGpu, RunsMatchJobs, Active' = Active,
           UNCHANGED <<attempts, preemptions, gpuOf, containerOf, runs>>
    PROVE  /\ OneLeasePerGpu' /\ RunsMatchJobs'
           /\ \A g \in Gpus : OnGpu(g)' = OnGpu(g)
           /\ LiveInv /\ UNCHANGED docker => LiveInv'
           /\ StopIssuedIsLive /\ UNCHANGED stopIssued => StopIssuedIsLive'
  BY DEF OneLeasePerGpu, RunsMatchJobs, OnGpu, LiveInv, Running, StopIssuedIsLive

\* A submitted job is neither active nor launched.
LEMMA UserSubmitInv == ASSUME IInv, NEW j \in Jobs, UserSubmit(j) PROVE IInv'
  <1> USE DEF IInv
  <1>a. Active' = Active
    BY DEF UserSubmit, Submit, Active, TypeOK, StoreTypeOK
  <1>f. /\ OneLeasePerGpu' /\ RunsMatchJobs' /\ LiveInv' /\ StopIssuedIsLive'
        /\ \A g \in Gpus : OnGpu(g)' = OnGpu(g)
    BY <1>a, ActiveFrame DEF UserSubmit, Submit
  <1>1. TypeOK'
    BY DEF UserSubmit, Submit, TypeOK, StoreTypeOK, DockerTypeOK, DaemonTypeOK, JobStates
  <1>2. RowInv'
    BY <1>a DEF UserSubmit, Submit, RowInv, TypeOK, StoreTypeOK
  <1>3. PhaseInv'
    BY DEF UserSubmit, PhaseInv, Reclaimed
  <1>4. TodoInv'
    BY <1>a DEF UserSubmit, Submit, TodoInv, Running, TypeOK, StoreTypeOK
  <1>5. LaunchInv'
    BY <1>f DEF UserSubmit, Submit, LaunchInv, NextRun, TypeOK, StoreTypeOK, DaemonTypeOK,
                Launchings
  <1> QED
    BY <1>f, <1>1, <1>2, <1>3, <1>4, <1>5

\* A cancel keeps an active job active until its run is finished.
LEMMA UserCancelInv == ASSUME IInv, NEW j \in Jobs, UserCancel(j) PROVE IInv'
  <1> USE DEF IInv
  <1>a. Active' = Active
    BY DEF UserCancel, Cancel, Active, TypeOK, StoreTypeOK, RowInv
  <1>f. /\ OneLeasePerGpu' /\ RunsMatchJobs' /\ LiveInv' /\ StopIssuedIsLive'
        /\ \A g \in Gpus : OnGpu(g)' = OnGpu(g)
    BY <1>a, ActiveFrame DEF UserCancel, Cancel
  <1>1. TypeOK'
    BY DEF UserCancel, Cancel, TypeOK, StoreTypeOK, DockerTypeOK, DaemonTypeOK, JobStates
  <1>2. RowInv'
    BY <1>a DEF UserCancel, Cancel, RowInv, TypeOK, StoreTypeOK
  <1>3. PhaseInv'
    BY DEF UserCancel, PhaseInv, Reclaimed
  <1>4. TodoInv'
    BY <1>a DEF UserCancel, Cancel, TodoInv, Running, TypeOK, StoreTypeOK, Active
  <1>5. LaunchInv'
    BY <1>f DEF UserCancel, Cancel, LaunchInv, NextRun, TypeOK, StoreTypeOK, DaemonTypeOK,
                Launchings
  <1> QED
    BY <1>f, <1>1, <1>2, <1>3, <1>4, <1>5

\* mark_preempting keeps the job active, and its container is stopped next.
LEMMA ReclaimMarkInv == ASSUME IInv, NEW j \in Jobs, ReclaimMark(j) PROVE IInv'
  <1> USE DEF IInv
  <1>j. /\ j \in Active /\ containerOf[j] \in Containers
        /\ state'[j] # "RUNNING"
        /\ \A k \in Jobs \ {j} : state'[k] = state[k]
    BY ActiveFacts DEF ReclaimMark, MarkPreempting, TodoInv, TypeOK, StoreTypeOK
  <1>a. Active' = Active
    BY DEF ReclaimMark, MarkPreempting, Active, TypeOK, StoreTypeOK
  <1>f. /\ OneLeasePerGpu' /\ RunsMatchJobs' /\ LiveInv' /\ StopIssuedIsLive'
        /\ \A g \in Gpus : OnGpu(g)' = OnGpu(g)
    BY <1>a, ActiveFrame DEF ReclaimMark, MarkPreempting
  <1>1. TypeOK'
    BY <1>j DEF ReclaimMark, MarkPreempting, TypeOK, StoreTypeOK, DockerTypeOK, DaemonTypeOK,
                JobStates
  <1>2. RowInv'
    BY <1>a DEF ReclaimMark, MarkPreempting, RowInv, TypeOK, StoreTypeOK
  <1>3. PhaseInv'
    BY DEF ReclaimMark, PhaseInv
  <1>4. TodoInv'
    BY <1>a, <1>j DEF ReclaimMark, MarkPreempting, TodoInv, Running
  <1>5. LaunchInv'
    BY <1>f DEF ReclaimMark, MarkPreempting, LaunchInv, NextRun, TypeOK, StoreTypeOK,
                DaemonTypeOK, Launchings
  <1> QED
    BY <1>f, <1>1, <1>2, <1>3, <1>4, <1>5

\* A job whose launch failed is FAILED, or was cancelled before, and never active.
LEMMA LaunchFailedInv == ASSUME IInv, LaunchFailed PROVE IInv'
  <1> USE DEF IInv
  <1> DEFINE j == launching.job
  <1>j. j \in Jobs /\ state[j] \in {"QUEUED", "CANCELLED"} /\ containerOf[j] = NoContainer
    BY DEF LaunchFailed, LaunchInv, TypeOK, DaemonTypeOK, Launchings
  <1>a. Active' = Active
    BY <1>j DEF LaunchFailed, Fail, Active, TypeOK, StoreTypeOK
  <1>f. /\ OneLeasePerGpu' /\ RunsMatchJobs' /\ LiveInv' /\ StopIssuedIsLive'
        /\ \A g \in Gpus : OnGpu(g)' = OnGpu(g)
    BY <1>a, ActiveFrame DEF LaunchFailed, Fail
  <1>1. TypeOK'
    BY <1>j DEF LaunchFailed, Fail, TypeOK, StoreTypeOK, DockerTypeOK, DaemonTypeOK, JobStates
  <1>2. RowInv'
    BY <1>a DEF LaunchFailed, Fail, RowInv, TypeOK, StoreTypeOK
  <1>3. PhaseInv'
    BY DEF LaunchFailed, PhaseInv, Reclaimed
  <1>4. TodoInv'
    BY <1>a DEF LaunchFailed, Fail, TodoInv, Running, TypeOK, StoreTypeOK
  <1>5. LaunchInv'
    BY <1>f DEF LaunchFailed, LaunchInv, TypeOK, DaemonTypeOK
  <1> QED
    BY <1>f, <1>1, <1>2, <1>3, <1>4, <1>5

\* A run ahead of a queued job: its container is one of Containers, and docker
\* has none of a later attempt.
LEMMA LaunchRunInv ==
    ASSUME IInv, NEW g \in Gpus, NEW j \in Jobs, LaunchRun(g, j) PROVE IInv'
  <1> USE DEF IInv
  <1> DEFINE c == NextRun(j)
  <1>c. /\ c \in Containers /\ c = <<j, attempts[j] + 1>>
        /\ j \notin Active /\ state[j] = "QUEUED" /\ containerOf[j] = NoContainer
    BY DEF LaunchRun, NextRun, RowInv, TypeOK, StoreTypeOK, Containers, Active
  <1>s. /\ StoreTypeOK' /\ RowInv' /\ OneLeasePerGpu' /\ RunsMatchJobs' /\ Active' = Active
        /\ \A h \in Gpus : OnGpu(h)' = OnGpu(h)
    BY StoreFrame DEF LaunchRun, TypeOK
  <1>d. /\ docker' \in [Containers -> Statuses]
        /\ \A d \in Containers : d # c => docker'[d] = docker[d]
        /\ launching' \in Launchings /\ launching'.job = j /\ launching'.gpu = g
        /\ launching'.ok => docker'[c] # "pending"
    <2>1. CASE /\ launching' = [job |-> j, gpu |-> g, ok |-> TRUE]
               /\ Create(c, g, "running")
      BY <1>c, <2>1 DEF Create, TypeOK, DockerTypeOK, Statuses, Launchings
    <2>2. CASE /\ launching' = [job |-> j, gpu |-> g, ok |-> FALSE]
               /\ \/ UNCHANGED dockerVars
                  \/ \E status \in {"exit1", "pending"} : Create(c, g, status)
      BY <1>c, <2>2 DEF Create, TypeOK, DockerTypeOK, Statuses, Launchings
    <2> QED
      BY <2>1, <2>2 DEF LaunchRun
  <1>1. TypeOK'
    BY <1>c, <1>s, <1>d DEF LaunchRun, Create, TypeOK, DockerTypeOK, DaemonTypeOK
  <1>2. PhaseInv'
    BY DEF LaunchRun, ReadyToLaunch, PhaseInv, Reclaimed
  <1>3. TodoInv'
    BY <1>s DEF LaunchRun, ReadyToLaunch, TodoInv, PhaseInv, Reclaimed
  <1>4. LaunchInv'
    <2>1. /\ OnGpu(g) = {}
          /\ \A l \in launches' : l[1] # g
      BY DEF LaunchRun, ReadyToLaunch, LaunchInv
    <2>2. NextRun(launching.job)' = c
      BY <1>d DEF LaunchRun, NextRun
    <2>5. OnGpu(launching.gpu)' = {}
      BY <1>d, <1>s, <2>1 DEF OnGpu, LaunchRun
    <2>3. /\ \A l \in launches' : OnGpu(l[1])' = {}
          /\ \A k, l \in launches' : k[1] = l[1] => k = l
      BY <1>s DEF LaunchRun, LaunchInv, TypeOK, DaemonTypeOK
    <2>4. state' = state /\ containerOf' = containerOf
      BY DEF LaunchRun
    <2> QED
      BY <1>c, <1>s, <1>d, <2>1, <2>2, <2>3, <2>4, <2>5 DEF LaunchInv
  <1>5. LiveInv'
    <2> SUFFICES ASSUME NEW d \in Containers PROVE LiveInv!(d)'
      BY DEF LiveInv
    <2>1. UNCHANGED <<attempts, containerOf>>
      BY DEF LaunchRun
    <2>2. CASE d = c
      BY <1>c, <1>s, <2>1, <2>2 DEF TypeOK, StoreTypeOK
    <2>3. CASE d # c
      BY <1>s, <1>d, <2>1, <2>3 DEF LiveInv, Running
    <2> QED
      BY <2>2, <2>3
  <1>6. StopIssuedIsLive'
    BY <1>s DEF LaunchRun, StopIssuedIsLive
  <1> QED
    BY <1>s, <1>1, <1>2, <1>3, <1>4, <1>5, <1>6

\* mark_running records the run: its GPU was leased to nobody, its container is the
\* only one of the job that can run.
LEMMA LaunchRecordInv == ASSUME IInv, LaunchRecord PROVE IInv'
  <1> USE DEF IInv
  <1> DEFINE j == launching.job
             g == launching.gpu
             c == NextRun(j)
  <1>j. /\ j \in Jobs /\ g \in Gpus /\ launching # NoLaunch /\ launching.ok
        /\ state[j] = "QUEUED" /\ containerOf[j] = NoContainer /\ ~closed[j]
        /\ attempts[j] < MaxAttempts /\ j \notin Active
    BY DEF LaunchRecord, MarkRunning, TypeOK, DaemonTypeOK, Launchings, RowInv, Active
  <1>c. c \in Containers /\ c = <<j, attempts[j] + 1>> /\ c # NoContainer
    BY <1>j DEF NextRun, TypeOK, StoreTypeOK, Containers
  <1>w. /\ state' = [state EXCEPT ![j] = "RUNNING"]
        /\ attempts' = [attempts EXCEPT ![j] = @ + 1]
        /\ gpuOf' = [gpuOf EXCEPT ![j] = g]
        /\ containerOf' = [containerOf EXCEPT ![j] = c]
        /\ runs' = [runs EXCEPT ![c] = "open"]
        /\ UNCHANGED <<preemptions, closed>>
    BY DEF LaunchRecord, MarkRunning
  <1>a. Active' = Active \cup {j}
    BY <1>j, <1>w, <1>c DEF Active, TypeOK, StoreTypeOK
  <1>t. StoreTypeOK'
    BY <1>j, <1>c, <1>w DEF TypeOK, StoreTypeOK, JobStates
  <1>1. TypeOK'
    BY <1>t DEF LaunchRecord, TypeOK, DockerTypeOK, DaemonTypeOK
  <1>2. RowInv'
    <2> SUFFICES ASSUME NEW k \in Jobs PROVE RowInv!(k)'
      BY DEF RowInv
    <2>1. CASE k = j
      BY <1>j, <1>c, <1>w, <1>a, <2>1 DEF RowInv, TypeOK, StoreTypeOK
    <2>2. CASE k # j
      BY <1>j, <1>w, <1>a, <2>2 DEF RowInv, TypeOK, StoreTypeOK
    <2> QED
      BY <2>1, <2>2
  <1>3. PhaseInv'
    BY DEF LaunchRecord, PhaseInv, Reclaimed
  <1>4. TodoInv'
    BY <1>j, <1>w, <1>a DEF LaunchRecord, TodoInv, PhaseInv, TypeOK, StoreTypeOK, Active
  <1>5. OneLeasePerGpu'
    <2>1. \A i \in Active : i \in Jobs /\ gpuOf[i] # g
      BY <1>j DEF LaunchInv, OnGpu, Active
    <2> QED
      BY <1>j, <1>w, <1>a, <2>1 DEF OneLeasePerGpu, TypeOK, StoreTypeOK
  <1>6. LaunchInv'
    <2>1. \A l \in launches : l[1] # g /\ OnGpu(l[1]) = {}
      BY <1>j DEF LaunchInv
    <2>2. \A l \in launches : OnGpu(l[1])' = {}
      BY <1>j, <1>w, <1>a, <2>1 DEF OnGpu, Active, TypeOK, StoreTypeOK
    <2> QED
      BY <2>2 DEF LaunchRecord, LaunchInv
  <1>7. LiveInv'
    <2> SUFFICES ASSUME NEW d \in Containers PROVE LiveInv!(d)'
      BY DEF LiveInv
    <2>1. /\ d[1] \in Jobs /\ d[2] \in Nat /\ d = <<d[1], d[2]>>
          /\ docker'[d] = docker[d]
      BY DEF Containers, LaunchRecord
    <2>2. CASE d[1] = j
      <3>1. docker[c] # "pending"
        BY <1>j DEF LaunchInv
      <3> QED
        BY <1>j, <1>c, <1>w, <1>a, <2>1, <2>2, <3>1
           DEF LiveInv, Running, TypeOK, StoreTypeOK
    <2>3. CASE d[1] # j
      BY <1>j, <1>w, <1>a, <2>1, <2>3 DEF LiveInv, Running, TypeOK, StoreTypeOK
    <2> QED
      BY <2>2, <2>3
  <1>8. RunsMatchJobs'
    <2> SUFFICES ASSUME NEW d \in Containers PROVE RunsMatchJobs!(d)'
      BY DEF RunsMatchJobs
    <2>1. d[1] \in Jobs /\ d[2] \in Nat /\ d = <<d[1], d[2]>>
      BY DEF Containers
    <2>2. CASE d[1] = j /\ d = c
      BY <1>j, <1>c, <1>w, <1>a, <2>1, <2>2 DEF TypeOK, StoreTypeOK
    <2>4. CASE d[1] = j /\ d # c
      <3>1. /\ d[2] # attempts[j] + 1 /\ runs'[d] = runs[d] /\ containerOf'[j] # d
            /\ attempts'[j] = attempts[j] + 1 /\ attempts[j] \in Nat
        BY <1>j, <1>c, <1>w, <2>1, <2>4 DEF TypeOK, StoreTypeOK
      <3>2. runs[d] # "open" /\ (runs[d] = "none" <=> d[2] > attempts[j])
        BY <1>j, <2>4 DEF RunsMatchJobs
      <3> QED
        BY <2>1, <2>4, <3>1, <3>2
    <2>3. CASE d[1] # j
      BY <1>j, <1>c, <1>w, <1>a, <2>1, <2>3 DEF RunsMatchJobs, TypeOK, StoreTypeOK
    <2> QED
      BY <2>2, <2>3, <2>4
  <1>9. StopIssuedIsLive'
    BY <1>j, <1>w, <1>a DEF LaunchRecord, StopIssuedIsLive, TypeOK, StoreTypeOK, Active
  <1> QED
    BY <1>1, <1>2, <1>3, <1>4, <1>5, <1>6, <1>7, <1>8, <1>9

\* finish() closes the run of an active job and takes the job out of the active ones.
LEMMA FinishRunInv ==
    ASSUME IInv, NEW j \in Jobs, NEW how \in Ends, FinishRun(j, how) PROVE IInv'
  <1> USE DEF IInv
  <1> DEFINE clean == how = "exit0"
             vanished == how = "absent"
             c == containerOf[j]
             new == FinishState(j, clean, vanished)
             outcome == FinishOutcome(j, clean, vanished)
  <1>j. /\ j \in Active /\ <<j, how>> \in ended /\ ~Running(c)
        /\ c \in Containers /\ c # NoContainer /\ c = <<j, attempts[j]>>
        /\ gpuOf[j] \in Gpus /\ ~closed[j] /\ preemptions[j] < attempts[j]
        /\ attempts[j] \in 1 .. MaxAttempts
        /\ state[j] \in {"RUNNING", "PREEMPTING", "CANCELLED"}
    BY ActiveFacts DEF FinishRun, TodoInv, RowInv, TypeOK, StoreTypeOK, Active, Containers
  <1>n. /\ new \in {"QUEUED", "CANCELLED", "SUCCEEDED", "FAILED"}
        /\ new = "QUEUED" => attempts[j] < MaxAttempts
        /\ outcome \in Outcomes
    BY <1>j DEF FinishState, FinishOutcome, Outcomes
  <1>p. Counted(j, vanished) \in {0, 1}
    BY DEF Counted
  <1>w. /\ state' = [state EXCEPT ![j] = new]
        /\ closed' = [closed EXCEPT ![j] = new # "QUEUED"]
        /\ preemptions' = [preemptions EXCEPT ![j] = @ + Counted(j, vanished)]
        /\ gpuOf' = [gpuOf EXCEPT ![j] = IF new = "QUEUED" THEN NoGpu ELSE @]
        /\ containerOf' = [containerOf EXCEPT ![j] =
                              IF new = "QUEUED" THEN NoContainer ELSE @]
        /\ runs' = [runs EXCEPT ![c] = IF @ = "open" THEN outcome ELSE @]
        /\ UNCHANGED attempts
    BY <1>j DEF FinishRun, Finish
  <1> HIDE DEF new, outcome, c, clean, vanished
  <1>a. Active' = Active \ {j}
    BY <1>j, <1>n, <1>w DEF Active, TypeOK, StoreTypeOK
  <1>r. reclaims = {} /\ stopping = NoContainer /\ phase' = "reconcile"
    BY DEF FinishRun, PhaseInv, Reclaimed
  <1>1. TypeOK'
    <2>1. StoreTypeOK'
      BY <1>j, <1>n, <1>p, <1>w DEF TypeOK, StoreTypeOK, JobStates
    <2>2. DaemonTypeOK'
      BY <1>j DEF FinishRun, StopForgotten, TypeOK, DaemonTypeOK, c
    <2> QED
      BY <2>1, <2>2 DEF FinishRun, TypeOK, DockerTypeOK
  <1>2. RowInv'
    <2> SUFFICES ASSUME NEW k \in Jobs PROVE RowInv!(k)'
      BY DEF RowInv
    <2>1. CASE k = j
      <3>1. /\ state'[j] = new /\ closed'[j] = (new # "QUEUED") /\ attempts'[j] = attempts[j]
            /\ preemptions'[j] <= attempts[j] /\ j \notin Active'
            /\ gpuOf'[j] = IF new = "QUEUED" THEN NoGpu ELSE gpuOf[j]
            /\ containerOf'[j] = IF new = "QUEUED" THEN NoContainer ELSE c
        BY <1>j, <1>p, <1>w, <1>a DEF TypeOK, StoreTypeOK, c
      <3> QED
        BY <1>j, <1>n, <2>1, <3>1
    <2>2. CASE k # j
      BY <1>w, <1>a, <2>2 DEF RowInv, TypeOK, StoreTypeOK
    <2> QED
      BY <2>1, <2>2
  <1>3. PhaseInv'
    BY <1>r DEF FinishRun, PhaseInv, Reclaimed
  <1>4. TodoInv'
    <2>1. ASSUME NEW e \in ended' PROVE e[1] \in Active' /\ ~Running(containerOf[e[1]])'
      <3>1. e \in ended /\ e[1] # j
        BY <1>j DEF FinishRun, TodoInv
      <3>2. e[1] \in Active /\ ~Running(containerOf[e[1]])
        BY <3>1 DEF TodoInv
      <3> QED
        BY <1>w, <1>a, <3>1, <3>2 DEF FinishRun, Running, Active, TypeOK, StoreTypeOK
    <2> QED
      BY <1>r, <2>1 DEF FinishRun, TodoInv
  <1>5. OneLeasePerGpu'
    BY <1>w, <1>a DEF OneLeasePerGpu, Active, TypeOK, StoreTypeOK
  <1>6. LaunchInv'
    BY <1>r DEF FinishRun, PhaseInv, LaunchInv
  <1>7. LiveInv'
    <2> SUFFICES ASSUME NEW d \in Containers PROVE LiveInv!(d)'
      BY DEF LiveInv
    <2>1. docker' = docker
      BY DEF FinishRun
    <2>2. CASE d[1] = j
      <3>1. ~Running(d) /\ docker[d] # "pending"
        BY <1>j, <2>2 DEF LiveInv, c
      <3> QED
        BY <1>w, <1>a, <2>1, <2>2, <3>1 DEF LiveInv, Running
    <2>3. CASE d[1] # j
      BY <1>w, <1>a, <2>1, <2>3 DEF LiveInv, Running, TypeOK, StoreTypeOK, Containers
    <2> QED
      BY <2>2, <2>3
  <1>8. RunsMatchJobs'
    <2> SUFFICES ASSUME NEW d \in Containers PROVE RunsMatchJobs!(d)'
      BY DEF RunsMatchJobs
    <2>1. d[1] \in Jobs
      BY DEF Containers
    <2>2. CASE d = c
      BY <1>j, <1>n, <1>w, <1>a, <2>1, <2>2 DEF RunsMatchJobs, TypeOK, StoreTypeOK, Outcomes, c
    <2>3. CASE d # c /\ d[1] = j
      BY <1>j, <1>w, <1>a, <2>1, <2>3 DEF RunsMatchJobs, TypeOK, StoreTypeOK, c
    <2>4. CASE d[1] # j
      BY <1>j, <1>w, <1>a, <2>1, <2>4 DEF RunsMatchJobs, TypeOK, StoreTypeOK
    <2> QED
      BY <2>2, <2>3, <2>4
  <1>9. StopIssuedIsLive'
    BY <1>w, <1>a DEF FinishRun, StopForgotten, StopIssuedIsLive, Active, TypeOK, StoreTypeOK
  <1> QED
    BY <1>1, <1>2, <1>3, <1>4, <1>5, <1>6, <1>7, <1>8, <1>9

-----------------------------------------------------------------------------

\* Every step of the controller, of docker, of users and of systemd keeps IInv.
LEMMA NextInv == IInv /\ [Next]_vars => IInv'
  <1> SUFFICES ASSUME IInv, [Next]_vars PROVE IInv'
    OBVIOUS
  <1>1. CASE Observe
    BY <1>1, ObserveInv
  <1>2. CASE Reconcile
    BY <1>2, FinishRunInv, ArchiveInv DEF Reconcile
  <1>3. CASE Plan
    BY <1>3, PlanInv
  <1>4. CASE Reclaim
    BY <1>4, ReclaimMarkInv, ReclaimStopInv DEF Reclaim
  <1>5. CASE Launch
    BY <1>5, LaunchSkipInv, LaunchRunInv, LaunchRecordInv, LaunchFailedInv, LaunchRefusedInv
       DEF Launch
  <1>6. CASE EndTick \/ EndRecover \/ Exit
    BY <1>6, EndTickInv, EndRecoverInv, ExitInv
  <1>7. CASE TickError \/ Terminate \/ Crash \/ StopPost \/ Restart
    BY <1>7, TickErrorInv, TerminateInv, CrashInv, StopPostInv, RestartInv
  <1>8. CASE World
    <2>1. CASE SetHeld
      BY <2>1, OutsideInv DEF SetHeld, IInv, TypeOK, DaemonTypeOK
    <2>2. CASE \E g \in Gpus : OwnerToggles(g)
      BY <2>2, OutsideInv DEF OwnerToggles, IInv, TypeOK, DaemonTypeOK
    <2> QED
      BY <1>8, <2>1, <2>2, UserSubmitInv, UserCancelInv, StopEndsInv, DockerActsInv DEF World
  <1>9. CASE UNCHANGED vars
    BY <1>9, OutsideInv DEF vars, IInv, TypeOK, DaemonTypeOK
  <1> QED
    BY <1>1, <1>2, <1>3, <1>4, <1>5, <1>6, <1>7, <1>8, <1>9 DEF Next, DaemonStep

\* The rows, the runs, the containers and what the daemon has in memory fit together
\* in every reachable state, under any faults.
THEOREM InductiveInvariant == Spec => []IInv
  <1>1. Init => IInv
    BY InitInv
  <1>2. IInv /\ [Next]_vars => IInv'
    BY NextInv
  <1> QED
    BY <1>1, <1>2, PTL DEF Spec

=============================================================================
