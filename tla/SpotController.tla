--------------------------- MODULE SpotController ---------------------------
(***************************************************************************)
(* The spot controller daemon (src/labgpu/spot/daemon.py) together with    *)
(* what it runs against: the job database (JobStore), docker               *)
(* (DockerEngine), the owners of the GPUs, the CLI and systemd.            *)
(*                                                                         *)
(* The daemon is one thread.  A tick is cut into the steps between which   *)
(* somebody else can act on what the tick reads or writes:                 *)
(*                                                                         *)
(*   idle --Observe--> reconcile ----Plan----> act --EndTick--> idle       *)
(*                     (FinishRun,        (ReclaimMark, ReclaimStop,       *)
(*                      Archive)           LaunchRun, LaunchRecord, ...)   *)
(*                                                                         *)
(* An exception takes the tick to "recover" (reclaim_all, then the next    *)
(* tick); SIGTERM takes the loop to "shutdown" (reclaim_all, then          *)
(* wait_stops) and "exited"; a crash loses all memory at any step.         *)
(*                                                                         *)
(* Time is counted in polls.  The tracker of a GPU is reduced to `quiet`,  *)
(* the polls since last_active up to IdleTicks, the wait before lending;   *)
(* GpuDetector models the tracker itself.                                  *)
(***************************************************************************)
EXTENDS JobStore, DockerEngine, FiniteSets

CONSTANTS IdleTicks,    \* polls an owner must be quiet before the GPU is lent
          Elapsed,      \* how many polls may pass from one tick to the next
          MaxHalts,     \* bound on how often the daemon is terminated or crashes
          Faults        \* what happens besides the plain protocol

FaultKinds == {
    "cancel",        \* a user cancels jobs
    "pause",         \* pause and resume, kill switch
    "shutdown",      \* SIGTERM
    "stop-post",     \* the unit's ExecStopPost is installed
    "tick-error",    \* a step of a tick raises
    "db-error",      \* so does reclaim_all after it
    "docker-down",   \* docker ps or inspect fails
    "nvml-fail",     \* the snapshot of a GPU fails
    "gone",          \* a GPU is not in the NVML list
    "misread",       \* activity is seen although the owner is quiet
    "low-memory",    \* free memory under half of the reserve
    "no-room",       \* a job does not fit (GPU memory, RAM, model), or limits cannot be enforced
    "run-fails",     \* docker run refuses
    "run-late",      \* docker run times out, and the container starts later
    "stop-fails",    \* docker stop exits with an error
    "rm-fails",      \* docker rm -f fails
    "vanish",        \* somebody removes a container
    "drain-timeout"} \* wait_stops gives up

ASSUME ControllerAssumption ==
    /\ IdleTicks \in Nat \ {0}
    /\ Elapsed \subseteq Nat \ {0}
    /\ MaxHalts \in Nat
    /\ Faults \subseteq FaultKinds

VARIABLES
    phase,
    \* local to one tick
    blocked,      \* GPUs paused or under the kill switch, as this tick read them
    dockerOk,     \* docker_ok
    obs,          \* what this tick observed of each GPU
    ended,        \* <<job, how>>: runs _reconcile has still to finish
    trash,        \* containers _reconcile has still to archive
    reclaims,     \* jobs this tick, or reclaim_all, has still to reclaim
    stopping,     \* container whose job is marked and whose stop comes next
    launches,     \* <<gpu, job>> this tick has still to launch
    launching,    \* docker run has returned for this job, nothing is recorded yet
    \* kept from tick to tick, lost when the daemon stops
    quiet,        \* polls since last_active of each tracker, -1 without a tracker
    stopIssued,   \* Controller.stop_issued
    \* the rest of the world
    halts,
    held,         \* GPUs paused (all of them: node paused or kill switch)
    busy          \* GPUs their owner is using

scanVars    == <<blocked, dockerOk, obs, ended, trash>>
reclaimVars == <<reclaims, stopping>>
launchVars  == <<launches, launching>>
memoryVars  == <<quiet, stopIssued>>
daemonVars  == <<phase, scanVars, reclaimVars, launchVars, memoryVars>>
worldVars   == <<halts, held, busy>>
vars        == <<storeVars, dockerVars, daemonVars, worldVars>>

Phases  == {"idle", "reconcile", "act", "recover", "shutdown",  \* the daemon runs
            "exited", "crashed",     \* it has ended, cleanly or not
            "stopped", "down"}       \* ... and ExecStopPost has run
ObsKinds == {"gone", "fail", "active", "low", "quiet"}
Ends     == ExitCodes \cup {"absent"}
NoLaunch == <<>>
Launchings == [job : Jobs, gpu : Gpus, ok : BOOLEAN]

Up == phase \notin {"exited", "crashed", "stopped", "down"}

DaemonTypeOK ==
    /\ phase \in Phases
    /\ blocked \subseteq Gpus
    /\ dockerOk \in BOOLEAN
    /\ obs \in [Gpus -> ObsKinds]
    /\ ended \subseteq Jobs \X Ends
    /\ trash \subseteq Containers
    /\ reclaims \subseteq Jobs
    /\ stopping \in Containers \cup {NoContainer}
    /\ launches \subseteq Gpus \X Jobs
    /\ launching \in Launchings \cup {NoLaunch}
    /\ quiet \in [Gpus -> -1 .. IdleTicks]
    /\ stopIssued \subseteq Containers
    /\ halts \in 0 .. MaxHalts
    /\ held \subseteq Gpus
    /\ busy \subseteq Gpus

TypeOK == StoreTypeOK /\ DockerTypeOK /\ DaemonTypeOK

NoTrackers == [g \in Gpus |-> -1]
NotObserved == [g \in Gpus |-> "gone"]

Init ==
    /\ StoreInit
    /\ DockerInit
    /\ phase = "idle"
    /\ blocked = {} /\ dockerOk = TRUE /\ obs = NotObserved /\ ended = {} /\ trash = {}
    /\ reclaims = {} /\ stopping = NoContainer
    /\ launches = {} /\ launching = NoLaunch
    /\ quiet = NoTrackers /\ stopIssued = {}
    /\ halts = 0 /\ held = {} /\ busy = {}

-----------------------------------------------------------------------------
(* Observation and reconciliation *)

May(fault, what) == IF fault \in Faults THEN {what} ELSE {}

\* What a tick can see of GPU g.
Sightings(g, up) ==
    May("gone", "gone") \cup
    IF ~up THEN {"fail"}
    ELSE May("nvml-fail", "fail") \cup
         IF g \in busy THEN {"active"}
         ELSE {"quiet"} \cup May("misread", "active") \cup May("low-memory", "low")

\* Runs _reconcile will finish, as <<job, how the run ended>>: nothing when docker
\* cannot be asked.
EndedRunsUnknown(up) ==     \* mutant: an empty listing is taken at its word
    {<<j, IF up THEN docker[containerOf[j]] ELSE "absent">> :
        j \in {a \in Active : ~up \/ ~Running(containerOf[a])}}
EndedRuns(up) ==
    {<<j, docker[containerOf[j]]>> : j \in {a \in Active : up /\ ~Running(containerOf[a])}}

\* Spot containers of no active job, which _reconcile removes.
UnmanagedExited(up) ==      \* mutant: only the ones that have exited
    {c \in Containers : up /\ docker[c] \in ExitCodes} \ {containerOf[j] : j \in Active}
Unmanaged(up) == {c \in Containers : up /\ Listed(c)} \ {containerOf[j] : j \in Active}

\* Everything a tick reads before its first write: pause and kill switch, the two
\* docker listings, the GPUs, the active jobs.  What the CLI and the owners do
\* between these reads cannot be told from doing it before or after all of them.
Observe ==
    /\ phase = "idle"
    /\ phase' = "reconcile"
    /\ blocked' = held
    /\ \E up \in {TRUE} \cup May("docker-down", FALSE) :
          /\ dockerOk' = up
          /\ obs' \in {o \in [Gpus -> ObsKinds] : \A g \in Gpus : o[g] \in Sightings(g, up)}
          /\ ended' = EndedRuns(up)
          /\ trash' = Unmanaged(up)
    /\ UNCHANGED <<storeVars, dockerVars, reclaimVars, launchVars, memoryVars, worldVars>>

StopStillIssued(j) == stopIssued                       \* mutant: no discard
StopForgotten(j) == stopIssued \ {containerOf[j]}      \* stop_issued.discard

\* One ended run: finish(), stop_issued.discard() and, when the container is
\* there, its turn to be archived (archiving touches nothing but that container).
FinishRun(j, how) ==
    /\ phase = "reconcile"
    /\ <<j, how>> \in ended
    /\ Finish(j, how = "exit0", how = "absent")
    /\ ended' = ended \ {<<j, how>>}
    /\ stopIssued' = StopForgotten(j)
    /\ trash' = IF how = "absent" THEN trash ELSE trash \cup {containerOf[j]}
    /\ UNCHANGED <<phase, blocked, dockerOk, obs, quiet, dockerVars, reclaimVars,
                   launchVars, worldVars>>

\* Logs, then docker rm -f; a failure is logged and forgotten.
Archive(c) ==
    /\ phase = "reconcile"
    /\ c \in trash
    /\ trash' = trash \ {c}
    /\ Remove(c) \/ ("rm-fails" \in Faults /\ UNCHANGED dockerVars)
    /\ UNCHANGED <<storeVars, phase, blocked, dockerOk, obs, ended, reclaimVars,
                   launchVars, memoryVars, worldVars>>

-----------------------------------------------------------------------------
(* Verdicts and plan *)

OnGpu(g) == {j \in Active : gpuOf[j] = g}

Capped(n) == IF n > IdleTicks THEN IdleTicks ELSE n

\* GpuTracker.update: last_active is set to now by a failed or an active
\* observation and when the tracker is made.  A GPU that is not listed has no
\* update, and its last_active stays where it was while time passes.
TrackedAnew(g, polls) ==        \* mutant: trackers are not kept from tick to tick
    IF obs[g] = "gone" THEN -1 ELSE 0
Tracked(g, polls) ==
    CASE obs[g] \in {"fail", "active"} -> 0
      [] obs[g] = "gone" /\ quiet[g] = -1 -> -1
      [] obs[g] \in {"low", "quiet"} /\ quiet[g] = -1 -> 0
      [] obs[g] \in {"gone", "low", "quiet"} /\ quiet[g] # -1 -> Capped(quiet[g] + polls)

LendableOccupied(g, polls) ==   \* mutant: occupied GPUs are not left out
    obs[g] = "quiet" /\ Tracked(g, polls) >= IdleTicks /\ g \notin blocked
Lendable(g, polls) ==
    /\ obs[g] = "quiet"
    /\ Tracked(g, polls) >= IdleTicks
    /\ g \notin blocked
    /\ OnGpu(g) = {}

\* must_reclaim of the verdict, or no verdict for this GPU at all
MustReclaimUnlessBusy(g) == obs[g] \notin {"quiet", "active"} \/ g \in blocked   \* mutant
MustReclaimObserved(g) == obs[g] # "quiet"                                        \* mutant
MustReclaim(g) == obs[g] # "quiet" \/ g \in blocked

\* One job per lendable GPU and one GPU per job, until the GPUs or the jobs run
\* out, or fewer when a job may not fit.
LaunchPlans(lendable, jobs) ==
    LET matchings == {m \in SUBSET (lendable \X jobs) :
                        \A p, q \in m : p # q => p[1] # q[1] /\ p[2] # q[2]}
    IN  {m \in matchings : \/ "no-room" \in Faults
                           \/ {p[1] : p \in m} = lendable
                           \/ {p[2] : p \in m} = jobs}

\* Stops wanted but not issued yet: cancelled by a user, or left PREEMPTING by a
\* daemon that is gone.
NoWantedStops == {}         \* mutant: the loop is missing
WantedStops == {containerOf[j] : j \in {a \in Active : Reclaiming(a)}} \ stopIssued

\* Verdicts, wanted stops and plan.  A cancel between the two reads of the
\* database is the same as a cancel after this step (of an active job) or before
\* it (of a queued one).
Plan ==
    /\ phase = "reconcile"
    /\ ended = {} /\ trash = {}
    /\ phase' = "act"
    /\ \E polls \in Elapsed :
          /\ quiet' = [g \in Gpus |-> Tracked(g, polls)]
          /\ launches' \in LaunchPlans({g \in Gpus : Lendable(g, polls)},
                                       IF dockerOk THEN Queued ELSE {})
    /\ StopAsync(WantedStops)
    /\ stopIssued' = stopIssued \cup WantedStops
    /\ reclaims' = {j \in Active : ~Reclaiming(j) /\ MustReclaim(gpuOf[j])}
    /\ obs' = NotObserved /\ blocked' = {} /\ dockerOk' = TRUE   \* not used again
    /\ UNCHANGED <<storeVars, ended, trash, stopping, launching, worldVars>>

-----------------------------------------------------------------------------
(* _reclaim, for a tick and for reclaim_all: the database first, then docker *)

ReclaimUnmarked(j) ==       \* mutant: docker stop without mark_preempting
    /\ phase \in {"act", "recover", "shutdown"}
    /\ j \in reclaims /\ stopping = NoContainer
    /\ reclaims' = reclaims \ {j}
    /\ stopping' = containerOf[j]
    /\ UNCHANGED <<storeVars, phase, scanVars, launchVars, memoryVars, dockerVars, worldVars>>

ReclaimMark(j) ==
    /\ phase \in {"act", "recover", "shutdown"}
    /\ j \in reclaims /\ stopping = NoContainer
    /\ MarkPreempting(j)
    /\ reclaims' = reclaims \ {j}
    /\ stopping' = containerOf[j]
    /\ UNCHANGED <<phase, scanVars, launchVars, memoryVars, dockerVars, worldVars>>

\* _stop: remembered as issued before docker is asked.
ReclaimStop ==
    /\ stopping # NoContainer
    /\ stopIssued' = stopIssued \cup {stopping}
    /\ StopAsync({stopping})
    /\ stopping' = NoContainer
    /\ UNCHANGED <<storeVars, phase, scanVars, reclaims, launchVars, quiet, worldVars>>

Reclaimed == reclaims = {} /\ stopping = NoContainer

-----------------------------------------------------------------------------
(* _launch *)

ReadyToLaunch(g, j) ==
    phase = "act" /\ Reclaimed /\ launching = NoLaunch /\ <<g, j>> \in launches

\* A job that is not QUEUED any more is left alone.
LaunchSkip(g, j) ==
    /\ ReadyToLaunch(g, j)
    /\ state[j] # "QUEUED"
    /\ launches' = launches \ {<<g, j>>}
    /\ UNCHANGED <<storeVars, phase, scanVars, reclaimVars, launching, memoryVars, dockerVars,
                   worldVars>>

\* Up to the return of docker run.  The container's name is taken when an
\* unrecorded run of the same attempt left it behind.
LaunchRun(g, j) ==
    LET c == NextRun(j)
        Returns(ok) == launching' = [job |-> j, gpu |-> g, ok |-> ok]
        Refused     == docker[c] # "absent" \/ "run-fails" \in Faults
    IN
    /\ ReadyToLaunch(g, j)
    /\ state[j] = "QUEUED"
    /\ launches' = launches \ {<<g, j>>}
    /\ \/ Returns(TRUE) /\ Create(c, g, "running")
       \/ Returns(FALSE) /\ Refused /\ UNCHANGED dockerVars
       \/ Returns(FALSE) /\ "run-fails" \in Faults /\ Create(c, g, "exit1")
       \/ Returns(FALSE) /\ "run-late" \in Faults /\ Create(c, g, "pending")
    /\ UNCHANGED <<storeVars, phase, scanVars, reclaimVars, memoryVars, worldVars>>

LaunchRecord ==
    /\ launching # NoLaunch /\ launching.ok
    /\ MarkRunning(launching.job, launching.gpu, NextRun(launching.job))
    /\ launching' = NoLaunch
    /\ UNCHANGED <<phase, scanVars, reclaimVars, launches, memoryVars, dockerVars, worldVars>>

LaunchFailed ==
    /\ launching # NoLaunch /\ ~launching.ok
    /\ Fail(launching.job)
    /\ launching' = NoLaunch
    /\ UNCHANGED <<phase, scanVars, reclaimVars, launches, memoryVars, dockerVars, worldVars>>

EndTick ==
    /\ phase = "act" /\ Reclaimed
    /\ launches = {} /\ launching = NoLaunch
    /\ phase' = "idle"
    /\ UNCHANGED <<storeVars, scanVars, reclaimVars, launchVars, memoryVars, dockerVars, worldVars>>

-----------------------------------------------------------------------------
(* Exceptions, shutdown, crash, restart *)

\* The local variables of a tick that is abandoned.
DropTick ==
    /\ blocked' = {} /\ dockerOk' = TRUE /\ obs' = NotObserved
    /\ ended' = {} /\ trash' = {}
    /\ stopping' = NoContainer
    /\ launches' = {} /\ launching' = NoLaunch

\* The jobs reclaim_all goes through: those being reclaimed are stopped again.
HoldingRunning == {j \in Active : containerOf[j] # NoContainer /\ ~Reclaiming(j)}   \* mutant
Holding == {j \in Active : containerOf[j] # NoContainer}

ReclaimAll(in) ==
    /\ phase' = in
    /\ reclaims' = Holding
    /\ DropTick
    /\ UNCHANGED <<storeVars, memoryVars, dockerVars, held, busy>>

\* The job was cancelled while docker run was at work: mark_running raises
\* ValueError, which _launch does not catch.
LaunchRefused ==
    /\ launching # NoLaunch /\ launching.ok
    /\ state[launching.job] # "QUEUED"
    /\ ReclaimAll("recover")
    /\ UNCHANGED halts

TickError ==
    /\ "tick-error" \in Faults
    /\ phase \in {"idle", "reconcile", "act"}
    /\ ReclaimAll("recover")
    /\ UNCHANGED halts

EndRecover ==
    /\ phase = "recover"
    /\ Reclaimed \/ "db-error" \in Faults
    /\ phase' = "idle"
    /\ reclaims' = {}
    /\ DropTick
    /\ UNCHANGED <<storeVars, memoryVars, dockerVars, worldVars>>

Terminate ==
    /\ "shutdown" \in Faults
    /\ phase = "idle"
    /\ halts < MaxHalts
    /\ halts' = halts + 1
    /\ ReclaimAll("shutdown")

\* Everything in memory is lost, and systemd kills the docker clients nobody has
\* waited for, before or after docker has taken their request.
Halt(to) ==
    /\ phase' = to
    /\ DropTick
    /\ quiet' = NoTrackers /\ stopIssued' = {} /\ reclaims' = {}
    /\ stops' \in SUBSET stops
    /\ UNCHANGED <<storeVars, docker, label, killed, held, busy>>

\* wait_stops, and the process ends.
Exit ==
    /\ phase = "shutdown" /\ Reclaimed
    /\ stops = {} \/ "drain-timeout" \in Faults
    /\ Halt("exited")
    /\ UNCHANGED halts

Crash ==
    /\ Up
    /\ halts < MaxHalts
    /\ halts' = halts + 1
    /\ Halt("crashed")

StopPost ==
    /\ "stop-post" \in Faults
    /\ phase \in {"exited", "crashed"}
    /\ phase' = IF phase = "exited" THEN "stopped" ELSE "down"
    /\ StopEverything
    /\ UNCHANGED <<storeVars, scanVars, reclaimVars, launchVars, memoryVars, worldVars>>

Restart ==
    /\ phase \in IF "stop-post" \in Faults THEN {"stopped", "down"} ELSE {"exited", "crashed"}
    /\ phase' = "idle"
    /\ UNCHANGED <<storeVars, scanVars, reclaimVars, launchVars, memoryVars, dockerVars, worldVars>>

-----------------------------------------------------------------------------
(* Users, owners and docker on their own *)

UserSubmit(j) == Submit(j) /\ UNCHANGED <<daemonVars, dockerVars, worldVars>>

UserCancel(j) ==
    "cancel" \in Faults /\ Cancel(j) /\ UNCHANGED <<daemonVars, dockerVars, worldVars>>

\* pause and resume of a GPU or of the node, creation and removal of the kill switch
SetHeld ==
    /\ "pause" \in Faults
    /\ held' \in SUBSET Gpus
    /\ UNCHANGED <<storeVars, daemonVars, dockerVars, halts, busy>>

OwnerToggles(g) ==
    /\ busy' = IF g \in busy THEN busy \ {g} ELSE busy \cup {g}
    /\ UNCHANGED <<storeVars, daemonVars, dockerVars, halts, held>>

StopEnds(c) == StopTakesEffect(c) /\ UNCHANGED <<storeVars, daemonVars, worldVars>>

DockerActs ==
    /\ \E c \in Containers :
          \/ ContainerExits(c)
          \/ StartsLate(c)
          \/ "stop-fails" \in Faults /\ StopFails(c)
          \/ "vanish" \in Faults /\ Listed(c) /\ Remove(c)
    /\ UNCHANGED <<storeVars, daemonVars, worldVars>>

-----------------------------------------------------------------------------

Reconcile == (\E j \in Jobs, how \in Ends : FinishRun(j, how))
                \/ (\E c \in Containers : Archive(c))
Reclaim   == (\E j \in Jobs : ReclaimMark(j)) \/ ReclaimStop
Launch    == (\E g \in Gpus, j \in Jobs : LaunchSkip(g, j) \/ LaunchRun(g, j))
                \/ LaunchRecord \/ LaunchFailed \/ LaunchRefused

\* What the daemon's thread does next when nothing goes wrong.
DaemonStep == Observe \/ Reconcile \/ Plan \/ Reclaim \/ Launch \/ EndTick
                \/ EndRecover \/ Exit

World == \/ \E j \in Jobs : UserSubmit(j) \/ UserCancel(j)
         \/ SetHeld
         \/ \E g \in Gpus : OwnerToggles(g)
         \/ \E c \in Containers : StopEnds(c)
         \/ DockerActs

Next == DaemonStep \/ TickError \/ Terminate \/ Crash \/ StopPost \/ Restart \/ World

Spec == Init /\ [][Next]_vars

\* The daemon's loop does not pause for ever, `docker stop` ends (grace period,
\* then SIGKILL), and systemd runs ExecStopPost and, Restart=on-failure, starts a
\* unit again that has crashed.  One that was terminated may stay down for ever.
RestartOnFailure == phase \in {"crashed", "down"} /\ Restart

Fairness ==
    /\ WF_vars(DaemonStep)
    /\ WF_vars(StopPost)
    /\ WF_vars(RestartOnFailure)
    /\ \A c \in Containers : WF_vars(StopEnds(c))

FairSpec == Spec /\ Fairness

=============================================================================
