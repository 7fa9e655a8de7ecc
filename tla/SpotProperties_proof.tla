------------------------ MODULE SpotProperties_proof ------------------------
(***************************************************************************)
(* The safety properties of SpotProperties as theorems of SpotController,  *)
(* for any numbers of jobs, GPUs and attempts.  They follow from the       *)
(* inductive invariant IInv, those that need docker or systemd to play     *)
(* along from IInv together with StopInv or ShutdownInv.                   *)
(***************************************************************************)
EXTENDS SpotInvariant_proof, FiniteSetTheorems

USE SpotAssumption, ControllerAssumption DEF SpotAssumption, ControllerAssumption
USE DEF storeVars, dockerVars, scanVars, reclaimVars, launchVars, memoryVars, daemonVars,
        worldVars

-----------------------------------------------------------------------------
(* Whatever the faults *)

\* Every variable of the database, of docker and of the daemon stays in its type.
THEOREM TypeCorrect == Spec => []TypeOK
  BY InductiveInvariant, PTL DEF IInv

\* The database never says that two jobs hold one GPU.
THEOREM NoSharedLease == Spec => []OneLeasePerGpu
  BY InductiveInvariant, PTL DEF IInv

\* The runs table has a row for each counted attempt, open while it is in progress.
THEOREM HistoryMatches == Spec => []RunsMatchJobs
  BY InductiveInvariant, PTL DEF IInv

\* What the daemon remembers as stopped is still on record as an active job.
THEOREM RememberedStopsAreLive == Spec => []StopIssuedIsLive
  BY InductiveInvariant, PTL DEF IInv

\* A job has no second running container, through crashes, refused launches and
\* containers that start late.
THEOREM NoDoubleRun == Spec => []JobRunsOnce
  <1>1. IInv => JobRunsOnce
    <2> SUFFICES ASSUME IInv, NEW c \in Containers, NEW d \in Containers,
                        Running(c), Running(d), c[1] = d[1]
                 PROVE  c = d
      BY DEF JobRunsOnce
    <2>1. CASE c[1] \in Active
      BY <2>1 DEF IInv, LiveInv
    <2>2. CASE c[1] \notin Active
      BY <2>2 DEF IInv, LiveInv, Containers
    <2> QED
      BY <2>1, <2>2
  <1> QED
    BY <1>1, InductiveInvariant, PTL

-----------------------------------------------------------------------------
(* Without ExecStopPost: who is stopped *)

\* StopInv as long as no stop is new and no job is newly RUNNING.
LEMMA StopFrame ==
    ASSUME StopInv, UNCHANGED <<attempts, containerOf, runs>>,
           \A j \in Jobs : state'[j] = "RUNNING" => state[j] = "RUNNING",
           stops' \cup killed' \cup stopIssued' \subseteq stops \cup killed \cup stopIssued
    PROVE  StopInv'
  BY DEF StopInv, StopsAreRecorded

\* StopInv when a container of an active job that is not RUNNING is stopped.
LEMMA StopMore ==
    ASSUME IInv, StopInv, UNCHANGED storeVars, UNCHANGED killed,
           NEW cs \in SUBSET {containerOf[j] : j \in {a \in Active : state[a] # "RUNNING"}},
           stops' = stops \cup cs, stopIssued' = stopIssued \cup cs
    PROVE  StopInv'
  <1>1. \A c \in cs : \E j \in Active : /\ state[j] # "RUNNING" /\ c = <<j, attempts[j]>>
                                        /\ c = containerOf[j] /\ c \in Containers
    BY ActiveFacts DEF IInv, TypeOK
  <1>2. ASSUME NEW c \in cs PROVE c[2] <= attempts[c[1]] /\ runs[c] # "failed"
    <2>1. PICK j \in Active : c = <<j, attempts[j]>> /\ c = containerOf[j] /\ c \in Containers
      BY <1>1
    <2>2. c[1] = j /\ c[2] = attempts[j] /\ attempts[j] \in Nat
      BY <2>1 DEF Containers
    <2>3. runs[c] = "open"
      BY <2>1, <2>2 DEF IInv, RunsMatchJobs
    <2> QED
      BY <2>2, <2>3
  <1>3. \A j \in Jobs : state[j] = "RUNNING" => containerOf[j] \notin cs
    BY <1>1, ActiveFacts DEF IInv, TypeOK, Active
  <1> QED
    BY <1>2, <1>3 DEF StopInv, StopsAreRecorded

\* finish() of a run that was stopped does not book a failure: its job is not RUNNING.
LEMMA FinishRunStop ==
    ASSUME IInv, StopInv, NEW j \in Jobs, NEW how \in Ends, FinishRun(j, how)
    PROVE  StopInv'
  <1> DEFINE c == containerOf[j]
             outcome == FinishOutcome(j, how = "exit0", how = "absent")
             new == FinishState(j, how = "exit0", how = "absent")
  <1>j. /\ j \in Active /\ c \in Containers /\ c = <<j, attempts[j]>>
        /\ state[j] \in {"RUNNING", "PREEMPTING", "CANCELLED"}
    BY ActiveFacts DEF IInv, FinishRun, TodoInv, TypeOK, Active
  <1>w. /\ state' = [state EXCEPT ![j] = new]
        /\ containerOf' = [containerOf EXCEPT ![j] =
                              IF new = "QUEUED" THEN NoContainer ELSE @]
        /\ runs' = [runs EXCEPT ![c] = IF @ = "open" THEN outcome ELSE @]
        /\ UNCHANGED attempts
    BY <1>j DEF FinishRun, Finish
  <1>n. new # "RUNNING" /\ (state[j] # "RUNNING" => outcome # "failed")
    BY <1>j DEF FinishState, FinishOutcome, Preempted
  <1>o. c \in stops \cup killed \cup stopIssued => state[j] # "RUNNING"
    BY <1>j DEF StopInv, StopsAreRecorded
  <1> HIDE DEF outcome, new, c
  <1>u. /\ UNCHANGED <<stops, killed>> /\ stopIssued' \subseteq stopIssued
        /\ stops \cup killed \cup stopIssued \subseteq Containers
    BY DEF FinishRun, StopForgotten, IInv, TypeOK, DockerTypeOK, DaemonTypeOK
  <1>1. \A d \in stops \cup killed \cup stopIssued :
           d[2] <= attempts'[d[1]] /\ runs'[d] # "failed"
    BY <1>j, <1>w, <1>n, <1>o, <1>u DEF StopInv, IInv, TypeOK, StoreTypeOK
  <1>2. \A k \in Jobs : state'[k] = "RUNNING" => state[k] = "RUNNING" /\ containerOf'[k] = containerOf[k]
    BY <1>w, <1>n DEF IInv, TypeOK, StoreTypeOK
  <1> QED
    BY <1>u, <1>1, <1>2 DEF StopInv, StopsAreRecorded

\* The run mark_running records was never stopped: no run of that attempt was recorded.
LEMMA LaunchRecordStop == ASSUME IInv, StopInv, LaunchRecord PROVE StopInv'
  <1> DEFINE j == launching.job
             c == NextRun(j)
  <1>1. j \in Jobs /\ state[j] = "QUEUED"
    BY DEF LaunchRecord, MarkRunning, IInv, TypeOK, DaemonTypeOK, Launchings
  <1>2. /\ state' = [state EXCEPT ![j] = "RUNNING"]
        /\ attempts' = [attempts EXCEPT ![j] = @ + 1]
        /\ containerOf' = [containerOf EXCEPT ![j] = c]
        /\ runs' = [runs EXCEPT ![c] = "open"]
        /\ UNCHANGED <<stops, killed, stopIssued>>
    BY DEF LaunchRecord, MarkRunning
  <1>3. /\ c \notin stops \cup killed \cup stopIssued
        /\ stops \cup killed \cup stopIssued \subseteq Containers
    BY <1>1 DEF StopInv, NextRun, IInv, TypeOK, StoreTypeOK, DockerTypeOK, DaemonTypeOK
  <1>4. \A d \in stops \cup killed \cup stopIssued :
           d[2] <= attempts'[d[1]] /\ runs'[d] # "failed"
    BY <1>1, <1>2, <1>3 DEF StopInv, IInv, TypeOK, StoreTypeOK, Containers
  <1>5. \A k \in Jobs : state'[k] = "RUNNING" =>
           \/ state[k] = "RUNNING" /\ containerOf'[k] = containerOf[k]
           \/ containerOf'[k] = c
    BY <1>1, <1>2 DEF IInv, TypeOK, StoreTypeOK
  <1> QED
    BY <1>2, <1>3, <1>4, <1>5 DEF StopInv, StopsAreRecorded

\* Without ExecStopPost every step keeps StopInv.
LEMMA NextStop ==
    ASSUME "stop-post" \notin Faults, IInv, StopInv, [Next]_vars
    PROVE  StopInv'
  <1> USE DEF IInv, TypeOK
  <1>1. CASE Observe
    BY <1>1, StopFrame DEF Observe
  <1>2. CASE Reconcile
    <2>1. ASSUME NEW c \in Containers, Archive(c) PROVE StopInv'
      BY <2>1, StopFrame DEF Archive, Remove
    <2> QED
      BY <1>2, <2>1, FinishRunStop DEF Reconcile
  <1>3. CASE Plan
    <2>1. WantedStops \in SUBSET {containerOf[j] : j \in {a \in Active : state[a] # "RUNNING"}}
      BY DEF WantedStops, Reclaiming
    <2> QED
      BY <1>3, <2>1, StopMore DEF Plan, StopAsync
  <1>4. CASE Reclaim
    <2>1. ASSUME NEW j \in Jobs, ReclaimMark(j) PROVE StopInv'
      BY <2>1, StopFrame DEF ReclaimMark, MarkPreempting, StoreTypeOK
    <2>2. CASE ReclaimStop
      <3>1. {stopping} \in SUBSET {containerOf[j] : j \in {a \in Active : state[a] # "RUNNING"}}
        BY <2>2 DEF ReclaimStop, TodoInv
      <3> QED
        BY <2>2, <3>1, StopMore DEF ReclaimStop, StopAsync
    <2> QED
      BY <1>4, <2>1, <2>2 DEF Reclaim
  <1>5. CASE Launch
    <2>1. ASSUME NEW g \in Gpus, NEW j \in Jobs, LaunchSkip(g, j) PROVE StopInv'
      BY <2>1, StopFrame DEF LaunchSkip
    <2>2. ASSUME NEW g \in Gpus, NEW j \in Jobs, LaunchRun(g, j) PROVE StopInv'
      BY <2>2, StopFrame DEF LaunchRun, Create
    <2>3. CASE LaunchFailed
      BY <2>3, StopFrame DEF LaunchFailed, Fail, StoreTypeOK
    <2>4. CASE LaunchRefused
      BY <2>4, StopFrame DEF LaunchRefused, ReclaimAll
    <2> QED
      BY <1>5, <2>1, <2>2, <2>3, <2>4, LaunchRecordStop DEF Launch
  <1>6. CASE EndTick \/ EndRecover \/ TickError \/ Terminate \/ Restart
    BY <1>6, StopFrame DEF EndTick, EndRecover, TickError, Terminate, Restart, ReclaimAll
  <1>7. CASE Exit \/ Crash
    BY <1>7, StopFrame DEF Exit, Crash, Halt
  <1>8. CASE World
    <2>1. ASSUME NEW j \in Jobs, UserSubmit(j) \/ UserCancel(j) PROVE StopInv'
      BY <2>1, StopFrame DEF UserSubmit, UserCancel, Submit, Cancel, StoreTypeOK
    <2>2. ASSUME NEW c \in Containers, StopEnds(c) PROVE StopInv'
      BY <2>2, StopFrame DEF StopEnds, StopTakesEffect
    <2>3. CASE DockerActs
      BY <2>3, StopFrame DEF DockerActs, ContainerExits, StartsLate, StopFails, Remove
    <2>4. CASE SetHeld \/ \E g \in Gpus : OwnerToggles(g)
      BY <2>4, StopFrame DEF SetHeld, OwnerToggles
    <2> QED
      BY <1>8, <2>1, <2>2, <2>3, <2>4 DEF World
  <1>9. CASE UNCHANGED vars
    BY <1>9, StopFrame DEF vars
  <1> QED
    BY <1>1, <1>2, <1>3, <1>4, <1>5, <1>6, <1>7, <1>8, <1>9 DEF Next, DaemonStep, StopPost

\* So StopInv always holds when ExecStopPost is not installed.
LEMMA StopInvariant == ASSUME "stop-post" \notin Faults PROVE Spec => []StopInv
  <1>1. Init => StopInv
    BY DEF Init, StoreInit, DockerInit, StopInv, StopsAreRecorded
  <1>2. IInv /\ StopInv /\ [Next]_vars => StopInv'
    BY NextStop
  <1> QED
    BY <1>1, <1>2, InductiveInvariant, PTL DEF Spec

\* mark_preempting always comes before docker stop: a container that was stopped, or
\* is being stopped, is not the one of a job on record as RUNNING.
THEOREM StopsRecordedFirst ==
    ASSUME "stop-post" \notin Faults PROVE Spec => []StopsAreRecorded
  BY StopInvariant, PTL DEF StopInv

\* So no run that was stopped is booked as a failure of its job.
THEOREM NeverFailedByReclaim ==
    ASSUME "stop-post" \notin Faults PROVE Spec => []ReclaimedNeverFails
  <1>1. StopInv => ReclaimedNeverFails
    BY DEF StopInv, ReclaimedNeverFails
  <1> QED
    BY <1>1, StopInvariant, PTL

-----------------------------------------------------------------------------
(* While every docker stop works and is waited for: what a clean exit leaves *)

\* No active container starts, and a stop ends only when its container has.
LEMMA ShutdownFrame ==
    ASSUME IInv, ShutdownInv, Active' = Active, UNCHANGED <<containerOf, phase, reclaims, stopping>>,
           \A j \in Active : LET c == containerOf[j] IN
              /\ docker'[c] = "running" => docker[c] = "running"
              /\ c \in stops /\ docker'[c] = "running" => c \in stops'
    PROVE  ShutdownInv'
  <1>1. \A j \in Active : containerOf'[j] = containerOf[j]
    OBVIOUS
  <1> QED
    BY <1>1 DEF ShutdownInv, CleanExitReclaims, Running

\* While docker stop works in time, every step keeps ShutdownInv.
LEMMA NextShutdown ==
    ASSUME Faults \cap {"stop-fails", "drain-timeout"} = {}, IInv, ShutdownInv, [Next]_vars
    PROVE  ShutdownInv'
  <1> USE DEF IInv, TypeOK
  <1>p. ASSUME phase' \notin {"shutdown", "exited"} PROVE ShutdownInv'
    BY <1>p DEF ShutdownInv, CleanExitReclaims
  <1>c. \A j \in Active : containerOf[j] \in Containers /\ docker[containerOf[j]] # "pending"
    BY ActiveFacts DEF LiveInv
  <1>1. CASE Observe \/ Reconcile \/ Plan \/ EndTick
    BY <1>1, <1>p DEF Observe, Reconcile, FinishRun, Archive, Plan, EndTick
  <1>2. CASE Launch
    <2>1. phase = "act" /\ phase' \in {"act", "recover"}
      BY <1>2 DEF Launch, LaunchSkip, LaunchRun, ReadyToLaunch, LaunchRecord, LaunchFailed,
                  LaunchRefused, ReclaimAll, PhaseInv
    <2> QED
      BY <2>1, <1>p
  <1>3. CASE EndRecover \/ TickError \/ Crash \/ StopPost \/ Restart
    BY <1>3, <1>p DEF EndRecover, TickError, ReclaimAll, Crash, Halt, StopPost, Restart
  <1>4. CASE Terminate
    <2>1. /\ phase' = "shutdown" /\ reclaims' = Holding /\ Active' = Active
      BY <1>4, StoreFrame DEF Terminate, ReclaimAll
    <2>2. Holding = Active
      BY ActiveFacts DEF Holding
    <2> QED
      BY <2>1, <2>2 DEF ShutdownInv, CleanExitReclaims
  <1>5. CASE Exit
    <2>1. \A j \in Active : docker[containerOf[j]] # "running"
      BY <1>5, <1>c DEF Exit, Reclaimed, ShutdownInv, Running
    <2>2. Active' = Active /\ UNCHANGED <<containerOf, docker>> /\ phase' = "exited"
      BY <1>5, StoreFrame DEF Exit, Halt
    <2> QED
      BY <2>1, <2>2 DEF ShutdownInv, CleanExitReclaims, Running
  <1>6. CASE Reclaim
    <2>1. ASSUME NEW j \in Jobs, ReclaimMark(j) PROVE ShutdownInv'
      <3>1. Active' = Active
        BY <2>1 DEF ReclaimMark, MarkPreempting, Active, StoreTypeOK
      <3>2. /\ reclaims' = reclaims \ {j} /\ stopping = NoContainer
            /\ stopping' = containerOf[j] /\ phase # "exited"
            /\ UNCHANGED <<containerOf, docker, stops, phase>>
        BY <2>1 DEF ReclaimMark, MarkPreempting
      <3> QED
        BY <1>c, <3>1, <3>2 DEF ShutdownInv, CleanExitReclaims, Running
    <2>2. CASE ReclaimStop
      <3>1. Active' = Active
        BY <2>2, StoreFrame DEF ReclaimStop
      <3>2. /\ stops' = stops \cup {stopping} /\ stopping' = NoContainer
            /\ UNCHANGED <<containerOf, docker, reclaims, phase>>
        BY <2>2 DEF ReclaimStop, StopAsync
      <3> QED
        BY <3>1, <3>2 DEF ShutdownInv, CleanExitReclaims, Running
    <2> QED
      BY <1>6, <2>1, <2>2 DEF Reclaim
  <1>7. CASE World
    <2>1. ASSUME NEW j \in Jobs, UserSubmit(j) \/ UserCancel(j) PROVE ShutdownInv'
      <3>1. Active' = Active
        BY <2>1 DEF UserSubmit, UserCancel, Submit, Cancel, Active, StoreTypeOK, RowInv
      <3> QED
        BY <2>1, <3>1, ShutdownFrame DEF UserSubmit, UserCancel, Submit, Cancel
    <2>2. ASSUME NEW c \in Containers, StopEnds(c) PROVE ShutdownInv'
      <3>1. Active' = Active
        BY <2>2, StoreFrame DEF StopEnds
      <3>2. /\ stops' = stops \ {c}
            /\ \A d \in Containers : docker'[d] = "running" => docker[d] = "running" /\ d # c
        BY <2>2 DEF StopEnds, StopTakesEffect, Running, DockerTypeOK, ExitCodes
      <3> QED
        BY <2>2, <1>c, <3>1, <3>2, ShutdownFrame DEF StopEnds
    <2>3. CASE DockerActs
      <3>1. Active' = Active
        BY <2>3, StoreFrame DEF DockerActs
      <3>2. /\ stops' = stops
            /\ \A d \in Containers : docker'[d] = "running" => docker[d] \in {"running", "pending"}
        BY <2>3 DEF DockerActs, ContainerExits, StartsLate, Remove, DockerTypeOK, ExitCodes
      <3> QED
        BY <2>3, <1>c, <3>1, <3>2, ShutdownFrame DEF DockerActs
    <2>4. CASE SetHeld \/ \E g \in Gpus : OwnerToggles(g)
      BY <2>4, StoreFrame, ShutdownFrame DEF SetHeld, OwnerToggles
    <2> QED
      BY <1>7, <2>1, <2>2, <2>3, <2>4 DEF World
  <1>8. CASE UNCHANGED vars
    BY <1>8, StoreFrame, ShutdownFrame DEF vars
  <1> QED
    BY <1>1, <1>2, <1>3, <1>4, <1>5, <1>6, <1>7, <1>8 DEF Next, DaemonStep

\* After SIGTERM, reclaim_all and wait_stops no container of an active job runs, as
\* long as docker stop works within the time wait_stops allows.
THEOREM CleanExit ==
    ASSUME Faults \cap {"stop-fails", "drain-timeout"} = {}
    PROVE  Spec => []CleanExitReclaims
  <1>1. Init => ShutdownInv
    BY DEF Init, ShutdownInv, CleanExitReclaims
  <1>2. IInv /\ ShutdownInv /\ [Next]_vars => ShutdownInv'
    BY NextShutdown
  <1>3. ShutdownInv => CleanExitReclaims
    BY DEF ShutdownInv
  <1> QED
    BY <1>1, <1>2, <1>3, InductiveInvariant, PTL DEF Spec

-----------------------------------------------------------------------------
(* Whatever the faults: what is counted *)

\* What finish() writes, and which job it takes out of the active ones.
LEMMA FinishFacts ==
    ASSUME IInv, NEW j \in Jobs, NEW how \in Ends, FinishRun(j, how)
    PROVE  LET c == containerOf[j]
               new == FinishState(j, how = "exit0", how = "absent")
               outcome == FinishOutcome(j, how = "exit0", how = "absent")
           IN  /\ j \in Active /\ c \in Containers /\ c # NoContainer /\ c[1] = j
               /\ state[j] \in {"RUNNING", "PREEMPTING", "CANCELLED"}
               /\ runs[c] = "open" /\ docker[c] # "running" /\ ~closed[j]
               /\ new \in {"QUEUED", "CANCELLED", "SUCCEEDED", "FAILED"}
               /\ outcome = "cancelled" <=> state[j] = "CANCELLED"
               /\ outcome = "cancelled" => new = "CANCELLED"
               /\ outcome # "cancelled" => (outcome = "preempted" <=> Preempted(j, how = "absent"))
               /\ state' = [state EXCEPT ![j] = new]
               /\ closed' = [closed EXCEPT ![j] = new # "QUEUED"]
               /\ preemptions' = [preemptions EXCEPT ![j] = @ + Counted(j, how = "absent")]
               /\ gpuOf' = [gpuOf EXCEPT ![j] = IF new = "QUEUED" THEN NoGpu ELSE @]
               /\ containerOf' = [containerOf EXCEPT ![j] = IF new = "QUEUED" THEN NoContainer ELSE @]
               /\ runs' = [runs EXCEPT ![c] = outcome]
               /\ Active' = Active \ {j} /\ UNCHANGED attempts
  <1> USE DEF IInv, TypeOK
  <1> DEFINE clean == how = "exit0"
             vanished == how = "absent"
             c == containerOf[j]
             new == FinishState(j, clean, vanished)
             outcome == FinishOutcome(j, clean, vanished)
  <1>1. /\ j \in Active /\ c \in Containers /\ c = <<j, attempts[j]>> /\ c # NoContainer
        /\ state[j] \in {"RUNNING", "PREEMPTING", "CANCELLED"} /\ ~closed[j]
        /\ docker[c] # "running"
    BY ActiveFacts DEF FinishRun, TodoInv, Active, Running
  <1>2. /\ outcome = "cancelled" <=> state[j] = "CANCELLED"
        /\ outcome = "cancelled" => new = "CANCELLED"
        /\ outcome # "cancelled" => (outcome = "preempted" <=> Preempted(j, vanished))
        /\ new \in {"QUEUED", "CANCELLED", "SUCCEEDED", "FAILED"}
    BY <1>1 DEF FinishState, FinishOutcome
  <1>3. c[1] = j /\ runs[c] = "open"
    BY <1>1 DEF RunsMatchJobs
  <1>4. /\ state' = [state EXCEPT ![j] = new]
        /\ closed' = [closed EXCEPT ![j] = new # "QUEUED"]
        /\ preemptions' = [preemptions EXCEPT ![j] = @ + Counted(j, vanished)]
        /\ gpuOf' = [gpuOf EXCEPT ![j] = IF new = "QUEUED" THEN NoGpu ELSE @]
        /\ containerOf' = [containerOf EXCEPT ![j] = IF new = "QUEUED" THEN NoContainer ELSE @]
        /\ runs' = [runs EXCEPT ![c] = IF @ = "open" THEN outcome ELSE @]
        /\ UNCHANGED attempts
    BY <1>1 DEF FinishRun, Finish
  <1> HIDE DEF new, outcome, c, clean, vanished
  <1>5. runs' = [runs EXCEPT ![c] = outcome]
    BY <1>3, <1>4
  <1>6. Active' = Active \ {j}
    BY <1>1, <1>2, <1>4 DEF Active, StoreTypeOK
  <1> QED
    BY <1>1, <1>2, <1>3, <1>4, <1>5, <1>6 DEF new, outcome, c, clean, vanished

PreemptedRuns(j) == {c \in Containers : c[1] = j /\ runs[c] = "preempted"}

LEMMA HistoryIsFinite == ASSUME NEW j \in Jobs PROVE IsFiniteSet(PreemptedRuns(j))
  <1>1. IsFiniteSet(1 .. MaxAttempts)
    BY FS_Interval
  <1>2. IsFiniteSet({j} \X (1 .. MaxAttempts))
    BY <1>1, FS_Singleton, FS_Product
  <1>3. PreemptedRuns(j) \subseteq {j} \X (1 .. MaxAttempts)
    BY DEF PreemptedRuns, Containers
  <1> QED
    BY <1>2, <1>3, FS_Subset

\* A step that leaves history and counters alone, and revives no cancelled job
\* that was started.
LEMMA CountFrame ==
    ASSUME CountInv, UNCHANGED <<preemptions, runs>>,
           \A j \in Jobs : state'[j] # "CANCELLED" \/ containerOf'[j] = NoContainer =>
                              state[j] # "CANCELLED" \/ containerOf[j] = NoContainer
    PROVE  CountInv'
  BY DEF CountInv

\* finish() adds to the counter what it adds to the history.
LEMMA FinishRunCount ==
    ASSUME IInv, CountInv, NEW j \in Jobs, NEW how \in Ends, FinishRun(j, how)
    PROVE  CountInv'
  <1> DEFINE c == containerOf[j]
             new == FinishState(j, how = "exit0", how = "absent")
             outcome == FinishOutcome(j, how = "exit0", how = "absent")
             more == Counted(j, how = "absent")
  <1>1. /\ c \in Containers /\ c # NoContainer /\ c[1] = j /\ runs[c] = "open"
        /\ outcome = "cancelled" <=> state[j] = "CANCELLED"
        /\ outcome = "cancelled" => new = "CANCELLED"
        /\ outcome # "cancelled" => (outcome = "preempted" <=> Preempted(j, how = "absent"))
        /\ state' = [state EXCEPT ![j] = new]
        /\ preemptions' = [preemptions EXCEPT ![j] = @ + more]
        /\ containerOf' = [containerOf EXCEPT ![j] = IF new = "QUEUED" THEN NoContainer ELSE @]
        /\ runs' = [runs EXCEPT ![c] = outcome]
    BY FinishFacts
  <1>2. more = IF Preempted(j, how = "absent") THEN 1 ELSE 0
    BY DEF Counted
  <1> HIDE DEF c, new, outcome, more
  <1>3. StoreTypeOK /\ runs \in [Containers -> Outcomes \cup {"none", "open"}]
    BY DEF IInv, TypeOK, StoreTypeOK
  <1>4. ASSUME NEW k \in Jobs, state'[k] # "CANCELLED" \/ containerOf'[k] = NoContainer
        PROVE  preemptions'[k] = Cardinality(PreemptedRuns(k)')
    <2>1. CASE k # j
      <3>1. /\ state'[k] = state[k] /\ containerOf'[k] = containerOf[k]
            /\ preemptions'[k] = preemptions[k]
        BY <1>1, <1>3, <2>1 DEF StoreTypeOK
      <3>2. PreemptedRuns(k)' = PreemptedRuns(k)
        BY <1>1, <1>3, <2>1 DEF PreemptedRuns
      <3> QED
        BY <1>4, <3>1, <3>2 DEF CountInv, PreemptedRuns
    <2>2. CASE k = j
      <3>1. outcome # "cancelled"
        BY <1>1, <1>3, <1>4, <2>2 DEF StoreTypeOK, c
      <3>2. preemptions[j] = Cardinality(PreemptedRuns(j)) /\ preemptions[j] \in Nat
        BY <1>1, <1>3, <3>1 DEF CountInv, PreemptedRuns, StoreTypeOK
      <3>3. preemptions'[j] = preemptions[j] + more
        BY <1>1, <1>3 DEF StoreTypeOK
      <3>4. CASE outcome = "preempted"
        <4>1. PreemptedRuns(j)' = PreemptedRuns(j) \cup {c} /\ c \notin PreemptedRuns(j)
          BY <1>1, <1>3, <3>4 DEF PreemptedRuns
        <4>2. Cardinality(PreemptedRuns(j) \cup {c}) = Cardinality(PreemptedRuns(j)) + 1
          BY <4>1, HistoryIsFinite, FS_AddElement
        <4> QED
          BY <1>1, <1>2, <2>2, <3>1, <3>2, <3>3, <3>4, <4>1, <4>2
      <3>5. CASE outcome # "preempted"
        <4>1. PreemptedRuns(j)' = PreemptedRuns(j)
          BY <1>1, <1>3, <3>5 DEF PreemptedRuns
        <4> QED
          BY <1>1, <1>2, <2>2, <3>1, <3>2, <3>3, <3>5, <4>1
      <3> QED
        BY <3>4, <3>5
    <2> QED
      BY <2>1, <2>2
  <1> QED
    BY <1>4 DEF CountInv, PreemptedRuns

\* mark_running opens a row that was none.
LEMMA LaunchRecordCount == ASSUME IInv, CountInv, LaunchRecord PROVE CountInv'
  <1> DEFINE j == launching.job
             c == NextRun(j)
  <1>1. j \in Jobs /\ state[j] = "QUEUED"
    BY DEF LaunchRecord, MarkRunning, IInv, TypeOK, DaemonTypeOK, Launchings
  <1>2. /\ state' = [state EXCEPT ![j] = "RUNNING"]
        /\ containerOf' = [containerOf EXCEPT ![j] = c]
        /\ runs' = [runs EXCEPT ![c] = "open"]
        /\ UNCHANGED preemptions
    BY DEF LaunchRecord, MarkRunning
  <1>3. c \in Containers /\ runs[c] = "none"
    BY <1>1 DEF NextRun, Containers, IInv, TypeOK, StoreTypeOK, RowInv, RunsMatchJobs
  <1>4. StoreTypeOK
    BY DEF IInv, TypeOK
  <1> HIDE DEF c, j
  <1>5. \A k \in Jobs : PreemptedRuns(k)' = PreemptedRuns(k)
    BY <1>2, <1>3, <1>4 DEF PreemptedRuns, StoreTypeOK
  <1>6. \A k \in Jobs : state'[k] # "CANCELLED" \/ containerOf'[k] = NoContainer =>
                           state[k] # "CANCELLED" \/ containerOf[k] = NoContainer
    BY <1>1, <1>2, <1>4 DEF StoreTypeOK
  <1> QED
    BY <1>2, <1>5, <1>6 DEF CountInv, PreemptedRuns

LEMMA NextCount ==
    ASSUME IInv, CountInv, [Next]_vars
    PROVE  CountInv'
  <1> USE DEF IInv, TypeOK
  <1>1. CASE Observe \/ Plan \/ EndTick \/ EndRecover \/ Exit
    BY <1>1, CountFrame DEF Observe, Plan, EndTick, EndRecover, Exit, Halt
  <1>2. CASE Reconcile
    <2>1. ASSUME NEW c \in Containers, Archive(c) PROVE CountInv'
      BY <2>1, CountFrame DEF Archive
    <2> QED
      BY <1>2, <2>1, FinishRunCount DEF Reconcile
  <1>3. CASE Reclaim
    <2>1. ASSUME NEW j \in Jobs, ReclaimMark(j) PROVE CountInv'
      BY <2>1, CountFrame DEF ReclaimMark, MarkPreempting, StoreTypeOK
    <2> QED
      BY <1>3, <2>1, CountFrame DEF Reclaim, ReclaimStop
  <1>4. CASE Launch
    <2>1. ASSUME NEW g \in Gpus, NEW j \in Jobs, LaunchSkip(g, j) \/ LaunchRun(g, j) PROVE CountInv'
      BY <2>1, CountFrame DEF LaunchSkip, LaunchRun
    <2>2. CASE LaunchFailed
      BY <2>2, CountFrame DEF LaunchFailed, Fail, LaunchInv, StoreTypeOK, DaemonTypeOK, Launchings
    <2>3. CASE LaunchRefused
      BY <2>3, CountFrame DEF LaunchRefused, ReclaimAll
    <2> QED
      BY <1>4, <2>1, <2>2, <2>3, LaunchRecordCount DEF Launch
  <1>5. CASE TickError \/ Terminate \/ Crash \/ StopPost \/ Restart
    BY <1>5, CountFrame DEF TickError, Terminate, ReclaimAll, Crash, Halt, StopPost, Restart
  <1>6. CASE World
    <2>1. ASSUME NEW j \in Jobs, UserSubmit(j) PROVE CountInv'
      BY <2>1, CountFrame DEF UserSubmit, Submit, StoreTypeOK
    <2>2. ASSUME NEW j \in Jobs, UserCancel(j) PROVE CountInv'
      BY <2>2, CountFrame DEF UserCancel, Cancel, StoreTypeOK
    <2>3. CASE SetHeld \/ DockerActs \/ (\E g \in Gpus : OwnerToggles(g)) \/ \E c \in Containers : StopEnds(c)
      BY <2>3, CountFrame DEF SetHeld, DockerActs, OwnerToggles, StopEnds
    <2> QED
      BY <1>6, <2>1, <2>2, <2>3 DEF World
  <1>7. CASE UNCHANGED vars
    BY <1>7, CountFrame DEF vars
  <1> QED
    BY <1>1, <1>2, <1>3, <1>4, <1>5, <1>6, <1>7 DEF Next, DaemonStep

\* The counters of a job agree with its history, and it is queued only with an
\* attempt left, through every fault.
THEOREM PreemptionsAreCounted == Spec => []PreemptionsCounted
  <1>1. Init => CountInv
    <2> SUFFICES ASSUME Init PROVE CountInv
      OBVIOUS
    <2>1. \A j \in Jobs : PreemptedRuns(j) = {} /\ preemptions[j] = 0
      BY DEF Init, StoreInit, PreemptedRuns
    <2> QED
      BY <2>1, FS_EmptySet DEF CountInv, PreemptedRuns
  <1>2. IInv /\ CountInv /\ [Next]_vars => CountInv'
    BY NextCount
  <1>3. IInv /\ CountInv => PreemptionsCounted
    BY DEF IInv, RowInv, CountInv, PreemptionsCounted
  <1> QED
    BY <1>1, <1>2, <1>3, InductiveInvariant, PTL DEF Spec

-----------------------------------------------------------------------------
(* While docker removes what it is asked to, and starts nothing late *)

\* Containers end or go, none starts and none is labelled anew.
DockerSettles ==
    \A c \in Containers :
        /\ docker'[c] = "pending" => docker[c] = "pending"
        /\ docker'[c] # "absent" => docker[c] # "absent" /\ label'[c] = label[c]
        /\ docker'[c] = "running" => docker[c] = "running"

LEMMA SettlesFrame == ASSUME UNCHANGED <<docker, label>> PROVE DockerSettles
  BY DEF DockerSettles

\* Nothing starts, nothing is launched, and no job becomes or ceases to be active.
LEMMA TidyFrame ==
    ASSUME IInv, TidyInv, DockerSettles, Active' = Active,
           UNCHANGED <<attempts, gpuOf, containerOf>>,
           \A j \in Jobs : /\ state'[j] = "ABSENT" => state[j] = "ABSENT"
                           /\ state'[j] = "QUEUED" => state[j] \in {"QUEUED", "ABSENT"},
           launches' \subseteq launches, UNCHANGED launching \/ launching' = NoLaunch
    PROVE  /\ LabelInv' /\ FreeInv' /\ OneSpotPerGpu'
           /\ UNCHANGED <<phase, dockerOk, ended, trash>> => ScanInv'
           /\ phase' # "reconcile" => ScanInv'
  <1>1. \A c \in Containers : OnRecord(c)' = OnRecord(c)
    BY DEF OnRecord
  <1>2. LabelInv'
    BY <1>1 DEF TidyInv, LabelInv, DockerSettles, OnRecord
  <1>3. OneSpotPerGpu'
    BY DEF TidyInv, OneSpotPerGpu, DockerSettles, Running
  <1>4. \A l \in launches : /\ l[2] \in Jobs
                            /\ state[l[2]] = "QUEUED" => NextRun(l[2]) \in Containers
    BY DEF IInv, TypeOK, StoreTypeOK, DaemonTypeOK, RowInv, NextRun, Containers
  <1>5. \A l \in launches' :
            /\ state'[l[2]] # "ABSENT"
            /\ state'[l[2]] = "QUEUED" => docker'[NextRun(l[2])] = "absent"
            /\ \A c \in Containers : docker'[c] = "running" => label'[c] # l[1]
    BY <1>4 DEF TidyInv, FreeInv, DockerSettles, Running
  <1>6. \A j \in Jobs : NextRun(j)' = NextRun(j)
    BY DEF NextRun
  <1>7. launching' # NoLaunch =>
          /\ \A l \in launches' : l[2] # launching'.job
          /\ \A c \in Containers : docker'[c] = "running" /\ label'[c] = launching'.gpu
                                      => c = NextRun(launching'.job)
          /\ LET c == NextRun(launching'.job)
             IN  launching'.ok /\ c \in Containers /\ docker'[c] # "absent" => label'[c] = launching'.gpu
    BY DEF TidyInv, FreeInv, DockerSettles, Running
  <1>8. FreeInv'
    BY <1>5, <1>7 DEF TidyInv, FreeInv, Running, NextRun
  <1>9. ASSUME UNCHANGED <<phase, dockerOk, ended, trash>> PROVE ScanInv'
    <2>1. \A e \in ended : containerOf[e[1]] \in Containers
      BY ActiveFacts DEF IInv, TypeOK, TodoInv
    <2> QED
      BY <1>1, <1>9, <2>1 DEF TidyInv, ScanInv, DockerSettles, OnRecord
  <1> QED
    BY <1>2, <1>3, <1>8, <1>9 DEF ScanInv

\* The scan lists every container that is there, and what docker says of the runs.
LEMMA ObserveTidy == ASSUME IInv, TidyInv, Observe PROVE TidyInv'
  <1> USE DEF IInv, TypeOK
  <1>1. /\ Active' = Active /\ UNCHANGED <<storeVars, dockerVars, launchVars>>
    BY StoreFrame DEF Observe
  <1>2. LabelInv' /\ FreeInv' /\ OneSpotPerGpu'
    BY <1>1, TidyFrame, SettlesFrame
  <1>3. PICK up \in {TRUE} \cup May("docker-down", FALSE) :
            dockerOk' = up /\ ended' = EndedRuns(up) /\ trash' = Unmanaged(up)
    BY Zenon DEF Observe
  <1>4. ASSUME up PROVE ScanInv'
    <2>1. ASSUME NEW c \in Containers, docker[c] # "absent"
          PROVE  c \in trash' \/ OnRecord(c)
      <3>1. Listed(c)
        BY <2>1 DEF TidyInv, LabelInv, Listed, DockerTypeOK, Statuses
      <3>2. \A j \in Active : containerOf[j] = c => OnRecord(c)
        BY ActiveFacts DEF OnRecord
      <3> QED
        BY <1>3, <1>4, <3>1, <3>2 DEF Unmanaged
    <2>2. \A e \in ended' : e[2] = docker[containerOf[e[1]]]
      BY <1>3 DEF EndedRuns
    <2> QED
      BY <1>1, <2>1, <2>2 DEF ScanInv, OnRecord
  <1> QED
    BY <1>2, <1>3, <1>4 DEF TidyInv, ScanInv

\* Archiving removes what was found.
LEMMA ArchiveTidy ==
    ASSUME "rm-fails" \notin Faults, IInv, TidyInv, NEW c \in Containers, Archive(c)
    PROVE  TidyInv'
  <1> USE DEF IInv, TypeOK
  <1>1. /\ Active' = Active /\ UNCHANGED <<storeVars, phase, dockerOk, ended, launchVars>>
        /\ trash' = trash \ {c} /\ Remove(c)
    BY StoreFrame DEF Archive
  <1>2. docker' = [docker EXCEPT ![c] = "absent"] /\ label' = [label EXCEPT ![c] = NoGpu]
    BY <1>1 DEF Remove
  <1>3. DockerSettles
    BY <1>2 DEF DockerSettles, DockerTypeOK
  <1>4. LabelInv' /\ FreeInv' /\ OneSpotPerGpu'
    BY <1>1, <1>3, TidyFrame
  <1>5. ScanInv'
    <2>1. \A e \in ended : containerOf[e[1]] \in Containers
      BY ActiveFacts DEF TodoInv
    <2> QED
      BY <1>1, <1>2, <2>1 DEF TidyInv, ScanInv, OnRecord, DockerTypeOK
  <1> QED
    BY <1>4, <1>5 DEF TidyInv

\* A run is finished only together with its container.
LEMMA FinishRunTidy ==
    ASSUME IInv, TidyInv, NEW j \in Jobs, NEW how \in Ends, FinishRun(j, how)
    PROVE  TidyInv'
  <1> DEFINE c == containerOf[j]
             new == FinishState(j, how = "exit0", how = "absent")
  <1>1. /\ j \in Active /\ c \in Containers /\ c[1] = j
        /\ gpuOf' = [gpuOf EXCEPT ![j] = IF new = "QUEUED" THEN NoGpu ELSE @]
        /\ containerOf' = [containerOf EXCEPT ![j] = IF new = "QUEUED" THEN NoContainer ELSE @]
        /\ Active' = Active \ {j}
    BY FinishFacts
  <1>2. /\ UNCHANGED <<docker, label, phase, dockerOk, launches, launching>>
        /\ phase = "reconcile" /\ <<j, how>> \in ended /\ ended' = ended \ {<<j, how>>}
        /\ trash' = IF how = "absent" THEN trash ELSE trash \cup {c}
        /\ launches = {} /\ launching = NoLaunch
    BY DEF FinishRun, IInv, PhaseInv
  <1> HIDE DEF c, new
  <1>3. StoreTypeOK
    BY DEF IInv, TypeOK
  <1>4. \A k \in Active' : /\ k \in Active /\ k # j /\ containerOf'[k] = containerOf[k]
                           /\ gpuOf'[k] = gpuOf[k]
    BY <1>1, <1>3 DEF StoreTypeOK, Active
  <1>5. \A d \in Containers : /\ OnRecord(d)' => OnRecord(d) /\ d[1] \in Active'
                              /\ OnRecord(d) => OnRecord(d)' \/ d = c
    BY <1>1, <1>4 DEF OnRecord, c
  <1>6. LabelInv'
    BY <1>2, <1>4, <1>5 DEF TidyInv, LabelInv
  <1>7. FreeInv' /\ OneSpotPerGpu'
    BY <1>2 DEF TidyInv, FreeInv, OneSpotPerGpu, Running
  <1>8. ScanInv'
    <2>1. SUFFICES ASSUME dockerOk PROVE ScanInv'
      BY <1>2 DEF ScanInv
    <2>2. \A d \in Containers : docker[d] # "absent" => d \in trash \/ OnRecord(d)
      BY <1>2, <2>1 DEF TidyInv, ScanInv
    <2>3. how = "absent" => docker[c] = "absent"
      BY <1>2, <2>1 DEF TidyInv, ScanInv, c
    <2>4. \A d \in Containers : docker[d] # "absent" => d \in trash' \/ OnRecord(d)'
      BY <1>2, <1>5, <2>2, <2>3
    <2>5. \A e \in ended' : e \in ended /\ e[1] # j /\ e[1] \in Active
      BY <1>2 DEF IInv, TodoInv
    <2>6. \A e \in ended' : e[2] = "absent" => docker[containerOf'[e[1]]] = "absent"
      BY <1>1, <1>2, <1>4, <2>1, <2>5 DEF TidyInv, ScanInv
    <2> QED
      BY <1>2, <2>4, <2>6 DEF ScanInv
  <1> QED
    BY <1>6, <1>7, <1>8 DEF TidyInv

\* A GPU is lent when the scan has found nothing on it, and the names of the next
\* runs are free.
LEMMA PlanTidy == ASSUME IInv, TidyInv, Plan PROVE TidyInv'
  <1> USE DEF IInv, TypeOK
  <1>1. /\ phase = "reconcile" /\ phase' = "act" /\ trash = {} /\ Active' = Active
        /\ UNCHANGED <<storeVars, docker, label, launching>> /\ launching = NoLaunch
    BY StoreFrame DEF Plan, StopAsync, PhaseInv
  <1>2. LabelInv' /\ OneSpotPerGpu'
    BY <1>1 DEF TidyInv, LabelInv, OneSpotPerGpu, OnRecord, Running
  <1>3. PICK polls \in Elapsed :
            launches' \in LaunchPlans({g \in Gpus : Lendable(g, polls)}, IF dockerOk THEN Queued ELSE {})
    BY DEF Plan
  <1>4. /\ \A l \in launches' : l[1] \in Gpus /\ OnGpu(l[1]) = {} /\ l[2] \in Queued /\ dockerOk
        /\ \A k, l \in launches' : k # l => k[2] # l[2]
    BY <1>3 DEF LaunchPlans, Lendable
  <1>5. dockerOk => \A c \in Containers : docker[c] # "absent" => OnRecord(c)
    BY <1>1 DEF TidyInv, ScanInv
  <1>6. ASSUME NEW l \in launches'
        PROVE  /\ state[l[2]] = "QUEUED" /\ docker[NextRun(l[2])] = "absent"
               /\ \A c \in Containers : Running(c) => label[c] # l[1]
    <2>1. l[2] \in Jobs /\ state[l[2]] = "QUEUED" /\ l[2] \notin Active
      BY <1>4 DEF Queued, Active
    <2>2. NextRun(l[2]) \in Containers /\ NextRun(l[2])[1] = l[2]
      BY <2>1 DEF NextRun, Containers, StoreTypeOK, RowInv
    <2>3. docker[NextRun(l[2])] = "absent"
      BY <1>4, <1>5, <2>1, <2>2 DEF OnRecord
    <2>4. ASSUME NEW c \in Containers, Running(c) PROVE label[c] # l[1]
      <3>1. OnRecord(c) /\ label[c] = gpuOf[c[1]]
        BY <1>4, <1>5, <2>4 DEF Running, TidyInv, LabelInv
      <3> QED
        BY <1>4, <3>1 DEF OnRecord, OnGpu
    <2> QED
      BY <2>1, <2>3, <2>4
  <1>7. FreeInv'
    BY <1>1, <1>4, <1>6 DEF FreeInv, Running, NextRun
  <1> QED
    BY <1>1, <1>2, <1>7 DEF TidyInv, ScanInv

\* Where docker run starts a container, none runs; and it finds the name free.
LEMMA LaunchRunTidy ==
    ASSUME "run-late" \notin Faults, IInv, TidyInv, NEW g \in Gpus, NEW j \in Jobs, LaunchRun(g, j)
    PROVE  /\ TidyInv'
           /\ "run-fails" \notin Faults => launching'.ok
  <1> USE DEF IInv, TypeOK
  <1> DEFINE c == NextRun(j)
  <1>1. /\ phase = "act" /\ <<g, j>> \in launches /\ state[j] = "QUEUED" /\ j \notin Active
        /\ launches' = launches \ {<<g, j>>}
        /\ UNCHANGED <<storeVars, phase>> /\ Active' = Active
    BY StoreFrame DEF LaunchRun, ReadyToLaunch, Active
  <1>2. c \in Containers /\ c[1] = j /\ docker[c] = "absent"
    BY <1>1 DEF NextRun, Containers, StoreTypeOK, RowInv, TidyInv, FreeInv
  <1>3. /\ launching'.job = j /\ launching'.gpu = g
        /\ docker'[c] \in {"running", "exit1", "absent"} /\ (docker'[c] # "absent" => label'[c] = g)
        /\ \A d \in Containers : d # c => docker'[d] = docker[d] /\ label'[d] = label[d]
        /\ "run-fails" \notin Faults => launching'.ok
    <2>1. ASSUME NEW status \in {"running", "exit1"}, NEW ok \in BOOLEAN,
                 launching' = [job |-> j, gpu |-> g, ok |-> ok], Create(c, g, status)
          PROVE  /\ launching'.job = j /\ launching'.gpu = g /\ launching'.ok = ok
                 /\ docker'[c] = status /\ label'[c] = g
                 /\ \A d \in Containers : d # c => docker'[d] = docker[d] /\ label'[d] = label[d]
      BY <1>2, <2>1 DEF Create, DockerTypeOK
    <2>2. \/ launching' = [job |-> j, gpu |-> g, ok |-> TRUE] /\ Create(c, g, "running")
          \/ /\ launching' = [job |-> j, gpu |-> g, ok |-> FALSE] /\ "run-fails" \in Faults
             /\ UNCHANGED dockerVars \/ Create(c, g, "exit1")
      BY <1>2 DEF LaunchRun
    <2>3. CASE launching' = [job |-> j, gpu |-> g, ok |-> TRUE] /\ Create(c, g, "running")
      BY <2>1, <2>3
    <2>4. CASE /\ launching' = [job |-> j, gpu |-> g, ok |-> FALSE] /\ "run-fails" \in Faults
               /\ UNCHANGED dockerVars
      BY <1>2, <2>4
    <2>5. CASE /\ launching' = [job |-> j, gpu |-> g, ok |-> FALSE] /\ "run-fails" \in Faults
               /\ Create(c, g, "exit1")
      BY <2>1, <2>5
    <2> QED
      BY <2>2, <2>3, <2>4, <2>5
  <1>4. NextRun(j)' = c /\ \A k \in Jobs : NextRun(k)' = NextRun(k) /\ (k # j => NextRun(k) # c)
    BY <1>1 DEF NextRun
  <1> HIDE DEF c
  <1>5. LabelInv'
    BY <1>1, <1>2, <1>3 DEF TidyInv, LabelInv, OnRecord
  <1>6. \A d \in Containers : Running(d) => label[d] # g
    BY <1>1 DEF TidyInv, FreeInv
  <1>7. OneSpotPerGpu'
    BY <1>2, <1>3, <1>6 DEF TidyInv, OneSpotPerGpu, Running
  <1>8. \A l \in launches' : l \in launches /\ l[1] # g /\ l[2] # j /\ l[2] \in Jobs
    BY <1>1 DEF LaunchInv, TidyInv, FreeInv, DaemonTypeOK
  <1>9. \A l \in launches' :
            /\ state'[l[2]] # "ABSENT"
            /\ state'[l[2]] = "QUEUED" => docker'[NextRun(l[2])] = "absent"
            /\ \A d \in Containers : docker'[d] = "running" => label'[d] # l[1]
    <2>1. \A l \in launches : state[l[2]] = "QUEUED" => NextRun(l[2]) \in Containers
      BY DEF StoreTypeOK, DaemonTypeOK, RowInv, NextRun, Containers
    <2> QED
      BY <1>1, <1>3, <1>4, <1>8, <2>1 DEF TidyInv, FreeInv, Running
  <1>10. FreeInv'
    <2>1. \A d \in Containers : docker'[d] = "running" /\ label'[d] = g => d = c
      BY <1>3, <1>6 DEF Running
    <2>2. \A k, l \in launches' : k[2] = l[2] => k = l
      BY <1>8 DEF TidyInv, FreeInv
    <2>3. NextRun(launching.job)' = c
      BY <1>3, <1>4 DEF NextRun
    <2> QED
      BY <1>3, <1>4, <1>8, <1>9, <2>1, <2>2, <2>3 DEF FreeInv, Running
  <1> QED
    BY <1>1, <1>3, <1>5, <1>7, <1>10 DEF TidyInv, ScanInv

\* mark_running records the GPU the container is labelled with.
LEMMA LaunchRecordTidy == ASSUME IInv, TidyInv, LaunchRecord PROVE TidyInv'
  <1> USE DEF IInv, TypeOK
  <1> DEFINE j == launching.job
             g == launching.gpu
             c == NextRun(j)
  <1>1. /\ j \in Jobs /\ state[j] = "QUEUED" /\ launching # NoLaunch /\ launching.ok /\ phase = "act"
        /\ state' = [state EXCEPT ![j] = "RUNNING"] /\ attempts' = [attempts EXCEPT ![j] = @ + 1]
        /\ gpuOf' = [gpuOf EXCEPT ![j] = g] /\ containerOf' = [containerOf EXCEPT ![j] = c]
        /\ launching' = NoLaunch /\ UNCHANGED <<closed, phase, docker, label, launches>>
    BY DEF LaunchRecord, MarkRunning, DaemonTypeOK, Launchings, PhaseInv
  <1>2. c \in Containers /\ c[1] = j /\ (docker[c] # "absent" => label[c] = g)
    BY <1>1 DEF NextRun, Containers, StoreTypeOK, RowInv, TidyInv, FreeInv
  <1> HIDE DEF c, g, j
  <1>3. \A k \in Active' : k = j \/ (k \in Active /\ containerOf'[k] = containerOf[k] /\ gpuOf'[k] = gpuOf[k])
    BY <1>1 DEF Active, StoreTypeOK
  <1>4. containerOf'[j] = c /\ gpuOf'[j] = g
    BY <1>1 DEF StoreTypeOK
  <1>5. LabelInv'
    BY <1>1, <1>2, <1>3, <1>4 DEF TidyInv, LabelInv, OnRecord
  <1>6. \A l \in launches : l[2] \in Jobs /\ l[2] # j
    BY <1>1 DEF TidyInv, FreeInv, DaemonTypeOK, j
  <1>7. FreeInv'
    BY <1>1, <1>6 DEF TidyInv, FreeInv, Running, NextRun, StoreTypeOK
  <1> QED
    BY <1>1, <1>5, <1>7 DEF TidyInv, ScanInv, OneSpotPerGpu, Running

LEMMA NextTidy ==
    ASSUME Faults \cap {"run-late", "rm-fails"} = {}, IInv, TidyInv, [Next]_vars
    PROVE  TidyInv'
  <1> USE DEF IInv, TypeOK
  <1>0. ASSUME phase' # "reconcile", UNCHANGED storeVars, UNCHANGED <<docker, label>>,
               launches' \subseteq launches, UNCHANGED launching \/ launching' = NoLaunch
        PROVE  TidyInv'
    BY <1>0, StoreFrame, SettlesFrame, TidyFrame DEF TidyInv
  <1>1. CASE Reconcile
    BY <1>1, FinishRunTidy, ArchiveTidy DEF Reconcile
  <1>2. CASE Reclaim
    <2>1. ASSUME NEW j \in Jobs, ReclaimMark(j) PROVE TidyInv'
      <3>1. Active' = Active
        BY <2>1 DEF ReclaimMark, MarkPreempting, Active, StoreTypeOK
      <3> QED
        BY <2>1, <3>1, SettlesFrame, TidyFrame DEF ReclaimMark, MarkPreempting, TidyInv, StoreTypeOK
    <2>2. CASE ReclaimStop
      BY <2>2, StoreFrame, SettlesFrame, TidyFrame DEF ReclaimStop, StopAsync, TidyInv
    <2> QED
      BY <1>2, <2>1, <2>2 DEF Reclaim
  <1>3. CASE Launch
    <2>1. ASSUME NEW g \in Gpus, NEW j \in Jobs, LaunchSkip(g, j) PROVE TidyInv'
      BY <1>0, <2>1 DEF LaunchSkip, ReadyToLaunch
    <2>2. CASE LaunchFailed
      <3>1. Active' = Active
        BY <2>2 DEF LaunchFailed, Fail, Active, StoreTypeOK, LaunchInv, DaemonTypeOK, Launchings
      <3> QED
        BY <2>2, <3>1, SettlesFrame, TidyFrame DEF LaunchFailed, Fail, TidyInv, StoreTypeOK
    <2>3. CASE LaunchRefused
      BY <1>0, <2>3 DEF LaunchRefused, ReclaimAll, DropTick
    <2> QED
      BY <1>3, <2>1, <2>2, <2>3, LaunchRunTidy, LaunchRecordTidy DEF Launch
  <1>4. CASE EndTick \/ EndRecover \/ TickError \/ Terminate
    BY <1>0, <1>4 DEF EndTick, EndRecover, TickError, Terminate, ReclaimAll, DropTick
  <1>5. CASE Exit \/ Crash \/ Restart
    BY <1>0, <1>5 DEF Exit, Crash, Halt, DropTick, Restart
  <1>6. CASE StopPost
    <2>1. DockerSettles
      BY <1>6 DEF StopPost, StopEverything, DockerSettles, DockerTypeOK, Running, ExitCodes
    <2> QED
      BY <1>6, <2>1, StoreFrame, TidyFrame DEF StopPost, TidyInv
  <1>7. CASE World
    <2>1. ASSUME NEW j \in Jobs, UserSubmit(j) \/ UserCancel(j) PROVE TidyInv'
      <3>1. Active' = Active
        BY <2>1 DEF UserSubmit, UserCancel, Submit, Cancel, Active, StoreTypeOK, RowInv
      <3> QED
        BY <2>1, <3>1, SettlesFrame, TidyFrame
           DEF UserSubmit, UserCancel, Submit, Cancel, TidyInv, StoreTypeOK
    <2>2. ASSUME NEW c \in Containers, StopEnds(c) PROVE TidyInv'
      <3>1. DockerSettles
        BY <2>2 DEF StopEnds, StopTakesEffect, DockerSettles, DockerTypeOK, Running, ExitCodes
      <3> QED
        BY <2>2, <3>1, StoreFrame, TidyFrame DEF StopEnds, TidyInv
    <2>3. CASE DockerActs
      <3>1. DockerSettles
        BY <2>3 DEF DockerActs, ContainerExits, StartsLate, StopFails, Remove, DockerSettles,
                    DockerTypeOK, Running, ExitCodes, TidyInv, LabelInv
      <3> QED
        BY <2>3, <3>1, StoreFrame, TidyFrame DEF DockerActs, TidyInv
    <2>4. CASE SetHeld \/ \E g \in Gpus : OwnerToggles(g)
      BY <2>4, StoreFrame, SettlesFrame, TidyFrame DEF SetHeld, OwnerToggles, TidyInv
    <2> QED
      BY <1>7, <2>1, <2>2, <2>3, <2>4 DEF World
  <1>8. CASE UNCHANGED vars
    BY <1>8, StoreFrame, SettlesFrame, TidyFrame DEF vars, TidyInv
  <1> QED
    BY <1>1, <1>2, <1>3, <1>4, <1>5, <1>6, <1>7, <1>8, ObserveTidy, PlanTidy DEF Next, DaemonStep

LEMMA TidyInvariant ==
    ASSUME Faults \cap {"run-late", "rm-fails"} = {} PROVE Spec => []TidyInv
  <1>1. Init => TidyInv
    BY DEF Init, DockerInit, TidyInv, LabelInv, ScanInv, FreeInv, OneSpotPerGpu, Running
  <1>2. IInv /\ TidyInv /\ [Next]_vars => TidyInv'
    BY NextTidy
  <1> QED
    BY <1>1, <1>2, InductiveInvariant, PTL DEF Spec

\* No GPU carries two running spot containers, recorded or not, as long as docker rm
\* removes and no container starts after its docker run was given up.
THEOREM OneSpotRuns ==
    ASSUME Faults \cap {"run-late", "rm-fails"} = {} PROVE Spec => []OneSpotPerGpu
  BY TidyInvariant, PTL DEF TidyInv

-----------------------------------------------------------------------------
(* What is final *)

\* A launch fails only if docker run does.
LEMMA LaunchesSucceedAlways ==
    ASSUME Faults \cap {"run-fails", "run-late", "rm-fails"} = {}
    PROVE  Spec => []LaunchesSucceed
  <1>1. Init => LaunchesSucceed
    BY DEF Init, LaunchesSucceed
  <1>2. ASSUME IInv, TidyInv, LaunchesSucceed, [Next]_vars PROVE LaunchesSucceed'
    <2>1. ASSUME NEW g \in Gpus, NEW j \in Jobs, LaunchRun(g, j) PROVE LaunchesSucceed'
      BY <1>2, <2>1, LaunchRunTidy DEF LaunchesSucceed
    <2>2. CASE UNCHANGED launching \/ launching' = NoLaunch
      BY <1>2, <2>2 DEF LaunchesSucceed
    <2>3. \/ \E g \in Gpus, j \in Jobs : LaunchRun(g, j)
          \/ UNCHANGED launching \/ launching' = NoLaunch
      BY <1>2 DEF Next, DaemonStep, Observe, Reconcile, FinishRun, Archive, Plan, Reclaim, ReclaimMark,
          ReclaimStop, Launch, LaunchSkip, LaunchRecord, LaunchFailed, LaunchRefused, EndTick, EndRecover,
          Exit, TickError, Terminate, ReclaimAll, DropTick, Crash, Halt, StopPost, Restart, World,
          UserSubmit, UserCancel, SetHeld, OwnerToggles, StopEnds, DockerActs, vars
    <2> QED
      BY <2>1, <2>2, <2>3
  <1>3. Spec => []TidyInv
    BY TidyInvariant
  <1> QED
    BY <1>1, <1>2, <1>3, InductiveInvariant, PTL DEF Spec

NoneIsCancelled == \A j \in Jobs : state[j] # "CANCELLED"

\* A step that writes the state or the end of a job that was over.
Overwrites ==
    \E j \in Jobs : /\ state[j] \in {"SUCCEEDED", "FAILED", "CANCELLED"}
                    /\ ~(state'[j] = state[j] /\ (closed[j] => closed'[j]))

\* Only the failure of a launch can overwrite, and only a cancelled job.
LEMMA WhoOverwrites ==
    ASSUME IInv, [Next]_vars,
           launching # NoLaunch => launching.ok \/ state[launching.job] # "CANCELLED"
    PROVE  ~Overwrites
  <1> USE DEF IInv, TypeOK
  <1>0. ASSUME UNCHANGED <<state, closed>> PROVE ~Overwrites
    BY <1>0 DEF Overwrites
  <1>1. ASSUME NEW j \in Jobs, NEW how \in Ends, FinishRun(j, how) PROVE ~Overwrites
    <2> DEFINE new == FinishState(j, how = "exit0", how = "absent")
               outcome == FinishOutcome(j, how = "exit0", how = "absent")
    <2>1. /\ state[j] \in {"RUNNING", "PREEMPTING", "CANCELLED"} /\ ~closed[j]
          /\ outcome = "cancelled" <=> state[j] = "CANCELLED"
          /\ outcome = "cancelled" => new = "CANCELLED"
          /\ state' = [state EXCEPT ![j] = new]
          /\ closed' = [closed EXCEPT ![j] = new # "QUEUED"]
      BY <1>1, FinishFacts
    <2> HIDE DEF new, outcome
    <2> QED
      BY <2>1 DEF Overwrites, StoreTypeOK
  <1>2. ASSUME NEW j \in Jobs, ReclaimMark(j) PROVE ~Overwrites
    BY <1>2 DEF ReclaimMark, MarkPreempting, Overwrites, StoreTypeOK
  <1>3. CASE LaunchRecord
    BY <1>3 DEF LaunchRecord, MarkRunning, Overwrites, StoreTypeOK
  <1>4. CASE LaunchFailed
    BY <1>4 DEF LaunchFailed, Fail, LaunchInv, Overwrites, StoreTypeOK
  <1>5. ASSUME NEW j \in Jobs, UserSubmit(j) PROVE ~Overwrites
    BY <1>5 DEF UserSubmit, Submit, Overwrites, StoreTypeOK
  <1>6. ASSUME NEW j \in Jobs, UserCancel(j) PROVE ~Overwrites
    BY <1>6 DEF UserCancel, Cancel, Overwrites, StoreTypeOK
  <1>7. \/ UNCHANGED <<state, closed>>
        \/ \E j \in Jobs, how \in Ends : FinishRun(j, how)
        \/ \E j \in Jobs : ReclaimMark(j) \/ UserSubmit(j) \/ UserCancel(j)
        \/ LaunchRecord \/ LaunchFailed
    BY DEF Next, DaemonStep, Observe, Reconcile, Archive, Plan, Reclaim, ReclaimStop, Launch, LaunchSkip,
        LaunchRun, LaunchRefused, EndTick, EndRecover, Exit, TickError, Terminate, ReclaimAll, Crash, Halt,
        StopPost, Restart, World, SetHeld, OwnerToggles, StopEnds, DockerActs, vars
  <1> QED
    BY <1>0, <1>1, <1>2, <1>3, <1>4, <1>5, <1>6, <1>7

\* Where nobody cancels, no job is cancelled.
LEMMA NobodyCancels ==
    ASSUME "cancel" \notin Faults PROVE Spec => []NoneIsCancelled
  <1>1. Init => NoneIsCancelled
    BY DEF Init, StoreInit, NoneIsCancelled
  <1>2. ASSUME IInv, NoneIsCancelled, [Next]_vars PROVE NoneIsCancelled'
    <2> USE DEF IInv, TypeOK
    <2>1. ASSUME NEW j \in Jobs, NEW how \in Ends, FinishRun(j, how) PROVE NoneIsCancelled'
      <3>1. /\ state' = [state EXCEPT ![j] = FinishState(j, how = "exit0", how = "absent")]
            /\ state[j] \in {"RUNNING", "PREEMPTING"}
        BY <1>2, <2>1, FinishFacts DEF NoneIsCancelled
      <3>2. FinishState(j, how = "exit0", how = "absent") # "CANCELLED"
        BY <3>1 DEF FinishState, FinishOutcome
      <3> QED
        BY <1>2, <3>1, <3>2 DEF NoneIsCancelled, StoreTypeOK
    <2>2. ASSUME NEW j \in Jobs, ReclaimMark(j) \/ UserSubmit(j) PROVE NoneIsCancelled'
      BY <1>2, <2>2 DEF ReclaimMark, MarkPreempting, UserSubmit, Submit, NoneIsCancelled, StoreTypeOK
    <2>3. CASE LaunchRecord \/ LaunchFailed
      BY <1>2, <2>3 DEF LaunchRecord, MarkRunning, LaunchFailed, Fail, NoneIsCancelled, StoreTypeOK
    <2>4. CASE UNCHANGED state
      BY <1>2, <2>4 DEF NoneIsCancelled
    <2>5. \/ UNCHANGED state
          \/ \E j \in Jobs, how \in Ends : FinishRun(j, how)
          \/ \E j \in Jobs : ReclaimMark(j) \/ UserSubmit(j)
          \/ LaunchRecord \/ LaunchFailed
      BY <1>2 DEF Next, DaemonStep, Observe, Reconcile, Archive, Plan, Reclaim, ReclaimStop, Launch,
          LaunchSkip, LaunchRun, LaunchRefused, EndTick, EndRecover, Exit, TickError, Terminate, ReclaimAll,
          Crash, Halt, StopPost, Restart, World, UserCancel, SetHeld, OwnerToggles, StopEnds, DockerActs, vars
    <2> QED
      BY <2>1, <2>2, <2>3, <2>4, <2>5
  <1> QED
    BY <1>1, <1>2, InductiveInvariant, PTL DEF Spec

\* What is over stays as it ended, unless users cancel while docker run may fail, take
\* effect late, or meet a container docker rm has not removed.
THEOREM FinalStays ==
    ASSUME "cancel" \notin Faults \/ Faults \cap {"run-fails", "run-late", "rm-fails"} = {}
    PROVE  Spec => FinalIsFinal
  <1> DEFINE Unspoiled == launching # NoLaunch => launching.ok \/ state[launching.job] # "CANCELLED"
  <1>1. Spec => []Unspoiled
    <2>1. CASE "cancel" \notin Faults
      <3>1. IInv /\ NoneIsCancelled => Unspoiled
        BY DEF NoneIsCancelled, IInv, TypeOK, DaemonTypeOK, Launchings
      <3>2. Spec => []NoneIsCancelled
        BY <2>1, NobodyCancels
      <3> QED
        BY <3>1, <3>2, InductiveInvariant, PTL
    <2>2. CASE Faults \cap {"run-fails", "run-late", "rm-fails"} = {}
      <3>1. LaunchesSucceed => Unspoiled
        BY DEF LaunchesSucceed
      <3>2. Spec => []LaunchesSucceed
        BY <2>2, LaunchesSucceedAlways
      <3> QED
        BY <3>1, <3>2, PTL
    <2> QED
      BY <2>1, <2>2
  <1>2. IInv /\ Unspoiled /\ [Next]_vars =>
            [\A j \in Jobs : state[j] \in {"SUCCEEDED", "FAILED", "CANCELLED"} =>
                state'[j] = state[j] /\ (closed[j] => closed'[j])]_vars
    BY WhoOverwrites DEF Overwrites
  <1> QED
    BY <1>1, <1>2, InductiveInvariant, PTL DEF Spec, FinalIsFinal

=============================================================================
