--------------------------- MODULE SpotInvariant ---------------------------
(***************************************************************************)
(* The inductive invariant behind the safety properties of SpotProperties: *)
(* what holds between any two steps of SpotController.  IInv holds for any *)
(* faults; StopInv and ShutdownInv add to it what needs docker, or         *)
(* systemd, to play along.                                                 *)
(***************************************************************************)
EXTENDS SpotProperties

\* The columns of a row agree with its state.
RowInv ==
    \A j \in Jobs :
        /\ state[j] \in {"ABSENT", "QUEUED"} => containerOf[j] = NoContainer /\ ~closed[j]
        /\ state[j] \in {"ABSENT", "QUEUED"} => attempts[j] < MaxAttempts
        /\ state[j] \in {"RUNNING", "PREEMPTING"} => containerOf[j] # NoContainer /\ ~closed[j]
        /\ state[j] \in {"SUCCEEDED", "FAILED"} => closed[j]
        /\ state[j] = "CANCELLED" /\ containerOf[j] = NoContainer => closed[j]
        /\ containerOf[j] # NoContainer => containerOf[j] = <<j, attempts[j]>> /\ gpuOf[j] \in Gpus
        /\ preemptions[j] <= attempts[j]
        /\ j \in Active => preemptions[j] < attempts[j]

\* What a tick still has to do is there only in the phase that does it.
PhaseInv ==
    /\ phase # "reconcile" => ended = {}
    /\ phase \notin {"act", "recover", "shutdown"} => Reclaimed
    /\ phase # "act" => launches = {} /\ launching = NoLaunch

\* Runs to finish are active jobs whose container does not run (and will not run
\* again), one entry each; jobs to reclaim are active; the stop that is due is of
\* an active job that is no longer RUNNING.
TodoInv ==
    /\ \A e \in ended : e[1] \in Active /\ ~Running(containerOf[e[1]])
    /\ \A e, f \in ended : e[1] = f[1] => e = f
    /\ reclaims \subseteq Active
    /\ stopping # NoContainer =>
          \E j \in Active : containerOf[j] = stopping /\ state[j] # "RUNNING"

\* A GPU with a launch ahead of it, or under way, is leased to nobody and launched
\* on once; the job that is being launched has no container on record.
LaunchInv ==
    /\ \A l \in launches : OnGpu(l[1]) = {}
    /\ \A k, l \in launches : k[1] = l[1] => k = l
    /\ launching # NoLaunch =>
          /\ OnGpu(launching.gpu) = {}
          /\ \A l \in launches : l[1] # launching.gpu
          /\ state[launching.job] \in {"QUEUED", "CANCELLED"}
          /\ containerOf[launching.job] = NoContainer
          /\ launching.ok /\ state[launching.job] = "QUEUED" =>
                docker[NextRun(launching.job)] # "pending"

\* A container that runs belongs to the current run of its job or to a run nobody
\* has recorded (yet); one that may start late was never recorded.
LiveInv ==
    \A c \in Containers :
        /\ docker[c] # "absent" => c[2] <= attempts[c[1]] + 1
        /\ docker[c] = "pending" => c[2] = attempts[c[1]] + 1 /\ c[1] \notin Active
        /\ Running(c) => IF c[1] \in Active THEN containerOf[c[1]] = c
                                             ELSE c[2] = attempts[c[1]] + 1

\* Without ExecStopPost: a stop is of a recorded run, never of a job that is still
\* RUNNING, and the run it ends will not be booked as a failure.
StopInv ==
    /\ \A c \in stops \cup killed \cup stopIssued :
          c[2] <= attempts[c[1]] /\ runs[c] # "failed"
    /\ StopsAreRecorded

\* While docker obeys: shutting down, every container of an active job is stopped,
\* being stopped, or about to be; after that none runs.
ShutdownInv ==
    /\ phase = "shutdown" =>
          \A j \in Active : \/ j \in reclaims
                            \/ containerOf[j] \in stops \cup {stopping}
                            \/ ~Running(containerOf[j])
    /\ CleanExitReclaims

\* The preemptions of a job are counted in its row and in its history, until a
\* run of a cancelled job is over.
CountInv ==
    \A j \in Jobs : state[j] # "CANCELLED" \/ containerOf[j] = NoContainer =>
        preemptions[j] = Cardinality({c \in Containers : c[1] = j /\ runs[c] = "preempted"})

\* Container c is the one on record for an active job.
OnRecord(c) == c[1] \in Active /\ containerOf[c[1]] = c

\* While docker removes what it is asked to, and starts nothing late: ...
LabelInv ==
    \A c \in Containers :
        /\ docker[c] # "pending"
        /\ docker[c] # "absent" /\ OnRecord(c) => label[c] = gpuOf[c[1]]

\* ... what a tick has listed is on record or about to be removed, ...
ScanInv ==
    phase = "reconcile" /\ dockerOk =>
        /\ \A c \in Containers : docker[c] # "absent" => c \in trash \/ OnRecord(c)
        /\ \A e \in ended : e[2] = "absent" => docker[containerOf[e[1]]] = "absent"

\* ... and what it launches finds its GPU and its name free.
FreeInv ==
    /\ \A l \in launches :
          /\ state[l[2]] # "ABSENT"
          /\ state[l[2]] = "QUEUED" => docker[NextRun(l[2])] = "absent"
          /\ \A c \in Containers : Running(c) => label[c] # l[1]
    /\ \A k, l \in launches : k[2] = l[2] => k = l
    /\ launching # NoLaunch =>
          /\ \A l \in launches : l[2] # launching.job
          /\ \A c \in Containers : Running(c) /\ label[c] = launching.gpu => c = NextRun(launching.job)
          /\ LET c == NextRun(launching.job)
             IN  launching.ok /\ c \in Containers /\ docker[c] # "absent" => label[c] = launching.gpu

TidyInv == LabelInv /\ ScanInv /\ FreeInv /\ OneSpotPerGpu

\* Unless docker run fails as well, no launch does.
LaunchesSucceed == launching # NoLaunch => launching.ok

IInv ==
    /\ TypeOK /\ RowInv /\ PhaseInv /\ TodoInv
    /\ OneLeasePerGpu /\ LaunchInv
    /\ LiveInv
    /\ RunsMatchJobs
    /\ StopIssuedIsLive

=============================================================================
