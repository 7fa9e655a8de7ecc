--------------------------- MODULE SpotProperties ---------------------------
(***************************************************************************)
(* What the spot controller should guarantee: properties of SpotController *)
(* under the faults a run of TLC, or the hypothesis of a theorem, allows.  *)
(***************************************************************************)
EXTENDS SpotController

-----------------------------------------------------------------------------
(* Safety *)

\* No GPU is lent to two jobs: mark_running never records a GPU that another
\* active job (one whose container may still hold it) was recorded on.
OneLeasePerGpu ==
    \A i, j \in Active : i # j => gpuOf[i] # gpuOf[j]

\* No two spot containers run on one GPU (SPEC 2.5: only a GPU "without a spot"
\* gets one).  Containers nobody recorded count too: a launch that crashed, or
\* that was refused, must be cleaned up before its GPU is lent again (SPEC 2.10),
\* which takes a docker rm that works.
OneSpotPerGpu ==
    \A c, d \in Containers : Running(c) /\ Running(d) /\ label[c] = label[d] => c = d

\* A job never runs in two containers at once: a run is only given up
\* (finish, then a new attempt) once its container has really stopped.
JobRunsOnce ==
    \A c, d \in Containers : Running(c) /\ Running(d) /\ c[1] = d[1] => c = d

\* mark_preempting before docker stop: the container of a job that is still
\* RUNNING was not stopped by anybody, no stop of it is under way, none is
\* remembered as issued.
StopsAreRecorded ==
    \A j \in Jobs : state[j] = "RUNNING" =>
        containerOf[j] \notin stops \cup killed \cup stopIssued

\* A run that was stopped, by the controller or when it went down, is never
\* booked as a failure of the job (SPEC 2.7, README).
ReclaimedNeverFails ==
    \A c \in Containers : c \in killed => runs[c] # "failed"

\* The books of _stop and _reconcile agree: stop_issued holds containers of active
\* jobs only, since the end of a run takes its entry along.
StopIssuedIsLive == stopIssued \subseteq {containerOf[j] : j \in Active}

\* The run history agrees with the jobs: one row per counted attempt, open exactly
\* while that run is the one the active job is in.
RunsMatchJobs ==
    \A c \in Containers :
        /\ runs[c] = "none" <=> c[2] > attempts[c[1]]
        /\ runs[c] = "open" <=> c[1] \in Active /\ containerOf[c[1]] = c

\* A job counts as many preemptions as its history has rows that say so, and is in
\* the queue only with an attempt left (a cancelled job that vanished counts one more).
PreemptionsCounted ==
    \A j \in Jobs :
        /\ state[j] = "QUEUED" => attempts[j] < MaxAttempts
        /\ state[j] # "CANCELLED" =>
              preemptions[j] = Cardinality({c \in Containers : c[1] = j /\ runs[c] = "preempted"})

\* After a clean exit no container of an active job runs any more.  (SPEC 2.10 says
\* it of every lent GPU, also of containers that are not on record.)
CleanExitReclaims ==
    phase = "exited" => \A j \in Active : ~Running(containerOf[j])

\* The states without an arrow out of them in SPEC 2.7 are final, CANCELLED from
\* the moment of the cancel: nothing the daemon does later overwrites them.
FinalIsFinal ==
    [][\A j \in Jobs : state[j] \in {"SUCCEEDED", "FAILED", "CANCELLED"} =>
          state'[j] = state[j] /\ (closed[j] => closed'[j])]_vars

\* The controller keeps the ledger of SpotLease: the active jobs are the leases.
Lease == INSTANCE SpotLease WITH
            MaxGrants <- MaxAttempts,
            leases    <- {<<gpuOf[j], j>> : j \in Active},
            granted   <- attempts,
            over      <- {j \in Jobs : closed[j]}

LeaseRefined == Lease!LeaseSpec

-----------------------------------------------------------------------------
(* Liveness *)

Lent(g) == \E c \in Containers : Running(c) /\ label[c] = g

\* An owner who uses the GPU, and goes on using it, gets it back (INTENT S3).
OwnerGetsGpuBack == \A g \in Gpus : g \in busy ~> (g \notin busy \/ ~Lent(g))

\* A GPU that is paused, and stays paused, is reclaimed (SPEC 2.9).
PauseGivesGpuBack == \A g \in Gpus : g \in held ~> (g \notin held \/ ~Lent(g))

\* Every stop that a user or the controller asked for comes to an end: a
\* cancelled job is closed, a PREEMPTING one goes somewhere else.
StopsComplete ==
    \A j \in Jobs : /\ state[j] = "CANCELLED" ~> closed[j]
                    /\ state[j] = "PREEMPTING" ~> state[j] # "PREEMPTING"

\* A job does not wait for ever while some GPU is and stays free and quiet (S2).
IdleGpuIsLent ==
    \A j \in Jobs, g \in Gpus :
        ~<>[](state[j] = "QUEUED" /\ g \notin busy \cup held /\ OnGpu(g) = {})

=============================================================================
