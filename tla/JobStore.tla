------------------------------ MODULE JobStore ------------------------------
(***************************************************************************)
(* The spot job database of src/labgpu/spot/jobs.py: the jobs table, the   *)
(* runs table and the transactions that change them.                       *)
(*                                                                         *)
(* Every public method that writes runs inside one BEGIN IMMEDIATE ...     *)
(* COMMIT (JobStore._tx), so each is one atomic action here.  The daemon   *)
(* and the CLI each open a connection of their own and interleave between  *)
(* transactions.  A module that EXTENDS this one decides who calls what.   *)
(***************************************************************************)
EXTENDS SpotBase

JobStates == {"ABSENT",  \* no row yet
              "QUEUED", "RUNNING", "PREEMPTING", "SUCCEEDED", "FAILED", "CANCELLED"}
Outcomes  == {"preempted", "succeeded", "failed", "cancelled"}

VARIABLES
    \* one function per column of the jobs table
    state, attempts, preemptions,
    gpuOf, containerOf,
    closed,        \* finished_at IS NOT NULL
    \* the runs table: the row of an attempt is "none", "open" or its outcome
    runs

storeVars == <<state, attempts, preemptions, gpuOf, containerOf, closed, runs>>

StoreTypeOK ==
    /\ state \in [Jobs -> JobStates]
    /\ attempts \in [Jobs -> 0 .. MaxAttempts]
    /\ preemptions \in [Jobs -> 0 .. MaxAttempts]
    /\ gpuOf \in [Jobs -> Gpus \cup {NoGpu}]
    /\ containerOf \in [Jobs -> Containers \cup {NoContainer}]
    /\ closed \in [Jobs -> BOOLEAN]
    /\ runs \in [Containers -> Outcomes \cup {"none", "open"}]

StoreInit ==
    /\ state = [j \in Jobs |-> "ABSENT"]
    /\ attempts = [j \in Jobs |-> 0]
    /\ preemptions = [j \in Jobs |-> 0]
    /\ gpuOf = [j \in Jobs |-> NoGpu]
    /\ containerOf = [j \in Jobs |-> NoContainer]
    /\ closed = [j \in Jobs |-> FALSE]
    /\ runs = [c \in Containers |-> "none"]

-----------------------------------------------------------------------------
(* Queries *)

\* active(): jobs whose container may still hold a GPU, cancelled ones that are
\* still stopping included.
Active == {j \in Jobs : \/ state[j] \in {"RUNNING", "PREEMPTING"}
                        \/ /\ state[j] = "CANCELLED"
                           /\ containerOf[j] # NoContainer
                           /\ ~closed[j]}

\* RunningSpot.reclaiming, of an active job
Reclaiming(j) == state[j] # "RUNNING"

Queued == {j \in Jobs : state[j] = "QUEUED"}

\* The run mark_running(j, ...) would record, and the container started for it.
NextRun(j) == <<j, attempts[j] + 1>>

-----------------------------------------------------------------------------
(* Transactions *)

Submit(j) ==
    /\ state[j] = "ABSENT"
    /\ state' = [state EXCEPT ![j] = "QUEUED"]
    /\ UNCHANGED <<attempts, preemptions, gpuOf, containerOf, closed, runs>>

\* A job that is not QUEUED any more makes mark_running raise ValueError and
\* change nothing: that outcome is LaunchRefused of SpotController.
MarkRunningTwice(j, g, c) ==    \* mutant: the attempt is counted twice
    /\ state[j] = "QUEUED"
    /\ state' = [state EXCEPT ![j] = "RUNNING"]
    /\ attempts' = [attempts EXCEPT ![j] = @ + 2]
    /\ gpuOf' = [gpuOf EXCEPT ![j] = g]
    /\ containerOf' = [containerOf EXCEPT ![j] = c]
    /\ runs' = [runs EXCEPT ![NextRun(j)] = "open"]
    /\ UNCHANGED <<preemptions, closed>>

MarkRunning(j, g, c) ==
    /\ state[j] = "QUEUED"
    /\ state' = [state EXCEPT ![j] = "RUNNING"]
    /\ attempts' = [attempts EXCEPT ![j] = @ + 1]
    /\ gpuOf' = [gpuOf EXCEPT ![j] = g]
    /\ containerOf' = [containerOf EXCEPT ![j] = c]
    /\ runs' = [runs EXCEPT ![NextRun(j)] = "open"]
    /\ UNCHANGED <<preemptions, closed>>

\* Mutant of MarkPreempting: without AND state = 'RUNNING'.
MarkPreemptingAnyState(j) ==
    /\ state' = [state EXCEPT ![j] = "PREEMPTING"]
    /\ UNCHANGED <<attempts, preemptions, gpuOf, containerOf, closed, runs>>

\* UPDATE ... WHERE id = ? AND state = 'RUNNING': no effect in another state.
MarkPreempting(j) ==
    /\ state' = [state EXCEPT ![j] = IF @ = "RUNNING" THEN "PREEMPTING" ELSE @]
    /\ UNCHANGED <<attempts, preemptions, gpuOf, containerOf, closed, runs>>

\* UPDATE ... WHERE id = ?, in whatever state the job is by now.
Fail(j) ==
    /\ state' = [state EXCEPT ![j] = "FAILED"]
    /\ closed' = [closed EXCEPT ![j] = TRUE]
    /\ UNCHANGED <<attempts, preemptions, gpuOf, containerOf, runs>>

\* The outcome and the new state finish() gives a run that ended with exit code
\* 0 (`clean`) or whose container is not there any more (`vanished`).
PreemptedIfVanished(j, vanished) == vanished   \* mutant: the state is not looked at
Preempted(j, vanished) == state[j] = "PREEMPTING" \/ vanished

FinishOutcome(j, clean, vanished) ==
    CASE state[j] = "CANCELLED"  -> "cancelled"
      [] state[j] # "CANCELLED" /\ Preempted(j, vanished) -> "preempted"
      [] state[j] # "CANCELLED" /\ ~Preempted(j, vanished) ->
            IF clean THEN "succeeded" ELSE "failed"

CountedInState(j, vanished) == IF state[j] = "PREEMPTING" THEN 1 ELSE 0    \* mutant
Counted(j, vanished) == IF Preempted(j, vanished) THEN 1 ELSE 0

FinishStateOneMore(j, clean, vanished) ==      \* mutant: > for >=
    CASE FinishOutcome(j, clean, vanished) = "cancelled" -> "CANCELLED"
      [] FinishOutcome(j, clean, vanished) = "preempted" ->
            IF attempts[j] > MaxAttempts THEN "FAILED" ELSE "QUEUED"
      [] FinishOutcome(j, clean, vanished) = "succeeded" -> "SUCCEEDED"
      [] FinishOutcome(j, clean, vanished) = "failed" -> "FAILED"

FinishState(j, clean, vanished) ==
    CASE FinishOutcome(j, clean, vanished) = "cancelled" -> "CANCELLED"
      [] FinishOutcome(j, clean, vanished) = "preempted" ->
            IF attempts[j] >= MaxAttempts THEN "FAILED" ELSE "QUEUED"
      [] FinishOutcome(j, clean, vanished) = "succeeded" -> "SUCCEEDED"
      [] FinishOutcome(j, clean, vanished) = "failed" -> "FAILED"

Finish(j, clean, vanished) ==
    LET new == FinishState(j, clean, vanished)
        row == <<j, attempts[j]>>
    IN  /\ state' = [state EXCEPT ![j] = new]
        /\ closed' = [closed EXCEPT ![j] = new # "QUEUED"]
        /\ preemptions' = [preemptions EXCEPT ![j] = @ + Counted(j, vanished)]
        /\ gpuOf' = [gpuOf EXCEPT ![j] = IF new = "QUEUED" THEN NoGpu ELSE @]
        /\ containerOf' = [containerOf EXCEPT ![j] =
                              IF new = "QUEUED" THEN NoContainer ELSE @]
        /\ runs' = [runs EXCEPT ![row] =
                       IF @ = "open" THEN FinishOutcome(j, clean, vanished) ELSE @]
        /\ UNCHANGED attempts

\* Cancelling closes only a queued job; a running one is closed by finish() once
\* its container is seen to have stopped.
Cancel(j) ==
    /\ state[j] \in {"QUEUED", "RUNNING", "PREEMPTING"}
    /\ state' = [state EXCEPT ![j] = "CANCELLED"]
    /\ closed' = [closed EXCEPT ![j] = @ \/ state[j] = "QUEUED"]
    /\ UNCHANGED <<attempts, preemptions, gpuOf, containerOf, runs>>

=============================================================================
