-------------------------- MODULE SpotLease_proof --------------------------
(***************************************************************************)
(* SpotController implements SpotLease: every step is a grant, a return or *)
(* an abandonment of the ledger, or leaves the ledger alone.               *)
(***************************************************************************)
EXTENDS SpotInvariant_proof

USE SpotAssumption, ControllerAssumption DEF SpotAssumption, ControllerAssumption
USE DEF storeVars, dockerVars, scanVars, reclaimVars, launchVars, memoryVars, daemonVars,
        worldVars

\* The ledger as the database shows it.
Leases == {<<gpuOf[j], j>> : j \in Active}
Over   == {j \in Jobs : closed[j]}

\* A fresh database is an empty ledger.
LEMMA LeaseInitially == Init => Lease!LeaseInit
  BY DEF Init, StoreInit, Active, Lease!LeaseInit

\* The ledger depends on these columns only.
LEMMA LeaseFrame ==
    ASSUME Active' = Active, UNCHANGED <<gpuOf, attempts, closed>>
    PROVE  UNCHANGED Lease!leaseVars
  BY DEF Lease!leaseVars

\* A user's cancel of a queued job, or a launch that failed, ends a job without a lease.
LEMMA AbandonStep ==
    ASSUME IInv, NEW j \in Jobs, j \notin Active, Active' = Active,
           closed' = [closed EXCEPT ![j] = TRUE], UNCHANGED <<gpuOf, attempts>>
    PROVE  [Lease!LeaseNext]_(Lease!leaseVars)
  <1>1. CASE closed[j]
    <2>1. closed' = closed
      BY <1>1 DEF IInv, TypeOK, StoreTypeOK
    <2> QED
      BY <2>1, LeaseFrame
  <1>2. CASE ~closed[j]
    <2>1. Over' = Over \cup {j} /\ j \notin Over
      BY <1>2 DEF IInv, TypeOK, StoreTypeOK, Over
    <2>2. Leases' = Leases /\ \A l \in Leases : l[2] # j
      BY DEF Leases
    <2>3. Lease!Abandon(j)
      BY <2>1, <2>2 DEF Lease!Abandon, Leases, Over
    <2> QED
      BY <2>3 DEF Lease!LeaseNext
  <1> QED
    BY <1>1, <1>2

\* finish() returns the lease of the run.
LEMMA ReturnStep ==
    ASSUME IInv, NEW j \in Jobs, NEW how \in Ends, FinishRun(j, how)
    PROVE  [Lease!LeaseNext]_(Lease!leaseVars)
  <1> DEFINE new == FinishState(j, how = "exit0", how = "absent")
             g == gpuOf[j]
  <1>1. j \in Active /\ g \in Gpus /\ ~closed[j]
    BY ActiveFacts DEF IInv, FinishRun, TodoInv, TypeOK
  <1>2. /\ new \in {"QUEUED", "CANCELLED", "SUCCEEDED", "FAILED"}
        /\ new = "QUEUED" => attempts[j] < MaxAttempts
    <2>1. attempts[j] \in 0 .. MaxAttempts
      BY DEF IInv, TypeOK, StoreTypeOK
    <2> QED
      BY <2>1 DEF FinishState, FinishOutcome
  <1>3. /\ state' = [state EXCEPT ![j] = new]
        /\ closed' = [closed EXCEPT ![j] = new # "QUEUED"]
        /\ gpuOf' = [gpuOf EXCEPT ![j] = IF new = "QUEUED" THEN NoGpu ELSE @]
        /\ containerOf' = [containerOf EXCEPT ![j] =
                              IF new = "QUEUED" THEN NoContainer ELSE @]
        /\ UNCHANGED attempts
    BY DEF FinishRun, Finish
  <1> HIDE DEF new
  <1>4. Active' = Active \ {j}
    BY <1>1, <1>2, <1>3 DEF Active, IInv, TypeOK, StoreTypeOK
  <1>5. <<g, j>> \in Leases /\ Leases' = Leases \ {<<g, j>>}
    <2>1. \A k \in Active : k # j => gpuOf'[k] = gpuOf[k]
      BY <1>3 DEF Active, IInv, TypeOK, StoreTypeOK
    <2>2. Leases' = {<<gpuOf[k], k>> : k \in Active \ {j}}
      BY <1>4, <2>1 DEF Leases
    <2> QED
      BY <1>1, <2>2 DEF Leases
  <1>6. Over' = IF new = "QUEUED" THEN Over ELSE Over \cup {j}
    <2>1. \A k \in Jobs : closed'[k] <=> IF k = j THEN new # "QUEUED" ELSE closed[k]
      BY <1>3 DEF IInv, TypeOK, StoreTypeOK
    <2>2. CASE new = "QUEUED"
      BY <1>1, <2>1, <2>2 DEF Over
    <2>3. CASE new # "QUEUED"
      BY <2>1, <2>3 DEF Over
    <2> QED
      BY <2>2, <2>3
  <1>7. Lease!Return(g, j)
    BY <1>2, <1>3, <1>5, <1>6 DEF Lease!Return, Leases, Over
  <1> QED
    BY <1>1, <1>7 DEF Lease!LeaseNext

\* mark_running grants one, on a GPU that is leased to nobody.
LEMMA GrantStep ==
    ASSUME IInv, NEW j \in Jobs, NEW g \in Gpus,
           LaunchRecord, launching.job = j, launching.gpu = g
    PROVE  [Lease!LeaseNext]_(Lease!leaseVars)
  <1> DEFINE c == NextRun(j)
  <1>1. /\ state[j] = "QUEUED" /\ OnGpu(g) = {}
        /\ ~closed[j] /\ attempts[j] < MaxAttempts /\ j \notin Active
    BY DEF LaunchRecord, MarkRunning, IInv, TypeOK, DaemonTypeOK, Launchings, RowInv, Active,
           LaunchInv
  <1>2. /\ state' = [state EXCEPT ![j] = "RUNNING"]
        /\ attempts' = [attempts EXCEPT ![j] = @ + 1]
        /\ gpuOf' = [gpuOf EXCEPT ![j] = g]
        /\ containerOf' = [containerOf EXCEPT ![j] = c]
        /\ UNCHANGED closed
    BY DEF LaunchRecord, MarkRunning
  <1>3. Active' = Active \cup {j}
    BY <1>1, <1>2 DEF Active, IInv, TypeOK, StoreTypeOK
  <1>4. Leases' = Leases \cup {<<g, j>>}
    BY <1>1, <1>2, <1>3 DEF Leases, Active, IInv, TypeOK, StoreTypeOK
  <1>5. \A l \in Leases : l[1] # g /\ l[2] # j
    BY <1>1 DEF Leases, OnGpu
  <1>6. j \notin Over /\ Over' = Over
    BY <1>1, <1>2 DEF Over
  <1>7. Lease!Grant(g, j)
    BY <1>1, <1>2, <1>4, <1>5, <1>6 DEF Lease!Grant, Leases, Over
  <1> QED
    BY <1>7 DEF Lease!LeaseNext

\* Every step of the controller is a step of the ledger or leaves it alone.
LEMMA LeaseStep == IInv /\ [Next]_vars => [Lease!LeaseNext]_(Lease!leaseVars)
  <1> SUFFICES ASSUME IInv, [Next]_vars PROVE [Lease!LeaseNext]_(Lease!leaseVars)
    OBVIOUS
  <1> USE DEF IInv, TypeOK
  <1>f. ASSUME UNCHANGED storeVars PROVE UNCHANGED Lease!leaseVars
    BY <1>f, StoreFrame, LeaseFrame
  <1>1. CASE Observe \/ Plan \/ ReclaimStop \/ EndTick \/ EndRecover \/ Exit
    BY <1>1, <1>f DEF Observe, Plan, ReclaimStop, EndTick, EndRecover, Exit, Halt
  <1>2. CASE Reconcile
    BY <1>2, <1>f, ReturnStep DEF Reconcile, Archive
  <1>3. ASSUME NEW j \in Jobs, ReclaimMark(j) PROVE UNCHANGED Lease!leaseVars
    <2>1. Active' = Active
      BY <1>3 DEF ReclaimMark, MarkPreempting, Active, StoreTypeOK
    <2> QED
      BY <1>3, <2>1, LeaseFrame DEF ReclaimMark, MarkPreempting
  <1>4. CASE Launch
    <2>1. CASE LaunchFailed
      <3> DEFINE j == launching.job
      <3>1. /\ j \in Jobs /\ state[j] \in {"QUEUED", "CANCELLED"}
            /\ containerOf[j] = NoContainer
        BY <2>1 DEF LaunchFailed, LaunchInv, DaemonTypeOK, Launchings
      <3>2. j \notin Active /\ Active' = Active
        BY <2>1, <3>1 DEF LaunchFailed, Fail, Active, StoreTypeOK
      <3> QED
        BY <2>1, <3>1, <3>2, AbandonStep DEF LaunchFailed, Fail
    <2>2. CASE LaunchRecord
      BY <2>2, GrantStep DEF LaunchRecord, DaemonTypeOK, Launchings
    <2>3. CASE LaunchRefused \/ \E g \in Gpus, j \in Jobs : LaunchSkip(g, j) \/ LaunchRun(g, j)
      BY <2>3, <1>f DEF LaunchRefused, ReclaimAll, LaunchSkip, LaunchRun
    <2> QED
      BY <1>4, <2>1, <2>2, <2>3 DEF Launch
  <1>5. CASE TickError \/ Terminate \/ Crash \/ StopPost \/ Restart
    BY <1>5, <1>f DEF TickError, Terminate, ReclaimAll, Crash, Halt, StopPost, Restart
  <1>6. CASE World
    <2>1. ASSUME NEW j \in Jobs, UserSubmit(j) PROVE UNCHANGED Lease!leaseVars
      <3>1. Active' = Active
        BY <2>1 DEF UserSubmit, Submit, Active, StoreTypeOK
      <3> QED
        BY <2>1, <3>1, LeaseFrame DEF UserSubmit, Submit
    <2>2. ASSUME NEW j \in Jobs, UserCancel(j) PROVE [Lease!LeaseNext]_(Lease!leaseVars)
      <3>1. Active' = Active
        BY <2>2 DEF UserCancel, Cancel, Active, StoreTypeOK, RowInv
      <3>2. CASE state[j] = "QUEUED"
        <4>1. j \notin Active
          BY <3>2 DEF Active
        <4>2. closed' = [closed EXCEPT ![j] = TRUE]
          BY <2>2, <3>2 DEF UserCancel, Cancel, StoreTypeOK
        <4> QED
          BY <2>2, <3>1, <4>1, <4>2, AbandonStep DEF UserCancel, Cancel
      <3>3. CASE state[j] # "QUEUED"
        <4>1. closed' = closed
          BY <2>2, <3>3 DEF UserCancel, Cancel, StoreTypeOK
        <4> QED
          BY <2>2, <3>1, <4>1, LeaseFrame DEF UserCancel, Cancel
      <3> QED
        BY <3>2, <3>3
    <2>3. CASE SetHeld \/ DockerActs
                 \/ (\E g \in Gpus : OwnerToggles(g)) \/ (\E c \in Containers : StopEnds(c))
      BY <2>3, <1>f DEF SetHeld, OwnerToggles, StopEnds, DockerActs
    <2> QED
      BY <1>6, <2>1, <2>2, <2>3 DEF World
  <1>7. CASE UNCHANGED vars
    BY <1>7, <1>f DEF vars
  <1> QED
    BY <1>1, <1>2, <1>3, <1>4, <1>5, <1>6, <1>7 DEF Next, DaemonStep, Reclaim

\* The controller keeps the ledger of SpotLease, under every fault of the model: a GPU
\* is granted only when nobody leases it, a lease ends only with its run, a job
\* gets at most MaxAttempts of them and stays over once it is over.
THEOREM LeaseImplemented == Spec => LeaseRefined
  BY LeaseInitially, LeaseStep, InductiveInvariant, PTL DEF Spec, LeaseRefined, Lease!LeaseSpec

=============================================================================
