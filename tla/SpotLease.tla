----------------------------- MODULE SpotLease -----------------------------
(***************************************************************************)
(* What the spot controller promises, without containers, processes or     *)
(* ticks: a ledger of leases.  A lease <<gpu, job>> is granted to a job    *)
(* that is not over and has a grant left, on a GPU nobody leases; it ends  *)
(* only when its run is known to be gone; a job whose last grant is used   *)
(* up ends with it; a job that is over stays over and leases nothing.      *)
(***************************************************************************)
EXTENDS Integers

CONSTANTS Jobs, Gpus, MaxGrants

VARIABLES leases,    \* set of <<gpu, job>>
          granted,   \* leases granted to each job so far
          over       \* jobs that are finished for good

leaseVars == <<leases, granted, over>>

LeaseInit == leases = {} /\ granted = [j \in Jobs |-> 0] /\ over = {}

Grant(g, j) ==
    /\ j \notin over /\ granted[j] < MaxGrants
    /\ \A l \in leases : l[1] # g /\ l[2] # j
    /\ leases' = leases \cup {<<g, j>>}
    /\ granted' = [granted EXCEPT ![j] = @ + 1]
    /\ UNCHANGED over

\* The run of the lease is gone, and the job is over or waits for another one.
Return(g, j) ==
    /\ <<g, j>> \in leases
    /\ leases' = leases \ {<<g, j>>}
    /\ \/ over' = over \cup {j}
       \/ over' = over /\ granted[j] < MaxGrants
    /\ UNCHANGED granted

\* A job that holds no lease is cancelled, or cannot be started.
Abandon(j) ==
    /\ j \notin over
    /\ \A l \in leases : l[2] # j
    /\ over' = over \cup {j}
    /\ UNCHANGED <<leases, granted>>

LeaseNext == \E j \in Jobs : Abandon(j) \/ \E g \in Gpus : Grant(g, j) \/ Return(g, j)

LeaseSpec == LeaseInit /\ [][LeaseNext]_leaseVars

=============================================================================
