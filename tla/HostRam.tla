------------------------------ MODULE HostRam ------------------------------
(***************************************************************************)
(* The host memory of spot jobs: the budget a tick takes from MemAvailable *)
(* (Controller.tick, mem_available), what the planner subtracts from it,   *)
(* and the spot containers, each of which fills its `docker run --memory`  *)
(* in its own time.  Nothing else on the host changes its use of memory.   *)
(***************************************************************************)
EXTENDS Integers, FiniteSetsExt

CONSTANTS Jobs, Gpus,
          Ram,          \* of each job: its ram, or default_ram
          HostMemory,   \* MemAvailable without spot jobs, at least the reserve
          Reserve       \* host_ram_reserve

VARIABLES queue,    \* jobs that wait
          running,  \* jobs in a container, at most one per GPU
          use,      \* memory each job uses
          budget,   \* what is left of the tick's ram_budget
          lending   \* the tick is carrying out its launches

vars == <<queue, running, use, budget, lending>>

MemAvailable == HostMemory - MapThenSumSet(LAMBDA j : use[j], running)

Init ==
    /\ queue = Jobs /\ running = {}
    /\ use = [j \in Jobs |-> 0]
    /\ budget = 0 /\ lending = FALSE

ReadBudget ==
    /\ ~lending /\ lending' = TRUE
    /\ budget' = MemAvailable - Reserve
    /\ UNCHANGED <<queue, running, use>>

Lend(j) ==
    /\ lending /\ j \in queue
    /\ Cardinality(running) < Cardinality(Gpus)
    /\ Ram[j] <= budget
    /\ budget' = budget - Ram[j]
    /\ queue' = queue \ {j} /\ running' = running \union {j}
    /\ UNCHANGED <<use, lending>>

EndTick ==
    /\ lending /\ lending' = FALSE /\ budget' = 0
    /\ UNCHANGED <<queue, running, use>>

Grow(j) ==
    /\ j \in running /\ use[j] < Ram[j]
    /\ use' = [use EXCEPT ![j] = @ + 1]
    /\ UNCHANGED <<queue, running, budget, lending>>

End(j) ==
    /\ j \in running
    /\ running' = running \ {j} /\ use' = [use EXCEPT ![j] = 0]
    /\ UNCHANGED <<queue, budget, lending>>

Next == ReadBudget \/ EndTick \/ \E j \in Jobs : Lend(j) \/ Grow(j) \/ End(j)

Spec == Init /\ [][Next]_vars

\* Spot jobs always leave the host the memory it reserves for itself
\* ("host_ram_reserve", docs/SPEC.md section 2.2).
ReserveIsKept == MemAvailable >= Reserve

=============================================================================
