----------------------------- MODULE MCPlanner -----------------------------
(***************************************************************************)
(* Planner on a few GPUs and jobs: the inputs for TLC.                     *)
(***************************************************************************)
EXTENDS Planner

Gpu(m, model, s) ==
    [listed |-> TRUE, lendable |-> m > 0, must |-> s = "lent" /\ m = 0, memory |-> m,
     model |-> model, spot |-> s]

\* A free GPU of either model, one that is not lendable, one without a verdict,
\* and lendable ones that are occupied all the same.
MCVerdicts ==
    {Gpu(1, "A", "none"), Gpu(2, "B", "none"), Gpu(0, "A", "lent"), Gpu(0, "B", "none"),
     Gpu(2, "A", "lent"), Gpu(2, "A", "reclaiming"),
     [Gpu(0, "A", "lent") EXCEPT !.listed = FALSE]}

MCRequests ==
    [priority : {0, 1}, submitted : {0, 1}, gpuMem : {0, 2}, ram : {1, 2}, models : {{}, {"B"}}]

\* Less than the reserve may be available.
MCBudgets == {-1, 1, 2, 3, 4}

=============================================================================
