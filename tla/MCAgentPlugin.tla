--------------------------- MODULE MCAgentPlugin ---------------------------
(***************************************************************************)
(* Three GPUs of two models, the first and the last of the same model but  *)
(* of different memory, and three ways to divide them between cuda_frac    *)
(* and gpu_slot_1.                                                         *)
(***************************************************************************)
EXTENDS AgentPlugin, TLC

MCGpus == 0 .. 2
MCTotal == [g \in MCGpus |-> <<15, 14, 30>>[g + 1]]
MCModel == [g \in MCGpus |-> <<"A", "B", "A">>[g + 1]]

Setting(models, min, max, mask, m) ==
    [key |-> TRUE, mode |-> m,
     sel |-> [models |-> models, min |-> min, max |-> max, mask |-> mask]]
NoKey == [Setting({}, 0, 99, {}, "fractional") EXCEPT !.key = FALSE]

Divide(frac, slot) == [p \in Plugins |-> IF p = "cuda_frac" THEN frac ELSE slot]

\* Modes are what an administrator may change while sessions run.
MCConfigs ==
    UNION {{Divide(Setting({"A", "B"}, 0, 99, {1}, m), NoKey),                \* all but one
            Divide(Setting({"A"}, 0, 15, {}, m), Setting({"A"}, 15, 99, {}, m)),  \* overlap at 15
            Divide(Setting({"A"}, 0, 15, {}, "discrete"), Setting({"A", "B"}, 0, 99, {0}, m))}
           : m \in Modes}


Symmetry == Permutations(Sessions)

=============================================================================
