----------------------------- MODULE MCObserver -----------------------------
(***************************************************************************)
(* The ways sessions are attached: by cuda_frac, by the open cuda plugin   *)
(* with a number, to every GPU, through the runtime, and not at all but    *)
(* from an image that asks for every GPU.                                  *)
(***************************************************************************)
EXTENDS Observer, TLC

CONSTANTS g1, g2

Symmetry == Permutations(Pids)

MCInspects ==
    {[uuids |-> {g1}, requests |-> {g1}, visible |-> {All}, runtime |-> FALSE],
     [uuids |-> {}, requests |-> {0}, visible |-> {All}, runtime |-> FALSE],
     [uuids |-> {}, requests |-> {All}, visible |-> {}, runtime |-> FALSE],
     [uuids |-> {}, requests |-> {}, visible |-> {g2}, runtime |-> TRUE],
     [uuids |-> {}, requests |-> {}, visible |-> {All}, runtime |-> FALSE]}

=============================================================================
