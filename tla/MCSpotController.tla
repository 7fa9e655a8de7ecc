-------------------------- MODULE MCSpotController --------------------------
(***************************************************************************)
(* SpotController on small instances for TLC: the sets of jobs, GPUs and   *)
(* faults of the runs, and the symmetry of the safety runs.                *)
(***************************************************************************)
EXTENDS SpotInvariant, TLC

\* Jobs are interchangeable, and so are GPUs (the model does not order them).
Symmetry == Permutations(Jobs) \cup Permutations(Gpus)

=============================================================================
