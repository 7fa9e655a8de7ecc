----------------------------- MODULE GpuClaims -----------------------------
(***************************************************************************)
(* Which GPUs a plugin takes, and the claim files that keep two plugins of *)
(* one agent from taking the same GPU (src/labgpu/selection.py).  A file   *)
(* is named after the GPU's UUID, holds "<pid>:<plugin>" and outlives the  *)
(* process that wrote it.                                                  *)
(***************************************************************************)
EXTENDS Integers

CONSTANTS Gpus,        \* their NVML indices, which stand for their UUIDs, too
          Plugins,     \* entry-point names
          Total,       \* memory of each GPU, in bytes
          Model,       \* model of each GPU
          NoClaim      \* no file, or an empty one

ASSUME ClaimAssumption ==
    /\ Total \in [Gpus -> Nat \ {0}]
    /\ DOMAIN Model = Gpus

VARIABLE claims        \* contents of the claim files

NoFiles == [g \in Gpus |-> NoClaim]

\* GpuSelector.matches; the bounds include their ends.
Matches(sel, g) ==
    /\ g \notin sel.mask
    /\ sel.min <= Total[g] /\ Total[g] <= sel.max
    /\ Model[g] \in sel.models

ClaimedBy(p, pid, g) == claims[g] # NoClaim /\ claims[g].pid = pid /\ claims[g].owner # p

NoConflicts(p, pid, wanted) == {}        \* mutant: nobody looks at the files
AnyConflicts(p, pid, wanted) ==          \* mutant: files of earlier processes count
    {g \in wanted : claims[g] # NoClaim /\ claims[g].owner # p}
Conflicts(p, pid, wanted) == {g \in wanted : ClaimedBy(p, pid, g)}

\* All files are looked at before the first is written.
ClaimGpus(p, pid, wanted) ==
    /\ Conflicts(p, pid, wanted) = {}
    /\ claims' = [g \in Gpus |-> IF g \in wanted THEN [pid |-> pid, owner |-> p] ELSE claims[g]]

\* An OSError: the directory cannot be made, or one of the files, written in the
\* order of the GPUs' numbers, cannot: it is as it was, or empty.
ClaimFails(p, pid, wanted) ==
    \/ UNCHANGED claims
    \/ /\ Conflicts(p, pid, wanted) = {}
       /\ \E at \in wanted : \E content \in {claims[at], NoClaim} :
              claims' = [g \in Gpus |-> IF g \in wanted /\ g < at THEN [pid |-> pid, owner |-> p]
                                       ELSE IF g = at THEN content ELSE claims[g]]

=============================================================================
