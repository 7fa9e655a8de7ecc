------------------------------ MODULE SpotBase ------------------------------
(***************************************************************************)
(* What the spot controller, its database and docker all talk about: jobs, *)
(* GPUs and containers.                                                    *)
(*                                                                         *)
(* A container is identified by the job and the attempt it was started     *)
(* for: `docker run --name labgpu-spot-<job>-<attempt>` makes two live     *)
(* containers of one attempt impossible, and no attempt number is used     *)
(* again once mark_running has recorded it.                                *)
(***************************************************************************)
EXTENDS Integers

CONSTANTS Jobs,          \* job ids
          Gpus,          \* GPU UUIDs
          MaxAttempts,   \* spot.max_attempts
          NoGpu,         \* no gpu_uuid
          NoContainer    \* no container

\* container_name
Containers == Jobs \X (1 .. MaxAttempts)

ASSUME SpotAssumption ==
    /\ MaxAttempts \in Nat \ {0}
    /\ NoGpu \notin Gpus
    /\ NoContainer \notin Containers

=============================================================================
