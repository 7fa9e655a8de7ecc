------------------------------ MODULE Observer ------------------------------
(***************************************************************************)
(* How one tick sees the GPUs (src/labgpu/spot/observer.py, and what it    *)
(* reads: docker.py, nvml.py, procmap.py).  Owner containers, spot         *)
(* containers and GPUs are listed one after the other, then each GPU's     *)
(* processes are read, then the containers of these processes, while       *)
(* containers and processes come and go.                                   *)
(*                                                                         *)
(* Container ids are never reused, process ids not within a tick.          *)
(***************************************************************************)
EXTENDS Integers, FiniteSets, Functions

CONSTANTS Gpus, Owners, Spots, Pids,
          Inspects,      \* attachments an owner's `docker inspect` may show
          All,           \* the reference "all"
          Host,          \* where a process runs that is in no container
          None,
          MaxMoves       \* what may happen around a tick while it is under way

Indices == 0 .. Cardinality(Gpus) - 1
References == Gpus \union Indices \union {All}

Ended == [in |-> None, on |-> None]
OwnerRecords == [inspect : Inspects, has : SUBSET Gpus, moved : BOOLEAN, alive : BOOLEAN]
SpotRecords == [gpu : Gpus, running : BOOLEAN]

ASSUME ObserverAssumption ==
    /\ IsFiniteSet(Gpus) /\ Gpus # {} /\ MaxMoves \in Nat
    /\ Gpus \intersect Indices = {} /\ All \notin Gpus \union Indices
    /\ Owners \intersect Spots = {} /\ {Host, None} \intersect (Owners \union Spots) = {}
    /\ None \notin OwnerRecords \union SpotRecords \union {Ended}
    /\ \A i \in Inspects :
           /\ i.uuids \subseteq Gpus                \* LABGPU_DEVICE_UUIDS
           /\ i.requests \subseteq References       \* DeviceRequests of the nvidia driver
           /\ i.uuids # {} => i.requests = i.uuids  \* cuda_frac writes both, of the same GPUs
           /\ i.visible \subseteq References        \* NVIDIA_VISIBLE_DEVICES; {} for void, none
           /\ i.runtime \in BOOLEAN                 \* whether the nvidia runtime heeds it

VARIABLES
    numbering,  \* NVML's numbering of the GPUs
    owner,      \* per owner id: None, or what `docker inspect` shows, the GPUs it
                \* has, if they were renumbered under it, and if it is alive
    spot,       \* per spot id: None, or its label and if it runs
    process,    \* per pid: None, or its container and its GPU; Host and None once ended
    step,       \* what the tick does next
    listed,     \* running owners as listed, with their references
    spotGpu,    \* label of the spots listed as running
    gpuList, index, snap,
    seen,       \* observation of each GPU, None if there is none yet
    moves

world == <<numbering, owner, spot, process>>
tick  == <<step, listed, spotGpu, gpuList, index, snap, seen>>
vars  == <<world, tick, moves>>

Present(p) == process[p] \notin {None, Ended}
Alive(o) == owner[o] # None /\ owner[o].alive
Up(s) == spot[s] # None /\ spot[s].running

-----------------------------------------------------------------------------
(* What the readings mean.                                                 *)

AllTogether(i) == i.uuids \union i.requests \union i.visible   \* mutant: the image's wish counts too
UuidsOnly(i) == IF i.uuids # {} THEN i.uuids ELSE i.requests   \* mutant: no NVIDIA_VISIBLE_DEVICES
ParseGpuRefs(i) ==
    IF i.uuids # {} THEN i.uuids ELSE IF i.requests # {} THEN i.requests ELSE i.visible

UuidsAlone(refs, list) == refs \intersect Range(list)         \* mutant: numbers are not understood
ResolveGpuRefs(refs, list) ==
    IF All \in refs THEN Range(list)
    ELSE (refs \intersect Range(list)) \union {list[i] : i \in refs \intersect DOMAIN list}

OwnersOn(g) == {o \in DOMAIN listed : g \in ResolveGpuRefs(listed[o], gpuList)}

AnySpot(g, c) == IF c \in DOMAIN spotGpu THEN "spot"       \* mutant: wherever it was put
                 ELSE IF c \in OwnersOn(g) THEN "owner" ELSE "unknown"
Kind(g, c) ==
    IF c \in DOMAIN spotGpu THEN IF spotGpu[c] = g THEN "spot" ELSE "unknown"
    ELSE IF c \in OwnersOn(g) THEN "owner" ELSE "unknown"

\* map_pids: Host and processes that have ended have no container.
ContainerOfPid(p) == IF Present(p) THEN process[p].in ELSE None

-----------------------------------------------------------------------------
(* The tick.                                                               *)

Init ==
    /\ numbering \in Bijection(Indices, Gpus)
    /\ owner = [o \in Owners |-> None]
    /\ spot = [s \in Spots |-> None]
    /\ process = [p \in Pids |-> None]
    /\ step = "owners" /\ listed = <<>> /\ spotGpu = <<>> /\ gpuList = <<>>
    /\ index = 0 /\ snap = None
    /\ seen = [g \in Gpus |-> None]
    /\ moves = 0

Failed == [ok |-> FALSE]

ListOwners ==
    /\ step = "owners" /\ step' = "spots"
    /\ listed' = [o \in {o \in Owners : Alive(o)} |-> ParseGpuRefs(owner[o].inspect)]
    /\ UNCHANGED <<world, spotGpu, gpuList, index, snap, seen, moves>>

ListSpots ==
    /\ step = "spots" /\ step' = "gpus"
    /\ spotGpu' = [s \in {s \in Spots : Up(s)} |-> spot[s].gpu]
    /\ UNCHANGED <<world, listed, gpuList, index, snap, seen, moves>>

ListGpus ==
    /\ step = "gpus" /\ step' = "snapshot"
    /\ gpuList' = numbering
    /\ UNCHANGED <<world, listed, spotGpu, index, snap, seen, moves>>

\* Docker or NVML cannot be read: the whole tick is blind.
Blind ==
    /\ step \in {"owners", "spots", "gpus"} /\ step' = "done"
    /\ seen' = [g \in Gpus |-> Failed]
    /\ UNCHANGED <<world, listed, spotGpu, gpuList, index, snap, moves>>

OneMore ==                                         \* mutant: off by one
    /\ index' = index + 1
    /\ step' = IF index' <= Cardinality(Gpus) THEN "snapshot" ELSE "done"
Advance ==
    /\ index' = index + 1
    /\ step' = IF index' \in Indices THEN "snapshot" ELSE "done"

SameIdentity == numbering[index] = gpuList[index]
AnyIdentity == TRUE                               \* mutant: nobody compares the UUIDs

Compared == SameIdentity

\* The processes on GPU number `index`, whichever GPU that is by now.
Snapshot ==
    /\ step = "snapshot" /\ Compared
    /\ LET here == {p \in Pids : Present(p) /\ process[p].on = numbering[index]} IN
       snap' = [gpu |-> numbering[index], truth |-> [p \in here |-> process[p].in],
                attached |-> {o \in DOMAIN listed : /\ Alive(o) /\ ~owner[o].moved
                                                   /\ numbering[index] \in owner[o].has}]
    /\ step' = "pids"
    /\ UNCHANGED <<world, listed, spotGpu, gpuList, index, seen, moves>>

\* NVML fails, or the GPU has changed its identity.
SnapshotFails ==
    /\ step = "snapshot" /\ Advance
    /\ seen' = [seen EXCEPT ![gpuList[index]] = Failed]
    /\ UNCHANGED <<world, listed, spotGpu, gpuList, snap, moves>>

Classify ==
    /\ step = "pids" /\ Advance
    /\ LET g == gpuList[index] IN
       seen' = [seen EXCEPT ![g] =
           [ok |-> TRUE,
            kinds |-> [p \in DOMAIN snap.truth |-> Kind(g, ContainerOfPid(p))],
            owners |-> OwnersOn(g),
            truth |-> snap,                                  \* history, as the next one
            gone |-> {p \in DOMAIN snap.truth : ~Present(p)}]]
    /\ snap' = None
    /\ UNCHANGED <<world, listed, spotGpu, gpuList, moves>>

\* The tick is over; ids of what has ended may be used again by the next one.
NextTick ==
    /\ step = "done" /\ step' = "owners"
    /\ owner' = [o \in Owners |-> IF Alive(o) THEN owner[o] ELSE None]
    /\ spot' = [s \in Spots |-> IF Up(s) THEN spot[s] ELSE None]
    /\ process' = [p \in Pids |-> IF Present(p) THEN process[p] ELSE None]
    /\ listed' = <<>> /\ spotGpu' = <<>> /\ gpuList' = <<>> /\ index' = 0
    /\ seen' = [g \in Gpus |-> None] /\ moves' = 0
    /\ UNCHANGED <<numbering, snap>>

-----------------------------------------------------------------------------
(* The world around it.                                                    *)

Moves ==
    /\ step # "done"
    /\ step = "owners" \/ moves < MaxMoves
    /\ moves' = IF step = "owners" THEN moves ELSE moves + 1
    /\ UNCHANGED tick

\* Where docker attaches a container: the device requests, or what the nvidia
\* runtime makes of NVIDIA_VISIBLE_DEVICES.
Given(i) ==
    LET refs == IF i.requests # {} THEN i.requests ELSE IF i.runtime THEN i.visible ELSE {} IN
    {numbering[n] : n \in {n \in Indices : {All, n, numbering[n]} \intersect refs # {}}}

OwnerStarts(o, i) ==
    /\ Moves /\ owner[o] = None
    /\ owner' = [owner EXCEPT ![o] = [inspect |-> i, has |-> Given(i),
                                    moved |-> FALSE, alive |-> TRUE]]
    /\ UNCHANGED <<numbering, spot, process>>

SpotStarts(s, g) ==
    /\ Moves /\ spot[s] = None
    /\ spot' = [spot EXCEPT ![s] = [gpu |-> g, running |-> TRUE]]
    /\ UNCHANGED <<numbering, owner, process>>

EndAllOf(c) == process' = [p \in Pids |-> IF Present(p) /\ process[p].in = c THEN Ended ELSE process[p]]

OwnerEnds(o) ==
    /\ Moves /\ Alive(o)
    /\ owner' = [owner EXCEPT ![o].alive = FALSE]
    /\ EndAllOf(o) /\ UNCHANGED <<numbering, spot>>

SpotEnds(s) ==
    /\ Moves /\ Up(s)
    /\ spot' = [spot EXCEPT ![s].running = FALSE]
    /\ EndAllOf(s) /\ UNCHANGED <<numbering, owner>>

\* A process may turn up on any GPU, also where its container is not attached.
ProcessStarts(p, c, g) ==
    /\ Moves /\ process[p] = None
    /\ c = Host \/ (c \in Owners /\ Alive(c)) \/ (c \in Spots /\ Up(c))
    /\ process' = [process EXCEPT ![p] = [in |-> c, on |-> g]]
    /\ UNCHANGED <<numbering, owner, spot>>

ProcessEnds(p) ==
    /\ Moves /\ Present(p)
    /\ process' = [process EXCEPT ![p] = Ended]
    /\ UNCHANGED <<numbering, owner, spot>>

\* The driver counts anew: numbers in attachments no longer say where they are.
Numbered(o) == owner[o] # None /\ (owner[o].inspect.requests \union owner[o].inspect.visible)
                                      \intersect Indices # {}
Renumber(n) ==
    /\ Moves /\ n # numbering /\ numbering' = n
    /\ owner' = [o \in Owners |-> IF Numbered(o) THEN [owner[o] EXCEPT !.moved = TRUE] ELSE owner[o]]
    /\ UNCHANGED <<spot, process>>

TickStep == \/ ListOwners \/ ListSpots \/ ListGpus \/ Blind
            \/ Snapshot \/ SnapshotFails \/ Classify \/ NextTick

WorldStep ==
    \/ \E o \in Owners : OwnerEnds(o) \/ \E i \in Inspects : OwnerStarts(o, i)
    \/ \E s \in Spots : SpotEnds(s) \/ \E g \in Gpus : SpotStarts(s, g)
    \/ \E p \in Pids : \/ ProcessEnds(p)
                       \/ \E c \in Owners \union Spots \union {Host}, g \in Gpus : ProcessStarts(p, c, g)
    \/ \E n \in Bijection(Indices, Gpus) : Renumber(n)

Next == TickStep \/ WorldStep

Spec == Init /\ [][Next]_vars

-----------------------------------------------------------------------------
(* Properties.                                                             *)

Observed == {g \in Gpus : seen[g] # None /\ seen[g].ok}

TypeOK ==
    /\ numbering \in Bijection(Indices, Gpus)
    /\ owner \in [Owners -> {None} \union OwnerRecords]
    /\ spot \in [Spots -> {None} \union SpotRecords]
    /\ process \in [Pids -> {None, Ended} \union [in : Owners \union Spots \union {Host}, on : Gpus]]
    /\ step \in {"owners", "spots", "gpus", "snapshot", "pids", "done"}
    /\ DOMAIN listed \subseteq Owners /\ DOMAIN spotGpu \subseteq Spots
    /\ index \in 0 .. Cardinality(Gpus) /\ (step \in {"snapshot", "pids"} => index \in Indices)
    /\ moves \in 0 .. MaxMoves
    /\ \A g \in Observed : \A p \in DOMAIN seen[g].kinds : seen[g].kinds[p] \in {"owner", "spot", "unknown"}

\* Nobody's use of a GPU passes for the spot job lent to it: every process on
\* it that is not of a spot labelled with this very GPU counts against lending,
\* also when it or its container ended or moved while the tick was reading.
NothingHides ==
    \A g \in Observed : \A p \in Pids :
        LET c == seen[g].truth.truth[p] IN
        p \in DOMAIN seen[g].truth.truth /\ ~(c \in Spots /\ spot[c].gpu = g) =>
            /\ p \in DOMAIN seen[g].kinds
            /\ seen[g].kinds[p] \in {"owner", "unknown"}

\* An observation is of the GPU it is filed under, even if NVML has renumbered
\* the GPUs in the middle of the tick.
IdentityKept == \A g \in Observed : seen[g].truth.gpu = g

\* A session that holds the GPU from the listing to the snapshot is counted as its
\* owner, whether it has the GPU by LABGPU_DEVICE_UUIDS, by device requests of the
\* nvidia driver, or by an NVIDIA_VISIBLE_DEVICES that the runtime heeds, unless by
\* a number that has changed.
OwnersAreCounted == \A g \in Observed : seen[g].truth.attached \subseteq seen[g].owners

\* Who is counted as an owner is attached, or was by a number that has changed,
\* or only says so in an image's NVIDIA_VISIBLE_DEVICES that no runtime heeds.
OwnersAreAttached ==
    \A g \in Observed : \A o \in seen[g].owners :
        \/ g \in owner[o].has \/ owner[o].moved
        \/ LET i == owner[o].inspect IN i.uuids = {} /\ i.requests = {} /\ ~i.runtime

\* A process is unidentified only for a reason: it is the host's, it or its
\* container is not where docker was told to put it, it has ended since, or
\* its container is younger than the list it should be on.
UnknownForAReason ==
    \A g \in Observed : \A p \in DOMAIN seen[g].kinds :
        LET c == seen[g].truth.truth[p] IN
        seen[g].kinds[p] = "unknown" =>
            \/ c = Host
            \/ p \in seen[g].gone
            \/ c \in Owners /\ (g \notin owner[c].has \/ owner[c].moved \/ c \notin DOMAIN listed)
            \/ c \in Spots /\ (spot[c].gpu # g \/ c \notin DOMAIN spotGpu)

=============================================================================
