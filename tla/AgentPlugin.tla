---------------------------- MODULE AgentPlugin ----------------------------
(***************************************************************************)
(* The accelerator plugins of one Backend.AI agent                         *)
(* (src/labgpu/accelerator/plugin.py): they are loaded one after another,  *)
(* each claims the GPUs its selector matches, chooses its allocation mode, *)
(* and then turns allocations into the limits of session containers.       *)
(* Sessions outlive the agent: a restarted one books the running sessions  *)
(* again from their resource specs.                                        *)
(*                                                                         *)
(* A GPU is its NVML index, which is its device id; the allocation maps    *)
(* and the lifecycle of agent and sessions are Backend.AI's.               *)
(***************************************************************************)
EXTENDS FractionLimits, GpuClaims, Functions

CONSTANTS Sessions, Configs, Pids, MaxBoots, NoSession

Modes == {"fractional", "discrete"}    \* the slots <key>.shares and <key>.device

MemoryLimits == {MemoryLimit(share, Total[g]) : share \in 1 .. PerDevice, g \in Gpus}

\* What is kept of a session: its resource spec and the limits in its container.
SessionRecords ==
    [plugin : Plugins, slot : Modes, hooked : BOOLEAN,
     alloc : UNION {[D -> 0 .. PerDevice] : D \in SUBSET Gpus},
     env : [mem : UNION {[I -> MemoryLimits] : I \in SUBSET (0 .. Cardinality(Gpus))},
            sm : {NoLimit} \union (1 .. 100)]]

ASSUME AgentAssumption ==
    /\ Gpus \subseteq Nat /\ IsFiniteSet(Gpus) /\ IsFiniteSet(Sessions)
    /\ \A c \in Configs, p \in Plugins : c[p].mode \in Modes
    /\ NoClaim \notin [pid : Pids, owner : Plugins]
    /\ NoSession \notin SessionRecords
    /\ MaxBoots \in Nat
    /\ \A g \in Gpus : MiB * PerDevice <= Total[g]   \* the least share is worth a MiB

VARIABLES agent,      \* "down", "starting" or "serving"
          boot, pid,  \* which start of the agent this is, and its process id
          earlier,    \* history: process ids of earlier starts
          config,     \* the plugins' settings in etcd, as this process read them
          status, mode, enforced, devices,
          booked,     \* amounts in each plugin's allocation map
          sessions

vars == <<claims, agent, boot, pid, earlier, config, status, mode, enforced, devices,
          booked, sessions>>
pluginVars == <<claims, status, mode, enforced, devices>>

Statuses == {"new", "unset", "conflict", "failed", "disabled", "ready"}
Running == {s \in Sessions : sessions[s] # NoSession}
NothingBooked == [p \in Plugins |-> [g \in Gpus |-> 0]]

Init ==
    /\ claims = NoFiles
    /\ agent = "down" /\ boot = 0 /\ pid \in Pids /\ earlier = {}
    /\ config \in Configs
    /\ status = [p \in Plugins |-> "new"]
    /\ mode = [p \in Plugins |-> "fractional"]
    /\ enforced = [p \in Plugins |-> FALSE]
    /\ devices = [p \in Plugins |-> {}]
    /\ booked = NothingBooked
    /\ sessions = [s \in Sessions |-> NoSession]

-----------------------------------------------------------------------------
(* Loading the plugins.                                                    *)

\* Settings are read at init only.  While sessions run, an administrator may
\* change the modes, but not what plugins select.
StartAgent(c, n) ==
    /\ agent = "down" /\ boot < MaxBoots
    /\ Running # {} => \A p \in Plugins : c[p].sel = config[p].sel
    /\ agent' = "starting" /\ boot' = boot + 1
    /\ earlier' = IF boot = 0 THEN {} ELSE earlier \union {pid}
    /\ config' = c /\ pid' = n
    /\ status' = [p \in Plugins |-> "new"]
    /\ mode' = [p \in Plugins |-> c[p].mode]
    /\ enforced' = [p \in Plugins |-> FALSE]
    /\ devices' = [p \in Plugins |-> {}]
    /\ booked' = NothingBooked
    /\ UNCHANGED <<claims, sessions>>

Selected(p) == {g \in Gpus : Matches(config[p].sel, g)}

Ends(p, result) ==
    /\ agent = "starting" /\ status[p] = "new"
    /\ status' = [status EXCEPT ![p] = result]
    /\ UNCHANGED <<agent, boot, pid, earlier, config, booked, sessions>>

InitUnset(p) ==              \* PluginNotConfigured
    /\ ~config[p].key /\ Ends(p, "unset")
    /\ UNCHANGED <<claims, mode, enforced, devices>>

InitDisabled(p) ==           \* NVML or the nvidia runtime is not there
    /\ config[p].key /\ Ends(p, "disabled")
    /\ UNCHANGED <<claims, mode, enforced, devices>>

InitConflict(p) ==           \* GpuClaimConflict
    /\ config[p].key /\ Conflicts(p, pid, Selected(p)) # {}
    /\ Ends(p, "conflict")
    /\ UNCHANGED <<claims, mode, enforced, devices>>

InitFails(p) ==              \* OSError
    /\ config[p].key /\ ClaimFails(p, pid, Selected(p))
    /\ Ends(p, "failed")
    /\ UNCHANGED <<mode, enforced, devices>>

Trusting(wanted, hook) == wanted                  \* mutant: no demotion without the library
ModeFor(wanted, hook) == IF wanted = "fractional" /\ ~hook THEN "discrete" ELSE wanted

\* hook: the HAMi-core library is where p's settings say, at this moment.
InitReady(p, hook) ==
    /\ config[p].key /\ ClaimGpus(p, pid, Selected(p))
    /\ Ends(p, "ready")
    /\ mode' = [mode EXCEPT ![p] = ModeFor(config[p].mode, hook)]
    /\ enforced' = [enforced EXCEPT ![p] = config[p].mode = "fractional" /\ hook]
    /\ devices' = [devices EXCEPT ![p] = Selected(p)]

InitPlugin(p) ==
    \/ InitUnset(p) \/ InitDisabled(p) \/ InitConflict(p) \/ InitFails(p)
    \/ \E hook \in BOOLEAN : InitReady(p, hook)

\* The sessions restore_from_container books in p's new map.
NobodyIsBack(p) == {}                                         \* mutant: nothing is restored
Restorable(p) == {s \in Running : /\ sessions[s].plugin = p
                                  /\ sessions[s].slot = mode[p]}

Amount(s, g) == IF g \in DOMAIN sessions[s].alloc THEN sessions[s].alloc[g] ELSE 0
TotalAmount(S, g) == SumFunctionOnSet([s \in S |-> Amount(s, g)], S)

Serve ==
    /\ agent = "starting" /\ \A p \in Plugins : status[p] # "new"
    /\ agent' = "serving"
    /\ booked' = [p \in Plugins |-> [g \in Gpus |->
            IF status[p] # "ready" THEN 0
            ELSE TotalAmount(Restorable(p), g)]]
    /\ UNCHANGED <<pluginVars, boot, pid, earlier, config, sessions>>

-----------------------------------------------------------------------------
(* Sessions.                                                               *)

SharesOfAll(p) == PerDevice                        \* mutant: discrete devices have shares, too
Capacity(p) == IF mode[p] = "fractional" THEN PerDevice ELSE 1

\* Allocations Backend.AI's maps may hand out; devices with nothing may be named.
Allocations(p) ==
    {alloc \in [devices[p] -> 0 .. Capacity(p)] :
        /\ ActiveDevices(alloc) # {}
        /\ \A g \in devices[p] : booked[p][g] + alloc[g] <= Capacity(p)}

\* What the limits are computed from: a discrete device is a whole one.
Shares(p, alloc) ==
    IF mode[p] = "fractional" THEN alloc
    ELSE [g \in ActiveDevices(alloc) |-> PerDevice]

EnvironOf(p, alloc) ==
    HamiEnviron(IF enforced[p] THEN ComputeLimits(Shares(p, alloc), Total) ELSE <<>>)

StartSession(s, p, alloc) ==
    /\ agent = "serving" /\ status[p] = "ready" /\ s \notin Running
    /\ booked' = [booked EXCEPT ![p] =
            [g \in Gpus |-> @[g] + (IF g \in DOMAIN alloc THEN alloc[g] ELSE 0)]]
    /\ sessions' = [sessions EXCEPT ![s] =
            [plugin |-> p, slot |-> mode[p], alloc |-> alloc,
             env |-> EnvironOf(p, alloc), hooked |-> enforced[p]]]
    /\ UNCHANGED <<pluginVars, agent, boot, pid, earlier, config>>

EndSession(s) ==
    /\ s \in Running
    /\ sessions' = [sessions EXCEPT ![s] = NoSession]
    /\ booked' = LET p == sessions[s].plugin IN
            IF agent = "serving" /\ status[p] = "ready" /\ s \in Restorable(p)
            THEN [booked EXCEPT ![p] = [g \in Gpus |-> @[g] - Amount(s, g)]]
            ELSE booked
    /\ UNCHANGED <<pluginVars, agent, boot, pid, earlier, config>>

StopAgent ==
    /\ agent # "down" /\ agent' = "down"
    /\ UNCHANGED <<pluginVars, boot, pid, earlier, config, booked, sessions>>

Next ==
    \/ \E c \in Configs, n \in Pids : StartAgent(c, n)
    \/ \E p \in Plugins : InitPlugin(p)
    \/ Serve
    \/ \E s \in Sessions, p \in Plugins : \E alloc \in Allocations(p) : StartSession(s, p, alloc)
    \/ \E s \in Sessions : EndSession(s)
    \/ StopAgent

Spec == Init /\ [][Next]_vars

-----------------------------------------------------------------------------
(* Properties.                                                             *)

Attached(s) == ActiveDevices(sessions[s].alloc)
ShareOf(s, g) == IF sessions[s].slot = "discrete" THEN PerDevice ELSE sessions[s].alloc[g]
VisibleIndex(s, g) == Cardinality({e \in Attached(s) : e < g})  \* in the container, in NVML order
Bound(s, g) ==
    LET env == sessions[s].env IN
    IF sessions[s].hooked /\ VisibleIndex(s, g) \in DOMAIN env.mem
    THEN env.mem[VisibleIndex(s, g)] ELSE Total[g]

On(g) == {s \in Running : g \in Attached(s)}
Known(s) == LET p == sessions[s].plugin IN status[p] = "ready" /\ mode[p] = sessions[s].slot
AllKnown(g) == agent = "serving" /\ \A s \in On(g) : Known(s)

TypeOK ==
    /\ claims \in [Gpus -> {NoClaim} \union [pid : Pids, owner : Plugins]]
    /\ agent \in {"down", "starting", "serving"}
    /\ boot \in 0 .. MaxBoots /\ pid \in Pids /\ earlier \subseteq Pids
    /\ config \in Configs
    /\ status \in [Plugins -> Statuses]
    /\ mode \in [Plugins -> Modes] /\ enforced \in [Plugins -> BOOLEAN]
    /\ devices \in [Plugins -> SUBSET Gpus]
    /\ booked \in [Plugins -> [Gpus -> 0 .. PerDevice]]
    /\ sessions \in [Sessions -> {NoSession} \union SessionRecords]
    /\ \A s \in Running : LET mem == sessions[s].env.mem IN
           \A i \in DOMAIN mem : mem[i] > 0 /\ mem[i] % MiB = 0   \* "0m" is no limit

\* The sessions the agent knows of never have more than the whole of a GPU
\* between them, whatever was restarted, reinstalled or reconfigured before.
\* A session is unknown when its plugin did not load, or in another mode.
NoGpuOversubscribed ==
    \A g \in Gpus : AllKnown(g) =>
        SumFunctionOnSet([s \in On(g) |-> ShareOf(s, g)], On(g)) <= PerDevice

\* The book of a loaded plugin is what its running sessions hold in its slot:
\* restore_from_container neither forgets a session nor books a foreign slot.
BooksBalance ==
    agent = "serving" => \A p \in Plugins, g \in Gpus : status[p] = "ready" =>
        booked[p][g] = TotalAmount({s \in Running : sessions[s].plugin = p /\ Known(s)}, g)

\* No GPU belongs to two plugins of an agent, in whichever order they load,
\* whatever files former processes left (claim_gpus).
OneTakerPerGpu ==
    \A p, q \in Plugins : p # q => devices[p] \intersect devices[q] = {}

\* A plugin is refused only for a GPU that another one of this agent has taken
\* or was taking when it failed, unless the process id has been used before:
\* files hold nothing else.
ConflictsAreReal ==
    \A p \in Plugins : status[p] = "conflict" /\ pid \notin earlier =>
        \E q \in Plugins \ {p} :
            \/ devices[q] \intersect Selected(p) # {}
            \/ status[q] = "failed" /\ Selected(q) \intersect Selected(p) # {}

\* Whoever holds a part of a GPU has the library and a memory limit for it:
\* "fractions that cannot be enforced are never handed out" (plugin.init).
FractionsAreEnforced ==
    \A s \in Running : \A g \in Attached(s) : ShareOf(s, g) < PerDevice =>
        /\ sessions[s].hooked
        /\ VisibleIndex(s, g) \in DOMAIN sessions[s].env.mem

\* What the sessions of a GPU may allocate together fits into its memory.
MemoryLimitsFit ==
    \A g \in Gpus : AllKnown(g) =>
        SumFunctionOnSet([s \in On(g) |-> Bound(s, g)], On(g)) <= Total[g]

\* The limits reach the GPU they were computed for, by the number it has in
\* the container: its share of the memory, less the reserve and a MiB at most;
\* no limit for a whole GPU; and an SM limit that leaves every GPU its share.
LimitsHitTheirGpu ==
    \A s \in Running : sessions[s].hooked => \A g \in Attached(s) :
        LET env == sessions[s].env
            share == ShareOf(s, g)
        IN IF share < PerDevice
           THEN /\ Bound(s, g) * PerDevice <= share * Total[g]
                /\ (Bound(s, g) + Reserved + MiB) * PerDevice > share * Total[g]
                /\ env.sm * PerDevice >= 100 * share
           ELSE VisibleIndex(s, g) \notin DOMAIN env.mem

=============================================================================
