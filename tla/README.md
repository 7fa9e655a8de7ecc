# A verification project for labgpu

`labgpu` lends idle GPUs of a lab machine. Its core is the *spot controller*
(`src/src/labgpu/spot/`), a daemon that watches each GPU, starts a queued batch
job (a *spot*) on one whose owner has been quiet long enough, and takes the GPU
back as soon as the owner returns. Around it there are accelerator plugins for
the Backend.AI agent that divide GPUs into fractions.

The project models the protocol between daemon, database, docker, users and
systemd in one composed specification, and in modules of their own the idle
detector, the planner, the observer, the host's memory, and the accelerator
plugins with their GPU claims and fraction limits. TLC checks all of it on small
instances. TLAPS proves every safety property of a passing run for any number of
jobs, GPUs, attempts, sessions, processes and so on, and that the controller
implements the lease ledger; what is left to TLC alone is liveness.

Paths below are relative to `src/src/labgpu/spot/` unless they start with `src/`.

## 1. The system

| Component | State it keeps | Operations | Hard behaviour |
|---|---|---|---|
| **Job database** `jobs.py` | `jobs`, `runs`, `paused` tables in SQLite | `submit`, `mark_running`, `mark_preempting`, `fail`, `finish`, `cancel`, `set_paused`, each one `BEGIN IMMEDIATE` transaction | the daemon and any number of CLI processes write to it between each other's reads |
| **Controller** `daemon.py` | `trackers`, `stop_issued`, lost on restart | `tick` (observe, reconcile, verdicts, wanted stops, plan, reclaim, launch), `reclaim_all`, `run_forever` | single-threaded, but every docker command (up to 120 s) and every transaction lets others act in between; exceptions, SIGTERM, crashes at any step |
| **Docker adapter** `docker.py` | `_stoppers`, the unfinished `docker stop` clients | `run`, `owner_containers`, `spot_containers`, `stop_async`, `save_logs_and_remove`, `wait_stops` | refusals, timeouts with a late effect, failures nobody looks at, containers somebody else removes |
| **Idle detector** `detector.py` | per GPU: `last_active`, `mem_baseline`, `prev_owners` | `GpuTracker.update` | memory creep, sessions that come and go, failed and missing observations, thresholds |
| **Planner** `planner.py` | none | `plan` | priority order with backfill, RAM budget, boundaries |
| **Observer** `observer.py`, `src/src/labgpu/procmap.py` | none | `observe`, PID to container | processes that end while they are looked up; unknown processes |
| **Host** `hostinfo.py` | last CPU samples | `mem_available`, `CpuSampler` | RAM that is promised but not yet used |
| **CLI** `cli.py` | none | `submit`, `cancel`, `pause`, `resume`, `daemon`, `ls`, `status` | runs concurrently with the daemon |
| **systemd unit** `src/examples/labgpu-spot.service` | up or down | `Restart=on-failure`, `ExecStopPost`, `KillMode=mixed` | acts on containers behind the database's back |
| **Accelerator plugins** `src/src/labgpu/accelerator/`, `src/src/labgpu/devalloc.py` | mode, devices, the agent's allocation maps | `init`, `create_alloc_map`, `generate_docker_args`, `get_hooks`, `restore_from_container` | agent restarts with sessions running, in another mode or without the library |
| **GPU selection** `src/src/labgpu/selection.py` | claim files | `GpuSelector.matches`, `claim_gpus` | two plugins in one process, PIDs that come back, claims that fail midway |
| **Fraction limits** `src/src/labgpu/fraction.py` | none | `compute_limits`, `build_hami_environ` | rounding at the ends of the range, local indices |
| **Configuration** `config.py`, `jobspec.py`, `src/src/labgpu/sizes.py` | none | parse and validate | none worth a model |

**Interactions.** The controller reads NVML and docker through the observer,
gives the observations to the trackers, the verdicts and the database's queue to
the planner, and carries out the plan through docker and the database. The CLI
talks to the daemon through the database only (and a kill-switch file). Spot
containers outlive the daemon; it finds them again by label and name. systemd
stops the daemon, stops what is left running, and starts it again. Plugins and
controller share the GPUs but talk to each other through docker only: the
controller sees a plugin's sessions as owner containers, by the device UUIDs the
plugin has written into their environment. Two plugins of one agent meet in the
claim files.

**What makes each component correct**

* *Database and controller together*: a GPU is leased to one job; a job runs at
  most once at a time; the run history agrees with the rows; a reclaim never
  counts as a failure; final states are final; a clean exit leaves nothing
  running; owners get their GPU back; cancelled and preempted jobs are brought to
  an end; queued jobs get idle GPUs.
* *Detector*: no GPU is lent before the whole wait has been seen quiet, creeping
  memory is noticed, a spot does not cause its own reclaim.
* *Planner*: one job per GPU, the RAM budget of the tick is kept, overtaking has a
  reason, nothing suitable is left lying.
* *Observer*: no foreign use of a GPU passes for the spot's, an observation is of
  the GPU it is filed under, owners are counted and nobody else is, what is
  unidentified is so for a reason.
* *Host memory*: the reserve is kept (it is not, see section 4).
* *Plugins, claims and limits*: a GPU has one taker; a plugin is refused only for a
  real conflict; the books agree with the running sessions, also after a restart;
  no GPU is given out more than once over; whoever has a part of a GPU has a limit
  for that very GPU, and the limits fit into its memory.

`PROJECT.json` lists every hazard found, at its line, with the properties that
cover it or the reason why none does yet.

## 2. The modules

```
SpotBase ── JobStore ─────┐
        └── DockerEngine ─┴─ SpotController ── SpotProperties ── SpotInvariant ── MCSpotController
                                                  │ INSTANCE          │
                                               SpotLease      SpotInvariant_proof ── SpotProperties_proof
                                                                              └───── SpotLease_proof
GpuDetector ── GpuDetector_proof       Observer ─┬─ MCObserver       HostRam ── MCHostRam
                                                 └─ Observer_proof

    Planner ─┬─ MCPlanner              FractionLimits ─┬─ AgentPlugin ─┬─ MCAgentPlugin
             └─ Planner_proof               GpuClaims ─┘               └─ AgentPlugin_proof
FiniteSums ──┘  (and AgentPlugin_proof)
```

**SpotBase** names jobs, GPUs and containers. A container is the pair
`<<job, attempt>>`, because its name is `labgpu-spot-<job>-<attempt>`
(`docker.py:106`) and docker refuses a name that is taken.

**JobStore** is `jobs.py`: one variable per column the protocol depends on
(`closed` is `finished_at IS NOT NULL`), one operator per transaction. The
guards are those of the SQL: `mark_running` needs `QUEUED` (and otherwise raises,
see `LaunchRefused`), `mark_preempting` has no effect unless `RUNNING`, `fail` has
no guard at all. `finish` is split into the outcome of the run and the new state.

**DockerEngine** is what `docker.py` makes docker do: `Create` for `docker run`
(fails when the name exists, may create a container that exits at once, may
time out and start later), `StopAsync` and `StopTakesEffect` for the two ends of
`stop_async`, `StopFails`, `Remove`, and `StopEverything` for ExecStopPost.
`killed` is a history variable: containers that ended because they were stopped.

**SpotController** composes both with the daemon, its users and systemd.
`phase` is where the daemon's thread is. A tick is cut exactly where
others can act on what it has read:

| Step | Code | Cut because |
|---|---|---|
| `Observe` | `tick` 74-87: pause, listings, NVML | everything below uses these values although they age |
| `FinishRun`, `Archive` | `_reconcile`, one run or container at a time | a cancel can come between the listing and `finish` |
| `Plan` | 89-130: verdicts, wanted stops, `plan` | the list of active jobs ages during the reclaims |
| `ReclaimMark`, `ReclaimStop` | `_reclaim`: database, then docker | a crash in between |
| `LaunchRun`, then `LaunchRecord`, `LaunchFailed` or `LaunchRefused` | `_launch` | a cancel or a crash while `docker run` works |
| `EndTick` | end of `tick` | |
| `TickError`, `EndRecover` | `run_forever` 280-288 | any step may raise; so may `reclaim_all` |
| `Terminate`, `Exit` | 290-292, `wait_stops` | stops take effect meanwhile |
| `Crash`, `StopPost`, `Restart` | the unit | all memory is lost |

The constant `Faults` says which of these disturbances a run allows; the proofs
leave it open, so they hold for all of them. Data are abstracted to what the
properties tell apart: an observation of a GPU is one of five kinds, exit codes
are zero or not, time is polls since the last activity, capped at the wait. The
planner is replaced by *every* maximal assignment (`LaunchPlans`), or any
assignment when jobs may not fit; `PlanFillsUp` of Planner checks that a real plan
is one of them.

**SpotLease** is the abstract specification: a ledger of leases `<<gpu, job>>`
with three actions, `Grant`, `Return`, `Abandon`. SpotProperties instantiates it
with the active jobs as leases, `attempts` as grants and `closed` as over.

**SpotProperties** states the properties, **SpotInvariant** the inductive
invariants, **MCSpotController** the symmetry for TLC. The theorems about a module
are in its `_proof` module, with its inductive invariant unless TLC has checked that
one under the faults of a run (SpotInvariant). **FiniteSums** holds the lemmas about
sums over finite sets that two of them need.

**GpuDetector** is `GpuTracker`: `since` stands for `now - last_active` (-1: no
tracker), `baseline` and `prevOwners` for the other two fields, `Verdict` for the
decision table of `_decide`, in its order. The rules on SM utilisation, CPU and
unknown processes are one flag `loud`, since each is "a number above its
threshold in this very observation". Memory and time are small numbers.
The wall clock may leap ahead between two ticks (`Leaps`). `Miss` is a tick that
never comes to this GPU: it was not listed, or the tick raised before. The
history variables `unquiet`, `watched`, `present` and `lowest` record what really
happened, independently of the tracker's fields; `watched` says that since the
last activity no tick missed the GPU and the clock did not leap.

**Planner** is `plan()`: `Init` chooses the arguments, then the loop looks at one
GPU per step.

**Observer** is how a tick sees the machine. `_observe` and `observe()` read one
thing after another, and each reading is a step (`step`):

| Step | Code |
|---|---|
| `ListOwners`, `ListSpots` | `docker ps` and `inspect`, `parse_gpu_refs` |
| `ListGpus` | `NvmlReader.list_gpus` |
| `Snapshot` or `SnapshotFails` | `NvmlReader.snapshot` of one index, compared with the listed UUID |
| `Classify` | `map_pids` over `/proc`, then `build_observation` |
| `Blind` | one of the listings failed: the tick observes nothing |

Between any two of them the world moves: containers and processes start and end,
a process turns up on a GPU its container was never attached to, the driver
renumbers the GPUs. These moves and where docker attaches a container (`Given`)
are external. `ParseGpuRefs`, `ResolveGpuRefs`, `Kind` and `ContainerOfPid` are the
functions of the code, over references that are a UUID, an index or "all". `seen`
carries what was really so at the moment of the snapshot as history (`truth`), and
the properties compare the two. Memory and utilisation figures are left to
GpuDetector, which takes any.

**HostRam** is one question: the budget `MemAvailable - host_ram_reserve` of a
tick, what `plan()` takes from it, and spot containers that fill their `--memory`
in their own time, over any number of ticks.

**FractionLimits** is `fraction.py` as operators: shares count in quanta, fractions
are exact. **GpuClaims** is `selection.py`: `Matches` for the selector, `claims` for
the contents of the claim files, which outlive the process that wrote them.
`ClaimGpus` looks at all files before it writes the first, as the code does;
`ClaimFails` is the same with an OSError: the files before the one at fault are
written and stay.

**AgentPlugin** composes both with `LabGpuPlugin`. The plugins of an agent are
loaded one after another (`InitPlugin`), and `init` ends in one of five ways: no key
configured, NVML or runtime missing, a conflicting claim, a claim that fails midway,
or ready, where the fractional mode is demoted to whole GPUs if the HAMi-core library
is missing (`ModeFor`). Each plugin looks for the library at the path of its own
settings, so whether it is there is chosen anew for every plugin and start. `Serve` is `restore_from_container` for every plugin: it books the
running sessions that hold the slot of the plugin's present mode and no others.
`StartSession` combines the allocation (any that the capacities of
`create_alloc_map` allow), the limits, and the environment and hooks the container
gets; these stay with the session. `StopAgent` and `StartAgent` are the agent's
restarts: claims and sessions survive, everything else is read anew, with another
mode or process id if so chosen. A GPU is its NVML index, the plugins'
device id. The lifecycle of agent and sessions and the arithmetic inside the
allocation maps are Backend.AI's and external.

## 3. What TLC checks

| Run | Question | Bounds |
|---|---|---|
| `TwoJobs` | who holds which GPU, stops are recorded first, `stop_issued` is cleared with the run, clean exits, reclaims never fail a job, final states | 2 jobs, 2 GPUs, 1 attempt, 1 halt; cancels, SIGTERM, ticks that raise, docker listings that fail, vanishing containers; symmetry |
| `Retries` | one run at a time, history, preemption counts, refinement of SpotLease | 1 job, 1 GPU, 2 attempts, 1 halt, *every* fault; ticks of 1 or 2 polls against a wait of 2 |
| `Liveness` | owners and pauses get the GPU, stops complete, idle GPUs are lent | 1 job, 1 GPU, 2 attempts, 1 halt; cancel, pause, crash |
| `Detector` | quiet before lending, settled owners, creep, own reserve | 2 owners, ticks of 1 or 2 s, waits 1 and 3 s, leaps of 3 s, missed ticks; owner memory 0-3 of 7, reserve 4, threshold 1 |
| `Planner` | five properties of a plan | 2 GPUs of 7 kinds, 2 jobs of 32 kinds, budgets from negative to ample |
| `Agent` | claims, books and limits against what the sessions hold | 2 plugins, 3 GPUs of 2 models and 3 sizes, 2 sessions, 3 starts with 2 process ids; three divisions of the GPUs, two of them overlapping, in both modes |
| `Observer` | what a tick makes of a moving world | 2 GPUs, 1 owner with 5 kinds of attachment, 1 spot, 2 processes; any world before a tick, 2 moves during it |

Why the bounds are enough. The hazards of the protocol are about *two* parties
over one thing: two jobs for a GPU, two containers of a job, a cancel against a
launch, a crash against a stop. Two jobs or two attempts show each of them, and
the theorems of section 5 remove the bound for the properties they cover. One
halt (`MaxHalts`) is a crash or SIGTERM at any step followed by a whole new
daemon; the database and docker are all that survives it, and every reachable
pair of them is explored. Two attempts contain a first attempt that is retried and
a last one that is not. A wait of 2 polls with ticks of 1 or 2 has GPUs below, at
and above the wait. The detector's numbers are the smallest at which the sum
of two steps under the threshold is above it, half of the reserve differs from
the reserve and from zero, and the two waits differ, and a leap of 3 s is the whole
of the longer wait. Two jobs and two GPUs let a plan overtake, run out of RAM, run
out of GPUs and run out of jobs.

In `Agent`, a GPU's memory (15, 14, 30 with units of 4 and a reserve of 1) is no
multiple of the shares or the unit, so every rounding happens, down to the least
limit; with three GPUs a session can skip the one in the middle, which is what
local indices get wrong. Two sessions fill a GPU between them; of the three starts
the second finds the files and sessions of the first, the third may reuse the
first one's process id. The settings overlap in one GPU, at the inclusive end of
both memory ranges, or leave one plugin unset. In `Observer`, moves before a tick
are not bounded, so it starts from any world; one move is enough to make a reading
stale, and two make two readings stale or undo the first. Every kind of attachment
the code tells apart occurs, and every property is about one owner, spot or
process at a time.

Deadlock is checked in all of them but `Planner`, where a finished plan stops, and
`Agent`, where the bound on starts (`MaxBoots`) leaves the agent down.

**Fairness** (`Fairness` of SpotController, runs with `FairSpec` only).
`WF(DaemonStep)`: `run_forever` waits at most a poll interval and every docker
command has a timeout, so the thread's next step comes. `WF(StopEnds)`: `docker
stop` kills after the grace period. `WF(StopPost)` and `WF(RestartOnFailure)`:
systemd runs ExecStopPost and, with `Restart=on-failure`, restarts a unit that has
crashed; one that was terminated cleanly may stay down for ever. Nothing is
assumed of users, owners, jobs or faults. A container need never end by itself.
`OwnerGetsGpuBack` and `PauseGivesGpuBack` let the owner leave or the pause end
first.

Every property has a mutant in `PROJECT.json`: a plausible bug in the code it is
about, which makes the run fail. The operators of the mutants stand next to
the originals and are marked `mutant`.

## 4. Where the code and its documents disagree

Five runs expect a violation; TLC's trace is the evidence.

* **`LostStop`** - `stop_async` starts `docker stop` and never looks at how it
  ended, and `stop_issued` keeps the controller from trying again. If the command
  fails once, the owner never gets the GPU back while the daemon lives.
* **`LateCancel`** - `fail()` is the only transition without a guard on the state.
  A user's cancel while `docker run` is failing is overwritten: CANCELLED becomes
  FAILED.
* **`StopPostRace`** - ExecStopPost stops containers of jobs that are RUNNING in
  the database. After a crash the next daemon reads their exit code as the
  job's own and books FAILED, where the documents promise a retry.
* **`DetectorMissed`** - trackers are updated only for the GPUs of this tick's
  list. Time in which a GPU was not looked at counts as idle, and it may be lent at
  its first sighting.

* **`RamReserve`** - every tick takes its RAM budget from `MemAvailable` of that
  moment, where memory promised to a running spot but not touched yet still counts
  as available. It is promised again, and the reserve is gone when the spots grow.
  SPEC calls it what is always left; by the SPEC's own algorithm only the RAM given
  out in the same tick is subtracted.

Two more places where the code falls short of SPEC were met while modelling; the
properties are stated for what the code does keep, and no run of their own shows the
rest:

* SPEC 2.5 (`src/docs/SPEC.md:277`) starts a job only on a GPU without a spot, and 2.10
  (`:371`) has containers that no active job is connected with removed by `docker rm
  -f`. When that command fails, the container keeps running, but the planner knows
  occupied GPUs from the database only and lends its GPU again. `OneSpotPerGpu` does
  not hold with this fault (add `"rm-fails"` to the faults of `TwoJobs` and TLC finds a
  tick abandoned between `docker run` and `mark_running`, then a removal that fails,
  then a second job on the GPU); `TwoJobs` checks it without, and `OneSpotRuns` has it as a hypothesis.
* SPEC 2.10 (`:375`) has a normal exit take back *all* lent GPUs. A job cancelled during
  `docker run` leaves a container the database does not know. The next tick removes
  it; if SIGTERM comes first, the daemon exits cleanly and the container keeps the
  GPU, unless ExecStopPost is installed. `CleanExitReclaims` speaks only of the
  containers of active jobs, for which it holds.

Limits of the properties on which the documents say nothing else:

* When the mode changes or the library goes away while sessions run, their
  allocations are of a slot the restarted plugin no longer has, so it does not book
  them and their GPUs look free. The same holds for the sessions of a plugin that
  failed to load. `NoGpuOversubscribed` and `MemoryLimitsFit` speak of GPUs whose
  sessions are all known.
* A claim file of an earlier process with the same process id, or of a plugin of this
  process whose claim failed midway, refuses a GPU that nobody has.
  `ConflictsAreReal` excepts both.
* A container whose image sets `NVIDIA_VISIBLE_DEVICES=all`, and that has no GPU,
  counts as an owner of every GPU, so its CPU use keeps all of them from being
  lent. `OwnersAreAttached` excepts it; nobody loses a GPU by it.
* `OwnersAreCounted` is about the three ways of attachment the code reads (UUIDs of
  the plugin, device requests of the nvidia driver, the variable the nvidia runtime
  heeds). A GPU named by number is looked up in the numbering of the moment; numbers
  that have changed are excepted. Sessions with devices of two plugins and requests
  of other device drivers are not in the model.
* `OwnerGetsGpuBack` says that the owner gets the GPU back, not how soon: the `docker
  run`s of the same tick may come first.

## 5. What is proved

All proofs are checked by `tlapm`. `PROJECT.json` lists the theorems, with the
property of a run that each of them states for every value of the constants. Each
module's theorems rest on one inductive invariant, because no property is inductive
by itself; the properties then follow from it.

### The assumptions on constants

Each is named and stands in the module that declares the constants. Sets that stand
for things in the world (jobs, GPUs, sessions, processes) are arbitrary, finite where
something is counted, and null values are no elements of the sets they are added to. Beyond
that:

| Assumption | What it takes for granted | Why |
|---|---|---|
| `SpotAssumption`, `ControllerAssumption` | attempts and the wait are positive, `Faults` is any set of them | `max_attempts`, `idle` in `config.py` |
| `DetectorAssumption` | the thresholds are natural numbers, in any relation to each other; memory is bounded by the GPU's | a negative wait works like none; a negative threshold or reserve has no meaning |
| `PlannerAssumption` | types of verdicts and requests; the budget may be negative | `MemAvailable - host_ram_reserve` may be |
| `FractionAssumption`, `ClaimAssumption`, `AgentAssumption` | GPUs have their NVML index as id; the least share of every GPU is worth at least a MiB | the code does not check the second, but shares are given out in quanta of `quantum_size`, and for a share below a MiB `compute_limit` gives a limit of one MiB all the same, which is more than the share. `LimitsAreRight` and `MemoryIsNotOversubscribed` need it |
| `ObserverAssumption` | UUIDs, indices and "all" are different words; containers of owners and spots have different ids; there is a GPU; whoever has `LABGPU_DEVICE_UUIDS` has its device requests for the same GPUs | `generate_docker_args` (plugin.py:313-322) writes both from one list of limits. A session that set the variable by itself could name GPUs it does not have |

### The spot controller

Theorems about `Spec` of SpotController, for arbitrary `Jobs`, `Gpus`, `MaxAttempts`,
`IdleTicks`, `Elapsed`, `MaxHalts` and `Faults`.

**The inductive invariant** `IInv` (SpotInvariant, theorem `InductiveInvariant`). Why
each part is there:

* `RowInv` - the columns of a row agree: an active row names a GPU and the
  container of its *current* attempt; a queued one has an attempt left. Without
  it `finish` could write to another attempt's run.
* `PhaseInv`, `TodoInv` - what a tick still has to do exists only in its phase
  and is still true when it is done: a run to finish is still active and its
  container still ended, whatever the CLI did since the listing.
* `LaunchInv` - between the plan and `mark_running` nobody else can get the GPU:
  only the daemon grants leases. `OneLeasePerGpu` rests on this.
* `LiveInv` - a running container belongs to the current run of an active job,
  or is the *next* attempt of an inactive one, not recorded yet. `JobRunsOnce`
  follows: both attempts of a job can never run.
* `RunsMatchJobs`, `StopIssuedIsLive`, `TypeOK`, `OneLeasePerGpu` themselves.

From it follow `TypeCorrect`, `NoSharedLease`, `HistoryMatches`,
`RememberedStopsAreLive` and `NoDoubleRun`, under every fault.

`PreemptionsAreCounted` also holds under every fault. It is about two counts, the
column of a row and the rows of its history, and adds `CountInv`: they are equal as
long as the job is not cancelled with its container still on record. Each `finish`
changes both or neither, and the run it closes was open before (`RunsMatchJobs`), so
that the set of preempted runs grows by one element that was not in it.

**Under hypotheses on the environment.** Each is needed; the run or the limit
that shows it is named.

* `StopsRecordedFirst`, `NeverFailedByReclaim`: without ExecStopPost (`StopPostRace`).
  `StopInv` says that every stop is of a recorded run, of a job that is no longer
  RUNNING, and not booked as a failure.
* `CleanExit`: when `docker stop` neither fails nor outlasts `wait_stops`. `ShutdownInv`:
  while shutting down, every active container is stopped, being stopped or about to be.
* `OneSpotRuns`: when `docker rm` removes and no container starts after its `docker
  run` was given up (section 4). `TidyInv` follows a container through a tick: one that
  exists is on record with the GPU of its label, or was listed and is about to be
  removed (`ScanInv`); so when the plan is made, only containers on record are left, and
  what it launches finds its GPU and its name free (`FreeInv`), although jobs may be
  cancelled and containers end in between.
* `FinalStays`: when users cancel nothing, *or* `docker run` neither fails nor starts
  its container after it was given up, and `docker rm` always removes (`LateCancel` has
  a cancel and a `docker run` that fails). The only step that can overwrite a final state is the
  failure of a launch, and only of a job cancelled meanwhile (`WhoOverwrites`). That no
  launch fails when docker refuses none is not obvious: the name must be free, which
  is `TidyInv` again.

**Refinement.** `LeaseImplemented`: the controller implements the lease ledger,
`Spec => LeaseRefined`. Each action maps to `Grant` (`LaunchRecord`), `Return`
(`FinishRun`), `Abandon` (`LaunchFailed`, a cancel of a queued job) or a stutter.
In particular a lease ends only through `finish`, and a job that is over
never gets another one.

### The detector

`DetectorInv` ties the tracker's fields to what has really been seen, which the
model keeps as history: `TimerIsHonest` (without gap or leap the timer has run no
longer than the GPU was quiet, and no longer than each remembered owner has been
there), `BaselineIsLowest` (the baseline is the low point since the last activity, and the last
observation was not far above it), `LimitLeavesReserve` (limit, owner and reserve fit
into the GPU when the lease is made), and `WaitIsOver` (a verdict to lend rests on the
last observation). `WatchedGpusAreQuiet`, `OwnersHaveTheirTime` and
`SpotsDoNotDisturb` follow, and `CreepIsSeen` is about each step from a state where
it holds. The two waits need not be in any order.

### The planner

`PlanInv` says of the GPUs the loop has passed what the properties say of the whole
plan, and that the budget is what the launches have left of it (`Spent`), a sum over
the jobs taken. The heart of `BackfillIsFair` is that `sorted` gives a strict order
(`QueueOrder`), so that a set of candidates has a first one (`FirstInLine`); a job that
was overtaken did not fit the RAM that the launches before had left, which is what
the property says of that very moment.
`PlanIsALaunchPlan` connects the module to SpotController: where every job fits
everywhere, the plan is one of its `LaunchPlans`.

### The observer

`ObserverInv` says of each thing a tick remembers what has become of it in the
world: a listed container is still known with the references it was listed with
(`ListsAreCurrent`), a process of the snapshot is where it was or has ended
(`SnapshotIsCurrent`), and a GPU that has been observed is observed rightly
(`ObservationsAreRight`). That the list of GPUs may be old is harmless only because a
session attached by number is excepted once the numbering has changed. Every move
of the world keeps this (`WorldGoesOn`), however many there are between two readings.

### The plugins

`AgentInv` has three parts.

* `ProcessInv`: one agent and the claim files. Whatever a plugin of this process has
  taken bears its name and this process's id (`ClaimsStand`), and a claim that fails
  midway has not touched it; a plugin still to be loaded has taken nothing, so its
  claim cannot overwrite its own; conversely a file with an id that was not used
  before is of a plugin that took the GPU, or was taking it when it failed
  (`FilesAreOurs`). Two takers would be two contents of one file: `GpusHaveOneTaker`.
  The converse gives `RefusedForAReason`.
* `SessionInv`: what is kept of a session, over any number of restarts: it holds only
  what its plugin selects, and its limits were computed from that
  (`LimitsAreComputed`). With the arithmetic of `fraction.py` (`MemoryLimitIs`,
  `SmLimitIs`, for any sizes) and that the number of a device in the container is its
  own (`IndexIsOwn`), this gives `NoFractionUnenforced` and `LimitsAreRight`.
* `BookInv`: the sessions of a plugin in one slot never hold more than the slot's
  capacity of a GPU (`SlotsFit`), and the book of the present mode is the sum of what
  they hold (`BooksAreRight`): `BooksAreKept`. The first is about *every* mode, since
  sessions started in another one may come back.

`GpusAreNotOversubscribed` combines the three: known sessions of a GPU are all of its
one taker, in its present slot. `MemoryIsNotOversubscribed` adds that each limit is at
most the share's part of the memory, and sums in proportion.

### Sums

The sums over sessions and jobs are folds, and the induction theorems of the
library cannot be used here since they take an operator as a parameter. FiniteSums
does without: the strict subsets of a finite set are well-founded, so a nonempty
set of subsets has a least member (`LeastSubset`), and every induction is stated as
"the set of counterexamples is empty". From it follow that
`SumFunctionOnSet` exists and unfolds for any element (`SumUnfold`), its type, sums over
larger sets, equal and proportional sums, and the greatest element of a finite set
of integers.

### Only model-checked

`OwnerGetsGpuBack`, `PauseGivesGpuBack`, `StopsComplete` and `IdleGpuIsLent`: liveness
under fairness needs ENABLED, which is out of the prover's reach. The five
violations of section 4 are counterexamples, found by TLC.

## 6. Not modelled

* `DockerCli`'s parsing of JSON, configuration and job files (`config.py`,
  `jobspec.py`, `sizes.py`), `ls` and `status`: I/O and validation without protocol
  state.
* Statistics, metadata and slot formatting of the plugins, and the fake NVML
  reader for machines without GPUs: they change nothing.
* NVML's utilisation samples and `CpuSampler`: they end in numbers compared with a
  threshold, the detector's `loud` flag. In particular the model does not show that
  samples read by a tick that raises afterwards are lost to the next one.
* The rounding of `Decimal` at 28 digits, and `sm_limit = false`.
* A session with devices of two plugins. Each plugin counts the devices within the
  container by itself and writes the same environment variables; how the agent
  merges them is Backend.AI's code. The model has one plugin per session.
* Process ids used again within one tick of the controller.
* The end-to-end scripts: rigs for a real machine.
* How often a large job is overtaken: `plan()` has no ageing and promises none.

## 7. Plan

Done: every module of section 2; a theorem for every safety and action property that
a passing run checks, and for the refinement of SpotLease.

Next:

1. What is left of liveness below fairness: the safety half of `StopsComplete` and
   `OwnerGetsGpuBack` (a PREEMPTING job whose stop has been issued has a stop under
   way or an ended container, unless a stop has failed), as invariants that say where a
   counterexample would have to come from.
2. That the planner of SpotController is the one of Planner: `PlanIsALaunchPlan` is
   about one plan with fixed inputs; a refinement would map LaunchPlans to it.
3. The hypothesis of `OneSpotRuns` and `FinalStays` on failing removals is sufficient;
   whether `run-fails` alone, without cancels of the job being launched, can be
   admitted step by step instead of as a set of faults.
