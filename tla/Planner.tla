------------------------------ MODULE Planner ------------------------------
(***************************************************************************)
(* plan() of src/labgpu/spot/planner.py: which spots are reclaimed and     *)
(* which queued job each lendable GPU gets.  The inputs are chosen in      *)
(* Init; the loop over the GPUs, in the order of their UUIDs, is one step  *)
(* per GPU (GPUs and job ids are numbers, so their order is <).            *)
(***************************************************************************)
EXTENDS Integers, FiniteSets, Functions

CONSTANTS NumGpus, NumJobs,
          Verdicts,       \* what may be known of a GPU
          Requests,       \* what a job may ask for
          Budgets,        \* MemAvailable - host_ram_reserve
          DefaultGpuMem   \* DEFAULT_JOB_GPU_MEM

Gpus == 1 .. NumGpus
Jobs == 1 .. NumJobs

ASSUME PlannerAssumption ==
    /\ NumGpus \in Nat /\ NumJobs \in Nat /\ DefaultGpuMem \in Nat \ {0}
    /\ Budgets \subseteq Int
    /\ \A v \in Verdicts :      \* listed: does the detector have a verdict for it?
          v \in [listed : BOOLEAN, lendable : BOOLEAN, must : BOOLEAN, memory : Nat,
                 model : STRING, spot : {"none", "lent", "reclaiming"}]
    /\ \A r \in Requests :
          r \in [priority : Int, submitted : Nat, gpuMem : Nat, ram : Nat, models : SUBSET STRING]

VARIABLES
    gpu, job, enforced, initialBudget,   \* the arguments
    next,        \* the GPU the loop looks at
    budget,      \* what is left of the RAM budget
    launches,    \* <<gpu, job>>
    reclaims     \* GPUs whose spot is reclaimed

inputs == <<gpu, job, enforced, initialBudget>>
vars == <<inputs, next, budget, launches, reclaims>>

Init ==
    /\ gpu \in [Gpus -> Verdicts]
    /\ job \in [Jobs -> Requests]
    /\ enforced \in BOOLEAN
    /\ initialBudget \in Budgets
    /\ budget = initialBudget
    /\ next = 0 /\ launches = {} /\ reclaims = {}

\* A spot on a GPU that has no verdict or must be reclaimed, unless it is being
\* reclaimed already.
Reclaim ==
    /\ next = 0
    /\ reclaims' = {g \in Gpus : gpu[g].spot = "lent" /\ (~gpu[g].listed \/ gpu[g].must)}
    /\ next' = IF enforced THEN 1 ELSE NumGpus + 1
    /\ UNCHANGED <<inputs, budget, launches>>

-----------------------------------------------------------------------------

Taken == {l[2] : l \in launches}

\* Higher priority, then earlier submission, then lower id.
Precedes(i, j) ==
    \/ job[i].priority > job[j].priority
    \/ /\ job[i].priority = job[j].priority
       /\ \/ job[i].submitted < job[j].submitted
          \/ job[i].submitted = job[j].submitted /\ i < j

OpenUnreclaimed(g) ==                                                     \* mutant
    gpu[g].listed /\ gpu[g].lendable /\ gpu[g].spot # "lent"
Open(g) == gpu[g].listed /\ gpu[g].lendable /\ gpu[g].spot = "none"

Suits(j, g) ==
    /\ (IF job[j].gpuMem = 0 THEN DefaultGpuMem ELSE job[j].gpuMem) <= gpu[g].memory
    /\ job[j].models = {} \/ gpu[g].model \in job[j].models

CandidatesBelow(g) == {j \in Jobs \ Taken : Suits(j, g) /\ job[j].ram < budget}   \* mutant
Candidates(g) == {j \in Jobs \ Taken : Suits(j, g) /\ job[j].ram <= budget}

FirstInQueue(g) == CHOOSE j \in Candidates(g) : \A i \in Candidates(g) : j <= i   \* mutant: by id
Choice(g) == CHOOSE j \in Candidates(g) : \A i \in Candidates(g) \ {j} : Precedes(j, i)

WholeBudget(j) == budget            \* mutant: the RAM of this tick's launches is forgotten
BudgetAfter(j) == budget - job[j].ram

LendOnce ==                         \* mutant: the outer loop ends, too
    /\ next \in Gpus
    /\ Open(next) /\ Candidates(next) # {}
    /\ launches' = launches \cup {<<next, Choice(next)>>}
    /\ budget' = BudgetAfter(Choice(next))
    /\ next' = NumGpus + 1
    /\ UNCHANGED <<inputs, reclaims>>

LendGpu ==
    /\ next \in Gpus
    /\ Open(next) /\ Candidates(next) # {}
    /\ launches' = launches \cup {<<next, Choice(next)>>}
    /\ budget' = BudgetAfter(Choice(next))
    /\ next' = next + 1
    /\ UNCHANGED <<inputs, reclaims>>

SkipGpu ==
    /\ next \in Gpus
    /\ ~Open(next) \/ Candidates(next) = {}
    /\ next' = next + 1
    /\ UNCHANGED <<inputs, budget, launches, reclaims>>

Next == Reclaim \/ LendGpu \/ SkipGpu

Spec == Init /\ [][Next]_vars

-----------------------------------------------------------------------------
(* Properties of the finished plan *)

Done == next = NumGpus + 1

Ram == [j \in Jobs |-> job[j].ram]
SumRam(s) == SumFunctionOnSet(Ram, s)

\* No GPU with a spot on it, dying or not, gets another one, no GPU two, no job
\* two GPUs.
OneJobPerGpu ==
    /\ \A l \in launches : gpu[l[1]].spot = "none" /\ gpu[l[1]].listed
    /\ \A k, l \in launches : k # l => k[1] # l[1] /\ k[2] # l[2]

\* The jobs one tick launches together fit into the host RAM above the reserve.
RamIsKept == launches # {} => SumRam(Taken) <= initialBudget

\* The jobs that had a GPU when the loop came to g.
TakenBefore(g) == {l[2] : l \in {k \in launches : k[1] < g}}

\* Backfill overtakes a job that had no GPU yet, whether it gets another one later
\* or none, only when it could not have had this one: it does not suit it, or the
\* RAM left at that moment was not enough for it.
OvertakenForAReason ==
    \A l \in launches : \A i \in Jobs \ TakenBefore(l[1]) :
        Precedes(i, l[2]) /\ Suits(i, l[1]) =>
            job[i].ram > initialBudget - SumRam(TakenBefore(l[1]))

\* Nothing is left lying: a GPU that stays free at the end suits no waiting job
\* that the remaining RAM would carry, unless limits cannot be enforced at all.
NothingLeftLying ==
    Done /\ enforced => \A g \in Gpus, i \in Jobs \ Taken :
        Open(g) /\ g \notin {l[1] : l \in launches} =>
            ~Suits(i, g) \/ job[i].ram > budget

\* With nothing but the queue in the way (every job suits every open GPU and fits
\* the RAM), the plan is one of LaunchPlans of SpotController.
PlanFillsUp ==
    (Done /\ enforced /\ (\A i \in Jobs, g \in Gpus : Open(g) => Suits(i, g))
                      /\ SumRam(Jobs) <= initialBudget) =>
        {l[1] : l \in launches} = {g \in Gpus : Open(g)} \/ Taken = Jobs

=============================================================================
