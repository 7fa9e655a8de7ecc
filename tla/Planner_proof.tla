--------------------------- MODULE Planner_proof ---------------------------
(***************************************************************************)
(* What plan() promises, for any number of GPUs and jobs and whatever they *)
(* ask for.  The invariant PlanInv says of the launches made so far and of *)
(* the GPUs already looked at what the properties say of the whole plan.   *)
(***************************************************************************)
EXTENDS Planner, FiniteSums

USE DEF Gpus, Jobs

Launched == {l[1] : l \in launches}

PlanType ==
    /\ gpu \in [Gpus -> Verdicts] /\ job \in [Jobs -> Requests]
    /\ initialBudget \in Int /\ budget \in Int
    /\ next \in 0 .. NumGpus + 1
    /\ launches \subseteq Gpus \X Jobs

\* What was launched was open, lies behind the loop, and is a matching.
Matching ==
    /\ \A l \in launches : Open(l[1]) /\ l[1] < next
    /\ \A k, l \in launches : k # l => k[1] # l[1] /\ k[2] # l[2]

\* The budget is what the launches have left of it.
Spent ==
    /\ budget + SumRam(Taken) = initialBudget
    /\ launches # {} => budget >= 0

NothingLeftBehind ==
    \A g \in Gpus, i \in Jobs \ Taken :
        enforced /\ g < next /\ Open(g) /\ g \notin Launched => ~Suits(i, g) \/ job[i].ram > budget

PlanInv == PlanType /\ Matching /\ Spent /\ OvertakenForAReason /\ NothingLeftBehind

-----------------------------------------------------------------------------
(* The queue: a strict order of the jobs, so that there is a first one.    *)

LEMMA GpuRange == NumGpus \in Nat /\ NumJobs \in Nat
  BY PlannerAssumption

LEMMA RequestType ==
    ASSUME PlanType, NEW j \in Jobs
    PROVE  /\ job[j].priority \in Int /\ job[j].submitted \in Nat
           /\ job[j].ram \in Nat /\ j \in Nat
  BY PlannerAssumption DEF PlanType

LEMMA QueueOrder ==
    ASSUME PlanType
    PROVE  /\ \A i, j \in Jobs : i # j => Precedes(i, j) \/ Precedes(j, i)
           /\ \A i, j \in Jobs : ~(Precedes(i, j) /\ Precedes(j, i))
           /\ \A i, j, k \in Jobs : Precedes(i, j) /\ Precedes(j, k) => Precedes(i, k)
  BY RequestType DEF Precedes

LEMMA FirstInLine ==
    ASSUME PlanType, NEW C \in SUBSET Jobs, C # {}
    PROVE  \E j \in C : \A i \in C \ {j} : Precedes(j, i)
  <1> DEFINE First(T) == \E j \in T : \A i \in T \ {j} : Precedes(j, i)
             B == {T \in SUBSET Jobs : T # {} /\ ~First(T)}
  <1>1. SUFFICES ASSUME B # {} PROVE FALSE
    OBVIOUS
  <1>2. PICK T \in B : \A U \in SUBSET T : U # T => U \notin B
    <2>1. B \in SUBSET SUBSET Jobs /\ IsFiniteSet(Jobs)
      BY GpuRange, FS_Interval
    <2> HIDE DEF B
    <2> QED
      BY <1>1, <2>1, LeastSubset, Zenon
  <1>3. PICK x \in T : TRUE
    OBVIOUS
  <1>4. T \ {x} # {}
    BY <1>2, <1>3
  <1>5. PICK b \in T \ {x} : \A i \in (T \ {x}) \ {b} : Precedes(b, i)
    <2> HIDE DEF First
    <2>1. T \ {x} \in SUBSET T /\ T \ {x} # T /\ T \ {x} \in SUBSET Jobs
      BY <1>2, <1>3
    <2>2. T \ {x} \notin B
      BY <1>2, <2>1
    <2>3. First(T \ {x})
      BY <1>4, <2>1, <2>2
    <2> QED
      BY <2>3 DEF First
  <1>6. b \in Jobs /\ x \in Jobs /\ T \subseteq Jobs
    BY <1>2, <1>3, <1>5
  <1>7. CASE Precedes(b, x)
    BY <1>2, <1>3, <1>5, <1>7
  <1>8. CASE Precedes(x, b)
    <2>1. \A i \in T \ {x} : Precedes(x, i)
      BY <1>5, <1>6, <1>8, QueueOrder
    <2> QED
      BY <1>2, <1>3, <2>1
  <1> QED
    BY <1>5, <1>6, <1>7, <1>8, QueueOrder

\* The job plan() chooses is the first of those that come into question.
LEMMA ChoiceIsFirst ==
    ASSUME PlanType, NEW g, Candidates(g) # {}
    PROVE  /\ Choice(g) \in Candidates(g)
           /\ \A i \in Candidates(g) \ {Choice(g)} : Precedes(Choice(g), i)
  <1>1. Candidates(g) \in SUBSET Jobs
    BY DEF Candidates
  <1>2. \E j \in Candidates(g) : \A i \in Candidates(g) \ {j} : Precedes(j, i)
    BY <1>1, FirstInLine
  <1> QED
    BY <1>2 DEF Choice

-----------------------------------------------------------------------------
(* The sums                                                                *)

LEMMA RamOfJobs ==
    ASSUME PlanType
    PROVE  /\ IsFiniteSet(Jobs) /\ \A j \in Jobs : Ram[j] = job[j].ram /\ Ram[j] \in Nat
           /\ Taken \subseteq Jobs /\ IsFiniteSet(Taken)
           /\ SumRam(Taken) \in Nat
  <1>1. IsFiniteSet(Jobs)
    BY GpuRange, FS_Interval
  <1>2. \A j \in Jobs : Ram[j] = job[j].ram /\ Ram[j] \in Nat
    BY RequestType DEF Ram
  <1>3. Taken \subseteq Jobs
    BY DEF Taken, PlanType
  <1>4. IsFiniteSet(Taken)
    BY <1>1, <1>3, FS_Subset
  <1>5. SumRam(Taken) \in Nat
    <2>1. \A j \in Taken : Ram[j] \in Nat
      BY <1>2, <1>3
    <2> QED
      BY <1>4, <2>1, SumIsNat DEF SumRam
  <1> QED
    BY <1>1, <1>2, <1>3, <1>4, <1>5

-----------------------------------------------------------------------------
(* The steps                                                               *)

LEMMA PlanInit == Init => PlanInv
  <1> SUFFICES ASSUME Init PROVE PlanInv
    OBVIOUS
  <1> USE DEF Init
  <1>1. PlanType
    BY GpuRange, PlannerAssumption DEF PlanType
  <1>2. Taken = {}
    BY DEF Taken
  <1>3. Spent
    BY <1>1, <1>2, SumOfNone DEF Spent, SumRam, PlanType
  <1> QED
    BY <1>1, <1>3 DEF PlanInv, Matching, OvertakenForAReason, NothingLeftBehind

\* Before the loop nothing is planned; without enforced limits nothing ever is.
LEMMA PlanReclaim == PlanInv /\ Reclaim => PlanInv'
  <1> SUFFICES ASSUME PlanInv, Reclaim PROVE PlanInv'
    OBVIOUS
  <1> USE DEF PlanInv, Reclaim, inputs
  <1>1. PlanType'
    BY GpuRange DEF PlanType
  <1>2. Taken' = Taken /\ Ram' = Ram /\ Launched' = Launched
    BY DEF Taken, Ram, Launched
  <1>3. Matching'
    BY DEF Matching, Open, PlanType
  <1>4. Spent'
    BY <1>2 DEF Spent, SumRam
  <1>5. OvertakenForAReason'
    BY <1>2 DEF OvertakenForAReason, TakenBefore, SumRam, Precedes, Suits
  <1>6. NothingLeftBehind'
    BY <1>2 DEF NothingLeftBehind, Open, Suits
  <1> QED
    BY <1>1, <1>3, <1>4, <1>5, <1>6

LEMMA PlanSkip == PlanInv /\ SkipGpu => PlanInv'
  <1> SUFFICES ASSUME PlanInv, SkipGpu PROVE PlanInv'
    OBVIOUS
  <1> USE DEF PlanInv, SkipGpu, inputs
  <1>1. PlanType'
    BY GpuRange DEF PlanType
  <1>2. Taken' = Taken /\ Ram' = Ram /\ Launched' = Launched
    BY DEF Taken, Ram, Launched
  <1>3. Matching'
    BY DEF Matching, Open, PlanType
  <1>4. Spent'
    BY <1>2 DEF Spent, SumRam
  <1>5. OvertakenForAReason'
    BY <1>2 DEF OvertakenForAReason, TakenBefore, SumRam, Precedes, Suits
  <1>6. NothingLeftBehind'
    <2> SUFFICES ASSUME NEW g \in Gpus, NEW i \in Jobs \ Taken, enforced, g < next + 1,
                        Open(g), g \notin Launched, Suits(i, g)
                 PROVE  job[i].ram > budget
      BY <1>2 DEF NothingLeftBehind, Open, Suits
    <2>1. CASE g < next
      BY <2>1 DEF NothingLeftBehind
    <2>2. CASE g = next
      <3>1. i \notin Candidates(g)
        BY <2>2
      <3> QED
        BY <3>1, RequestType DEF Candidates, PlanType
    <2> QED
      BY <2>1, <2>2 DEF PlanType
  <1> QED
    BY <1>1, <1>3, <1>4, <1>5, <1>6

LEMMA PlanLend == PlanInv /\ LendGpu => PlanInv'
  <1> SUFFICES ASSUME PlanInv, LendGpu PROVE PlanInv'
    OBVIOUS
  <1> DEFINE c == Choice(next)
  <1> USE DEF PlanInv
  <1>1. /\ c \in Jobs \ Taken /\ Suits(c, next) /\ job[c].ram <= budget
        /\ \A i \in Candidates(next) : i = c \/ Precedes(c, i)
    BY ChoiceIsFirst DEF LendGpu, Candidates
  <1>2. /\ next \in Gpus /\ Open(next)
        /\ launches' = launches \union {<<next, c>>}
        /\ budget' = budget - job[c].ram
        /\ next' = next + 1
        /\ UNCHANGED <<gpu, job, enforced, initialBudget, reclaims>>
    BY DEF LendGpu, BudgetAfter, inputs
  <1>3. job[c].ram \in Nat
    BY <1>1, RequestType
  <1> HIDE DEF c
  <1>4. PlanType'
    <2>1. budget' \in Int /\ next' \in 0 .. NumGpus + 1
      BY <1>2, <1>3, GpuRange DEF PlanType
    <2> QED
      BY <1>1, <1>2, <2>1 DEF PlanType
  <1>5. /\ Taken' = Taken \union {c} /\ Launched' = Launched \union {next}
        /\ Ram' = Ram /\ budget' <= budget
    <2>1. Taken' = Taken \union {c} /\ Launched' = Launched \union {next}
      <3>1. <<next, c>>[1] = next /\ <<next, c>>[2] = c
        OBVIOUS
      <3> QED
        BY <1>2, <3>1, Zenon DEF Taken, Launched
    <2>2. Ram' = Ram /\ budget' <= budget
      BY <1>2, <1>3 DEF Ram, PlanType
    <2> QED
      BY <2>1, <2>2
  <1>6. Matching'
    <2>1. \A l \in launches : l[1] # next /\ l[2] # c
      BY <1>1 DEF Matching, Taken, PlanType
    <2>2. \A l \in launches' : Open(l[1])' /\ l[1] < next'
      BY <1>2 DEF Matching, Open, PlanType
    <2>3. \A k, l \in launches' : k # l => k[1] # l[1] /\ k[2] # l[2]
      BY <1>2, <2>1 DEF Matching
    <2> QED
      BY <2>2, <2>3 DEF Matching
  <1>7. Spent'
    <2>1. SumRam(Taken)' = job[c].ram + SumRam(Taken)
      <3>1. SumFunctionOnSet(Ram, Taken \union {c}) = Ram[c] + SumFunctionOnSet(Ram, Taken)
        <4>1. \A j \in Taken \union {c} : Ram[j] \in Int
          BY <1>1, RamOfJobs
        <4> QED
          BY <1>1, <4>1, RamOfJobs, SumWith
      <3> QED
        BY <1>1, <1>5, <3>1, RamOfJobs DEF SumRam
    <2> QED
      BY <1>1, <1>2, <1>3, <2>1, RamOfJobs DEF Spent, PlanType
  <1>8. OvertakenForAReason'
    <2>1. /\ \A l \in launches : TakenBefore(l[1])' = TakenBefore(l[1])
          /\ {l[2] : l \in {k \in launches' : k[1] < next}} = Taken
      <3>1. ~(<<next, c>>[1] < next) /\ \A l \in launches : l[1] < next /\ ~(next < l[1])
        BY <1>2 DEF Matching, PlanType
      <3>2. <<next, c>>[1] = next
        OBVIOUS
      <3>3. \A l \in launches : {k \in launches' : k[1] < l[1]} = {k \in launches : k[1] < l[1]}
        BY <1>2, <3>1, <3>2
      <3>4. {k \in launches' : k[1] < next} = launches
        BY <1>2, <3>1
      <3> QED
        BY <3>3, <3>4 DEF TakenBefore, Taken
    <2> SUFFICES ASSUME NEW l \in launches', NEW i \in Jobs \ TakenBefore(l[1])',
                        Precedes(i, l[2]), Suits(i, l[1])
                 PROVE  job[i].ram > initialBudget - SumRam(TakenBefore(l[1]))'
      BY <1>2 DEF OvertakenForAReason, Precedes, Suits
    <2>2. CASE l \in launches
      <3>1. SumRam(TakenBefore(l[1]))' = SumRam(TakenBefore(l[1]))
        BY <1>5, <2>1, <2>2 DEF SumRam
      <3> QED
        BY <2>1, <2>2, <3>1 DEF OvertakenForAReason
    <2>3. CASE l = <<next, c>>
      <3>1. TakenBefore(l[1])' = Taken
        BY <1>2, <2>1, <2>3 DEF TakenBefore
      <3>2. i \notin Candidates(next)
        BY <1>1, <2>3, <3>1, QueueOrder
      <3>3. job[i].ram > budget
        BY <2>3, <3>1, <3>2, RequestType DEF Candidates, PlanType
      <3>4. SumRam(TakenBefore(l[1]))' = SumRam(Taken)
        BY <1>5, <3>1 DEF SumRam
      <3> QED
        BY <3>3, <3>4, RamOfJobs DEF Spent, PlanType
    <2> QED
      BY <1>2, <2>2, <2>3
  <1>9. NothingLeftBehind'
    <2> SUFFICES ASSUME NEW g \in Gpus, NEW i \in Jobs \ Taken, enforced, g < next + 1,
                        Open(g), g \notin Launched, g # next, Suits(i, g)
                 PROVE  job[i].ram > budget'
      BY <1>2, <1>5 DEF NothingLeftBehind, Open, Suits
    <2>1. job[i].ram > budget /\ job[i].ram \in Nat
      BY <1>2, RequestType DEF NothingLeftBehind, PlanType
    <2> QED
      BY <1>5, <2>1, <1>4 DEF PlanType
  <1> QED
    BY <1>4, <1>6, <1>7, <1>8, <1>9

THEOREM PlanInvariant == Spec => []PlanInv
  <1>1. PlanInv /\ [Next]_vars => PlanInv'
    <2> SUFFICES ASSUME PlanInv, [Next]_vars PROVE PlanInv'
      OBVIOUS
    <2>1. CASE Reclaim
      BY <2>1, PlanReclaim
    <2>2. CASE LendGpu
      BY <2>2, PlanLend
    <2>3. CASE SkipGpu
      BY <2>3, PlanSkip
    <2>4. CASE UNCHANGED vars
      <3>1. Taken' = Taken /\ Ram' = Ram /\ Launched' = Launched
        BY <2>4 DEF vars, inputs, Taken, Ram, Launched
      <3> QED
        BY <2>4, <3>1 DEF vars, inputs, PlanInv, PlanType, Matching, Spent, SumRam,
              OvertakenForAReason, TakenBefore, NothingLeftBehind, Open, Suits, Precedes
    <2> QED
      BY <2>1, <2>2, <2>3, <2>4 DEF Next
  <1> QED
    BY PlanInit, <1>1, PTL DEF Spec

-----------------------------------------------------------------------------
(* The properties of the plan                                              *)

\* plan() never gives one GPU two jobs or one job two GPUs, and none to a GPU with
\* a spot on it or without a verdict.
THEOREM EachGpuOneJob == Spec => []OneJobPerGpu
  <1>1. PlanInv => OneJobPerGpu
    BY DEF PlanInv, Matching, OneJobPerGpu, Open
  <1> QED
    BY <1>1, PlanInvariant, PTL

\* The launches of one tick add up to no more RAM than the budget plan() was given.
THEOREM BudgetIsKept == Spec => []RamIsKept
  <1>1. PlanInv => RamIsKept
    BY RamOfJobs DEF PlanInv, PlanType, Spent, RamIsKept
  <1> QED
    BY <1>1, PlanInvariant, PTL

\* Whoever is overtaken in the queue did not suit the GPU or asked for more RAM
\* than was left.
THEOREM BackfillIsFair == Spec => []OvertakenForAReason
  <1>1. PlanInv => OvertakenForAReason
    BY DEF PlanInv
  <1> QED
    BY <1>1, PlanInvariant, PTL

\* A GPU the plan leaves free is of no use to any job the plan leaves waiting.
THEOREM NoGpuIdles == Spec => []NothingLeftLying
  <1>1. PlanInv => NothingLeftLying
    BY GpuRange DEF PlanInv, NothingLeftBehind, NothingLeftLying, Done, Launched
  <1> QED
    BY <1>1, PlanInvariant, PTL

\* When every job suits every open GPU and all fit the RAM, the plan uses up the
\* GPUs or the queue: this is what SpotController takes plan() to do.
THEOREM PlanIsALaunchPlan == Spec => []PlanFillsUp
  <1>1. PlanInv => PlanFillsUp
    <2> SUFFICES ASSUME PlanInv, Done, enforced, SumRam(Jobs) <= initialBudget,
                        \A i \in Jobs, g \in Gpus : Open(g) => Suits(i, g),
                        Taken # Jobs
                 PROVE  Launched = {g \in Gpus : Open(g)}
      BY DEF PlanFillsUp, Launched
    <2>1. PlanType
      BY DEF PlanInv
    <2>2. PICK i \in Jobs : i \notin Taken
      BY <2>1, RamOfJobs
    <2>3. job[i].ram <= budget
      <3>1. \A j \in Jobs : Ram[j] \in Nat /\ Ram[j] \in Int
        BY <2>1, RamOfJobs
      <3>2. Taken \union {i} \in SUBSET Jobs /\ IsFiniteSet(Jobs) /\ IsFiniteSet(Taken)
        BY <2>1, <2>2, RamOfJobs
      <3>3. SumRam(Taken \union {i}) = job[i].ram + SumRam(Taken)
        BY <2>1, <2>2, <3>1, <3>2, SumWith, RamOfJobs DEF SumRam
      <3>4. SumRam(Taken \union {i}) <= SumRam(Jobs)
        BY <3>1, <3>2, SumOfSubset DEF SumRam
      <3>5. SumRam(Jobs) \in Nat
        BY <3>1, <3>2, SumIsNat DEF SumRam
      <3> QED
        BY <2>1, <3>3, <3>4, <3>5, RequestType, RamOfJobs DEF PlanInv, PlanType, Spent
    <2>4. ASSUME NEW g \in Gpus, Open(g), g \notin Launched PROVE FALSE
      <3>1. job[i].ram > budget
        BY <2>2, <2>4, GpuRange DEF PlanInv, NothingLeftBehind, Done
      <3> QED
        BY <2>1, <2>3, <3>1, RequestType DEF PlanType
    <2>5. \A g \in Launched : g \in Gpus /\ Open(g)
      BY DEF PlanInv, PlanType, Matching, Launched
    <2> QED
      BY <2>4, <2>5
  <1> QED
    BY <1>1, PlanInvariant, PTL

=============================================================================
