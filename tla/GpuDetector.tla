---------------------------- MODULE GpuDetector ----------------------------
(***************************************************************************)
(* GpuTracker (src/labgpu/spot/detector.py): what the controller remembers *)
(* of one GPU from tick to tick, and the verdict it draws from one more    *)
(* observation.  A tick of this module is one call of update(), made with  *)
(* whatever the GPU looks like by then; between two ticks `dt` seconds     *)
(* pass.  The controller takes `now` from time.time(), a wall clock, which *)
(* may leap ahead by more than has passed.  The lease of the GPU follows   *)
(* the verdicts the way the planner and the controller act on them.        *)
(*                                                                         *)
(* Seconds since last_active stand for last_active itself, up to the       *)
(* longest wait.  Memory is counted in coarse units.                       *)
(***************************************************************************)
EXTENDS Integers

CONSTANTS Owners,          \* owner containers that may be attached to the GPU
          Steps,           \* seconds that may pass between two ticks
          Leaps,           \* seconds the wall clock may leap ahead between two ticks
          IdleSeconds,     \* idle.idle_minutes, in seconds
          UnclaimedGrace,  \* idle.unclaimed_grace_seconds
          MemDelta,        \* idle.owner_mem_delta
          TotalMemory, MemReserve, MaxOwnerMemory

ASSUME DetectorAssumption ==
    /\ Steps \subseteq Nat \ {0} /\ Leaps \subseteq Nat /\ 0 \in Leaps
    /\ UnclaimedGrace \in Nat /\ IdleSeconds \in Nat
    /\ MemDelta \in Nat
    /\ TotalMemory \in Nat /\ MemReserve \in Nat /\ MaxOwnerMemory \in 0 .. TotalMemory

VARIABLES
    \* the tracker; `since` is -1 while there is none
    since,        \* now - last_active
    baseline,     \* mem_baseline
    prevOwners,   \* prev_owners
    \* the verdict of this tick, and what it was drawn from
    verdict,      \* GpuVerdict.state, and whether it is lendable or must be reclaimed
    seen,         \* the observation, or "missed"
    \* the lease that follows
    lease,        \* "none", "lent" or "reclaiming"
    limit,        \* memory limit of the spot job, 0 without a lease
    ownerAtLease, \* owner memory when the GPU was lent
    \* history
    unquiet,      \* seconds this GPU has been seen quiet without a gap
    watched,      \* since the last activity every tick saw this GPU, and no leap
    present,      \* per owner, seconds it has been attached without a gap
    lowest        \* least owner memory seen since the last activity

trackerVars == <<since, baseline, prevOwners>>
leaseVars   == <<lease, limit, ownerAtLease>>
historyVars == <<unquiet, watched, present, lowest>>
vars == <<trackerVars, verdict, seen, leaseVars, historyVars>>

\* GpuObservation.  `loud` is any of: owner SM utilisation or owner CPU over its
\* threshold, an unidentified process on the GPU.
Observations == [ok : {TRUE}, loud : BOOLEAN, owners : SUBSET Owners,
                 ownerMem : 0 .. MaxOwnerMemory, spotMem : 0 .. TotalMemory]
Failed == [ok |-> FALSE]
Missed == [ok |-> FALSE, missed |-> TRUE]

Free(o) == TotalMemory - o.ownerMem - o.spotMem
Spare(o) == IF Free(o) > MemReserve THEN Free(o) - MemReserve ELSE 0   \* lendable_memory

LongestWait == IF IdleSeconds > UnclaimedGrace THEN IdleSeconds ELSE UnclaimedGrace

GpuStates == {"BUSY", "IDLE", "LENDABLE", "LENT", "RECLAIMING", "UNKNOWN"}
Verdicts == [state : GpuStates, lendable : BOOLEAN, mustReclaim : BOOLEAN]

TypeOK ==
    /\ since \in -1 .. LongestWait
    /\ baseline \in 0 .. MaxOwnerMemory
    /\ prevOwners \subseteq Owners
    /\ verdict \in Verdicts
    /\ seen \in Observations \cup {Failed, Missed}
    /\ lease \in {"none", "lent", "reclaiming"}
    /\ limit \in 0 .. TotalMemory
    /\ ownerAtLease \in 0 .. MaxOwnerMemory
    /\ unquiet \in 0 .. LongestWait
    /\ watched \in BOOLEAN
    /\ present \in [Owners -> -1 .. LongestWait]
    /\ lowest \in 0 .. MaxOwnerMemory

Unknown == [state |-> "UNKNOWN", lendable |-> FALSE, mustReclaim |-> FALSE]

Init ==
    /\ since = -1 /\ baseline = 0 /\ prevOwners = {}
    /\ verdict = Unknown /\ seen = Missed
    /\ lease = "none" /\ limit = 0 /\ ownerAtLease = 0
    /\ unquiet = 0 /\ watched = TRUE /\ present = [w \in Owners |-> -1] /\ lowest = 0

-----------------------------------------------------------------------------
(* The tracker *)

Capped(n) == IF n > LongestWait THEN LongestWait ELSE n
Least(a, b) == IF a < b THEN a ELSE b

\* The tracker update() starts from: a new one is made from the observation itself.
BaseUnset(o) == IF since # -1 THEN baseline ELSE IF o.ok THEN o.ownerMem ELSE -1   \* mutant
Base(o)  == IF since # -1 THEN baseline ELSE IF o.ok THEN o.ownerMem ELSE 0
Known(o) == IF since # -1 THEN prevOwners ELSE IF o.ok THEN o.owners ELSE {}
Before(dt) == IF since # -1 THEN Capped(since + dt) ELSE 0

Activity(o) ==
    \/ o.loud
    \/ o.ownerMem > Base(o) + MemDelta
    \/ ~(o.owners \subseteq Known(o))

FollowUp(o) == o.ownerMem          \* mutant: the baseline follows every observation
NewBaseline(o) == IF Activity(o) THEN o.ownerMem ELSE Least(Base(o), o.ownerMem)

NoNewOwners(o) == prevOwners \cup o.owners       \* mutant: owners who left stay known
NewOwners(o) == o.owners

TimerKept(o, dt) == IF o.ok /\ Activity(o) THEN 0 ELSE Before(dt)   \* mutant: a failure does not reset
NewSince(o, dt) == IF ~o.ok \/ Activity(o) THEN 0 ELSE Before(dt)

Wait(o) == IF o.owners = {} THEN UnclaimedGrace ELSE IdleSeconds

WholeFree(o) == Free(o)            \* mutant: no reserve is kept
LendableMemory(o) == Spare(o)

Verdict(o, dt, blocked) ==
    LET lent == lease # "none"
        must == lease = "lent"
        V(s, l, m) == [state |-> s, lendable |-> l, mustReclaim |-> m]
        tight == Free(o) < MemReserve \div 2
    IN  CASE ~o.ok -> V("UNKNOWN", FALSE, must)
          [] o.ok /\ lent /\ (Activity(o) \/ tight \/ blocked \/ ~must) ->
                V("RECLAIMING", FALSE, must /\ (Activity(o) \/ tight \/ blocked))
          [] o.ok /\ lent /\ ~(Activity(o) \/ tight \/ blocked \/ ~must) -> V("LENT", FALSE, FALSE)
          [] o.ok /\ ~lent /\ Activity(o) -> V("BUSY", FALSE, FALSE)
          [] o.ok /\ ~lent /\ ~Activity(o) ->
                IF blocked \/ NewSince(o, dt) < Wait(o) \/ LendableMemory(o) <= 0
                THEN V("IDLE", FALSE, FALSE) ELSE V("LENDABLE", TRUE, FALSE)

-----------------------------------------------------------------------------
(* Ticks *)

\* An observation that is possible under the current lease: the limit is enforced.
Possible(o) == o.spotMem <= limit /\ o.ownerMem + o.spotMem <= TotalMemory
                 /\ (lease # "none" \/ o.spotMem = 0)

Remember(o, dt, leap) ==
    LET quiet == o.ok /\ ~Activity(o) /\ since # -1
    IN  /\ unquiet' = IF quiet THEN Capped(unquiet + dt) ELSE 0
        /\ watched' = (quiet => watched /\ leap = 0)
        /\ present' = IF ~o.ok THEN [w \in Owners |-> IF present[w] = -1 THEN -1 ELSE Capped(present[w] + dt)]
                      ELSE [w \in Owners |-> CASE w \notin o.owners -> -1
                                               [] w \in o.owners /\ present[w] = -1 -> 0
                                               [] w \in o.owners /\ present[w] # -1 -> Capped(present[w] + dt)]
        /\ lowest' = IF ~o.ok THEN (IF since = -1 THEN 0 ELSE lowest)
                     ELSE IF Activity(o) \/ since = -1 THEN o.ownerMem ELSE Least(lowest, o.ownerMem)

Update(o, dt, leap, blocked) ==
    /\ o.ok => Possible(o)
    /\ seen' = o
    /\ verdict' = Verdict(o, dt + leap, blocked)
    /\ since' = NewSince(o, dt + leap)
    /\ baseline' = IF o.ok THEN NewBaseline(o) ELSE Base(o)
    /\ prevOwners' = IF o.ok THEN NewOwners(o) ELSE Known(o)
    /\ Remember(o, dt, leap)
    /\ IF verdict'.mustReclaim
       THEN lease' = "reclaiming" /\ UNCHANGED <<limit, ownerAtLease>>
       ELSE UNCHANGED leaseVars

Tick == \E dt \in Steps, leap \in Leaps, o \in Observations \cup {Failed}, blocked \in BOOLEAN :
            Update(o, dt, leap, blocked)

\* The GPU is not in the NVML list of this tick, or the tick raised before it
\* came to the verdicts: no update() at all.
Miss ==
    /\ seen' = Missed
    /\ verdict' = Unknown
    /\ since' \in IF since = -1 THEN {-1} ELSE {Capped(since + dt) : dt \in Steps}
    /\ unquiet' = 0 /\ watched' = (since = -1)
    /\ lease' = IF lease = "lent" THEN "reclaiming" ELSE lease     \* no verdict: reclaimed
    /\ UNCHANGED <<baseline, prevOwners, limit, ownerAtLease, present, lowest>>

\* The planner lends a LENDABLE GPU in the same tick, with all the memory to spare.
Lend ==
    /\ verdict.lendable /\ lease = "none"
    /\ lease' = "lent" /\ limit' = LendableMemory(seen) /\ ownerAtLease' = seen.ownerMem
    /\ UNCHANGED <<trackerVars, verdict, seen, historyVars>>

EndLease ==
    /\ lease # "none"
    /\ lease' = "none" /\ limit' = 0 /\ ownerAtLease' = 0
    /\ UNCHANGED <<trackerVars, verdict, seen, historyVars>>

Next == Tick \/ Miss \/ Lend \/ EndLease

Spec == Init /\ [][Next]_vars

-----------------------------------------------------------------------------
(* Properties *)

\* Before a GPU is lent, it has been seen quiet for the whole wait: every tick of
\* that time had an observation, none failed, none showed activity (INTENT
\* principle 2: what is not known is not lent).  This is what the documents say;
\* it does not hold, since last_active stays where it is while nobody looks.
QuietBeforeLending == verdict.lendable => unquiet >= Wait(seen)

\* The same as far as the code goes: it holds when no tick of the wait passed this
\* GPU over and the clock did not leap.
QuietWhenWatched == verdict.lendable /\ watched => unquiet >= Wait(seen)

\* While an owner container is attached, the GPU is lent only when that container
\* has been attached for the whole idle time: a session that has just got the GPU
\* has it for itself, also when an earlier session of the same owner just left.
\* Again no tick may have passed the GPU over and the clock may not have leapt.
OwnersAreSettled == verdict.lendable /\ watched => \A w \in seen.owners : present[w] >= IdleSeconds

\* Owner memory creeping up in steps below the threshold is noticed as soon as
\* the sum of the steps is not: an observation with more than MemDelta above the
\* low point since the last activity is activity, whatever the ticks in between
\* looked like.
CreepIsNoticed ==
    [][seen'.ok /\ since # -1 /\ seen'.ownerMem > lowest + MemDelta =>
          verdict'.state \in {"BUSY", "RECLAIMING"}]_vars

\* A spot job inside its limit does not get itself reclaimed for memory: as long
\* as the owner uses no more than when the GPU was lent, half of the reserve is free.
SpotAloneKeepsItsGpu ==
    lease # "none" /\ seen.ok /\ seen.ownerMem <= ownerAtLease =>
        Free(seen) >= MemReserve \div 2

=============================================================================
