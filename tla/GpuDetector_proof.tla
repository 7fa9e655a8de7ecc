------------------------- MODULE GpuDetector_proof -------------------------
(***************************************************************************)
(* What the tracker of one GPU promises, for any thresholds and any number *)
(* of owners.  DetectorInv ties last_active, the baseline and the owners   *)
(* it remembers to what has really been seen.                              *)
(***************************************************************************)
EXTENDS GpuDetector, TLAPS

\* A verdict to lend rests on the last observation and the tracker as it is.
WaitIsOver ==
    verdict.lendable =>
        /\ seen \in Observations
        /\ since >= Wait(seen) /\ Spare(seen) > 0 /\ seen.spotMem = 0
        /\ prevOwners = seen.owners

\* The timer has run no longer than the GPU was quiet, and than its owners are there.
TimerIsHonest ==
    /\ since # -1 /\ watched => /\ unquiet >= since
                                /\ \A w \in prevOwners : present[w] >= since
    /\ \A w \in prevOwners : present[w] >= 0

\* The baseline is the low point, and no observation was far above it.
BaselineIsLowest ==
    since # -1 => baseline = lowest /\ (seen.ok => seen.ownerMem <= lowest + MemDelta)

\* The limit of a spot leaves the reserve to the owners of the GPU.
LimitLeavesReserve ==
    lease # "none" => /\ limit + ownerAtLease + MemReserve <= TotalMemory
                      /\ seen.ok => seen.spotMem <= limit

DetectorInv ==
    TypeOK /\ WaitIsOver /\ TimerIsHonest /\ BaselineIsLowest /\ LimitLeavesReserve

-----------------------------------------------------------------------------
LEMMA Thresholds ==
    /\ Steps \subseteq Nat \ {0} /\ Leaps \subseteq Nat
    /\ UnclaimedGrace \in Nat /\ IdleSeconds \in Nat
    /\ LongestWait \in Nat /\ LongestWait >= UnclaimedGrace /\ LongestWait >= IdleSeconds
    /\ MemDelta \in Nat /\ TotalMemory \in Nat /\ MemReserve \in Nat
    /\ MaxOwnerMemory \in 0 .. TotalMemory
  BY DetectorAssumption DEF LongestWait

LEMMA ObservationIs ==
    ASSUME NEW o \in Observations
    PROVE  /\ o.ok /\ o.owners \in SUBSET Owners
           /\ o.ownerMem \in 0 .. MaxOwnerMemory /\ o.spotMem \in 0 .. TotalMemory
           /\ o.ownerMem \in Nat /\ o.spotMem \in Nat
           /\ Free(o) = TotalMemory - o.ownerMem - o.spotMem /\ Free(o) \in Int
           /\ Spare(o) \in 0 .. TotalMemory
           /\ Spare(o) > 0 => Spare(o) = Free(o) - MemReserve
           /\ Wait(o) \in Nat
  <1>1. /\ o.ok /\ o.owners \in SUBSET Owners
        /\ o.ownerMem \in 0 .. MaxOwnerMemory /\ o.spotMem \in 0 .. TotalMemory
    BY DEF Observations
  <1> QED
    BY <1>1, Thresholds DEF Free, Spare, Wait

\* What there is to know of a verdict.
LEMMA VerdictIs ==
    ASSUME NEW o \in Observations \union {Failed}, NEW dt \in Nat, NEW blocked \in BOOLEAN
    PROVE  LET v == Verdict(o, dt, blocked)
           IN  /\ v \in Verdicts
               /\ v.lendable => /\ o.ok /\ ~Activity(o) /\ lease = "none"
                                /\ ~(NewSince(o, dt) < Wait(o)) /\ ~(Spare(o) <= 0)
               /\ v.mustReclaim => lease = "lent"
               /\ o.ok /\ Activity(o) => v.state \in {"BUSY", "RECLAIMING"}
  <1> DEFINE v == Verdict(o, dt, blocked)
             tight == Free(o) < MemReserve \div 2
             V(s, l, m) == [state |-> s, lendable |-> l, mustReclaim |-> m]
  <1>1. CASE ~o.ok
    <2> DEFINE m == lease = "lent"
    <2>1. v = V("UNKNOWN", FALSE, m)
      BY <1>1 DEF Verdict
    <2>2. m \in BOOLEAN /\ (m => lease = "lent")
      OBVIOUS
    <2> HIDE DEF m, v
    <2> QED
      BY <1>1, <2>1, <2>2 DEF Verdicts, GpuStates, v
  <1>2. CASE o.ok /\ lease # "none" /\ (Activity(o) \/ tight \/ blocked \/ lease # "lent")
    <2> DEFINE m == lease = "lent" /\ (Activity(o) \/ tight \/ blocked)
    <2>1. v = V("RECLAIMING", FALSE, m)
      BY <1>2 DEF Verdict
    <2>2. m \in BOOLEAN /\ (m => lease = "lent")
      OBVIOUS
    <2> HIDE DEF m, v
    <2> QED
      BY <1>2, <2>1, <2>2 DEF Verdicts, GpuStates, v
  <1>3. CASE o.ok /\ lease # "none" /\ ~(Activity(o) \/ tight \/ blocked \/ lease # "lent")
    <2>1. v = V("LENT", FALSE, FALSE)
      BY <1>3 DEF Verdict
    <2> QED
      BY <1>3, <2>1 DEF Verdicts, GpuStates
  <1>4. CASE o.ok /\ lease = "none" /\ Activity(o)
    <2>1. v = V("BUSY", FALSE, FALSE)
      BY <1>4 DEF Verdict
    <2> QED
      BY <1>4, <2>1 DEF Verdicts, GpuStates
  <1>5. CASE o.ok /\ lease = "none" /\ ~Activity(o)
    <2>1. v = IF blocked \/ NewSince(o, dt) < Wait(o) \/ LendableMemory(o) <= 0
              THEN V("IDLE", FALSE, FALSE) ELSE V("LENDABLE", TRUE, FALSE)
      BY <1>5 DEF Verdict
    <2> QED
      BY <1>5, <2>1 DEF Verdicts, GpuStates, LendableMemory
  <1> QED
    BY <1>1, <1>2, <1>3, <1>4, <1>5

-----------------------------------------------------------------------------
(* One update().                                                           *)

LEMMA NoVerdictNoLease ==
    /\ Failed.ok = FALSE /\ Missed.ok = FALSE /\ Unknown.lendable = FALSE
    /\ Unknown \in Verdicts
  BY DEF Failed, Missed, Unknown, Verdicts, GpuStates

LEMMA TrackerTypes ==
    ASSUME TypeOK, NEW dt \in Nat, NEW o \in Observations \union {Failed}
    PROVE  /\ Base(o) \in 0 .. MaxOwnerMemory /\ Known(o) \in SUBSET Owners
           /\ Before(dt) \in 0 .. LongestWait /\ NewSince(o, dt) \in 0 .. LongestWait
           /\ o.ok => NewBaseline(o) \in 0 .. MaxOwnerMemory
           /\ o.ok => o \in Observations
  <1>1. o.ok => o \in Observations
    BY NoVerdictNoLease
  <1>2. o.ok => o.ownerMem \in 0 .. MaxOwnerMemory /\ o.owners \in SUBSET Owners
    BY <1>1, ObservationIs
  <1>3. Base(o) \in 0 .. MaxOwnerMemory /\ Known(o) \in SUBSET Owners
    BY <1>2, Thresholds DEF Base, Known, TypeOK
  <1>4. Before(dt) \in 0 .. LongestWait
    BY Thresholds DEF Before, Capped, TypeOK
  <1>5. NewSince(o, dt) \in 0 .. LongestWait
    BY <1>4, Thresholds DEF NewSince
  <1>6. o.ok => NewBaseline(o) \in 0 .. MaxOwnerMemory
    BY <1>2, <1>3, Thresholds DEF NewBaseline, Least
  <1> QED
    BY <1>1, <1>3, <1>4, <1>5, <1>6

\* A quiet tick: the timer goes on.
Quiet(o) == o.ok /\ ~Activity(o) /\ since # -1

LEMMA UpdateInv ==
    ASSUME DetectorInv, NEW dt \in Steps, NEW leap \in Leaps,
           NEW o \in Observations \union {Failed}, NEW blocked \in BOOLEAN,
           Update(o, dt, leap, blocked)
    PROVE  DetectorInv'
  <1> DEFINE n == dt + leap
             Stays(w) == IF ~o.ok THEN IF present[w] = -1 THEN -1 ELSE Capped(present[w] + dt)
                         ELSE IF w \notin o.owners THEN -1
                         ELSE IF present[w] = -1 THEN 0 ELSE Capped(present[w] + dt)
  <1>1. TypeOK /\ dt \in Nat \ {0} /\ leap \in Nat /\ n \in Nat
    BY Thresholds DEF DetectorInv
  <1>2. /\ verdict' \in Verdicts
        /\ verdict'.lendable => /\ o.ok /\ ~Activity(o) /\ lease = "none"
                                /\ ~(NewSince(o, n) < Wait(o)) /\ ~(Spare(o) <= 0)
        /\ verdict'.mustReclaim => lease = "lent"
    BY <1>1, VerdictIs DEF Update
  <1>3. /\ seen' = o /\ (o.ok => Possible(o))
        /\ since' = NewSince(o, n)
        /\ baseline' = IF o.ok THEN NewBaseline(o) ELSE Base(o)
        /\ prevOwners' = IF o.ok THEN o.owners ELSE Known(o)
        /\ limit' = limit /\ ownerAtLease' = ownerAtLease
        /\ lease' = IF verdict'.mustReclaim THEN "reclaiming" ELSE lease
    BY DEF Update, NewOwners, leaseVars
  <1>4. /\ unquiet' = IF Quiet(o) THEN Capped(unquiet + dt) ELSE 0
        /\ watched' = (Quiet(o) => watched /\ leap = 0)
        /\ lowest' = IF ~o.ok THEN (IF since = -1 THEN 0 ELSE lowest)
                     ELSE IF Activity(o) \/ since = -1 THEN o.ownerMem ELSE Least(lowest, o.ownerMem)
    BY DEF Update, Remember, Quiet
  <1>5. present' = [w \in Owners |-> Stays(w)]
    <2>1. CASE ~o.ok
      BY <2>1 DEF Update, Remember
    <2>2. CASE o.ok
      <3>1. present' = [w \in Owners |-> CASE w \notin o.owners -> -1
                                           [] w \in o.owners /\ present[w] = -1 -> 0
                                           [] w \in o.owners /\ present[w] # -1 -> Capped(present[w] + dt)]
        BY <2>2 DEF Update, Remember
      <3> QED
        BY <2>2, <3>1
    <2> QED
      BY <2>1, <2>2
  <1> HIDE DEF n
  <1>6. /\ Base(o) \in 0 .. MaxOwnerMemory /\ Known(o) \in SUBSET Owners
        /\ NewSince(o, n) \in 0 .. LongestWait
        /\ o.ok => NewBaseline(o) \in 0 .. MaxOwnerMemory
        /\ o.ok => o \in Observations
    BY <1>1, TrackerTypes
  <1>7. o.ok => /\ o.owners \in SUBSET Owners /\ o.ownerMem \in 0 .. MaxOwnerMemory
                /\ o.spotMem \in Nat /\ o.ownerMem \in Nat
    BY <1>6, ObservationIs
  <1>8. \A w \in Owners : present[w] \in -1 .. LongestWait /\ Stays(w) \in -1 .. LongestWait
    BY <1>1, Thresholds DEF TypeOK, Capped
  <1>9. \A w \in Owners : present'[w] = Stays(w)
    BY <1>5
  <1>10. TypeOK'
    <2>1. since' \in -1 .. LongestWait /\ baseline' \in 0 .. MaxOwnerMemory /\ prevOwners' \subseteq Owners
      BY <1>3, <1>6, <1>7, Thresholds
    <2>2. seen' \in Observations \union {Failed, Missed} /\ lease' \in {"none", "lent", "reclaiming"}
      BY <1>1, <1>3 DEF TypeOK
    <2>3. present' \in [Owners -> -1 .. LongestWait]
      BY <1>5, <1>8
    <2>4. unquiet' \in 0 .. LongestWait
      BY <1>1, <1>4, Thresholds DEF TypeOK, Capped
    <2>5. lowest' \in 0 .. MaxOwnerMemory
      BY <1>1, <1>4, <1>7, Thresholds DEF TypeOK, Least
    <2>6. watched' \in BOOLEAN
      BY <1>4
    <2> QED
      BY <1>1, <1>2, <1>3, <2>1, <2>2, <2>3, <2>4, <2>5, <2>6 DEF TypeOK
  <1>11. WaitIsOver'
    <2> SUFFICES ASSUME verdict'.lendable
                 PROVE  /\ o \in Observations /\ NewSince(o, n) >= Wait(o) /\ Spare(o) > 0
                        /\ o.spotMem = 0 /\ prevOwners' = o.owners
      BY <1>3 DEF WaitIsOver
    <2>1. o.ok /\ o \in Observations /\ lease = "none"
      BY <1>2, <1>6
    <2>2. Wait(o) \in Nat /\ Spare(o) \in 0 .. TotalMemory
      BY <2>1, ObservationIs
    <2>3. o.spotMem = 0
      BY <1>3, <2>1 DEF Possible
    <2> QED
      BY <1>2, <1>3, <1>6, <2>1, <2>2, <2>3, Thresholds
  <1>12. TimerIsHonest'
    <2>1. CASE Quiet(o)
      <3>1. since \in 0 .. LongestWait /\ since' = Capped(since + n) /\ o.ok /\ ~Activity(o)
        BY <1>1, <1>3, <2>1, Thresholds DEF Quiet, NewSince, Before, TypeOK
      <3>2. o.owners \subseteq prevOwners
        BY <3>1, <2>1 DEF Activity, Known, Quiet
      <3>3. \A w \in prevOwners' : w \in Owners /\ w \in prevOwners /\ present[w] >= 0
                                   /\ present'[w] = Capped(present[w] + dt)
        BY <1>1, <1>3, <1>7, <1>8, <1>9, <3>1, <3>2 DEF DetectorInv, TimerIsHonest
      <3>4. \A w \in prevOwners' : present'[w] >= 0
        BY <1>1, <1>8, <3>3, Thresholds DEF Capped
      <3>5. ASSUME watched'
            PROVE  unquiet' >= since' /\ \A w \in prevOwners' : present'[w] >= since'
        <4>1. watched /\ leap = 0 /\ n = dt /\ since # -1
          <5>1. watched /\ leap = 0
            BY <1>4, <2>1, <3>5, Zenon
          <5>2. n = dt
            BY <1>1, <5>1 DEF n
          <5> QED
            BY <2>1, <5>1, <5>2 DEF Quiet
        <4>2. unquiet >= since /\ \A w \in prevOwners : present[w] >= since
          BY <4>1 DEF DetectorInv, TimerIsHonest
        <4>3. unquiet' = Capped(unquiet + dt) /\ unquiet \in 0 .. LongestWait
          BY <1>1, <1>4, <2>1 DEF TypeOK
        <4>4. unquiet' >= since'
          BY <1>1, <3>1, <4>1, <4>2, <4>3, Thresholds DEF Capped
        <4>5. \A w \in prevOwners' : present'[w] >= since'
          BY <1>1, <1>8, <3>1, <3>3, <4>1, <4>2, Thresholds DEF Capped
        <4> QED
          BY <4>4, <4>5
      <3> QED
        BY <3>4, <3>5 DEF TimerIsHonest
    <2>2. CASE ~Quiet(o)
      <3>1. since' = 0 /\ unquiet' = 0
        BY <1>3, <1>4, <2>2 DEF Quiet, NewSince, Before
      <3>2. \A w \in prevOwners' : present'[w] >= 0
        <4>1. CASE o.ok
          BY <1>1, <1>3, <1>7, <1>8, <1>9, <4>1, Thresholds DEF Capped
        <4>2. CASE ~o.ok
          <5>1. \A w \in prevOwners' : w \in prevOwners /\ w \in Owners /\ present[w] >= 0
            BY <1>1, <1>3, <1>6, <4>2 DEF Known, DetectorInv, TimerIsHonest
          <5> QED
            BY <1>1, <1>8, <1>9, <4>2, <5>1, Thresholds DEF Capped
        <4> QED
          BY <4>1, <4>2
      <3> QED
        BY <3>1, <3>2 DEF TimerIsHonest
    <2> QED
      BY <2>1, <2>2
  <1>13. BaselineIsLowest'
    <2>1. CASE o.ok
      <3>1. baseline' = lowest'
        BY <1>1, <1>3, <1>4, <1>7, <2>1 DEF NewBaseline, Base, Least, DetectorInv, BaselineIsLowest
      <3>2. baseline' \in Int /\ Base(o) \in Int /\ o.ownerMem \in Nat
        BY <1>3, <1>6, <1>7, <2>1, Thresholds
      <3>3. o.ownerMem <= baseline' + MemDelta
        BY <1>3, <2>1, <3>2, Thresholds DEF NewBaseline, Activity, Least
      <3> QED
        BY <1>3, <3>1, <3>3 DEF BaselineIsLowest
    <2>2. CASE ~o.ok
      <3>1. baseline' = lowest'
        BY <1>3, <1>4, <2>2 DEF Base, DetectorInv, BaselineIsLowest
      <3> QED
        BY <1>3, <2>2, <3>1 DEF BaselineIsLowest
    <2> QED
      BY <2>1, <2>2
  <1>14. LimitLeavesReserve'
    <2>1. lease' # "none" => lease # "none"
      BY <1>2, <1>3
    <2>2. lease # "none" /\ o.ok => o.spotMem <= limit
      BY <1>3 DEF Possible
    <2> QED
      BY <1>3, <2>1, <2>2 DEF LimitLeavesReserve, DetectorInv
  <1> QED
    BY <1>10, <1>11, <1>12, <1>13, <1>14 DEF DetectorInv

-----------------------------------------------------------------------------
(* The other steps, and the theorems.                                      *)

LEMMA MissInv == DetectorInv /\ Miss => DetectorInv'
  <1> SUFFICES ASSUME DetectorInv, Miss PROVE DetectorInv'
    OBVIOUS
  <1> USE DEF DetectorInv
  <1>1. /\ seen' = Missed /\ verdict' = Unknown /\ unquiet' = 0
        /\ lease' = IF lease = "lent" THEN "reclaiming" ELSE lease
        /\ UNCHANGED <<baseline, prevOwners, limit, ownerAtLease, present, lowest>>
        /\ watched' = (since = -1)
    BY DEF Miss
  <1>2. since' \in -1 .. LongestWait /\ (since' = -1 <=> since = -1)
    BY Thresholds DEF Miss, Capped, TypeOK
  <1>3. TypeOK'
    BY <1>1, <1>2, NoVerdictNoLease, Thresholds DEF TypeOK
  <1>4. WaitIsOver'
    BY <1>1, NoVerdictNoLease DEF WaitIsOver
  <1>5. TimerIsHonest'
    BY <1>1, <1>2 DEF TimerIsHonest
  <1>6. BaselineIsLowest'
    BY <1>1, <1>2, NoVerdictNoLease DEF BaselineIsLowest
  <1>7. LimitLeavesReserve'
    BY <1>1, NoVerdictNoLease DEF LimitLeavesReserve
  <1> QED
    BY <1>3, <1>4, <1>5, <1>6, <1>7

LEMMA LendInv == DetectorInv /\ Lend => DetectorInv'
  <1> SUFFICES ASSUME DetectorInv, Lend PROVE DetectorInv'
    OBVIOUS
  <1> USE DEF DetectorInv
  <1>1. /\ verdict.lendable /\ lease' = "lent" /\ limit' = Spare(seen) /\ ownerAtLease' = seen.ownerMem
        /\ UNCHANGED <<trackerVars, verdict, seen, historyVars>>
    BY DEF Lend, LendableMemory
  <1>2. seen \in Observations /\ Spare(seen) > 0 /\ seen.spotMem = 0
    BY <1>1 DEF WaitIsOver
  <1>3. /\ Spare(seen) \in 0 .. TotalMemory /\ seen.ownerMem \in 0 .. MaxOwnerMemory
        /\ Spare(seen) + seen.ownerMem + MemReserve <= TotalMemory
    BY <1>2, ObservationIs, Thresholds
  <1> USE DEF trackerVars, historyVars
  <1>4. TypeOK'
    BY <1>1, <1>3 DEF TypeOK
  <1>5. WaitIsOver' /\ TimerIsHonest' /\ BaselineIsLowest'
    BY <1>1 DEF WaitIsOver, TimerIsHonest, BaselineIsLowest
  <1>6. LimitLeavesReserve'
    BY <1>1, <1>2, <1>3, Thresholds DEF LimitLeavesReserve
  <1> QED
    BY <1>4, <1>5, <1>6

THEOREM DetectorInvariant == Spec => []DetectorInv
  <1>1. Init => DetectorInv
    <2> SUFFICES ASSUME Init PROVE DetectorInv
      OBVIOUS
    <2>1. TypeOK
      BY Thresholds, NoVerdictNoLease DEF Init, TypeOK
    <2> QED
      BY <2>1, NoVerdictNoLease DEF Init, DetectorInv, WaitIsOver, TimerIsHonest,
            BaselineIsLowest, LimitLeavesReserve
  <1>2. DetectorInv /\ [Next]_vars => DetectorInv'
    <2> SUFFICES ASSUME DetectorInv, [Next]_vars PROVE DetectorInv'
      OBVIOUS
    <2>1. CASE Tick
      BY <2>1, UpdateInv DEF Tick
    <2>2. CASE Miss
      BY <2>2, MissInv
    <2>3. CASE Lend
      BY <2>3, LendInv
    <2>4. CASE EndLease
      <3>1. TypeOK'
        BY <2>4, Thresholds DEF EndLease, DetectorInv, TypeOK, trackerVars, historyVars
      <3> QED
        BY <2>4, <3>1 DEF EndLease, DetectorInv, WaitIsOver, TimerIsHonest, BaselineIsLowest,
              LimitLeavesReserve, trackerVars, historyVars
    <2>5. CASE UNCHANGED vars
      BY <2>5 DEF vars, trackerVars, leaseVars, historyVars, DetectorInv, TypeOK, WaitIsOver,
            TimerIsHonest, BaselineIsLowest, LimitLeavesReserve
    <2> QED
      BY <2>1, <2>2, <2>3, <2>4, <2>5 DEF Next
  <1> QED
    BY <1>1, <1>2, PTL DEF Spec

\* What the tracker keeps is of its type; no verdict and no limit is out of range.
THEOREM DetectorTypes == Spec => []TypeOK
  <1>1. DetectorInv => TypeOK
    BY DEF DetectorInv
  <1> QED
    BY <1>1, DetectorInvariant, PTL

\* A GPU that was not missed during its wait, by a clock that did not leap, is lent
\* only after it has been seen quiet for the whole of it.
THEOREM WatchedGpusAreQuiet == Spec => []QuietWhenWatched
  <1>1. DetectorInv => QuietWhenWatched
    <2> SUFFICES ASSUME DetectorInv, verdict.lendable, watched PROVE unquiet >= Wait(seen)
      BY DEF QuietWhenWatched
    <2>1. seen \in Observations /\ since >= Wait(seen)
      BY DEF DetectorInv, WaitIsOver
    <2>2. Wait(seen) \in Nat
      BY <2>1, ObservationIs
    <2>3. since \in -1 .. LongestWait /\ unquiet \in 0 .. LongestWait
      BY DEF DetectorInv, TypeOK
    <2>4. since # -1
      BY <2>1, <2>2
    <2>5. unquiet >= since
      BY <2>4 DEF DetectorInv, TimerIsHonest
    <2> QED
      BY <2>1, <2>2, <2>3, <2>5, Thresholds
  <1> QED
    BY <1>1, DetectorInvariant, PTL

\* No owner attached to a GPU when it is lent came within the idle time, if no tick
\* missed it and the clock did not leap.
THEOREM OwnersHaveTheirTime == Spec => []OwnersAreSettled
  <1>1. DetectorInv => OwnersAreSettled
    <2> SUFFICES ASSUME DetectorInv, verdict.lendable, watched, NEW w \in seen.owners
                 PROVE  present[w] >= IdleSeconds
      BY DEF OwnersAreSettled
    <2>1. /\ seen \in Observations /\ since >= Wait(seen) /\ prevOwners = seen.owners
      BY DEF DetectorInv, WaitIsOver
    <2>2. Wait(seen) = IdleSeconds
      BY DEF Wait
    <2>3. since \in -1 .. LongestWait /\ w \in Owners /\ present[w] \in -1 .. LongestWait
      BY <2>1 DEF DetectorInv, TypeOK
    <2>4. since # -1
      BY <2>1, <2>2, Thresholds
    <2>5. present[w] >= since
      BY <2>1, <2>4 DEF DetectorInv, TimerIsHonest
    <2> QED
      BY <2>1, <2>2, <2>3, <2>5, Thresholds
  <1> QED
    BY <1>1, DetectorInvariant, PTL

\* A spot that keeps to its limit never drives the free memory below half of the
\* reserve while the owner uses no more than when the GPU was lent.
THEOREM SpotsDoNotDisturb == Spec => []SpotAloneKeepsItsGpu
  <1>1. DetectorInv => SpotAloneKeepsItsGpu
    <2> SUFFICES ASSUME DetectorInv, lease # "none", seen.ok, seen.ownerMem <= ownerAtLease
                 PROVE  Free(seen) >= MemReserve \div 2
      BY DEF SpotAloneKeepsItsGpu
    <2>1. seen \in Observations
      BY NoVerdictNoLease DEF DetectorInv, TypeOK
    <2>2. /\ limit + ownerAtLease + MemReserve <= TotalMemory /\ seen.spotMem <= limit
          /\ limit \in Nat /\ ownerAtLease \in Nat
      BY Thresholds DEF DetectorInv, LimitLeavesReserve, TypeOK
    <2>3. Free(seen) >= MemReserve
      BY <2>1, <2>2, ObservationIs, Thresholds
    <2>4. MemReserve >= MemReserve \div 2 /\ MemReserve \div 2 \in Int
      BY Thresholds
    <2> QED
      BY <2>1, <2>3, <2>4, ObservationIs, Thresholds
  <1> QED
    BY <1>1, DetectorInvariant, PTL

\* Owner memory that creeps up below the threshold is noticed in the tick in which
\* it is more than the threshold above its low point.
THEOREM CreepIsSeen == Spec => CreepIsNoticed
  <1> DEFINE Noticed == seen'.ok /\ since # -1 /\ seen'.ownerMem > lowest + MemDelta =>
                            verdict'.state \in {"BUSY", "RECLAIMING"}
  <1>1. DetectorInv /\ [Next]_vars => [Noticed]_vars
    <2> SUFFICES ASSUME DetectorInv, Next, seen'.ok, since # -1,
                        seen'.ownerMem > lowest + MemDelta
                 PROVE  verdict'.state \in {"BUSY", "RECLAIMING"}
      OBVIOUS
    <2>1. ASSUME NEW dt \in Steps, NEW leap \in Leaps, NEW o \in Observations \union {Failed},
                 NEW blocked \in BOOLEAN, Update(o, dt, leap, blocked)
          PROVE  verdict'.state \in {"BUSY", "RECLAIMING"}
      <3>1. seen' = o /\ verdict' = Verdict(o, dt + leap, blocked) /\ dt + leap \in Nat
        BY <2>1, Thresholds DEF Update
      <3>2. Base(o) = lowest
        BY DEF Base, DetectorInv, BaselineIsLowest
      <3>3. Activity(o)
        BY <3>1, <3>2 DEF Activity
      <3> QED
        BY <3>1, <3>3, VerdictIs
    <2>2. ~Miss
      BY NoVerdictNoLease DEF Miss
    <2>3. ~(Lend \/ EndLease)
      <3>1. UNCHANGED seen => seen.ok /\ seen.ownerMem <= lowest + MemDelta
        BY DEF DetectorInv, BaselineIsLowest
      <3>2. UNCHANGED seen => seen \in Observations
        BY NoVerdictNoLease DEF DetectorInv, TypeOK
      <3>3. lowest \in Int
        BY Thresholds DEF DetectorInv, TypeOK
      <3> QED
        BY <3>1, <3>2, <3>3, ObservationIs, Thresholds DEF Lend, EndLease
    <2> QED
      BY <2>1, <2>2, <2>3 DEF Next, Tick
  <1> QED
    BY <1>1, DetectorInvariant, PTL DEF Spec, CreepIsNoticed

=============================================================================
