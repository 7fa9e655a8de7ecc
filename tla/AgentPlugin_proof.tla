------------------------- MODULE AgentPlugin_proof -------------------------
(***************************************************************************)
(* What the agent's plugins promise, for any GPUs, plugins, settings and   *)
(* sessions.  From the arithmetic of the limits, over the claim files of   *)
(* one agent, to the books of the sessions and what they hold of a GPU.    *)
(***************************************************************************)
EXTENDS AgentPlugin, FiniteSums

-----------------------------------------------------------------------------
(* The limits of one GPU.                                                  *)

LEMMA Division ==
    ASSUME NEW a \in Int, NEW b \in Nat \ {0}
    PROVE  a \div b \in Int /\ (a \div b) * b <= a /\ a < (a \div b) * b + b
  OBVIOUS

LEMMA Monotone == ASSUME NEW a \in Int, NEW b \in Int, NEW c \in Nat, a <= b PROVE a * c <= b * c
  OBVIOUS

LEMMA Cancel ==
    ASSUME NEW a \in Int, NEW b \in Int, NEW c \in Nat \ {0}, a * c <= b * c PROVE a <= b
  OBVIOUS

LEMMA Remainder == ASSUME NEW a \in Int, NEW b \in Nat \ {0} PROVE (a * b) % b = 0
  OBVIOUS

LEMMA GpuFacts ==
    /\ PerDevice \in Nat \ {0} /\ MiB \in Nat \ {0} /\ Reserved \in Nat
    /\ Gpus \subseteq Nat /\ IsFiniteSet(Gpus) /\ IsFiniteSet(Sessions)
    /\ \A g \in Gpus : Total[g] \in Nat \ {0} /\ MiB * PerDevice <= Total[g]
  BY FractionAssumption, ClaimAssumption, AgentAssumption

\* A memory limit is a number of MiB, at least one, and between the share less the
\* reserve and a MiB and the share itself.
LEMMA MemoryLimitIs ==
    ASSUME NEW q \in 1 .. PerDevice, NEW g \in Gpus
    PROVE  LET m == MemoryLimit(q, Total[g])
           IN  /\ m \in Nat /\ m > 0 /\ m % MiB = 0
               /\ m * PerDevice <= q * Total[g]
               /\ (m + Reserved + MiB) * PerDevice > q * Total[g]
  <1> DEFINE t == q * Total[g]
             w == t \div PerDevice
             k == (w - Reserved) \div MiB
             n == Greater(k, 1)
             m == n * MiB
  <1>1. PerDevice \in Nat \ {0} /\ MiB \in Nat \ {0} /\ Reserved \in Nat /\ q \in Nat \ {0}
    BY GpuFacts
  <1>2. t \in Nat /\ MiB * PerDevice <= t
    <2>1. Total[g] \in Nat /\ MiB * PerDevice <= Total[g]
      BY GpuFacts
    <2>2. 1 * Total[g] <= q * Total[g]
      BY <1>1, <2>1, Monotone
    <2>3. MiB * PerDevice \in Nat
      BY <1>1
    <2> QED
      BY <1>1, <2>1, <2>2, <2>3
  <1>2a. MemoryLimit(q, Total[g]) = m
    BY DEF MemoryLimit
  <1> HIDE DEF t
  <1>3. w \in Int /\ w * PerDevice <= t /\ t < w * PerDevice + PerDevice
    BY <1>1, <1>2, Division
  <1> HIDE DEF w
  <1>4. k \in Int /\ k * MiB <= w - Reserved /\ w - Reserved < k * MiB + MiB
    BY <1>1, <1>3, Division
  <1> HIDE DEF k
  <1>6. n \in Nat \ {0} /\ n >= k /\ n \in {k, 1}
    BY <1>4 DEF Greater
  <1> HIDE DEF n
  <1>7. m \in Nat /\ m > 0 /\ m % MiB = 0
    BY <1>1, <1>6, Remainder
  <1>8. m * PerDevice <= t
    <2>1. CASE n = k
      <3>1. m <= w
        BY <1>1, <1>3, <1>4, <1>7, <2>1
      <3>2. m * PerDevice <= w * PerDevice
        BY <1>1, <1>3, <1>7, <3>1, Monotone
      <3> HIDE DEF m
      <3> QED
        BY <1>1, <1>2, <1>3, <1>7, <3>2
    <2>2. CASE n = 1
      BY <1>1, <1>2, <2>2
    <2> QED
      BY <1>6, <2>1, <2>2
  <1>9. (m + Reserved + MiB) * PerDevice > t
    <2>1. k * MiB <= m
      BY <1>1, <1>4, <1>6, Monotone
    <2>2. w + 1 <= m + Reserved + MiB
      <3>1. k * MiB \in Int
        BY <1>1, <1>4
      <3> HIDE DEF m
      <3> QED
        BY <1>1, <1>3, <1>4, <1>7, <2>1, <3>1
    <2>3. (w + 1) * PerDevice <= (m + Reserved + MiB) * PerDevice
      BY <1>1, <1>3, <1>7, <2>2, Monotone
    <2>4. (w + 1) * PerDevice = w * PerDevice + PerDevice
      BY <1>1, <1>3
    <2> HIDE DEF m
    <2> QED
      BY <1>1, <1>2, <1>3, <1>7, <2>3, <2>4
  <1> QED
    BY <1>2a, <1>7, <1>8, <1>9 DEF t

\* The SM limit is a percentage that leaves the share its due.
LEMMA SmLimitIs ==
    ASSUME NEW q \in 1 .. PerDevice - 1
    PROVE  SmLimit(q) \in 1 .. 100 /\ SmLimit(q) * PerDevice >= 100 * q
  <1> DEFINE k == SmLimit(q)
  <1>1. PerDevice \in Nat \ {0} /\ q \in Nat \ {0} /\ q + 1 <= PerDevice
    BY GpuFacts
  <1>2. k \in Int /\ k * PerDevice <= 100 * q + PerDevice - 1
                  /\ 100 * q + PerDevice - 1 < k * PerDevice + PerDevice
    BY <1>1, Division DEF SmLimit
  <1> HIDE DEF k
  <1>3. k * PerDevice \in Int
    BY <1>1, <1>2
  <1>4. k * PerDevice >= 100 * q
    BY <1>1, <1>2, <1>3
  <1>5. k >= 1
    <2>1. k * PerDevice > 0 * PerDevice
      BY <1>1, <1>3, <1>4
    <2>2. ~(k <= 0)
      BY <1>1, <1>2, <1>3, <2>1, Monotone
    <2> QED
      BY <1>2, <2>2
  <1>6. k <= 100
    <2>1. 101 * PerDevice > k * PerDevice
      BY <1>1, <1>2, <1>3
    <2>2. ~(101 <= k)
      BY <1>1, <1>2, <1>3, <2>1, Monotone
    <2> QED
      BY <1>2, <2>2
  <1> QED
    BY <1>2, <1>4, <1>5, <1>6 DEF k

-----------------------------------------------------------------------------
(* The limits of one container: an allocation alloc of a set D of GPUs.    *)

\* The number a GPU has in the container is its own, for it grows with the GPU.
LEMMA IndexIsOwn ==
    ASSUME NEW D \in SUBSET Gpus, NEW alloc \in [D -> 0 .. PerDevice],
           NEW d \in ActiveDevices(alloc)
    PROVE  /\ LocalIndex(alloc, d) \in 0 .. Cardinality(Gpus)
           /\ \A e \in ActiveDevices(alloc) : LocalIndex(alloc, d) = LocalIndex(alloc, e) => d = e
  <1> DEFINE A == ActiveDevices(alloc)
             Below(e) == {x \in A : x < e}
  <1>1. A \in SUBSET Gpus /\ A \subseteq Nat /\ IsFiniteSet(Gpus)
    BY GpuFacts DEF ActiveDevices
  <1>2. \A e \in A : /\ IsFiniteSet(Below(e)) /\ Cardinality(Below(e)) \in Nat
                     /\ Cardinality(Below(e)) <= Cardinality(Gpus)
    <2> TAKE e \in A
    <2>1. Below(e) \in SUBSET Gpus
      BY <1>1
    <2> HIDE DEF Below
    <2> QED
      BY <1>1, <2>1, FS_Subset, FS_CardinalityType
  <1>3. \A x, y \in A : x < y => Cardinality(Below(x)) < Cardinality(Below(y))
    <2> SUFFICES ASSUME NEW x \in A, NEW y \in A, x < y
                 PROVE  Cardinality(Below(x)) < Cardinality(Below(y))
      OBVIOUS
    <2>1. Below(x) \union {x} \in SUBSET Below(y) /\ x \notin Below(x)
      BY <1>1
    <2> HIDE DEF Below
    <2>2. Cardinality(Below(x) \union {x}) = Cardinality(Below(x)) + 1
      BY <1>2, <2>1, FS_AddElement
    <2>3. Cardinality(Below(x) \union {x}) <= Cardinality(Below(y))
      BY <1>2, <2>1, FS_Subset
    <2> QED
      BY <1>2, <2>2, <2>3
  <1>4. \A e \in A : LocalIndex(alloc, e) = Cardinality(Below(e))
    BY DEF LocalIndex
  <1>5. Cardinality(Gpus) \in Nat
    BY <1>1, FS_CardinalityType
  <1> HIDE DEF A, Below
  <1>6. d \in A
    BY DEF A
  <1>7. \A e \in A : LocalIndex(alloc, d) = LocalIndex(alloc, e) => d = e
    BY <1>1, <1>2, <1>3, <1>4, <1>6
  <1>8. LocalIndex(alloc, d) \in 0 .. Cardinality(Gpus)
    BY <1>2, <1>4, <1>5, <1>6
  <1> QED
    BY <1>7, <1>8 DEF A

\* Which limits there are: none for a whole GPU.
LEMMA LimitsAre ==
    ASSUME NEW D \in SUBSET Gpus, NEW alloc \in [D -> 0 .. PerDevice]
    PROVE  LET limits == ComputeLimits(alloc, Total)
               parts  == {d \in ActiveDevices(alloc) : alloc[d] < PerDevice}
           IN  /\ Fractional(limits) = parts
               /\ \A d \in parts : /\ alloc[d] \in 1 .. PerDevice - 1
                                   /\ limits[d].index = LocalIndex(alloc, d)
                                   /\ limits[d].mem = MemoryLimit(alloc[d], Total[d])
                                   /\ limits[d].sm = SmLimit(alloc[d])
  <1> DEFINE limits == ComputeLimits(alloc, Total)
             A == ActiveDevices(alloc)
  <1>1. A \subseteq Gpus /\ \A d \in A : alloc[d] \in 1 .. PerDevice
    <2>1. DOMAIN alloc = D /\ \A d \in D : alloc[d] \in 0 .. PerDevice
      OBVIOUS
    <2>2. PerDevice \in Nat
      BY GpuFacts
    <2> QED
      BY <2>1, <2>2 DEF ActiveDevices
  <1>2. DOMAIN limits = A
    BY DEF ComputeLimits
  <1>3. \A d \in A : /\ limits[d].index = LocalIndex(alloc, d)
                     /\ limits[d].mem = IF Whole(alloc[d]) THEN NoLimit ELSE MemoryLimit(alloc[d], Total[d])
                     /\ limits[d].sm = IF Whole(alloc[d]) THEN NoLimit ELSE SmLimit(alloc[d])
    BY DEF ComputeLimits
  <1>4. \A d \in A : MemoryLimit(alloc[d], Total[d]) # NoLimit
    BY <1>1, MemoryLimitIs DEF NoLimit
  <1>5. \A d \in A : Whole(alloc[d]) <=> ~(alloc[d] < PerDevice)
    BY <1>1, GpuFacts DEF Whole
  <1> HIDE DEF limits, A
  <1>6. Fractional(limits) = {d \in A : alloc[d] < PerDevice}
    BY <1>2, <1>3, <1>4, <1>5 DEF Fractional
  <1>7. \A d \in A : alloc[d] < PerDevice => alloc[d] \in 1 .. PerDevice - 1
    BY <1>1, GpuFacts
  <1> QED
    BY <1>3, <1>5, <1>6, <1>7 DEF limits, A

\* The SM limit of the container is no less than that of each of its parts.
LEMMA SmOfIsGreatest ==
    ASSUME NEW D \in SUBSET Gpus, NEW alloc \in [D -> 0 .. PerDevice]
    PROVE  LET limits == ComputeLimits(alloc, Total)
           IN  /\ SmOf(limits) \in {NoLimit} \union (1 .. 100)
               /\ \A d \in ActiveDevices(alloc) :
                      alloc[d] < PerDevice => SmOf(limits) >= SmLimit(alloc[d])
  <1> DEFINE limits == ComputeLimits(alloc, Total)
             parts == {d \in ActiveDevices(alloc) : alloc[d] < PerDevice}
             S == {limits[d].sm : d \in Fractional(limits)}
  <1>1. Fractional(limits) = parts /\ \A d \in parts : limits[d].sm = SmLimit(alloc[d])
    BY LimitsAre
  <1>2. \A d \in parts : SmLimit(alloc[d]) \in 1 .. 100
    BY LimitsAre, SmLimitIs
  <1> HIDE DEF limits, parts
  <1>3. S \in SUBSET (1 .. 100) /\ \A d \in parts : SmLimit(alloc[d]) \in S
    BY <1>1, <1>2
  <1>4. CASE parts = {}
    BY <1>1, <1>4 DEF SmOf, parts, limits
  <1>5. CASE parts # {}
    <2> HIDE DEF S
    <2>1. SmOf(limits) = Max(S)
      BY <1>1, <1>5 DEF SmOf, S
    <2>2. IsFiniteSet(S) /\ S # {} /\ S \subseteq Int
      <3>1. IsFiniteSet(1 .. 100) /\ 1 .. 100 \subseteq Int
        <4>1. 1 \in Int /\ 100 \in Int /\ 1 .. 100 \subseteq Int
          OBVIOUS
        <4> QED
          BY <4>1, FS_Interval, Zenon
      <3>2. IsFiniteSet(S)
        BY <1>3, <3>1, FS_Subset
      <3>3. S # {}
        BY <1>3, <1>5
      <3> QED
        BY <1>3, <3>1, <3>2, <3>3
    <2>3. \E x \in S : \A y \in S : x >= y
      BY <2>2, GreatestElement
    <2>4. Max(S) \in S /\ \A y \in S : Max(S) >= y
      BY <2>3 DEF Max
    <2>5. SmOf(limits) \in 1 .. 100 /\ \A d \in parts : SmOf(limits) >= SmLimit(alloc[d])
      BY <1>3, <2>1, <2>4
    <2> QED
      BY <2>5 DEF parts, limits
  <1> QED
    BY <1>4, <1>5

\* What the environment tells HAMi-core, by the number of each GPU.
LEMMA EnvironIs ==
    ASSUME NEW D \in SUBSET Gpus, NEW alloc \in [D -> 0 .. PerDevice]
    PROVE  LET env == HamiEnviron(ComputeLimits(alloc, Total))
           IN  /\ \A d \in ActiveDevices(alloc) :
                     IF alloc[d] < PerDevice
                     THEN /\ LocalIndex(alloc, d) \in DOMAIN env.mem
                          /\ env.mem[LocalIndex(alloc, d)] = MemoryLimit(alloc[d], Total[d])
                          /\ env.sm \in 1 .. 100 /\ env.sm >= SmLimit(alloc[d])
                     ELSE LocalIndex(alloc, d) \notin DOMAIN env.mem
               /\ env.sm \in {NoLimit} \union (1 .. 100)
               /\ env = [mem |-> env.mem, sm |-> env.sm]
               /\ DOMAIN env.mem \subseteq 0 .. Cardinality(Gpus)
               /\ env.mem \in [DOMAIN env.mem -> MemoryLimits]
               /\ \A i \in DOMAIN env.mem : env.mem[i] > 0 /\ env.mem[i] % MiB = 0
  <1> DEFINE limits == ComputeLimits(alloc, Total)
             env == HamiEnviron(limits)
             parts == {d \in ActiveDevices(alloc) : alloc[d] < PerDevice}
             Index(d) == LocalIndex(alloc, d)
             Limit(d) == MemoryLimit(alloc[d], Total[d])
  <1>1. /\ Fractional(limits) = parts
        /\ \A d \in parts : limits[d].index = Index(d) /\ limits[d].mem = Limit(d)
                            /\ alloc[d] \in 1 .. PerDevice - 1
    BY LimitsAre
  <1>2. /\ SmOf(limits) \in {NoLimit} \union (1 .. 100)
        /\ \A d \in parts : SmOf(limits) >= SmLimit(alloc[d]) /\ SmLimit(alloc[d]) \in 1 .. 100
    BY <1>1, SmOfIsGreatest, SmLimitIs
  <1>3. parts \subseteq ActiveDevices(alloc) /\ parts \subseteq Gpus
    BY DEF ActiveDevices
  <1>4. \A d, e \in ActiveDevices(alloc) :
            Index(d) \in 0 .. Cardinality(Gpus) /\ (Index(d) = Index(e) => d = e)
    BY IndexIsOwn
  <1>5. env.mem = [i \in {limits[d].index : d \in Fractional(limits)} |->
                      limits[CHOOSE d \in Fractional(limits) : limits[d].index = i].mem]
    BY DEF HamiEnviron
  <1>6. env = [mem |-> env.mem, sm |-> env.sm] /\ env.sm = SmOf(limits)
    BY DEF HamiEnviron
  <1>7. \A d \in ActiveDevices(alloc) : d \in parts <=> alloc[d] < PerDevice
    OBVIOUS
  <1> HIDE DEF limits, env, parts, Index, Limit
  <1>8. DOMAIN env.mem = {Index(d) : d \in parts}
    BY <1>1, <1>5
  <1>9. \A d \in parts : env.mem[Index(d)] = Limit(d)
    <2> SUFFICES ASSUME NEW d \in parts PROVE env.mem[Index(d)] = Limit(d)
      OBVIOUS
    <2>1. (CHOOSE e \in parts : limits[e].index = Index(d)) = d
      BY <1>1, <1>3, <1>4
    <2>2. env.mem[Index(d)] = limits[CHOOSE e \in parts : limits[e].index = Index(d)].mem
      BY <1>1, <1>5
    <2> QED
      BY <1>1, <2>1, <2>2
  <1>10. \A d \in parts : Limit(d) \in MemoryLimits /\ Limit(d) > 0 /\ Limit(d) % MiB = 0
    <2> TAKE d \in parts
    <2>1. alloc[d] \in 1 .. PerDevice /\ d \in Gpus
      BY <1>1, <1>3, GpuFacts
    <2> QED
      BY <2>1, MemoryLimitIs DEF Limit, MemoryLimits
  <1>11. env.mem \in [DOMAIN env.mem -> MemoryLimits]
    <2>1. env.mem = [i \in DOMAIN env.mem |-> env.mem[i]]
      BY <1>5
    <2>2. \A i \in DOMAIN env.mem : env.mem[i] \in MemoryLimits
      BY <1>8, <1>9, <1>10
    <2> QED
      BY <2>1, <2>2
  <1>12. \A d \in ActiveDevices(alloc) : d \notin parts => Index(d) \notin DOMAIN env.mem
    BY <1>3, <1>4, <1>8
  <1>13. \A d \in parts : /\ Index(d) \in DOMAIN env.mem /\ env.mem[Index(d)] = Limit(d)
                          /\ env.sm \in 1 .. 100 /\ env.sm >= SmLimit(alloc[d])
    BY <1>2, <1>6, <1>8, <1>9 DEF NoLimit
  <1>14. DOMAIN env.mem \subseteq 0 .. Cardinality(Gpus)
    BY <1>3, <1>4, <1>8
  <1>15. \A i \in DOMAIN env.mem : env.mem[i] > 0 /\ env.mem[i] % MiB = 0
    BY <1>8, <1>9, <1>10
  <1> QED
    BY <1>2, <1>6, <1>7, <1>11, <1>12, <1>13, <1>14, <1>15 DEF env, limits, Index, Limit

\* Without limits the environment is empty.
LEMMA EmptyEnviron ==
    LET env == HamiEnviron(<<>>)
    IN  env.sm = NoLimit /\ env = [mem |-> env.mem, sm |-> env.sm]
        /\ DOMAIN env.mem = {} /\ env.mem = [i \in {} |-> env.mem[i]]
  <1>1. Fractional(<<>>) = {}
    BY DEF Fractional
  <1> QED
    BY <1>1 DEF HamiEnviron, SmOf

-----------------------------------------------------------------------------
(* The claim files.                                                        *)

\* What a plugin of this process took is in its name and in this process's.
ClaimsStand ==
    \A p \in Plugins : \A g \in devices[p] : claims[g] = [pid |-> pid, owner |-> p]

\* A plugin that is still to be loaded has taken nothing.
NewHaveNothing == \A p \in Plugins : status[p] = "new" => devices[p] = {}

ClaimInv ==
    /\ devices \in [Plugins -> SUBSET Gpus]
    /\ status \in [Plugins -> Statuses]
    /\ pid \in Pids
    /\ ClaimsStand
    /\ NewHaveNothing

\* Two claims on one GPU would be two contents of one file.
LEMMA ClaimInvImpliesOneTaker == ClaimInv => OneTakerPerGpu
  <1> SUFFICES ASSUME ClaimInv, NEW p \in Plugins, NEW q \in Plugins, NEW g \in Gpus,
                      g \in devices[p], g \in devices[q]
               PROVE  p = q
    BY DEF ClaimInv, OneTakerPerGpu
  <1>1. claims[g] = [pid |-> pid, owner |-> p] /\ claims[g] = [pid |-> pid, owner |-> q]
    BY DEF ClaimInv, ClaimsStand
  <1>2. [pid |-> pid, owner |-> p].owner = p /\ [pid |-> pid, owner |-> q].owner = q
    OBVIOUS
  <1> QED
    BY <1>1, <1>2

\* A plugin that does not conflict wants nothing another one has taken.
LEMMA WantedIsFree ==
    ASSUME ClaimInv, NEW p \in Plugins, Conflicts(p, pid, Selected(p)) = {},
           NEW q \in Plugins \ {p}
    PROVE  devices[q] \intersect Selected(p) = {}
  <1> SUFFICES ASSUME NEW g \in Gpus, g \in devices[q], g \in Selected(p)
               PROVE  FALSE
    BY DEF ClaimInv
  <1>1. claims[g] = [pid |-> pid, owner |-> q]
    BY DEF ClaimInv, ClaimsStand
  <1>2. claims[g] \in [pid : Pids, owner : Plugins]
    BY <1>1 DEF ClaimInv
  <1>3. claims[g].pid = pid /\ claims[g].owner = q
    BY <1>1
  <1>4. ClaimedBy(p, pid, g)
    BY <1>2, <1>3, AgentAssumption DEF ClaimedBy
  <1> QED
    BY <1>4 DEF Conflicts

LEMMA ClaimInvInitially == Init => ClaimInv
  BY DEF Init, ClaimInv, ClaimsStand, NewHaveNothing, Statuses

LEMMA ClaimInvPreserved == ClaimInv /\ [Next]_vars => ClaimInv'
  <1> SUFFICES ASSUME ClaimInv, [Next]_vars
               PROVE  ClaimInv'
    OBVIOUS
  <1>1. ASSUME NEW c \in Configs, NEW n \in Pids, StartAgent(c, n)
        PROVE  ClaimInv'
    BY <1>1 DEF StartAgent, ClaimInv, ClaimsStand, NewHaveNothing, Statuses
  <1>2. ASSUME NEW p \in Plugins, Ends(p, "unset") \/ Ends(p, "disabled") \/ Ends(p, "conflict"),
               UNCHANGED <<claims, devices>>
        PROVE  ClaimInv'
    BY <1>2 DEF Ends, ClaimInv, ClaimsStand, NewHaveNothing, Statuses
  <1>3. ASSUME NEW p \in Plugins, NEW hook \in BOOLEAN, InitReady(p, hook)
        PROVE  ClaimInv'
    <2>1. /\ Conflicts(p, pid, Selected(p)) = {}
          /\ claims' = [g \in Gpus |-> IF g \in Selected(p) THEN [pid |-> pid, owner |-> p]
                                       ELSE claims[g]]
          /\ devices' = [devices EXCEPT ![p] = Selected(p)]
          /\ pid' = pid
      BY <1>3 DEF InitReady, ClaimGpus, Ends
    <2>2. Selected(p) \subseteq Gpus
      BY DEF Selected
    <2>3. \A q \in Plugins \ {p} : devices'[q] = devices[q] /\ devices[q] \intersect Selected(p) = {}
      BY <2>1, WantedIsFree DEF ClaimInv
    <2>4. ClaimsStand'
      <3> SUFFICES ASSUME NEW q \in Plugins, NEW g \in devices'[q]
                   PROVE  claims'[g] = [pid |-> pid, owner |-> q]
        BY <2>1 DEF ClaimsStand
      <3>1. CASE q = p
        BY <3>1, <2>1, <2>2 DEF ClaimInv
      <3>2. CASE q # p
        BY <3>2, <2>1, <2>3 DEF ClaimInv, ClaimsStand
      <3> QED
        BY <3>1, <3>2
    <2>5. status' = [status EXCEPT ![p] = "ready"]
      BY <1>3 DEF InitReady, Ends
    <2>6. NewHaveNothing'
      BY <2>1, <2>5 DEF ClaimInv, NewHaveNothing
    <2>7. status' \in [Plugins -> Statuses]
      BY <2>5 DEF ClaimInv, Statuses
    <2> QED
      BY <2>1, <2>2, <2>4, <2>6, <2>7 DEF ClaimInv
  <1>3a. ASSUME NEW p \in Plugins, InitFails(p)
         PROVE  ClaimInv'
    <2>1. /\ ClaimFails(p, pid, Selected(p)) /\ UNCHANGED <<devices, pid>>
          /\ status[p] = "new" /\ status' = [status EXCEPT ![p] = "failed"]
      BY <1>3a DEF InitFails, Ends
    <2>2. ClaimsStand'
      <3> SUFFICES ASSUME NEW q \in Plugins, NEW g \in devices[q]
                   PROVE  claims'[g] = claims[g]
        BY <2>1 DEF ClaimInv, ClaimsStand
      <3>1. g \in Gpus /\ q # p
        BY <2>1 DEF ClaimInv, NewHaveNothing
      <3>2. Conflicts(p, pid, Selected(p)) = {} => g \notin Selected(p)
        BY <3>1, WantedIsFree
      <3> QED
        BY <2>1, <3>1, <3>2 DEF ClaimFails
    <2> QED
      BY <2>1, <2>2 DEF ClaimInv, NewHaveNothing, Statuses
  <1>4. ASSUME UNCHANGED <<claims, devices, pid, status>>
        PROVE  ClaimInv'
    BY <1>4 DEF ClaimInv, ClaimsStand, NewHaveNothing
  <1> USE DEF pluginVars
  <1>5. ASSUME NEW p \in Plugins, InitPlugin(p)
        PROVE  ClaimInv'
    BY <1>2, <1>3, <1>3a, <1>5 DEF InitPlugin, InitUnset, InitDisabled, InitConflict
  <1>6. Serve => ClaimInv'
    BY <1>4 DEF Serve
  <1>7. ASSUME NEW s \in Sessions, NEW p \in Plugins, NEW alloc \in Allocations(p),
               StartSession(s, p, alloc)
        PROVE  ClaimInv'
    BY <1>4, <1>7 DEF StartSession
  <1>8. ASSUME NEW s \in Sessions, EndSession(s)
        PROVE  ClaimInv'
    BY <1>4, <1>8 DEF EndSession
  <1>9. StopAgent => ClaimInv'
    BY <1>4 DEF StopAgent
  <1>10. UNCHANGED vars => ClaimInv'
    BY <1>4 DEF vars
  <1> QED
    BY <1>1, <1>5, <1>6, <1>7, <1>8, <1>9, <1>10 DEF Next

-----------------------------------------------------------------------------
(* What a plugin process knows: its files, its plugins, its refusals.      *)

ProcessType ==
    /\ claims \in [Gpus -> {NoClaim} \union [pid : Pids, owner : Plugins]]
    /\ agent \in {"down", "starting", "serving"}
    /\ boot \in 0 .. MaxBoots /\ earlier \subseteq Pids
    /\ config \in Configs
    /\ mode \in [Plugins -> Modes] /\ enforced \in [Plugins -> BOOLEAN]

\* What plugin p of this process has taken, or was taking when it failed.
TakenBy(p, g) == g \in devices[p] \/ (status[p] = "failed" /\ g \in Selected(p))

\* A file was written by an earlier process or, when the process id is a new one,
\* for a plugin of this process that has taken the GPU or failed to.
FilesAreOurs ==
    /\ boot = 0 => agent = "down" /\ claims = NoFiles
    /\ \A g \in Gpus : claims[g] # NoClaim =>
           /\ claims[g].pid \in earlier \union {pid}
           /\ claims[g].pid = pid /\ pid \notin earlier => TakenBy(claims[g].owner, g)

ReadyPlugins ==
    \A p \in Plugins : status[p] = "ready" =>
        /\ devices[p] = Selected(p)
        /\ enforced[p] = (mode[p] = "fractional")

ProcessInv ==
    ClaimInv /\ ProcessType /\ FilesAreOurs /\ ReadyPlugins /\ ConflictsAreReal

LEMMA ProcessInvInitially == Init => ProcessInv
  <1> SUFFICES ASSUME Init PROVE ProcessInv
    OBVIOUS
  <1>1. ClaimInv
    BY ClaimInvInitially
  <1>2. ProcessType
    BY AgentAssumption DEF Init, ProcessType, NoFiles, Modes
  <1>3. FilesAreOurs
    BY DEF Init, FilesAreOurs, NoFiles
  <1>4. ReadyPlugins /\ ConflictsAreReal
    BY DEF Init, ReadyPlugins, ConflictsAreReal
  <1> QED
    BY <1>1, <1>2, <1>3, <1>4 DEF ProcessInv

LEMMA ProcessInvStart ==
    ASSUME ProcessInv, ClaimInv',
           NEW c \in Configs, NEW n \in Pids, StartAgent(c, n)
    PROVE  ProcessInv'
  <1> USE DEF ProcessInv
  <1>1. ProcessType'
    <2>1. mode' \in [Plugins -> Modes]
      BY AgentAssumption DEF StartAgent
    <2>2. boot' \in 0 .. MaxBoots /\ earlier' \subseteq Pids
      BY AgentAssumption DEF StartAgent, ProcessType, ClaimInv
    <2> QED
      BY <2>1, <2>2 DEF StartAgent, ProcessType
  <1>2. FilesAreOurs'
    <2>1. boot' # 0 /\ claims' = claims /\ pid' = n
      BY DEF StartAgent, ProcessType
    <2>2. ASSUME NEW g \in Gpus, claims[g] # NoClaim PROVE claims[g].pid \in earlier'
      BY <2>2 DEF StartAgent, FilesAreOurs, NoFiles
    <2> QED
      BY <2>1, <2>2 DEF FilesAreOurs
  <1>3. ReadyPlugins' /\ ConflictsAreReal'
    BY DEF StartAgent, ReadyPlugins, ConflictsAreReal
  <1> QED
    BY <1>1, <1>2, <1>3

\* p has taken, or was taking, a GPU that q's selector matches.
Overlap(p, q) ==
    \/ devices[p] \intersect Selected(q) # {}
    \/ status[p] = "failed" /\ Selected(p) \intersect Selected(q) # {}

LEMMA RefusedByOverlap ==
    ASSUME ConflictsAreReal, NEW p \in Plugins, status[p] = "conflict", pid \notin earlier
    PROVE  \E q \in Plugins \ {p} : Overlap(q, p)
  BY DEF ConflictsAreReal, Overlap

LEMMA ProcessInvRefused ==
    ASSUME ProcessInv, ClaimInv', NEW p \in Plugins,
           InitUnset(p) \/ InitDisabled(p) \/ InitConflict(p)
    PROVE  ProcessInv'
  <1> USE DEF ProcessInv
  <1>1. PICK result \in {"unset", "disabled", "conflict"} :
            /\ Ends(p, result) /\ UNCHANGED <<claims, mode, enforced, devices>>
            /\ result = "conflict" => Conflicts(p, pid, Selected(p)) # {}
    BY DEF InitUnset, InitDisabled, InitConflict
  <1>2. /\ UNCHANGED <<claims, mode, enforced, devices, agent, boot, pid, earlier, config>>
        /\ status' = [status EXCEPT ![p] = result]
    BY <1>1 DEF Ends
  <1>3. ProcessType'
    BY <1>2 DEF ProcessType
  <1>4. \A q \in Plugins : Selected(q)' = Selected(q)
    BY <1>2 DEF Selected
  <1>4a. status[p] = "new" /\ \A q \in Plugins : status[q] = "failed" => status'[q] = "failed"
    BY <1>1, <1>2 DEF Ends, ClaimInv
  <1>4b. FilesAreOurs'
    <2> SUFFICES ASSUME NEW g \in Gpus, claims[g] # NoClaim
                 PROVE  /\ claims[g].pid \in earlier \union {pid}
                        /\ claims[g].pid = pid /\ pid \notin earlier => TakenBy(claims[g].owner, g)'
      BY <1>2 DEF FilesAreOurs
    <2>1. claims[g].owner \in Plugins
      BY DEF ProcessType
    <2>2. TakenBy(claims[g].owner, g) => TakenBy(claims[g].owner, g)'
      BY <1>2, <1>4, <1>4a, <2>1 DEF TakenBy
    <2> QED
      BY <2>2 DEF FilesAreOurs
  <1>5. ReadyPlugins'
    BY <1>2, <1>4 DEF ReadyPlugins, ClaimInv
  <1>6. ConflictsAreReal'
    <2>1. ASSUME result = "conflict", pid \notin earlier
          PROVE  \E q \in Plugins \ {p} : Overlap(q, p)
      <3>1. PICK g \in Selected(p) : ClaimedBy(p, pid, g)
        BY <1>1, <2>1 DEF Conflicts
      <3>2. g \in Gpus /\ claims[g] # NoClaim /\ claims[g].pid = pid /\ claims[g].owner # p
        BY <3>1 DEF Selected, ClaimedBy
      <3>3. claims[g] \in [pid : Pids, owner : Plugins]
        BY <3>2 DEF ProcessType
      <3>4. TakenBy(claims[g].owner, g) /\ claims[g].owner \in Plugins
        BY <2>1, <3>2, <3>3 DEF FilesAreOurs
      <3> QED
        BY <3>1, <3>2, <3>4 DEF TakenBy, Overlap
    <2>2. \A q, r \in Plugins : Overlap(q, r) => Overlap(q, r)'
      BY <1>2, <1>4, <1>4a DEF Overlap
    <2>3. \A q \in Plugins : status'[q] = "conflict" => status[q] = "conflict" \/ (q = p /\ result = "conflict")
      BY <1>2 DEF ClaimInv
    <2>4. \A q \in Plugins : status'[q] = "conflict" /\ pid \notin earlier =>
              \E r \in Plugins \ {q} : Overlap(r, q)
      BY <2>1, <2>3, RefusedByOverlap
    <2> QED
      BY <1>2, <2>2, <2>4 DEF ConflictsAreReal, Overlap
  <1> QED
    BY <1>3, <1>4b, <1>5, <1>6

\* A claim that fails midway leaves files of a plugin that did not load.
LEMMA ProcessInvFails ==
    ASSUME ProcessInv, ClaimInv', NEW p \in Plugins, InitFails(p)
    PROVE  ProcessInv'
  <1> USE DEF ProcessInv
  <1>1. /\ ClaimFails(p, pid, Selected(p))
        /\ UNCHANGED <<mode, enforced, devices, agent, boot, pid, earlier, config>>
        /\ status' = [status EXCEPT ![p] = "failed"]
        /\ agent = "starting" /\ status[p] = "new"
    BY DEF InitFails, Ends
  <1>2. /\ status'[p] = "failed" /\ pid \in Pids
        /\ \A q \in Plugins \ {p} : status'[q] = status[q]
    BY <1>1 DEF ClaimInv
  <1>3. \A q \in Plugins : Selected(q)' = Selected(q)
    BY <1>1 DEF Selected
  <1>4. \A g \in Gpus : \/ claims'[g] = claims[g] \/ claims'[g] = NoClaim
                        \/ g \in Selected(p) /\ claims'[g] = [pid |-> pid, owner |-> p]
    BY <1>1 DEF ClaimFails
  <1>5. claims' \in [Gpus -> {NoClaim} \union [pid : Pids, owner : Plugins]]
    <2>1. claims' = [g \in Gpus |-> claims'[g]]
      BY <1>1 DEF ClaimFails, ProcessType
    <2>2. \A g \in Gpus : claims'[g] \in {NoClaim} \union [pid : Pids, owner : Plugins]
      BY <1>2, <1>4 DEF ProcessType
    <2> QED
      BY <2>1, <2>2
  <1>6. ProcessType'
    BY <1>1, <1>5 DEF ProcessType
  <1>8. FilesAreOurs'
    <2> SUFFICES ASSUME NEW g \in Gpus, claims'[g] # NoClaim
                 PROVE  /\ claims'[g].pid \in earlier \union {pid}
                        /\ claims'[g].pid = pid /\ pid \notin earlier => TakenBy(claims[g].owner, g)'
      BY <1>1 DEF FilesAreOurs
    <2>1. CASE claims'[g] = claims[g]
      <3>1. claims[g].owner \in Plugins /\ claims'[g].owner = claims[g].owner
        BY <2>1 DEF ProcessType
      <3>2. TakenBy(claims[g].owner, g) => TakenBy(claims[g].owner, g)'
        BY <1>1, <1>2, <1>3, <3>1 DEF TakenBy
      <3> QED
        BY <2>1, <3>2 DEF FilesAreOurs
    <2>2. CASE g \in Selected(p) /\ claims'[g] = [pid |-> pid, owner |-> p]
      <3>1. claims'[g].owner = p /\ claims'[g].pid = pid
        BY <2>2
      <3>2. TakenBy(claims[g].owner, g)'
        BY <1>2, <1>3, <2>2, <3>1 DEF TakenBy
      <3> QED
        BY <3>1, <3>2
    <2> QED
      BY <1>4, <2>1, <2>2
  <1>9. ReadyPlugins'
    BY <1>1, <1>2, <1>3 DEF ReadyPlugins
  <1>10. ConflictsAreReal'
    <2>1. \A q, r \in Plugins : Overlap(q, r) => Overlap(q, r)'
      BY <1>1, <1>2, <1>3 DEF Overlap
    <2>2. \A q \in Plugins : status'[q] = "conflict" => status[q] = "conflict"
      BY <1>2
    <2>3. \A q \in Plugins : status'[q] = "conflict" /\ pid \notin earlier =>
              \E r \in Plugins \ {q} : Overlap(r, q)
      BY <2>2, RefusedByOverlap
    <2> QED
      BY <1>1, <2>1, <2>3 DEF ConflictsAreReal, Overlap
  <1> QED
    BY <1>6, <1>8, <1>9, <1>10

LEMMA ProcessInvReady ==
    ASSUME ProcessInv, ClaimInv', NEW p \in Plugins, NEW hook \in BOOLEAN, InitReady(p, hook)
    PROVE  ProcessInv'
  <1> USE DEF ProcessInv
  <1>1. /\ claims' = [g \in Gpus |-> IF g \in Selected(p) THEN [pid |-> pid, owner |-> p]
                                     ELSE claims[g]]
        /\ mode' = [mode EXCEPT ![p] = ModeFor(config[p].mode, hook)]
        /\ enforced' = [enforced EXCEPT ![p] = config[p].mode = "fractional" /\ hook]
        /\ devices' = [devices EXCEPT ![p] = Selected(p)]
        /\ status' = [status EXCEPT ![p] = "ready"]
        /\ UNCHANGED <<agent, boot, pid, earlier, config>>
        /\ agent = "starting" /\ status[p] = "new"
    BY DEF InitReady, ClaimGpus, Ends
  <1>2. devices[p] = {} /\ Selected(p) \subseteq Gpus /\ pid \in Pids
    BY <1>1 DEF ClaimInv, NewHaveNothing, Selected
  <1>3. config[p].mode \in Modes
    BY AgentAssumption DEF ProcessType
  <1>4. ModeFor(config[p].mode, hook) \in Modes
        /\ (config[p].mode = "fractional" /\ hook) = (ModeFor(config[p].mode, hook) = "fractional")
    BY <1>3 DEF ProcessType, ModeFor, Modes
  <1>5. ProcessType'
    BY <1>1, <1>2, <1>4 DEF ProcessType
  <1>6. \A q \in Plugins : Selected(q)' = Selected(q)
    BY <1>1 DEF Selected
  <1>7. \A q \in Plugins \ {p} : devices'[q] = devices[q] /\ status'[q] = status[q]
                                 /\ mode'[q] = mode[q] /\ enforced'[q] = enforced[q]
    BY <1>1 DEF ClaimInv, ProcessType
  <1>8. /\ devices'[p] = Selected(p) /\ status'[p] = "ready"
        /\ mode'[p] = ModeFor(config[p].mode, hook)
        /\ enforced'[p] = (config[p].mode = "fractional" /\ hook)
    BY <1>1 DEF ClaimInv, ProcessType
  <1>9. FilesAreOurs'
    <2> SUFFICES ASSUME NEW g \in Gpus, claims'[g] # NoClaim
                 PROVE  /\ claims'[g].pid \in earlier \union {pid}
                        /\ claims'[g].pid = pid /\ pid \notin earlier => TakenBy(claims[g].owner, g)'
      BY <1>1 DEF FilesAreOurs
    <2>1. CASE g \in Selected(p)
      <3>1. claims'[g].owner = p /\ claims'[g].pid = pid
        BY <1>1, <2>1
      <3>2. TakenBy(claims[g].owner, g)'
        BY <1>8, <2>1, <3>1 DEF TakenBy
      <3> QED
        BY <3>1, <3>2
    <2>2. CASE g \notin Selected(p)
      <3>1. claims'[g] = claims[g] /\ claims[g] \in [pid : Pids, owner : Plugins]
        BY <1>1, <2>2 DEF ProcessType
      <3>2. claims[g].owner \in Plugins
        BY <3>1
      <3>3. claims'[g].owner = claims[g].owner /\ claims'[g].pid = claims[g].pid
        BY <3>1
      <3>4. TakenBy(claims[g].owner, g) => TakenBy(claims[g].owner, g)'
        BY <1>1, <1>2, <1>6, <1>7, <3>2, <3>3 DEF TakenBy
      <3> QED
        BY <1>1, <3>1, <3>3, <3>4 DEF FilesAreOurs
    <2> QED
      BY <2>1, <2>2
  <1>10. ReadyPlugins'
    BY <1>4, <1>6, <1>7, <1>8 DEF ReadyPlugins
  <1>11. ConflictsAreReal'
    <2> SUFFICES ASSUME NEW q \in Plugins, status'[q] = "conflict", pid \notin earlier
                 PROVE  \E r \in Plugins \ {q} : Overlap(r, q)'
      BY <1>1 DEF ConflictsAreReal, Overlap
    <2>1. q # p /\ status[q] = "conflict"
      BY <1>7, <1>8
    <2>2. PICK r \in Plugins \ {q} : Overlap(r, q)
      BY <2>1, RefusedByOverlap
    <2>3. r # p
      BY <1>1, <1>2, <2>2 DEF Overlap
    <2> QED
      BY <1>6, <1>7, <2>2, <2>3 DEF Overlap
  <1> QED
    BY <1>5, <1>9, <1>10, <1>11

LEMMA ProcessInvPreserved == ProcessInv /\ [Next]_vars => ProcessInv'
  <1> SUFFICES ASSUME ProcessInv, [Next]_vars
               PROVE  ProcessInv'
    OBVIOUS
  <1>1. ClaimInv'
    BY ClaimInvPreserved DEF ProcessInv
  <1>2. ASSUME NEW c \in Configs, NEW n \in Pids, StartAgent(c, n)
        PROVE  ProcessInv'
    BY <1>1, <1>2, ProcessInvStart
  <1>3. ASSUME NEW p \in Plugins, InitPlugin(p)
        PROVE  ProcessInv'
    BY <1>1, <1>3, ProcessInvRefused, ProcessInvFails, ProcessInvReady DEF InitPlugin
  <1>4. ASSUME UNCHANGED <<pluginVars, boot, pid, earlier, config>>,
               agent' \in {"down", "starting", "serving"}, agent # "down" \/ agent' = agent
        PROVE  ProcessInv'
    <2>1. ProcessType' /\ FilesAreOurs'
      BY <1>4 DEF ProcessInv, ProcessType, FilesAreOurs, TakenBy, pluginVars, Selected
    <2>2. ReadyPlugins' /\ ConflictsAreReal'
      BY <1>4 DEF ProcessInv, ReadyPlugins, ConflictsAreReal, pluginVars, Selected
    <2> QED
      BY <1>1, <2>1, <2>2 DEF ProcessInv
  <1>5. agent \in {"down", "starting", "serving"}
    BY DEF ProcessInv, ProcessType
  <1>6. Serve => ProcessInv'
    BY <1>4 DEF Serve
  <1>7. ASSUME NEW s \in Sessions, NEW p \in Plugins, NEW alloc \in Allocations(p),
               StartSession(s, p, alloc)
        PROVE  ProcessInv'
    BY <1>4, <1>5, <1>7 DEF StartSession
  <1>8. ASSUME NEW s \in Sessions, EndSession(s)
        PROVE  ProcessInv'
    BY <1>4, <1>5, <1>8 DEF EndSession
  <1>9. StopAgent => ProcessInv'
    BY <1>4 DEF StopAgent
  <1>10. UNCHANGED vars => ProcessInv'
    BY <1>4, <1>5 DEF vars, pluginVars
  <1> QED
    BY <1>2, <1>3, <1>6, <1>7, <1>8, <1>9, <1>10 DEF Next

-----------------------------------------------------------------------------
(* What is kept of the sessions.                                           *)

Quanta(m) == IF m = "fractional" THEN PerDevice ELSE 1

SessionType ==
    /\ sessions \in [Sessions -> {NoSession} \union SessionRecords]
    /\ \A s \in Running : \A g \in DOMAIN sessions[s].alloc :
           sessions[s].alloc[g] \in 0 .. Quanta(sessions[s].slot)

SessionsBelong == \A s \in Running : Attached(s) \subseteq Selected(sessions[s].plugin)

LimitsAreComputed ==
    \A s \in Running : LET r == sessions[s] IN
        /\ r.hooked = (r.slot = "fractional")
        /\ r.env = HamiEnviron(IF r.hooked THEN ComputeLimits(r.alloc, Total) ELSE <<>>)

SessionInv == SessionType /\ SessionsBelong /\ LimitsAreComputed

LEMMA SessionIs ==
    ASSUME SessionType, NEW s \in Running
    PROVE  LET r == sessions[s]
           IN  /\ s \in Sessions /\ r \in SessionRecords
               /\ r.plugin \in Plugins /\ r.slot \in Modes /\ r.hooked \in BOOLEAN
               /\ DOMAIN r.alloc \in SUBSET Gpus
               /\ r.alloc \in [DOMAIN r.alloc -> 0 .. PerDevice]
  BY DEF SessionType, SessionRecords, Running

LEMMA QuantaAre == \A m \in Modes : Quanta(m) \in Nat /\ Quanta(m) <= PerDevice
  BY GpuFacts DEF Quanta, Modes

\* An allocation the maps hand out is one of the selected GPUs, in the mode's quanta.
LEMMA AllocationIs ==
    ASSUME ProcessInv, NEW p \in Plugins, status[p] = "ready", NEW alloc \in Allocations(p)
    PROVE  /\ alloc \in [devices[p] -> 0 .. Quanta(mode[p])] /\ devices[p] \in SUBSET Gpus
           /\ alloc \in [devices[p] -> 0 .. PerDevice]
           /\ devices[p] = Selected(p) /\ enforced[p] = (mode[p] = "fractional")
           /\ mode[p] \in Modes
           /\ \A g \in devices[p] : booked[p][g] + alloc[g] <= Quanta(mode[p])
  <1>1. mode[p] \in Modes /\ devices[p] \in SUBSET Gpus
    BY DEF ProcessInv, ProcessType, ClaimInv
  <1>2. devices[p] = Selected(p) /\ enforced[p] = (mode[p] = "fractional")
    BY DEF ProcessInv, ReadyPlugins
  <1>3. /\ alloc \in [devices[p] -> 0 .. Quanta(mode[p])]
        /\ \A g \in devices[p] : booked[p][g] + alloc[g] <= Quanta(mode[p])
    BY DEF Allocations, Capacity, Quanta
  <1>4. 0 .. Quanta(mode[p]) \subseteq 0 .. PerDevice
    BY <1>1, QuantaAre, GpuFacts
  <1> QED
    BY <1>1, <1>2, <1>3, <1>4

\* The record StartSession makes.
NewSession(p, alloc) ==
    [plugin |-> p, slot |-> mode[p], alloc |-> alloc,
     env |-> EnvironOf(p, alloc), hooked |-> enforced[p]]

LEMMA NewSessionIs ==
    ASSUME ProcessInv, NEW p \in Plugins, status[p] = "ready", NEW alloc \in Allocations(p)
    PROVE  LET r == NewSession(p, alloc)
           IN  /\ r \in SessionRecords /\ r # NoSession
               /\ r.env = HamiEnviron(IF r.hooked THEN ComputeLimits(r.alloc, Total) ELSE <<>>)
  <1> DEFINE env == EnvironOf(p, alloc)
  <1>1. /\ alloc \in [devices[p] -> 0 .. PerDevice] /\ devices[p] \in SUBSET Gpus
        /\ enforced[p] = (mode[p] = "fractional") /\ mode[p] \in Modes
    BY AllocationIs
  <1>2. env = HamiEnviron(IF enforced[p] THEN ComputeLimits(alloc, Total) ELSE <<>>)
    BY <1>1 DEF EnvironOf, Shares
  <1>3. /\ env = [mem |-> env.mem, sm |-> env.sm] /\ env.sm \in {NoLimit} \union (1 .. 100)
        /\ DOMAIN env.mem \subseteq 0 .. Cardinality(Gpus)
        /\ env.mem \in [DOMAIN env.mem -> MemoryLimits]
    <2>1. CASE enforced[p]
      BY <1>1, <1>2, <2>1, EnvironIs
    <2>2. CASE ~enforced[p]
      <3>1. env = HamiEnviron(<<>>)
        BY <1>2, <2>2
      <3>2. /\ env.sm = NoLimit /\ env = [mem |-> env.mem, sm |-> env.sm]
            /\ DOMAIN env.mem = {} /\ env.mem = [i \in {} |-> env.mem[i]]
        BY <3>1, EmptyEnviron
      <3>3. env.mem \in [{} -> MemoryLimits]
        BY <3>2
      <3> QED
        BY <3>2, <3>3
    <2> QED
      BY <2>1, <2>2
  <1> HIDE DEF env
  <1>4. env \in [mem : UNION {[I -> MemoryLimits] : I \in SUBSET (0 .. Cardinality(Gpus))},
                 sm : {NoLimit} \union (1 .. 100)]
    BY <1>3
  <1>5. NewSession(p, alloc) \in SessionRecords
    <2>1. alloc \in UNION {[D -> 0 .. PerDevice] : D \in SUBSET Gpus}
      BY <1>1
    <2>2. enforced[p] \in BOOLEAN
      BY DEF ProcessInv, ProcessType
    <2> QED
      BY <1>1, <1>4, <2>1, <2>2 DEF NewSession, SessionRecords, env
  <1>6. NewSession(p, alloc) # NoSession
    BY <1>5, AgentAssumption
  <1> QED
    BY <1>2, <1>5, <1>6 DEF NewSession, env

LEMMA SessionStarts ==
    ASSUME ProcessInv, SessionInv,
           NEW s \in Sessions, NEW p \in Plugins, NEW alloc \in Allocations(p),
           StartSession(s, p, alloc)
    PROVE  /\ sessions' = [sessions EXCEPT ![s] = NewSession(p, alloc)]
           /\ Running' = Running \union {s} /\ s \notin Running
           /\ sessions'[s] = NewSession(p, alloc)
           /\ \A t \in Running : sessions'[t] = sessions[t]
           /\ SessionInv'
  <1> DEFINE r == NewSession(p, alloc)
  <1>1. /\ sessions' = [sessions EXCEPT ![s] = r] /\ s \notin Running /\ status[p] = "ready"
        /\ UNCHANGED config
    BY DEF StartSession, NewSession
  <1>2. /\ r \in SessionRecords /\ r # NoSession
        /\ r.env = HamiEnviron(IF r.hooked THEN ComputeLimits(r.alloc, Total) ELSE <<>>)
    BY <1>1, NewSessionIs
  <1>3. r.plugin = p /\ r.slot = mode[p] /\ r.alloc = alloc /\ r.hooked = enforced[p]
    BY DEF NewSession
  <1>4. sessions \in [Sessions -> {NoSession} \union SessionRecords]
    BY DEF SessionInv, SessionType
  <1> HIDE DEF r
  <1>5. /\ sessions' \in [Sessions -> {NoSession} \union SessionRecords]
        /\ sessions'[s] = r /\ \A t \in Sessions \ {s} : sessions'[t] = sessions[t]
    BY <1>1, <1>2, <1>4
  <1>6. Running' = Running \union {s} /\ \A t \in Running : sessions'[t] = sessions[t]
    BY <1>1, <1>2, <1>5 DEF Running
  <1>8. /\ alloc \in [devices[p] -> 0 .. Quanta(mode[p])]
        /\ devices[p] = Selected(p) /\ enforced[p] = (mode[p] = "fractional")
    BY <1>1, AllocationIs
  <1>9. SessionType'
    <2> SUFFICES ASSUME NEW t \in Running', NEW g \in DOMAIN sessions'[t].alloc
                 PROVE  sessions'[t].alloc[g] \in 0 .. Quanta(sessions'[t].slot)
      BY <1>5 DEF SessionType
    <2>1. CASE t = s
      BY <1>3, <1>5, <1>8, <2>1
    <2>2. CASE t # s
      <3>1. t \in Running /\ sessions'[t] = sessions[t]
        BY <1>6, <2>2
      <3> QED
        BY <3>1 DEF SessionInv, SessionType
    <2> QED
      BY <2>1, <2>2
  <1>10. SessionsBelong'
    <2> SUFFICES ASSUME NEW t \in Running'
                 PROVE  ActiveDevices(sessions'[t].alloc) \subseteq Selected(sessions'[t].plugin)
      BY <1>1 DEF SessionsBelong, Attached, Selected
    <2>1. CASE t = s
      BY <1>3, <1>5, <1>8, <2>1 DEF ActiveDevices
    <2>2. CASE t # s
      <3>1. t \in Running /\ sessions'[t] = sessions[t]
        BY <1>6, <2>2
      <3> QED
        BY <3>1 DEF SessionInv, SessionsBelong, Attached
    <2> QED
      BY <2>1, <2>2
  <1>11. LimitsAreComputed'
    BY <1>2, <1>3, <1>5, <1>6, <1>8 DEF SessionInv, LimitsAreComputed
  <1> QED
    BY <1>1, <1>5, <1>6, <1>9, <1>10, <1>11 DEF SessionInv, r

LEMMA SessionEnds ==
    ASSUME SessionInv, NEW s \in Sessions, EndSession(s)
    PROVE  /\ Running' = Running \ {s} /\ s \in Running
           /\ \A t \in Running \ {s} : sessions'[t] = sessions[t]
           /\ SessionInv'
  <1>1. s \in Running /\ sessions' = [sessions EXCEPT ![s] = NoSession] /\ UNCHANGED config
    BY DEF EndSession
  <1>2. sessions \in [Sessions -> {NoSession} \union SessionRecords]
    BY DEF SessionInv, SessionType
  <1>3. /\ sessions' \in [Sessions -> {NoSession} \union SessionRecords]
        /\ sessions'[s] = NoSession /\ \A t \in Sessions \ {s} : sessions'[t] = sessions[t]
    BY <1>1, <1>2
  <1>4. Running' = Running \ {s} /\ \A t \in Running \ {s} : sessions'[t] = sessions[t]
    BY <1>3 DEF Running
  <1>5. SessionType'
    BY <1>3, <1>4 DEF SessionInv, SessionType
  <1>6. SessionsBelong' /\ LimitsAreComputed'
    BY <1>1, <1>4 DEF SessionInv, SessionsBelong, Attached, LimitsAreComputed, Selected
  <1> QED
    BY <1>1, <1>4, <1>5, <1>6 DEF SessionInv

\* Everything else leaves the sessions alone, and a running session's selection.
LEMMA SessionsStay ==
    ASSUME SessionInv, UNCHANGED sessions,
           Running # {} => \A p \in Plugins : config'[p].sel = config[p].sel
    PROVE  SessionInv'
  <1>1. Running' = Running
    BY DEF Running
  <1>2. SessionType' /\ LimitsAreComputed'
    BY <1>1 DEF SessionInv, SessionType, LimitsAreComputed
  <1>3. SessionsBelong'
    <2> SUFFICES ASSUME NEW s \in Running
                 PROVE  Attached(s) \subseteq Selected(sessions[s].plugin)'
      BY <1>1 DEF SessionsBelong, Attached
    <2>1. sessions[s].plugin \in Plugins
      BY SessionIs DEF SessionInv
    <2> QED
      BY <2>1 DEF SessionInv, SessionsBelong, Selected
  <1> QED
    BY <1>2, <1>3 DEF SessionInv

-----------------------------------------------------------------------------
(* The books: what the sessions hold in each slot of each plugin.          *)

InSlot(p, m) == {s \in Running : sessions[s].plugin = p /\ sessions[s].slot = m}

\* The running sessions fit into their slots whether or not the agent is there:
\* this is what restore_from_container will book again.
SlotsFit ==
    \A p \in Plugins, m \in Modes, g \in Gpus : TotalAmount(InSlot(p, m), g) <= Quanta(m)

BooksAreRight ==
    agent = "serving" => \A p \in Plugins, m \in Modes, g \in Gpus :
        status[p] = "ready" /\ mode[p] = m => booked[p][g] = TotalAmount(InSlot(p, m), g)

BookInv == booked \in [Plugins -> [Gpus -> 0 .. PerDevice]] /\ SlotsFit /\ BooksAreRight

LEMMA RecordAmount ==
    ASSUME NEW r \in SessionRecords, NEW g
    PROVE  (IF g \in DOMAIN r.alloc THEN r.alloc[g] ELSE 0) \in Nat
  <1>1. r.alloc \in UNION {[D -> 0 .. PerDevice] : D \in SUBSET Gpus}
    BY DEF SessionRecords
  <1>2. r.alloc \in [DOMAIN r.alloc -> 0 .. PerDevice]
    BY <1>1
  <1> QED
    BY <1>2, GpuFacts

LEMMA AmountIs ==
    ASSUME SessionType, NEW s \in Running, NEW g
    PROVE  Amount(s, g) \in Nat
  BY SessionIs, RecordAmount DEF Amount

LEMMA TotalIs ==
    ASSUME SessionType, NEW S \in SUBSET Running, NEW g
    PROVE  IsFiniteSet(S) /\ TotalAmount(S, g) \in Nat
  <1>1. IsFiniteSet(S)
    BY GpuFacts, FS_Subset DEF Running
  <1> DEFINE f == [s \in S |-> Amount(s, g)]
  <1>2. \A s \in S : f[s] \in Nat
    BY AmountIs
  <1> HIDE DEF f
  <1>3. SumFunctionOnSet(f, S) \in Nat
    BY <1>1, <1>2, SumIsNat
  <1> QED
    BY <1>1, <1>3 DEF TotalAmount, f

\* A session more, a session less.
LEMMA TotalGrows ==
    ASSUME SessionType, SessionType', NEW S \in SUBSET Running, NEW s \in Running', s \notin Running,
           \A t \in Running : sessions'[t] = sessions[t], NEW g
    PROVE  TotalAmount(S \union {s}, g)' = TotalAmount(S, g) + Amount(s, g)'
  <1> DEFINE f == [t \in S |-> Amount(t, g)]
             h == [t \in S \union {s} |-> Amount(t, g)']
  <1>1. IsFiniteSet(S) /\ s \notin S
    BY TotalIs
  <1>2. \A t \in S : f[t] = h[t] /\ f[t] \in Int
    <2> TAKE t \in S
    <2>1. Amount(t, g)' = Amount(t, g)
      BY DEF Amount
    <2> QED
      BY <2>1, AmountIs
  <1>3. h[s] = Amount(s, g)' /\ h[s] \in Int
    <2>1. sessions'[s] \in SessionRecords
      BY DEF SessionType, Running
    <2>2. (IF g \in DOMAIN sessions'[s].alloc THEN sessions'[s].alloc[g] ELSE 0) \in Nat
      BY <2>1, RecordAmount
    <2> QED
      BY <2>2 DEF Amount
  <1> HIDE DEF f, h
  <1>4. SumFunctionOnSet(h, S \union {s}) = SumFunctionOnSet(f, S) + h[s]
    BY <1>1, <1>2, <1>3, SumExtended
  <1> QED
    BY <1>3, <1>4 DEF TotalAmount, f, h

LEMMA TotalShrinks ==
    ASSUME SessionType, NEW S \in SUBSET Running, NEW s \in S,
           \A t \in Running \ {s} : sessions'[t] = sessions[t], NEW g
    PROVE  TotalAmount(S, g) = Amount(s, g) + TotalAmount(S \ {s}, g)'
  <1> DEFINE f == [t \in S |-> Amount(t, g)]
             h == [t \in S \ {s} |-> Amount(t, g)']
  <1>1. IsFiniteSet(S)
    BY TotalIs
  <1>2. \A t \in S : f[t] \in Int
    BY AmountIs
  <1>3. \A t \in S \ {s} : f[t] = h[t]
    BY DEF Amount
  <1>4. f[s] = Amount(s, g)
    OBVIOUS
  <1> HIDE DEF f, h
  <1>5. SumFunctionOnSet(f, S) = f[s] + SumFunctionOnSet(h, S \ {s})
    <2>1. SumFunctionOnSet(f, S) = f[s] + SumFunctionOnSet(f, S \ {s})
      BY <1>1, <1>2, SumWithout
    <2>2. IsFiniteSet(S \ {s})
      BY <1>1, FS_Subset
    <2>3. SumFunctionOnSet(f, S \ {s}) = SumFunctionOnSet(h, S \ {s})
      BY <1>3, <2>2, SumOfEqual
    <2> QED
      BY <2>1, <2>3
  <1> QED
    BY <1>4, <1>5 DEF TotalAmount, f, h

LEMMA TotalStays ==
    ASSUME NEW S \in SUBSET Running, \A t \in S : sessions'[t] = sessions[t], NEW g
    PROVE  TotalAmount(S, g)' = TotalAmount(S, g)
  <1>1. [t \in S |-> Amount(t, g)'] = [t \in S |-> Amount(t, g)]
    BY DEF Amount
  <1> QED
    BY <1>1 DEF TotalAmount

LEMMA InSlotIs == \A p, m : InSlot(p, m) \in SUBSET Running
  BY DEF InSlot

\* A session starts: only its own slot holds more than before.
LEMMA SlotGrows ==
    ASSUME ProcessInv, SessionInv,
           NEW s \in Sessions, NEW p \in Plugins, NEW alloc \in Allocations(p),
           StartSession(s, p, alloc),
           NEW q \in Plugins, NEW m \in Modes, NEW g \in Gpus
    PROVE  TotalAmount(InSlot(q, m), g)' =
               TotalAmount(InSlot(q, m), g) +
               (IF q = p /\ m = mode[p] /\ g \in DOMAIN alloc THEN alloc[g] ELSE 0)
  <1> DEFINE S == InSlot(q, m)
  <1>1. /\ Running' = Running \union {s} /\ s \notin Running
        /\ sessions'[s] = NewSession(p, alloc)
        /\ \A t \in Running : sessions'[t] = sessions[t]
        /\ SessionInv'
    BY SessionStarts
  <1>2. S \in SUBSET Running /\ SessionType /\ SessionType'
    BY <1>1, InSlotIs DEF SessionInv
  <1>3. TotalAmount(S, g) \in Nat
    BY <1>2, TotalIs
  <1>4. sessions'[s].plugin = p /\ sessions'[s].slot = mode[p] /\ sessions'[s].alloc = alloc
    BY <1>1 DEF NewSession
  <1>5. CASE q = p /\ m = mode[p]
    <2>1. InSlot(q, m)' = S \union {s}
      BY <1>1, <1>4, <1>5 DEF InSlot
    <2>2. Amount(s, g)' = IF g \in DOMAIN alloc THEN alloc[g] ELSE 0
      BY <1>4 DEF Amount
    <2> HIDE DEF S
    <2> DEFINE T == S \union {s}
    <2>3. SumFunctionOnSet([t \in T |-> Amount(t, g)'], T) = TotalAmount(S, g) + Amount(s, g)'
      <3>1. s \in Running'
        BY <1>1
      <3>2. \A X \in SUBSET Running : SumFunctionOnSet([t \in X \union {s} |-> Amount(t, g)'], X \union {s})
                 = TotalAmount(X, g) + Amount(s, g)'
        BY <1>1, <1>2, <3>1, TotalGrows DEF TotalAmount
      <3> QED
        BY <1>2, <3>2
    <2>4. TotalAmount(InSlot(q, m), g)' = TotalAmount(S, g) + Amount(s, g)'
      BY <2>1, <2>3 DEF TotalAmount
    <2> QED
      BY <1>5, <2>2, <2>4 DEF S
  <1>6. CASE ~(q = p /\ m = mode[p])
    <2>1. InSlot(q, m)' = S
      BY <1>1, <1>4, <1>6 DEF InSlot
    <2> HIDE DEF S
    <2>2. \A t \in S : sessions'[t] = sessions[t]
      BY <1>1, <1>2
    <2>3. [t \in S |-> Amount(t, g)'] = [t \in S |-> Amount(t, g)]
      BY <2>2 DEF Amount
    <2>4. TotalAmount(InSlot(q, m), g)' = TotalAmount(S, g)
      BY <2>1, <2>3 DEF TotalAmount
    <2>5. (IF q = p /\ m = mode[p] /\ g \in DOMAIN alloc THEN alloc[g] ELSE 0) = 0
      BY <1>6
    <2>6. TotalAmount(S, g) = TotalAmount(InSlot(q, m), g)
      BY DEF S
    <2> QED
      BY <1>3, <2>4, <2>5, <2>6
  <1> QED
    BY <1>5, <1>6

\* A session ends: only its own slot holds less than before.
LEMMA SlotShrinks ==
    ASSUME SessionInv, NEW s \in Sessions, EndSession(s),
           NEW q \in Plugins, NEW m \in Modes, NEW g \in Gpus
    PROVE  /\ TotalAmount(InSlot(q, m), g) =
                  (IF s \in InSlot(q, m) THEN Amount(s, g) ELSE 0) + TotalAmount(InSlot(q, m), g)'
           /\ TotalAmount(InSlot(q, m), g)' \in Nat /\ TotalAmount(InSlot(q, m), g) \in Nat
           /\ Amount(s, g) \in Nat
  <1> DEFINE S == InSlot(q, m)
  <1>1. /\ Running' = Running \ {s} /\ s \in Running
        /\ \A t \in Running \ {s} : sessions'[t] = sessions[t]
        /\ SessionType'
    BY SessionEnds DEF SessionInv
  <1>2. S \in SUBSET Running /\ S \ {s} \in SUBSET Running /\ SessionType
    BY InSlotIs DEF SessionInv
  <1>3. Amount(s, g) \in Nat /\ \A X \in SUBSET Running : TotalAmount(X, g) \in Nat
    BY <1>1, <1>2, AmountIs, TotalIs
  <1>4. InSlot(q, m)' = S \ {s}
    BY <1>1 DEF InSlot
  <1> HIDE DEF S
  <1>5. [t \in S \ {s} |-> Amount(t, g)'] = [t \in S \ {s} |-> Amount(t, g)]
    BY <1>1, <1>2 DEF Amount
  <1>6. TotalAmount(InSlot(q, m), g)' = TotalAmount(S \ {s}, g)
    BY <1>4, <1>5 DEF TotalAmount
  <1>7. TotalAmount(S, g) = (IF s \in S THEN Amount(s, g) ELSE 0) + TotalAmount(S \ {s}, g)
    <2>1. CASE s \in S
      <3>1. [t \in S \ {s} |-> Amount(t, g)'] = [t \in S \ {s} |-> Amount(t, g)]
        BY <1>5
      <3>2. \A X \in SUBSET Running : s \in X =>
                TotalAmount(X, g) = Amount(s, g) + SumFunctionOnSet([t \in X \ {s} |-> Amount(t, g)'], X \ {s})
        BY <1>1, <1>2, TotalShrinks DEF TotalAmount
      <3>3. TotalAmount(S, g) = Amount(s, g) + SumFunctionOnSet([t \in S \ {s} |-> Amount(t, g)'], S \ {s})
        BY <1>2, <2>1, <3>2
      <3> QED
        BY <2>1, <3>1, <3>3 DEF TotalAmount
    <2>2. CASE s \notin S
      <3>1. S \ {s} = S
        BY <2>2
      <3> QED
        BY <1>2, <1>3, <2>2, <3>1
    <2> QED
      BY <2>1, <2>2
  <1>8. TotalAmount(S \ {s}, g) \in Nat /\ TotalAmount(S, g) \in Nat
    BY <1>2, <1>3
  <1> QED
    BY <1>3, <1>6, <1>7, <1>8 DEF S

LEMMA SlotsStay ==
    ASSUME UNCHANGED sessions, NEW p, NEW m, NEW g
    PROVE  TotalAmount(InSlot(p, m), g)' = TotalAmount(InSlot(p, m), g)
  <1>1. InSlot(p, m)' = InSlot(p, m)
    BY DEF InSlot, Running
  <1>2. [s \in InSlot(p, m) |-> Amount(s, g)'] = [s \in InSlot(p, m) |-> Amount(s, g)]
    BY DEF Amount
  <1> QED
    BY <1>1, <1>2 DEF TotalAmount

LEMMA BookInvInitially == Init => BookInv
  <1> SUFFICES ASSUME Init PROVE BookInv
    OBVIOUS
  <1>1. Running = {}
    BY DEF Init, Running
  <1>2. ASSUME NEW p, NEW m \in Modes, NEW g PROVE TotalAmount(InSlot(p, m), g) <= Quanta(m)
    <2>1. InSlot(p, m) = {}
      BY <1>1, InSlotIs
    <2>2. TotalAmount({}, g) = 0
      BY SumOfNone DEF TotalAmount
    <2> QED
      BY <2>1, <2>2, QuantaAre
  <1>3. booked \in [Plugins -> [Gpus -> 0 .. PerDevice]]
    BY GpuFacts DEF Init, NothingBooked
  <1> QED
    BY <1>2, <1>3 DEF BookInv, SlotsFit, BooksAreRight, Init

LEMMA BookInvStart ==
    ASSUME BookInv, UNCHANGED sessions, agent' # "serving",
           booked' \in [Plugins -> [Gpus -> 0 .. PerDevice]]
    PROVE  BookInv'
  BY SlotsStay DEF BookInv, SlotsFit, BooksAreRight

\* restore_from_container: what the books were, or would have been.
LEMMA BookInvServe ==
    ASSUME ProcessInv, SessionInv, BookInv, Serve
    PROVE  BookInv'
  <1>1. /\ booked' = [p \in Plugins |-> [g \in Gpus |->
                         IF status[p] # "ready" THEN 0 ELSE TotalAmount(Restorable(p), g)]]
        /\ UNCHANGED <<sessions, status, mode>>
    BY DEF Serve, pluginVars
  <1>2. \A p \in Plugins : Restorable(p) = InSlot(p, mode[p]) /\ mode[p] \in Modes
    BY DEF Restorable, InSlot, ProcessInv, ProcessType
  <1>3. ASSUME NEW p \in Plugins, NEW g \in Gpus
        PROVE  TotalAmount(Restorable(p), g) \in 0 .. PerDevice
    <2>1. TotalAmount(InSlot(p, mode[p]), g) \in Nat
      BY InSlotIs, TotalIs DEF SessionInv
    <2>2. TotalAmount(InSlot(p, mode[p]), g) <= Quanta(mode[p])
      BY <1>2 DEF BookInv, SlotsFit
    <2> QED
      BY <1>2, <2>1, <2>2, QuantaAre, GpuFacts
  <1>4. booked' \in [Plugins -> [Gpus -> 0 .. PerDevice]]
    BY <1>1, <1>3, GpuFacts
  <1>5. SlotsFit'
    BY <1>1, SlotsStay DEF BookInv, SlotsFit
  <1>6. BooksAreRight'
    <2> SUFFICES ASSUME NEW p \in Plugins, NEW m \in Modes, NEW g \in Gpus,
                        status[p] = "ready", mode[p] = m
                 PROVE  booked'[p][g] = TotalAmount(InSlot(p, m), g)'
      BY <1>1 DEF BooksAreRight
    <2>1. booked'[p][g] = TotalAmount(InSlot(p, m), g)
      BY <1>1, <1>2
    <2> QED
      BY <1>1, <2>1, SlotsStay
  <1> QED
    BY <1>4, <1>5, <1>6 DEF BookInv

LEMMA BookInvSessionStarts ==
    ASSUME ProcessInv, SessionInv, BookInv,
           NEW s \in Sessions, NEW p \in Plugins, NEW alloc \in Allocations(p),
           StartSession(s, p, alloc)
    PROVE  BookInv'
  <1> DEFINE Part(g) == IF g \in DOMAIN alloc THEN alloc[g] ELSE 0
  <1>1. /\ agent = "serving" /\ status[p] = "ready"
        /\ booked' = [booked EXCEPT ![p] = [g \in Gpus |-> booked[p][g] + Part(g)]]
        /\ UNCHANGED <<agent, status, mode>>
    BY DEF StartSession, pluginVars
  <1>2. /\ alloc \in [devices[p] -> 0 .. PerDevice] /\ mode[p] \in Modes
        /\ \A g \in devices[p] : booked[p][g] + alloc[g] <= Quanta(mode[p])
    BY <1>1, AllocationIs
  <1>3. \A g \in Gpus : booked[p][g] \in 0 .. PerDevice
    BY DEF BookInv
  <1>4. PerDevice \in Nat /\ Quanta(mode[p]) \in Nat /\ Quanta(mode[p]) <= PerDevice
    BY <1>2, GpuFacts, QuantaAre
  <1>5. \A g \in Gpus : booked[p][g] = TotalAmount(InSlot(p, mode[p]), g)
    BY <1>1, <1>2 DEF BookInv, BooksAreRight
  <1>6. \A g \in Gpus : TotalAmount(InSlot(p, mode[p]), g) <= Quanta(mode[p])
    BY <1>2 DEF BookInv, SlotsFit
  <1>7. \A g \in Gpus : Part(g) \in Nat /\ booked[p][g] + Part(g) <= Quanta(mode[p])
    <2> TAKE g \in Gpus
    <2>1. CASE g \in DOMAIN alloc
      BY <1>2, <1>4, <2>1
    <2>2. CASE g \notin DOMAIN alloc
      BY <1>3, <1>5, <1>6, <2>2
    <2> QED
      BY <2>1, <2>2
  <1> HIDE DEF Part
  <1>8. booked' \in [Plugins -> [Gpus -> 0 .. PerDevice]]
    <2>1. [g \in Gpus |-> booked[p][g] + Part(g)] \in [Gpus -> 0 .. PerDevice]
      BY <1>3, <1>4, <1>7
    <2> QED
      BY <1>1, <2>1 DEF BookInv
  <1>9. \A q \in Plugins, m \in Modes, g \in Gpus :
            TotalAmount(InSlot(q, m), g)' =
                TotalAmount(InSlot(q, m), g) + (IF q = p /\ m = mode[p] THEN Part(g) ELSE 0)
    <2> TAKE q \in Plugins, m \in Modes, g \in Gpus
    <2>1. TotalAmount(InSlot(q, m), g)' =
              TotalAmount(InSlot(q, m), g) +
              (IF q = p /\ m = mode[p] /\ g \in DOMAIN alloc THEN alloc[g] ELSE 0)
      BY SlotGrows
    <2>2. (IF q = p /\ m = mode[p] /\ g \in DOMAIN alloc THEN alloc[g] ELSE 0)
              = (IF q = p /\ m = mode[p] THEN Part(g) ELSE 0)
      BY DEF Part
    <2> QED
      BY <2>1, <2>2
  <1>10. \A q \in Plugins, m \in Modes, g \in Gpus : TotalAmount(InSlot(q, m), g) \in Nat
    BY InSlotIs, TotalIs DEF SessionInv
  <1>11. SlotsFit'
    <2> SUFFICES ASSUME NEW q \in Plugins, NEW m \in Modes, NEW g \in Gpus
                 PROVE  TotalAmount(InSlot(q, m), g)' <= Quanta(m)
      BY DEF SlotsFit
    <2>1. CASE q = p /\ m = mode[p]
      BY <1>5, <1>7, <1>9, <2>1
    <2>2. CASE ~(q = p /\ m = mode[p])
      BY <1>9, <1>10, <2>2 DEF BookInv, SlotsFit
    <2> QED
      BY <2>1, <2>2
  <1>12. BooksAreRight'
    <2> SUFFICES ASSUME NEW q \in Plugins, NEW m \in Modes, NEW g \in Gpus,
                        status[q] = "ready", mode[q] = m
                 PROVE  booked'[q][g] = TotalAmount(InSlot(q, m), g)'
      BY <1>1 DEF BooksAreRight
    <2>1. booked[q][g] = TotalAmount(InSlot(q, m), g)
      BY <1>1 DEF BookInv, BooksAreRight
    <2>2. CASE q = p
      BY <1>1, <1>9, <2>1, <2>2 DEF BookInv
    <2>3. CASE q # p
      <3>1. booked'[q][g] = booked[q][g]
        BY <1>1, <2>3 DEF BookInv
      <3> QED
        BY <1>9, <1>10, <2>1, <2>3, <3>1
    <2> QED
      BY <2>2, <2>3
  <1> QED
    BY <1>8, <1>11, <1>12 DEF BookInv

LEMMA BookInvSessionEnds ==
    ASSUME ProcessInv, SessionInv, BookInv, NEW s \in Sessions, EndSession(s)
    PROVE  BookInv'
  <1> DEFINE p == sessions[s].plugin
             Left(q, m, g) == TotalAmount(InSlot(q, m), g)'
  <1>1. UNCHANGED <<agent, status, mode>> /\ s \in Running
    BY DEF EndSession, pluginVars
  <1>2. p \in Plugins /\ sessions[s].slot \in Modes
    BY <1>1, SessionIs DEF SessionInv
  <1>3. booked' = IF agent = "serving" /\ status[p] = "ready" /\ s \in InSlot(p, mode[p])
                  THEN [booked EXCEPT ![p] = [g \in Gpus |-> booked[p][g] - Amount(s, g)]]
                  ELSE booked
    BY DEF EndSession, Restorable, InSlot
  <1>4. ASSUME NEW q \in Plugins, NEW m \in Modes, NEW g \in Gpus
        PROVE  /\ TotalAmount(InSlot(q, m), g) =
                      (IF s \in InSlot(q, m) THEN Amount(s, g) ELSE 0) + Left(q, m, g)
               /\ Left(q, m, g) \in Nat /\ Amount(s, g) \in Nat
               /\ TotalAmount(InSlot(q, m), g) \in Nat
    BY SlotShrinks
  <1>5. \A q \in Plugins, m \in Modes : s \in InSlot(q, m) => q = p
    BY DEF InSlot
  <1> HIDE DEF Left, p
  <1>6. ASSUME NEW q \in Plugins, NEW m \in Modes, NEW g \in Gpus,
               agent = "serving", status[q] = "ready", mode[q] = m
        PROVE  booked'[q][g] = Left(q, m, g)
    <2>1. booked[q][g] = TotalAmount(InSlot(q, m), g)
      BY <1>6 DEF BookInv, BooksAreRight
    <2>2. CASE s \in InSlot(q, m)
      <3>1. booked'[q][g] = booked[q][g] - Amount(s, g)
        BY <1>3, <1>5, <1>6, <2>2 DEF BookInv
      <3> QED
        BY <1>4, <2>1, <2>2, <3>1
    <2>3. CASE s \notin InSlot(q, m)
      <3>1. booked'[q][g] = booked[q][g]
        BY <1>3, <1>6, <2>3 DEF BookInv
      <3> QED
        BY <1>4, <2>1, <2>3, <3>1
    <2> QED
      BY <2>2, <2>3
  <1>7. booked' \in [Plugins -> [Gpus -> 0 .. PerDevice]]
    <2>1. CASE agent = "serving" /\ status[p] = "ready" /\ s \in InSlot(p, mode[p])
      <3>1. mode[p] \in Modes
        BY <1>2 DEF ProcessInv, ProcessType
      <3>2. \A g \in Gpus : booked'[p][g] = Left(p, mode[p], g) /\ booked'[p][g] = booked[p][g] - Amount(s, g)
        BY <1>2, <1>3, <1>6, <2>1, <3>1 DEF BookInv
      <3>3. \A g \in Gpus : booked[p][g] \in 0 .. PerDevice
        BY <1>2 DEF BookInv
      <3>4. \A g \in Gpus : booked[p][g] - Amount(s, g) \in 0 .. PerDevice
        BY <1>2, <1>4, <3>1, <3>2, <3>3, GpuFacts
      <3> QED
        BY <1>3, <2>1, <3>4 DEF BookInv
    <2>2. CASE ~(agent = "serving" /\ status[p] = "ready" /\ s \in InSlot(p, mode[p]))
      BY <1>3, <2>2 DEF BookInv
    <2> QED
      BY <2>1, <2>2
  <1>8. SlotsFit'
    <2> SUFFICES ASSUME NEW q \in Plugins, NEW m \in Modes, NEW g \in Gpus
                 PROVE  Left(q, m, g) <= Quanta(m)
      BY DEF SlotsFit, Left
    <2>1. TotalAmount(InSlot(q, m), g) <= Quanta(m)
      BY DEF BookInv, SlotsFit
    <2> QED
      BY <1>4, <2>1, QuantaAre
  <1>9. BooksAreRight'
    BY <1>1, <1>6 DEF BooksAreRight, Left
  <1> QED
    BY <1>7, <1>8, <1>9 DEF BookInv

-----------------------------------------------------------------------------
(* The invariant.                                                          *)

AgentInv == ProcessInv /\ SessionInv /\ BookInv

LEMMA SessionInvInitially == Init => SessionInv
  <1> SUFFICES ASSUME Init PROVE SessionInv
    OBVIOUS
  <1>1. Running = {} /\ sessions \in [Sessions -> {NoSession} \union SessionRecords]
    BY DEF Init, Running
  <1> QED
    BY <1>1 DEF SessionInv, SessionType, SessionsBelong, LimitsAreComputed

THEOREM AgentInvariant == Spec => []AgentInv
  <1>1. Init => AgentInv
    BY ProcessInvInitially, SessionInvInitially, BookInvInitially DEF AgentInv
  <1>2. AgentInv /\ [Next]_vars => AgentInv'
    <2> SUFFICES ASSUME AgentInv, [Next]_vars PROVE AgentInv'
      OBVIOUS
    <2>1. ProcessInv /\ SessionInv /\ BookInv /\ ProcessInv'
      BY ProcessInvPreserved DEF AgentInv
    <2>2. booked \in [Plugins -> [Gpus -> 0 .. PerDevice]]
      BY <2>1 DEF BookInv
    <2>3. ASSUME NEW c \in Configs, NEW n \in Pids, StartAgent(c, n)
          PROVE  AgentInv'
      <3>1. SessionInv'
        BY <2>1, <2>3, SessionsStay DEF StartAgent
      <3>2. booked' \in [Plugins -> [Gpus -> 0 .. PerDevice]]
        BY <2>3, GpuFacts DEF StartAgent, NothingBooked
      <3>3. BookInv'
        BY <2>1, <2>3, <3>2, BookInvStart DEF StartAgent
      <3> QED
        BY <2>1, <3>1, <3>3 DEF AgentInv
    <2>4. ASSUME NEW p \in Plugins, InitPlugin(p)
          PROVE  AgentInv'
      <3>1. agent = "starting" /\ UNCHANGED <<agent, config, booked, sessions>>
        BY <2>4 DEF InitPlugin, InitUnset, InitDisabled, InitConflict, InitFails, InitReady, Ends
      <3>2. SessionInv' /\ BookInv'
        BY <2>1, <2>2, <3>1, SessionsStay, BookInvStart
      <3> QED
        BY <2>1, <3>2 DEF AgentInv
    <2>5. CASE Serve
      <3>1. SessionInv' /\ BookInv'
        BY <2>1, <2>5, SessionsStay, BookInvServe DEF Serve
      <3> QED
        BY <2>1, <3>1 DEF AgentInv
    <2>6. ASSUME NEW s \in Sessions, NEW p \in Plugins, NEW alloc \in Allocations(p),
                 StartSession(s, p, alloc)
          PROVE  AgentInv'
      BY <2>1, <2>6, SessionStarts, BookInvSessionStarts DEF AgentInv
    <2>7. ASSUME NEW s \in Sessions, EndSession(s)
          PROVE  AgentInv'
      BY <2>1, <2>7, SessionEnds, BookInvSessionEnds DEF AgentInv
    <2>8. CASE StopAgent
      <3>1. agent' = "down" /\ UNCHANGED <<config, booked, sessions>>
        BY <2>8 DEF StopAgent
      <3>2. SessionInv' /\ BookInv'
        BY <2>1, <2>2, <3>1, SessionsStay, BookInvStart
      <3> QED
        BY <2>1, <3>2 DEF AgentInv
    <2>9. CASE UNCHANGED vars
      <3>1. UNCHANGED <<config, booked, sessions, agent, status, mode>>
        BY <2>9 DEF vars
      <3>2. SessionInv' /\ SlotsFit'
        BY <2>1, <3>1, SessionsStay, SlotsStay DEF BookInv, SlotsFit
      <3>3. BooksAreRight'
        BY <2>1, <3>1, SlotsStay DEF BookInv, BooksAreRight
      <3> QED
        BY <2>1, <2>2, <3>1, <3>2, <3>3 DEF AgentInv, BookInv
    <2> QED
      BY <2>3, <2>4, <2>5, <2>6, <2>7, <2>8, <2>9 DEF Next
  <1> QED
    BY <1>1, <1>2, PTL DEF Spec

-----------------------------------------------------------------------------
(* What a session holds of a GPU.                                          *)

LEMMA ShareIs ==
    ASSUME SessionInv, NEW s \in Running, NEW g \in Attached(s)
    PROVE  /\ g \in Gpus /\ ShareOf(s, g) \in 1 .. PerDevice
           /\ ShareOf(s, g) < PerDevice =>
                 sessions[s].slot = "fractional" /\ ShareOf(s, g) = sessions[s].alloc[g]
           /\ sessions[s].slot = "fractional" => ShareOf(s, g) = sessions[s].alloc[g]
           /\ ShareOf(s, g) <= Amount(s, g) * (IF sessions[s].slot = "fractional" THEN 1 ELSE PerDevice)
           /\ Amount(s, g) \in Nat
  <1> DEFINE r == sessions[s]
  <1>1. r.slot \in Modes /\ r.alloc \in [DOMAIN r.alloc -> 0 .. PerDevice] /\ DOMAIN r.alloc \in SUBSET Gpus
    BY SessionIs DEF SessionInv
  <1>2. g \in DOMAIN r.alloc /\ r.alloc[g] > 0 /\ r.alloc[g] \in 0 .. PerDevice
    BY <1>1 DEF Attached, ActiveDevices
  <1>3. Amount(s, g) = r.alloc[g] /\ PerDevice \in Nat \ {0}
    BY <1>2, GpuFacts DEF Amount
  <1> HIDE DEF r
  <1>4. ShareOf(s, g) = IF r.slot = "discrete" THEN PerDevice ELSE r.alloc[g]
    BY DEF ShareOf, r
  <1>5. CASE r.slot = "fractional"
    BY <1>1, <1>2, <1>3, <1>4, <1>5 DEF r
  <1>6. CASE r.slot = "discrete"
    <2>1. 1 * PerDevice <= r.alloc[g] * PerDevice
      BY <1>2, <1>3, Monotone
    <2> QED
      BY <1>1, <1>2, <1>3, <1>4, <1>6, <2>1 DEF r
  <1> QED
    BY <1>1, <1>5, <1>6 DEF Modes

LEMMA BoundIs ==
    ASSUME SessionInv, NEW s \in Running, NEW g \in Attached(s)
    PROVE  LET env == sessions[s].env
           IN  IF ShareOf(s, g) < PerDevice
               THEN /\ sessions[s].hooked /\ VisibleIndex(s, g) \in DOMAIN env.mem
                    /\ Bound(s, g) = MemoryLimit(ShareOf(s, g), Total[g])
                    /\ env.sm \in 1 .. 100 /\ env.sm >= SmLimit(ShareOf(s, g))
               ELSE /\ Bound(s, g) = Total[g]
                    /\ sessions[s].hooked => VisibleIndex(s, g) \notin DOMAIN env.mem
  <1> DEFINE r == sessions[s]
  <1>1. /\ DOMAIN r.alloc \in SUBSET Gpus /\ r.alloc \in [DOMAIN r.alloc -> 0 .. PerDevice]
        /\ r.hooked \in BOOLEAN
    BY SessionIs DEF SessionInv
  <1>2. /\ r.hooked = (r.slot = "fractional")
        /\ r.hooked => r.env = HamiEnviron(ComputeLimits(r.alloc, Total))
    BY DEF SessionInv, LimitsAreComputed
  <1>3. /\ ShareOf(s, g) < PerDevice => r.slot = "fractional"
        /\ r.slot = "fractional" => ShareOf(s, g) = r.alloc[g]
    BY ShareIs
  <1>4. g \in ActiveDevices(r.alloc) /\ VisibleIndex(s, g) = LocalIndex(r.alloc, g)
    BY DEF Attached, VisibleIndex, LocalIndex
  <1>5. Bound(s, g) = IF r.hooked /\ VisibleIndex(s, g) \in DOMAIN r.env.mem
                      THEN r.env.mem[VisibleIndex(s, g)] ELSE Total[g]
    BY DEF Bound
  <1> HIDE DEF r
  <1>6. CASE r.hooked
    <2>1. IF r.alloc[g] < PerDevice
          THEN /\ LocalIndex(r.alloc, g) \in DOMAIN r.env.mem
               /\ r.env.mem[LocalIndex(r.alloc, g)] = MemoryLimit(r.alloc[g], Total[g])
               /\ r.env.sm \in 1 .. 100 /\ r.env.sm >= SmLimit(r.alloc[g])
          ELSE LocalIndex(r.alloc, g) \notin DOMAIN r.env.mem
      BY <1>1, <1>2, <1>4, <1>6, EnvironIs
    <2> QED
      BY <1>2, <1>3, <1>4, <1>5, <1>6, <2>1 DEF r
  <1>7. CASE ~r.hooked
    BY <1>2, <1>3, <1>5, <1>7 DEF r
  <1> QED
    BY <1>6, <1>7

-----------------------------------------------------------------------------
(* The theorems.                                                           *)

\* No GPU belongs to two plugins of one agent, in whatever order they load and
\* whatever their selectors and the files of earlier processes say.
THEOREM GpusHaveOneTaker == Spec => []OneTakerPerGpu
  <1>1. AgentInv => OneTakerPerGpu
    BY ClaimInvImpliesOneTaker DEF AgentInv, ProcessInv
  <1> QED
    BY <1>1, AgentInvariant, PTL

\* Types, among them: no limit in any container is zero or less, or a part of a MiB.
THEOREM AgentTypes == Spec => []TypeOK
  <1>1. AgentInv => TypeOK
    <2> SUFFICES ASSUME AgentInv PROVE TypeOK
      OBVIOUS
    <2>1. ProcessInv /\ ClaimInv /\ ProcessType /\ SessionInv /\ SessionType /\ LimitsAreComputed
      BY DEF AgentInv, ProcessInv, SessionInv
    <2>2. ASSUME NEW s \in Running, NEW i \in DOMAIN sessions[s].env.mem
          PROVE  sessions[s].env.mem[i] > 0 /\ sessions[s].env.mem[i] % MiB = 0
      <3> DEFINE r == sessions[s]
      <3>1. /\ DOMAIN r.alloc \in SUBSET Gpus /\ r.alloc \in [DOMAIN r.alloc -> 0 .. PerDevice]
            /\ r.hooked \in BOOLEAN
        BY <2>1, SessionIs
      <3>2. r.env = HamiEnviron(IF r.hooked THEN ComputeLimits(r.alloc, Total) ELSE <<>>)
        BY <2>1 DEF LimitsAreComputed
      <3>3. i \in DOMAIN r.env.mem
        BY <2>2
      <3> HIDE DEF r
      <3>4. r.hooked
        BY <3>2, <3>3, EmptyEnviron
      <3>5. \A j \in DOMAIN r.env.mem : r.env.mem[j] > 0 /\ r.env.mem[j] % MiB = 0
        BY <3>1, <3>2, <3>4, EnvironIs
      <3> QED
        BY <3>3, <3>5 DEF r
    <2>3. booked \in [Plugins -> [Gpus -> 0 .. PerDevice]]
      BY DEF AgentInv, BookInv
    <2> QED
      BY <2>1, <2>2, <2>3 DEF TypeOK, ClaimInv, ProcessType, SessionType
  <1> QED
    BY <1>1, AgentInvariant, PTL

\* A plugin is refused only for a GPU another plugin of the same agent has taken or
\* was taking when it failed, unless process ids repeat: claim files left by earlier
\* agents refuse nobody.
THEOREM RefusedForAReason == Spec => []ConflictsAreReal
  <1>1. AgentInv => ConflictsAreReal
    BY DEF AgentInv, ProcessInv
  <1> QED
    BY <1>1, AgentInvariant, PTL

\* Whatever was restarted or ended since, the book of a loaded plugin is what its
\* running sessions hold in its slot.
THEOREM BooksAreKept == Spec => []BooksBalance
  <1>1. AgentInv => BooksBalance
    <2> SUFFICES ASSUME AgentInv, agent = "serving", NEW p \in Plugins, NEW g \in Gpus,
                        status[p] = "ready"
                 PROVE  booked[p][g] =
                            TotalAmount({s \in Running : sessions[s].plugin = p /\ Known(s)}, g)
      BY DEF BooksBalance
    <2>1. {s \in Running : sessions[s].plugin = p /\ Known(s)} = InSlot(p, mode[p])
      BY DEF Known, InSlot
    <2>2. mode[p] \in Modes
      BY DEF AgentInv, ProcessInv, ProcessType
    <2>3. booked[p][g] = TotalAmount(InSlot(p, mode[p]), g)
      BY <2>2 DEF AgentInv, BookInv, BooksAreRight
    <2> QED
      BY <2>1, <2>3
  <1> QED
    BY <1>1, AgentInvariant, PTL

\* Who holds a part of a GPU has the library and a memory limit for this GPU.
THEOREM NoFractionUnenforced == Spec => []FractionsAreEnforced
  <1>1. AgentInv => FractionsAreEnforced
    BY BoundIs DEF AgentInv, FractionsAreEnforced
  <1> QED
    BY <1>1, AgentInvariant, PTL

\* The limits in a container are those of the GPUs they are numbered for: the share
\* less the reserve and a MiB at most, none for a whole GPU.
THEOREM LimitsAreRight == Spec => []LimitsHitTheirGpu
  <1>1. AgentInv => LimitsHitTheirGpu
    <2> SUFFICES ASSUME AgentInv, NEW s \in Running, sessions[s].hooked, NEW g \in Attached(s)
                 PROVE  LET env == sessions[s].env
                            share == ShareOf(s, g)
                        IN IF share < PerDevice
                           THEN /\ Bound(s, g) * PerDevice <= share * Total[g]
                                /\ (Bound(s, g) + Reserved + MiB) * PerDevice > share * Total[g]
                                /\ env.sm * PerDevice >= 100 * share
                           ELSE VisibleIndex(s, g) \notin DOMAIN env.mem
      BY DEF LimitsHitTheirGpu
    <2> DEFINE env == sessions[s].env
               share == ShareOf(s, g)
    <2>1. SessionInv
      BY DEF AgentInv
    <2>2. g \in Gpus /\ share \in 1 .. PerDevice /\ PerDevice \in Nat \ {0}
      BY <2>1, ShareIs, GpuFacts
    <2>3. IF share < PerDevice
          THEN /\ Bound(s, g) = MemoryLimit(share, Total[g])
               /\ env.sm \in 1 .. 100 /\ env.sm >= SmLimit(share)
          ELSE VisibleIndex(s, g) \notin DOMAIN env.mem
      BY <2>1, BoundIs
    <2> HIDE DEF share, env
    <2>4. ASSUME share < PerDevice
          PROVE  env.sm * PerDevice >= 100 * share
      <3>1. share \in 1 .. PerDevice - 1
        BY <2>2, <2>4
      <3>2. SmLimit(share) \in 1 .. 100 /\ SmLimit(share) * PerDevice >= 100 * share
        BY <3>1, SmLimitIs
      <3>3. SmLimit(share) * PerDevice <= env.sm * PerDevice
        BY <2>2, <2>3, <2>4, <3>2, Monotone
      <3>4. SmLimit(share) * PerDevice \in Int /\ env.sm * PerDevice \in Int /\ 100 * share \in Int
        BY <2>2, <2>3, <2>4, <3>2
      <3> QED
        BY <3>2, <3>3, <3>4
    <2>5. /\ MemoryLimit(share, Total[g]) * PerDevice <= share * Total[g]
          /\ (MemoryLimit(share, Total[g]) + Reserved + MiB) * PerDevice > share * Total[g]
      BY <2>2, MemoryLimitIs
    <2> QED
      BY <2>3, <2>4, <2>5 DEF share, env
  <1> QED
    BY <1>1, AgentInvariant, PTL

-----------------------------------------------------------------------------
(* What the sessions of one GPU hold together.                             *)

LEMMA SharesFit ==
    ASSUME AgentInv, OneTakerPerGpu, NEW g \in Gpus, AllKnown(g)
    PROVE  SumFunctionOnSet([s \in On(g) |-> ShareOf(s, g)], On(g)) <= PerDevice
  <1> DEFINE share == [s \in On(g) |-> ShareOf(s, g)]
             amount == [s \in On(g) |-> Amount(s, g)]
  <1>1. /\ On(g) \in SUBSET Running /\ SessionInv /\ SessionType
        /\ \A s \in On(g) : s \in Running /\ g \in Attached(s)
    BY DEF On, AgentInv, SessionInv
  <1>2. IsFiniteSet(On(g)) /\ PerDevice \in Nat \ {0}
    BY <1>1, TotalIs, GpuFacts
  <1>3. \A s \in On(g) : share[s] \in Int /\ amount[s] \in Nat
    BY <1>1, ShareIs
  <1>4. CASE On(g) = {}
    <2> HIDE DEF share
    <2>1. SumFunctionOnSet(share, On(g)) = 0
      BY <1>4, SumOfNone
    <2> QED
      BY <1>2, <2>1 DEF share
  <1>5. CASE On(g) # {}
    <2>1. PICK z \in On(g) : TRUE
      BY <1>5
    <2> DEFINE p == sessions[z].plugin
               m == mode[p]
               per == IF m = "fractional" THEN 1 ELSE PerDevice
               S == InSlot(p, m)
    <2>2. \A s \in On(g) : /\ sessions[s].plugin \in Plugins
                           /\ status[sessions[s].plugin] = "ready"
                           /\ mode[sessions[s].plugin] = sessions[s].slot
                           /\ sessions[s].slot \in Modes
                           /\ g \in devices[sessions[s].plugin]
      <3> TAKE s \in On(g)
      <3>1. sessions[s].plugin \in Plugins /\ sessions[s].slot \in Modes
        BY <1>1, SessionIs
      <3>2. status[sessions[s].plugin] = "ready" /\ mode[sessions[s].plugin] = sessions[s].slot
        BY DEF AllKnown, Known
      <3>3. g \in Selected(sessions[s].plugin)
        BY <1>1 DEF SessionInv, SessionsBelong
      <3> QED
        BY <3>1, <3>2, <3>3 DEF AgentInv, ProcessInv, ReadyPlugins
    <2>3. \A s \in On(g) : sessions[s].plugin = p /\ sessions[s].slot = m
      BY <2>1, <2>2 DEF OneTakerPerGpu
    <2>4. p \in Plugins /\ m \in Modes
      BY <2>1, <2>2
    <2>5. On(g) \in SUBSET S /\ S \in SUBSET Running
      BY <1>1, <2>3 DEF InSlot
    <2> HIDE DEF p, m, S
    <2>6. SumFunctionOnSet(amount, On(g)) <= TotalAmount(S, g)
      <3> DEFINE h == [s \in S |-> Amount(s, g)]
      <3>1. IsFiniteSet(S) /\ \A s \in S : h[s] \in Nat
        BY <1>1, <2>5, TotalIs, AmountIs
      <3>2. \A s \in On(g) : amount[s] = h[s]
        BY <2>5
      <3> HIDE DEF amount, h
      <3>3. SumFunctionOnSet(amount, On(g)) = SumFunctionOnSet(h, On(g))
        BY <1>2, <3>2, SumOfEqual
      <3>4. SumFunctionOnSet(h, On(g)) <= SumFunctionOnSet(h, S)
        BY <2>5, <3>1, SumOfSubset
      <3> QED
        BY <3>3, <3>4 DEF h, TotalAmount
    <2>7. TotalAmount(S, g) <= Quanta(m) /\ TotalAmount(S, g) \in Nat
      BY <1>1, <2>4, <2>5, TotalIs DEF AgentInv, BookInv, SlotsFit, S
    <2>8. \A s \in On(g) : share[s] * 1 <= amount[s] * per
      <3> TAKE s \in On(g)
      <3>1. /\ ShareOf(s, g) \in 1 .. PerDevice /\ Amount(s, g) \in Nat
            /\ ShareOf(s, g) <= Amount(s, g) * (IF sessions[s].slot = "fractional" THEN 1 ELSE PerDevice)
        BY <1>1, ShareIs
      <3>2. (IF sessions[s].slot = "fractional" THEN 1 ELSE PerDevice) = per
        BY <2>3
      <3> QED
        BY <3>1, <3>2
    <2>9. per \in Nat /\ Quanta(m) * per = PerDevice
      BY <1>2, <2>4 DEF Quanta, Modes
    <2> HIDE DEF share, amount, per
    <2>10. SumFunctionOnSet(share, On(g)) \in Int /\ SumFunctionOnSet(amount, On(g)) \in Nat
      BY <1>2, <1>3, SumIsInt, SumIsNat
    <2>11. SumFunctionOnSet(share, On(g)) * 1 <= SumFunctionOnSet(amount, On(g)) * per
      <3>1. \A s \in On(g) : share[s] \in Int /\ amount[s] \in Int /\ share[s] * 1 <= amount[s] * per
        BY <1>3, <2>8
      <3> QED
        BY <1>2, <2>9, <3>1, SumInProportion
    <2>12. SumFunctionOnSet(amount, On(g)) * per <= Quanta(m) * per
      <3>1. Quanta(m) \in Nat /\ SumFunctionOnSet(amount, On(g)) <= Quanta(m)
        BY <2>4, <2>6, <2>7, <2>10, QuantaAre
      <3> QED
        BY <2>9, <2>10, <3>1, Monotone
    <2>13. SumFunctionOnSet(amount, On(g)) * per \in Int
      BY <2>9, <2>10
    <2> QED
      BY <1>2, <2>9, <2>10, <2>11, <2>12, <2>13 DEF share
  <1> QED
    BY <1>4, <1>5

\* The sessions an agent knows of hold no more than the whole of any GPU between
\* them, across restarts, changes of the mode and of the library.
THEOREM GpusAreNotOversubscribed == Spec => []NoGpuOversubscribed
  <1>1. AgentInv => NoGpuOversubscribed
    <2>1. AgentInv => OneTakerPerGpu
      BY ClaimInvImpliesOneTaker DEF AgentInv, ProcessInv
    <2> QED
      BY <2>1, SharesFit DEF NoGpuOversubscribed
  <1> QED
    BY <1>1, AgentInvariant, PTL

\* What they may allocate together fits into the memory of the GPU.
THEOREM MemoryIsNotOversubscribed == Spec => []MemoryLimitsFit
  <1>1. AgentInv => MemoryLimitsFit
    <2> SUFFICES ASSUME AgentInv, NEW g \in Gpus, AllKnown(g)
                 PROVE  SumFunctionOnSet([s \in On(g) |-> Bound(s, g)], On(g)) <= Total[g]
      BY DEF MemoryLimitsFit
    <2> DEFINE share == [s \in On(g) |-> ShareOf(s, g)]
               bound == [s \in On(g) |-> Bound(s, g)]
    <2>1. OneTakerPerGpu
      BY ClaimInvImpliesOneTaker DEF AgentInv, ProcessInv
    <2>2. /\ On(g) \in SUBSET Running /\ SessionInv /\ SessionType
          /\ \A s \in On(g) : s \in Running /\ g \in Attached(s)
      BY DEF On, AgentInv, SessionInv
    <2>3. IsFiniteSet(On(g)) /\ PerDevice \in Nat \ {0} /\ Total[g] \in Nat \ {0}
      BY <2>2, TotalIs, GpuFacts
    <2>4. \A s \in On(g) : /\ bound[s] \in Int /\ share[s] \in Int
                           /\ bound[s] * PerDevice <= share[s] * Total[g]
      <3> TAKE s \in On(g)
      <3> DEFINE q == ShareOf(s, g)
      <3>1. q \in 1 .. PerDevice
        BY <2>2, ShareIs
      <3>2. Bound(s, g) = IF q < PerDevice THEN MemoryLimit(q, Total[g]) ELSE Total[g]
        BY <2>2, BoundIs
      <3> HIDE DEF q
      <3>3. MemoryLimit(q, Total[g]) \in Nat /\ MemoryLimit(q, Total[g]) * PerDevice <= q * Total[g]
        BY <3>1, MemoryLimitIs
      <3>4. q < PerDevice \/ q = PerDevice
        BY <2>3, <3>1
      <3>5. Bound(s, g) \in Int /\ Bound(s, g) * PerDevice <= q * Total[g]
        BY <2>3, <3>1, <3>2, <3>3, <3>4
      <3> QED
        BY <3>1, <3>5 DEF q
    <2>5. SumFunctionOnSet(share, On(g)) <= PerDevice
      BY <2>1, SharesFit
    <2> HIDE DEF share, bound
    <2>6. SumFunctionOnSet(share, On(g)) \in Int /\ SumFunctionOnSet(bound, On(g)) \in Int
      BY <2>3, <2>4, SumIsInt
    <2>7. SumFunctionOnSet(bound, On(g)) * PerDevice <= SumFunctionOnSet(share, On(g)) * Total[g]
      BY <2>3, <2>4, SumInProportion
    <2>8. SumFunctionOnSet(share, On(g)) * Total[g] <= PerDevice * Total[g]
      BY <2>3, <2>5, <2>6, Monotone
    <2>9. SumFunctionOnSet(bound, On(g)) * PerDevice <= Total[g] * PerDevice
      <3>1. /\ SumFunctionOnSet(bound, On(g)) * PerDevice \in Int
            /\ SumFunctionOnSet(share, On(g)) * Total[g] \in Int
            /\ PerDevice * Total[g] = Total[g] * PerDevice /\ PerDevice * Total[g] \in Int
        BY <2>3, <2>6
      <3> QED
        BY <2>7, <2>8, <3>1
    <2>10. SumFunctionOnSet(bound, On(g)) <= Total[g]
      BY <2>3, <2>6, <2>9, Cancel
    <2> QED
      BY <2>10 DEF bound
  <1> QED
    BY <1>1, AgentInvariant, PTL

=============================================================================
