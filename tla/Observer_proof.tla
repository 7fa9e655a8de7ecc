--------------------------- MODULE Observer_proof ---------------------------
(***************************************************************************)
(* What a tick sees of the GPUs is right, for any number of GPUs, sessions *)
(* and processes, and however much happens while it is looking.            *)
(* ObserverInv ties what the tick remembers to the world it was read from: *)
(* the records of the containers that were listed, and what has become of  *)
(* the processes of the snapshot.                                          *)
(***************************************************************************)
EXTENDS Observer, FiniteSetTheorems, TLAPS

\* Why a process that was `c`'s may pass for an unknown one on GPU g.
Unidentified(g, p, c) ==
    \/ c = Host
    \/ p \in seen[g].gone
    \/ c \in Owners /\ (g \notin owner[c].has \/ owner[c].moved \/ c \notin DOMAIN listed)
    \/ c \in Spots /\ (spot[c].gpu # g \/ c \notin DOMAIN spotGpu)

\* The container is still known: its record is that of its start.
Known(c) == \/ c = Host
            \/ c \in Owners /\ owner[c] # None
            \/ c \in Spots /\ spot[c] # None

\* Processes do not outlive their container.
ProcessesAreHeld ==
    \A p \in Pids : Present(p) =>
        /\ process[p].in \in Owners => Alive(process[p].in)
        /\ process[p].in \in Spots => Up(process[p].in)

\* Where a container is attached is what its references mean today, until the
\* driver counts anew.
AttachedAsAsked ==
    \A o \in Owners : owner[o] # None /\ ~owner[o].moved => owner[o].has = Given(owner[o].inspect)

\* What was listed is still so of the containers that were listed.
ListsAreCurrent ==
    /\ DOMAIN listed \subseteq Owners /\ DOMAIN spotGpu \subseteq Spots
    /\ \A o \in DOMAIN listed : owner[o] # None /\ listed[o] = ParseGpuRefs(owner[o].inspect)
    /\ \A s \in DOMAIN spotGpu : spot[s] # None /\ spotGpu[s] = spot[s].gpu
    /\ step \in {"owners", "spots", "gpus"} => index = 0 /\ seen = [g \in Gpus |-> None]
    /\ step \in {"snapshot", "pids"} =>
           /\ gpuList \in Bijection(Indices, Gpus)
           /\ \A o \in DOMAIN listed : Numbered(o) /\ ~owner[o].moved => gpuList = numbering

\* The snapshot is of the GPU that was listed, and of its processes since.
SnapshotIsCurrent ==
    step = "pids" =>
        /\ snap.gpu = gpuList[index]
        /\ snap.attached \subseteq OwnersOn(gpuList[index])
        /\ DOMAIN snap.truth \subseteq Pids
        /\ \A p \in DOMAIN snap.truth :
               /\ Known(snap.truth[p])
               /\ process[p] # None /\ (Present(p) => process[p].in = snap.truth[p])

\* An observation of GPU g is right about it.
RightAbout(g) ==
    LET r == seen[g] IN
    /\ r.ok /\ r.truth.gpu = g /\ r.truth.attached \subseteq r.owners
    /\ \A o \in r.owners :
           /\ o \in Owners /\ owner[o] # None
           /\ g \in owner[o].has \/ owner[o].moved
              \/ LET i == owner[o].inspect IN i.uuids = {} /\ i.requests = {} /\ ~i.runtime
    /\ DOMAIN r.truth.truth = DOMAIN r.kinds
    /\ \A p \in DOMAIN r.kinds :
           LET c == r.truth.truth[p] IN
           /\ Known(c)
           /\ r.kinds[p] \in {"owner", "spot", "unknown"}
           /\ r.kinds[p] = "spot" => c \in Spots /\ spot[c].gpu = g
           /\ r.kinds[p] = "unknown" => Unidentified(g, p, c)

ObservationsAreRight ==
    /\ seen = [g \in Gpus |-> seen[g]]
    /\ \A g \in Gpus : seen[g] \in {None, Failed} \/ RightAbout(g)

WorldTyped ==
    /\ numbering \in Bijection(Indices, Gpus)
    /\ owner \in [Owners -> {None} \union OwnerRecords]
    /\ spot \in [Spots -> {None} \union SpotRecords]
    /\ process \in [Pids -> {None, Ended} \union [in : Owners \union Spots \union {Host}, on : Gpus]]

WorldInv == WorldTyped /\ ProcessesAreHeld /\ AttachedAsAsked

StepTyped ==
    /\ step \in {"owners", "spots", "gpus", "snapshot", "pids", "done"}
    /\ index \in 0 .. Cardinality(Gpus) /\ (step \in {"snapshot", "pids"} => index \in Indices)
    /\ moves \in 0 .. MaxMoves

ObserverInv ==
    WorldInv /\ StepTyped /\ ListsAreCurrent /\ SnapshotIsCurrent /\ ObservationsAreRight

-----------------------------------------------------------------------------
LEMMA GpusAreNumbered ==
    /\ Cardinality(Gpus) \in Nat \ {0}
    /\ Indices \subseteq Int /\ 0 \in Indices
    /\ \A n \in Indices : n + 1 \in 0 .. Cardinality(Gpus)
  <1>1. Cardinality(Gpus) \in Nat /\ Cardinality(Gpus) # 0
    BY ObserverAssumption, FS_CardinalityType, FS_EmptySet
  <1> QED
    BY <1>1 DEF Indices

LEMMA Numberings ==
    ASSUME NEW b \in Bijection(Indices, Gpus)
    PROVE  /\ b \in [Indices -> Gpus] /\ DOMAIN b = Indices /\ Range(b) = Gpus
           /\ \A m, n \in Indices : b[m] = b[n] => m = n
           /\ \A g \in Gpus : \E n \in Indices : b[n] = g
  BY DEF Bijection, Injection, Surjection, IsInjective, Range

LEMMA OwnerIs ==
    ASSUME owner \in [Owners -> {None} \union OwnerRecords], NEW o \in Owners, owner[o] # None
    PROVE  /\ owner[o] \in OwnerRecords
           /\ owner[o].inspect \in Inspects /\ owner[o].has \in SUBSET Gpus
           /\ owner[o].moved \in BOOLEAN /\ owner[o].alive \in BOOLEAN
  BY DEF OwnerRecords

LEMMA SpotIs ==
    ASSUME spot \in [Spots -> {None} \union SpotRecords], NEW s \in Spots, spot[s] # None
    PROVE  /\ spot[s] \in SpotRecords /\ spot[s].gpu \in Gpus /\ spot[s].running \in BOOLEAN
  BY DEF SpotRecords

\* References that are no numbers mean the same, however the GPUs are numbered.
LEMMA NamedAlone ==
    ASSUME NEW b \in Bijection(Indices, Gpus), NEW refs, refs \intersect Indices = {}
    PROVE  {b[n] : n \in {n \in Indices : {All, n, b[n]} \intersect refs # {}}}
               = {g \in Gpus : {All, g} \intersect refs # {}}
  BY Numberings

-----------------------------------------------------------------------------
(* What may happen around a tick: no container turns into another one, and *)
(* process ids are not used again.                                         *)

OwnersGoOn ==
    \A o \in Owners : owner[o] # None =>
        /\ owner'[o] # None
        /\ owner'[o].inspect = owner[o].inspect /\ owner'[o].has = owner[o].has
        /\ ~owner'[o].moved => ~owner[o].moved /\ (Numbered(o) => numbering' = numbering)

SpotsGoOn == \A s \in Spots : spot[s] # None => spot'[s] # None /\ spot'[s].gpu = spot[s].gpu

ProcessesGoOn ==
    \A p \in Pids : process[p] # None =>
        process'[p] # None /\ (process'[p] # Ended => process'[p] = process[p])

GoesOn == OwnersGoOn /\ SpotsGoOn /\ ProcessesGoOn

LEMMA ProcessesEnd ==
    ASSUME WorldTyped, NEW c, EndAllOf(c)
    PROVE  /\ process' \in [Pids -> {None, Ended} \union [in : Owners \union Spots \union {Host}, on : Gpus]]
           /\ ProcessesGoOn
           /\ \A p \in Pids : process'[p] \notin {None, Ended} => /\ process'[p] = process[p]
                                                                  /\ process[p].in # c
  <1>1. None # Ended
    BY ObserverAssumption
  <1>2. \A p \in Pids : process'[p] = IF process[p] \notin {None, Ended} /\ process[p].in = c
                                        THEN Ended ELSE process[p]
    BY DEF EndAllOf, Present
  <1>3. DOMAIN process' = Pids /\ process' = [p \in Pids |-> process'[p]]
    BY DEF EndAllOf
  <1> HIDE DEF Ended
  <1> QED
    BY <1>1, <1>2, <1>3 DEF WorldTyped, ProcessesGoOn

LEMMA OwnerEndsOk ==
    ASSUME WorldInv, NEW o \in Owners, OwnerEnds(o)
    PROVE  WorldInv' /\ GoesOn
  <1>1. /\ owner[o] # None /\ owner' = [owner EXCEPT ![o].alive = FALSE]
        /\ EndAllOf(o) /\ UNCHANGED <<numbering, spot>>
    BY DEF OwnerEnds, Alive
  <1>2. owner'[o] \in OwnerRecords /\ owner'[o] # None
    <2>1. owner[o] \in OwnerRecords
      BY <1>1, OwnerIs DEF WorldInv, WorldTyped
    <2>2. owner'[o] = [owner[o] EXCEPT !.alive = FALSE]
      BY <1>1 DEF WorldInv, WorldTyped
    <2> QED
      BY <2>1, <2>2, ObserverAssumption DEF OwnerRecords
  <1>3. \A q \in Owners : owner[q] # None =>
            /\ owner'[q] # None /\ owner'[q].inspect = owner[q].inspect /\ owner'[q].has = owner[q].has
            /\ owner'[q].moved = owner[q].moved /\ (q # o => owner'[q] = owner[q])
    BY <1>1, <1>2 DEF WorldInv, WorldTyped, OwnerRecords
  <1>4. \A q \in Owners : owner[q] = None => owner'[q] = None
    BY <1>1 DEF WorldInv, WorldTyped
  <1>5. OwnersGoOn
    BY <1>1, <1>3 DEF OwnersGoOn
  <1>6. SpotsGoOn
    BY <1>1 DEF SpotsGoOn
  <1>7. /\ process' \in [Pids -> {None, Ended} \union [in : Owners \union Spots \union {Host}, on : Gpus]]
        /\ ProcessesGoOn
        /\ \A p \in Pids : process'[p] \notin {None, Ended} => /\ process'[p] = process[p]
                                                               /\ process[p].in # o
    BY <1>1, ProcessesEnd DEF WorldInv
  <1>8. WorldTyped'
    BY <1>1, <1>2, <1>7 DEF WorldInv, WorldTyped
  <1>9. ProcessesAreHeld'
    BY <1>1, <1>3, <1>7 DEF WorldInv, ProcessesAreHeld, Present, Alive, Up
  <1>10. AttachedAsAsked'
    BY <1>1, <1>3, <1>4 DEF WorldInv, AttachedAsAsked, Given
  <1> QED
    BY <1>5, <1>6, <1>7, <1>8, <1>9, <1>10 DEF WorldInv, GoesOn

LEMMA SpotEndsOk ==
    ASSUME WorldInv, NEW s \in Spots, SpotEnds(s)
    PROVE  WorldInv' /\ GoesOn
  <1>1. /\ spot[s] # None /\ spot' = [spot EXCEPT ![s].running = FALSE]
        /\ EndAllOf(s) /\ UNCHANGED <<numbering, owner>>
    BY DEF SpotEnds, Up
  <1>2. spot'[s] \in SpotRecords /\ spot'[s] # None
    <2>1. spot[s] \in SpotRecords
      BY <1>1, SpotIs DEF WorldInv, WorldTyped
    <2>2. spot'[s] = [spot[s] EXCEPT !.running = FALSE]
      BY <1>1 DEF WorldInv, WorldTyped
    <2> QED
      BY <2>1, <2>2, ObserverAssumption DEF SpotRecords
  <1>3. \A q \in Spots : spot[q] # None =>
            /\ spot'[q] # None /\ spot'[q].gpu = spot[q].gpu /\ (q # s => spot'[q] = spot[q])
    BY <1>1, <1>2 DEF WorldInv, WorldTyped, SpotRecords
  <1>4. OwnersGoOn
    BY <1>1 DEF OwnersGoOn
  <1>5. SpotsGoOn
    BY <1>1, <1>3 DEF SpotsGoOn
  <1>6. /\ process' \in [Pids -> {None, Ended} \union [in : Owners \union Spots \union {Host}, on : Gpus]]
        /\ ProcessesGoOn
        /\ \A p \in Pids : process'[p] \notin {None, Ended} => /\ process'[p] = process[p]
                                                               /\ process[p].in # s
    BY <1>1, ProcessesEnd DEF WorldInv
  <1>7. WorldTyped'
    BY <1>1, <1>2, <1>6 DEF WorldInv, WorldTyped
  <1>8. ProcessesAreHeld'
    BY <1>1, <1>3, <1>6 DEF WorldInv, ProcessesAreHeld, Present, Alive, Up
  <1>9. AttachedAsAsked'
    BY <1>1 DEF WorldInv, AttachedAsAsked, Given
  <1> QED
    BY <1>4, <1>5, <1>6, <1>7, <1>8, <1>9 DEF WorldInv, GoesOn

LEMMA OwnerStartsOk ==
    ASSUME WorldInv, NEW o \in Owners, NEW i \in Inspects, OwnerStarts(o, i)
    PROVE  WorldInv' /\ GoesOn
  <1> DEFINE new == [inspect |-> i, has |-> Given(i), moved |-> FALSE, alive |-> TRUE]
  <1>1. /\ owner[o] = None /\ owner' = [owner EXCEPT ![o] = new]
        /\ UNCHANGED <<numbering, spot, process>>
    BY DEF OwnerStarts
  <1>2. Given(i) \in SUBSET Gpus
    BY Numberings DEF Given, WorldInv, WorldTyped
  <1>3. /\ new \in OwnerRecords /\ new.inspect = i /\ new.has = Given(i)
        /\ ~new.moved /\ new.alive
    BY <1>2 DEF OwnerRecords
  <1> HIDE DEF new
  <1>4. new # None
    BY <1>3, ObserverAssumption
  <1>5. owner'[o] = new /\ \A q \in Owners : q # o => owner'[q] = owner[q]
    BY <1>1 DEF WorldInv, WorldTyped
  <1>6. OwnersGoOn
    BY <1>1, <1>5 DEF OwnersGoOn
  <1>7. SpotsGoOn /\ ProcessesGoOn
    BY <1>1 DEF SpotsGoOn, ProcessesGoOn
  <1>8. WorldTyped'
    BY <1>1, <1>3 DEF WorldInv, WorldTyped
  <1>9. ProcessesAreHeld'
    BY <1>1, <1>5 DEF WorldInv, ProcessesAreHeld, Present, Alive, Up
  <1>10. AttachedAsAsked'
    BY <1>1, <1>3, <1>5 DEF WorldInv, AttachedAsAsked, Given
  <1> QED
    BY <1>6, <1>7, <1>8, <1>9, <1>10 DEF WorldInv, GoesOn

LEMMA SpotStartsOk ==
    ASSUME WorldInv, NEW s \in Spots, NEW g \in Gpus, SpotStarts(s, g)
    PROVE  WorldInv' /\ GoesOn
  <1> DEFINE new == [gpu |-> g, running |-> TRUE]
  <1>1. /\ spot[s] = None /\ spot' = [spot EXCEPT ![s] = new]
        /\ UNCHANGED <<numbering, owner, process>>
    BY DEF SpotStarts
  <1>2. new \in SpotRecords /\ new # None
    <2>1. new \in SpotRecords
      BY DEF SpotRecords
    <2> HIDE DEF new
    <2> QED
      BY <2>1, ObserverAssumption
  <1> HIDE DEF new
  <1>3. spot'[s] = new /\ \A q \in Spots : q # s => spot'[q] = spot[q]
    BY <1>1 DEF WorldInv, WorldTyped
  <1>4. SpotsGoOn
    BY <1>1, <1>3 DEF SpotsGoOn
  <1>5. OwnersGoOn /\ ProcessesGoOn
    BY <1>1 DEF OwnersGoOn, ProcessesGoOn
  <1>6. WorldTyped'
    BY <1>1, <1>2 DEF WorldInv, WorldTyped
  <1>7. ProcessesAreHeld'
    BY <1>1, <1>3 DEF WorldInv, ProcessesAreHeld, Present, Alive, Up
  <1>8. AttachedAsAsked'
    BY <1>1 DEF WorldInv, AttachedAsAsked, Given
  <1> QED
    BY <1>4, <1>5, <1>6, <1>7, <1>8 DEF WorldInv, GoesOn

LEMMA ProcessStartsOk ==
    ASSUME WorldInv, NEW p \in Pids, NEW c \in Owners \union Spots \union {Host}, NEW g \in Gpus,
           ProcessStarts(p, c, g)
    PROVE  WorldInv' /\ GoesOn
  <1> DEFINE new == [in |-> c, on |-> g]
  <1>1. /\ process[p] = None /\ process' = [process EXCEPT ![p] = new]
        /\ c = Host \/ (c \in Owners /\ Alive(c)) \/ (c \in Spots /\ Up(c))
        /\ UNCHANGED <<numbering, owner, spot>>
    BY DEF ProcessStarts
  <1>2. new \in [in : Owners \union Spots \union {Host}, on : Gpus] /\ new.in = c
    OBVIOUS
  <1> HIDE DEF new
  <1>3. process'[p] = new /\ \A q \in Pids : q # p => process'[q] = process[q]
    BY <1>1 DEF WorldInv, WorldTyped
  <1>4. OwnersGoOn /\ SpotsGoOn
    BY <1>1 DEF OwnersGoOn, SpotsGoOn
  <1>5. ProcessesGoOn
    BY <1>1, <1>3 DEF ProcessesGoOn
  <1>6. WorldTyped'
    BY <1>1, <1>2 DEF WorldInv, WorldTyped
  <1>7. c \in Owners => Alive(c)
    BY <1>1, ObserverAssumption
  <1>8. c \in Spots => Up(c)
    BY <1>1, ObserverAssumption
  <1>9. ProcessesAreHeld'
    BY <1>1, <1>2, <1>3, <1>7, <1>8 DEF WorldInv, ProcessesAreHeld, Present, Alive, Up
  <1>10. AttachedAsAsked'
    BY <1>1 DEF WorldInv, AttachedAsAsked, Given
  <1> QED
    BY <1>4, <1>5, <1>6, <1>9, <1>10 DEF WorldInv, GoesOn

LEMMA ProcessEndsOk ==
    ASSUME WorldInv, NEW p \in Pids, ProcessEnds(p)
    PROVE  WorldInv' /\ GoesOn
  <1>1. process' = [process EXCEPT ![p] = Ended] /\ UNCHANGED <<numbering, owner, spot>>
    BY DEF ProcessEnds
  <1>2. process'[p] = Ended /\ \A q \in Pids : q # p => process'[q] = process[q]
    BY <1>1 DEF WorldInv, WorldTyped
  <1>3. Ended # None
    BY ObserverAssumption
  <1> HIDE DEF Ended
  <1>4. OwnersGoOn /\ SpotsGoOn
    BY <1>1 DEF OwnersGoOn, SpotsGoOn
  <1>5. ProcessesGoOn
    BY <1>2, <1>3 DEF ProcessesGoOn
  <1>6. WorldTyped'
    BY <1>1 DEF WorldInv, WorldTyped
  <1>7. ProcessesAreHeld'
    BY <1>1, <1>2 DEF WorldInv, ProcessesAreHeld, Present, Alive, Up
  <1>8. AttachedAsAsked'
    BY <1>1 DEF WorldInv, AttachedAsAsked, Given
  <1> QED
    BY <1>4, <1>5, <1>6, <1>7, <1>8 DEF WorldInv, GoesOn

LEMMA RenumberOk ==
    ASSUME WorldInv, NEW n \in Bijection(Indices, Gpus), Renumber(n)
    PROVE  WorldInv' /\ GoesOn
  <1>1. /\ numbering' = n /\ UNCHANGED <<spot, process>>
        /\ owner' = [o \in Owners |-> IF Numbered(o) THEN [owner[o] EXCEPT !.moved = TRUE] ELSE owner[o]]
    BY DEF Renumber
  <1>2. ASSUME NEW o \in Owners, Numbered(o)
        PROVE  /\ owner'[o] \in OwnerRecords /\ owner'[o] # None
               /\ owner'[o].moved /\ owner'[o].has = owner[o].has
               /\ owner'[o].inspect = owner[o].inspect /\ owner'[o].alive = owner[o].alive
    <2>1. owner[o] \in OwnerRecords
      BY <1>2, OwnerIs DEF Numbered, WorldInv, WorldTyped
    <2>2. owner'[o] = [owner[o] EXCEPT !.moved = TRUE]
      BY <1>1, <1>2
    <2> QED
      BY <2>1, <2>2, ObserverAssumption DEF OwnerRecords
  <1>3. \A o \in Owners : ~Numbered(o) => owner'[o] = owner[o]
    BY <1>1
  <1>4. OwnersGoOn
    BY <1>2, <1>3 DEF OwnersGoOn
  <1>5. SpotsGoOn /\ ProcessesGoOn
    BY <1>1 DEF SpotsGoOn, ProcessesGoOn
  <1>6. WorldTyped'
    <2>1. owner' = [o \in Owners |-> owner'[o]]
      BY <1>1
    <2>2. \A o \in Owners : owner'[o] \in {None} \union OwnerRecords
      BY <1>2, <1>3 DEF WorldInv, WorldTyped
    <2> QED
      BY <1>1, <2>1, <2>2 DEF WorldInv, WorldTyped
  <1>7. ProcessesAreHeld'
    <2>1. \A o \in Owners : Alive(o) => owner'[o] # None /\ owner'[o].alive
      BY <1>2, <1>3 DEF Alive
    <2> QED
      BY <1>1, <2>1 DEF WorldInv, ProcessesAreHeld, Present, Alive, Up
  <1>8. AttachedAsAsked'
    <2>1. SUFFICES ASSUME NEW o \in Owners, owner'[o] # None, ~owner'[o].moved
                   PROVE  owner'[o].has = Given(owner[o].inspect)'
      BY DEF AttachedAsAsked
    <2> DEFINE i == owner[o].inspect
    <2>2. ~Numbered(o) /\ owner'[o] = owner[o]
      BY <1>2, <1>3, <2>1
    <2>3. i \in Inspects /\ (i.requests \union i.visible) \intersect Indices = {}
      BY <2>1, <2>2, OwnerIs DEF Numbered, WorldInv, WorldTyped
    <2>4. owner[o].has = Given(i)
      BY <2>1, <2>2 DEF WorldInv, AttachedAsAsked
    <2>5. numbering \in Bijection(Indices, Gpus) /\ numbering' \in Bijection(Indices, Gpus)
      BY <1>1 DEF WorldInv, WorldTyped
    <2>6. Given(i) = {numbering[m] : m \in {m \in Indices : {All, m, numbering[m]} \intersect
              (IF i.requests # {} THEN i.requests ELSE IF i.runtime THEN i.visible ELSE {}) # {}}}
      BY Zenon DEF Given
    <2> DEFINE refs == IF i.requests # {} THEN i.requests ELSE IF i.runtime THEN i.visible ELSE {}
    <2>7. refs \intersect Indices = {}
      BY <2>3
    <2>8. Given(owner[o].inspect)' = {numbering'[m] : m \in {m \in Indices : {All, m, numbering'[m]} \intersect
              (IF owner'[o].inspect.requests # {} THEN owner'[o].inspect.requests
               ELSE IF owner'[o].inspect.runtime THEN owner'[o].inspect.visible ELSE {}) # {}}}
      BY Zenon DEF Given
    <2>9. Given(i) = {numbering[m] : m \in {m \in Indices : {All, m, numbering[m]} \intersect refs # {}}}
      BY <2>6
    <2>10. Given(owner[o].inspect)'
              = {numbering'[m] : m \in {m \in Indices : {All, m, numbering'[m]} \intersect refs # {}}}
      BY <2>2, <2>8, Zenon
    <2> HIDE DEF refs
    <2> DEFINE named == {g \in Gpus : {All, g} \intersect refs # {}}
    <2>11. {numbering[m] : m \in {m \in Indices : {All, m, numbering[m]} \intersect refs # {}}} = named
      BY <2>5, <2>7, NamedAlone, Zenon
    <2>12. {numbering'[m] : m \in {m \in Indices : {All, m, numbering'[m]} \intersect refs # {}}} = named
      BY <2>5, <2>7, NamedAlone, Zenon
    <2> HIDE DEF named
    <2>13. Given(owner[o].inspect)' = named
      BY <2>10, <2>12, Zenon
    <2>14. Given(i) = named
      BY <2>9, <2>11, Zenon
    <2> QED
      BY <2>2, <2>4, <2>13, <2>14
  <1> QED
    BY <1>4, <1>5, <1>6, <1>7, <1>8 DEF WorldInv, GoesOn

LEMMA WorldStepOk ==
    ASSUME WorldInv, WorldStep
    PROVE  WorldInv' /\ GoesOn
  BY OwnerEndsOk, SpotEndsOk, OwnerStartsOk, SpotStartsOk, ProcessStartsOk, ProcessEndsOk, RenumberOk
  DEF WorldStep

-----------------------------------------------------------------------------
(* What the lists of a tick say of the containers on them.                 *)

LEMMA ReferencesAreHeeded ==
    ASSUME NEW i \in Inspects
    PROVE  LET refs == IF i.requests # {} THEN i.requests ELSE IF i.runtime THEN i.visible ELSE {}
               unheeded == i.uuids = {} /\ i.requests = {} /\ ~i.runtime
           IN  /\ refs # {} \/ ~unheeded => ParseGpuRefs(i) = refs
               /\ refs \subseteq i.requests \union i.visible
               /\ refs \subseteq References
  BY ObserverAssumption DEF ParseGpuRefs

LEMMA OwnersOnIsRight ==
    ASSUME ObserverInv, step \in {"snapshot", "pids"}, NEW o \in DOMAIN listed, NEW g \in Gpus
    PROVE  /\ o \in Owners /\ owner[o] # None
           /\ g \in owner[o].has /\ ~owner[o].moved => o \in OwnersOn(g)
           /\ o \in OwnersOn(g) =>
                  \/ g \in owner[o].has \/ owner[o].moved
                  \/ LET i == owner[o].inspect IN i.uuids = {} /\ i.requests = {} /\ ~i.runtime
  <1>1. /\ o \in Owners /\ owner[o] # None /\ listed[o] = ParseGpuRefs(owner[o].inspect)
        /\ gpuList \in Bijection(Indices, Gpus) /\ numbering \in Bijection(Indices, Gpus)
        /\ Numbered(o) /\ ~owner[o].moved => gpuList = numbering
    BY DEF ObserverInv, WorldInv, WorldTyped, ListsAreCurrent
  <1>2. owner[o].inspect \in Inspects /\ owner[o].moved \in BOOLEAN
    BY <1>1, OwnerIs DEF ObserverInv, WorldInv, WorldTyped
  <1>3. PICK i \in Inspects : i = owner[o].inspect
    BY <1>2
  <1> DEFINE refs == IF i.requests # {} THEN i.requests ELSE IF i.runtime THEN i.visible ELSE {}
             unheeded == i.uuids = {} /\ i.requests = {} /\ ~i.runtime
  <1>4. /\ refs # {} \/ ~unheeded => ParseGpuRefs(i) = refs
        /\ refs \subseteq i.requests \union i.visible /\ refs \subseteq References
    BY ReferencesAreHeeded
  <1>5. ~owner[o].moved =>
            owner[o].has = {numbering[n] : n \in {n \in Indices : {All, n, numbering[n]} \intersect refs # {}}}
    BY <1>1, <1>3 DEF ObserverInv, WorldInv, AttachedAsAsked, Given
  <1>6. ~owner[o].moved => \A n \in refs \intersect Indices : gpuList = numbering
    BY <1>1, <1>3, <1>4 DEF Numbered
  <1>7. o \in OwnersOn(g) <=> g \in ResolveGpuRefs(ParseGpuRefs(i), gpuList)
    BY <1>1, <1>3 DEF OwnersOn
  <1>8. ResolveGpuRefs(refs, gpuList) = IF All \in refs THEN Gpus
            ELSE (refs \intersect Gpus) \union {gpuList[n] : n \in refs \intersect Indices}
    BY <1>1, Numberings DEF ResolveGpuRefs
  <1> HIDE DEF refs, unheeded
  <1>9. ASSUME g \in owner[o].has, ~owner[o].moved
        PROVE  o \in OwnersOn(g)
    <2>1. PICK n \in Indices : numbering[n] = g /\ {All, n, numbering[n]} \intersect refs # {}
      BY <1>5, <1>9
    <2>2. ParseGpuRefs(i) = refs
      BY <1>4, <2>1
    <2>3. n \in refs => gpuList[n] = g
      BY <1>6, <1>9, <2>1
    <2> QED
      BY <1>7, <1>8, <2>1, <2>2, <2>3
  <1>10. ASSUME o \in OwnersOn(g), ~owner[o].moved, ~unheeded
         PROVE  g \in owner[o].has
    <2>1. g \in ResolveGpuRefs(refs, gpuList)
      BY <1>4, <1>7, <1>10
    <2>2. PICK n \in Indices : numbering[n] = g
      BY <1>1, Numberings
    <2>3. CASE {All, g} \intersect refs # {}
      BY <1>5, <1>10, <2>2, <2>3
    <2>4. CASE {All, g} \intersect refs = {}
      <3>1. PICK m \in refs \intersect Indices : gpuList[m] = g
        BY <1>8, <2>1, <2>4
      <3>2. numbering[m] = g
        BY <1>6, <1>10, <3>1
      <3> QED
        BY <1>5, <1>10, <3>1, <3>2
    <2> QED
      BY <2>3, <2>4
  <1> QED
    BY <1>1, <1>3, <1>9, <1>10 DEF unheeded

\* What a process of the snapshot is taken for.
LEMMA KindIsRight ==
    ASSUME ObserverInv, step = "pids", NEW p \in DOMAIN snap.truth, NEW g \in Gpus
    PROVE  LET k == Kind(g, ContainerOfPid(p))
               c == snap.truth[p]
           IN  /\ k \in {"owner", "spot", "unknown"}
               /\ k = "spot" => c \in Spots /\ spot[c].gpu = g
               /\ k = "unknown" =>
                      \/ c = Host \/ ~Present(p)
                      \/ c \in Owners /\ (g \notin owner[c].has \/ owner[c].moved \/ c \notin DOMAIN listed)
                      \/ c \in Spots /\ (spot[c].gpu # g \/ c \notin DOMAIN spotGpu)
  <1> DEFINE c == snap.truth[p]
             cid == ContainerOfPid(p)
  <1>1. /\ Known(c) /\ (Present(p) => cid = c) /\ (~Present(p) => cid = None)
    BY DEF ObserverInv, SnapshotIsCurrent, ContainerOfPid
  <1>2. /\ DOMAIN spotGpu \subseteq Spots
        /\ \A s \in DOMAIN spotGpu : spotGpu[s] = spot[s].gpu
        /\ OwnersOn(g) \subseteq DOMAIN listed /\ DOMAIN listed \subseteq Owners
    BY DEF ObserverInv, ListsAreCurrent, OwnersOn
  <1>3. c \in DOMAIN listed /\ g \in owner[c].has /\ ~owner[c].moved => c \in OwnersOn(g)
    BY OwnersOnIsRight
  <1>4. None \notin Spots /\ None \notin Owners /\ Owners \intersect Spots = {}
    BY ObserverAssumption
  <1>5. Kind(g, cid) = IF cid \in DOMAIN spotGpu THEN IF spotGpu[cid] = g THEN "spot" ELSE "unknown"
                       ELSE IF cid \in OwnersOn(g) THEN "owner" ELSE "unknown"
    BY DEF Kind
  <1>6. c = Host \/ c \in Owners \/ c \in Spots
    BY <1>1 DEF Known
  <1> HIDE DEF c, cid
  <1> QED
    BY <1>1, <1>2, <1>3, <1>4, <1>5, <1>6 DEF c, cid

-----------------------------------------------------------------------------
(* Each step preserves ObserverInv. *)

\* What the tick has read stays right while the world goes on.
LEMMA WorldGoesOn ==
    ASSUME ObserverInv, WorldInv', GoesOn, UNCHANGED tick
    PROVE  ListsAreCurrent' /\ SnapshotIsCurrent' /\ ObservationsAreRight'
  <1>1. /\ UNCHANGED <<step, listed, spotGpu, gpuList, index, snap, seen>>
    BY DEF tick
  <1>2. ListsAreCurrent'
    <2>1. \A o \in DOMAIN listed : o \in Owners /\ owner[o] # None /\ listed[o] = ParseGpuRefs(owner[o].inspect)
      BY DEF ObserverInv, ListsAreCurrent
    <2>2. \A o \in DOMAIN listed : owner'[o] # None /\ listed[o] = ParseGpuRefs(owner'[o].inspect)
      BY <2>1 DEF GoesOn, OwnersGoOn
    <2>3. \A s \in DOMAIN spotGpu : spot'[s] # None /\ spotGpu[s] = spot'[s].gpu
      BY DEF ObserverInv, ListsAreCurrent, GoesOn, SpotsGoOn
    <2>4. ASSUME step \in {"snapshot", "pids"}, NEW o \in DOMAIN listed, Numbered(o)', ~owner'[o].moved
          PROVE  gpuList = numbering'
      <3>1. Numbered(o)
        BY <2>1, <2>4 DEF Numbered, GoesOn, OwnersGoOn
      <3>2. ~owner[o].moved /\ numbering' = numbering
        BY <2>1, <2>4, <3>1 DEF GoesOn, OwnersGoOn
      <3> QED
        BY <2>4, <3>1, <3>2 DEF ObserverInv, ListsAreCurrent
    <2> QED
      BY <1>1, <2>2, <2>3, <2>4 DEF ObserverInv, ListsAreCurrent
  <1>3. \A c : Known(c) => Known(c)'
    BY DEF Known, GoesOn, OwnersGoOn, SpotsGoOn
  <1>4. SnapshotIsCurrent'
    <2>1. SUFFICES ASSUME step = "pids" PROVE SnapshotIsCurrent'
      BY <1>1 DEF SnapshotIsCurrent
    <2>2. \A p \in DOMAIN snap.truth :
              /\ Known(snap.truth[p])' /\ process'[p] # None
              /\ Present(p)' => process'[p].in = snap.truth[p]
      <3>1. SUFFICES ASSUME NEW p \in DOMAIN snap.truth
                     PROVE  /\ Known(snap.truth[p])' /\ process'[p] # None
                            /\ Present(p)' => process'[p].in = snap.truth[p]
        OBVIOUS
      <3>2. /\ Known(snap.truth[p]) /\ p \in Pids /\ process[p] # None
            /\ Present(p) => process[p].in = snap.truth[p]
        BY <2>1 DEF ObserverInv, SnapshotIsCurrent
      <3>3. PICK c : c = snap.truth[p]
        OBVIOUS
      <3>4. Known(snap.truth[p])'
        BY <1>1, <1>3, <3>2, <3>3 DEF Known
      <3> QED
        BY <3>2, <3>4 DEF Present, GoesOn, ProcessesGoOn
    <2> QED
      BY <1>1, <2>1, <2>2 DEF ObserverInv, SnapshotIsCurrent, OwnersOn
  <1>5. ASSUME NEW g \in Gpus, NEW p, NEW c, Known(c), Unidentified(g, p, c)
        PROVE  Unidentified(g, p, c)'
    BY <1>1, <1>5, ObserverAssumption DEF Unidentified, Known, GoesOn, OwnersGoOn, SpotsGoOn
  <1>6. ASSUME NEW g \in Gpus, RightAbout(g)
        PROVE  RightAbout(g)'
    <2> DEFINE r == seen[g]
    <2>1. /\ r.ok /\ r.truth.gpu = g /\ r.truth.attached \subseteq r.owners
          /\ DOMAIN r.truth.truth = DOMAIN r.kinds /\ seen'[g] = r
      BY <1>1, <1>6 DEF RightAbout
    <2>2. \A o \in r.owners :
             /\ o \in Owners /\ owner'[o] # None
             /\ g \in owner'[o].has \/ owner'[o].moved
                \/ LET i == owner'[o].inspect IN i.uuids = {} /\ i.requests = {} /\ ~i.runtime
      BY <1>6 DEF RightAbout, GoesOn, OwnersGoOn
    <2>3. ASSUME NEW p \in DOMAIN r.kinds, NEW c, c = r.truth.truth[p]
          PROVE  /\ Known(c)'
                 /\ r.kinds[p] \in {"owner", "spot", "unknown"}
                 /\ r.kinds[p] = "spot" => c \in Spots /\ spot'[c].gpu = g
                 /\ r.kinds[p] = "unknown" => Unidentified(g, p, c)'
      <3>1. /\ Known(c) /\ r.kinds[p] \in {"owner", "spot", "unknown"}
            /\ r.kinds[p] = "spot" => c \in Spots /\ spot[c].gpu = g
            /\ r.kinds[p] = "unknown" => Unidentified(g, p, c)
        BY <1>6, <2>3 DEF RightAbout
      <3>2. Known(c)' /\ (r.kinds[p] = "unknown" => Unidentified(g, p, c)')
        BY <1>3, <1>5, <3>1
      <3>3. c \in Spots => spot[c] # None
        BY <3>1, ObserverAssumption DEF Known
      <3> QED
        BY <3>1, <3>2, <3>3 DEF GoesOn, SpotsGoOn
    <2>4. \A p \in DOMAIN r.kinds :
             /\ Known(r.truth.truth[p])'
             /\ r.kinds[p] \in {"owner", "spot", "unknown"}
             /\ r.kinds[p] = "spot" => r.truth.truth[p] \in Spots /\ spot'[r.truth.truth[p]].gpu = g
             /\ r.kinds[p] = "unknown" => Unidentified(g, p, r.truth.truth[p])'
      <3>1. SUFFICES ASSUME NEW p \in DOMAIN r.kinds
                     PROVE  /\ Known(r.truth.truth[p])'
                            /\ r.kinds[p] \in {"owner", "spot", "unknown"}
                            /\ r.kinds[p] = "spot" => r.truth.truth[p] \in Spots /\ spot'[r.truth.truth[p]].gpu = g
                            /\ r.kinds[p] = "unknown" => Unidentified(g, p, r.truth.truth[p])'
        OBVIOUS
      <3>2. PICK c : c = r.truth.truth[p]
        OBVIOUS
      <3> QED
        BY <1>1, <2>3, <3>2 DEF Known, Unidentified
    <2> QED
      BY <2>1, <2>2, <2>4 DEF RightAbout
  <1>7. ObservationsAreRight'
    BY <1>1, <1>6 DEF ObserverInv, ObservationsAreRight
  <1> QED
    BY <1>2, <1>4, <1>7

LEMMA WorldRests ==
    ASSUME ObserverInv, UNCHANGED world
    PROVE  WorldInv'
  BY DEF ObserverInv, WorldInv, WorldTyped, ProcessesAreHeld, AttachedAsAsked, Present, Alive, Up,
         Given, world

LEMMA Stays ==
    ASSUME ObserverInv, UNCHANGED vars
    PROVE  ObserverInv'
  <1>1. UNCHANGED <<world, tick, moves>>
    BY DEF vars
  <1>2. GoesOn
    BY <1>1 DEF GoesOn, OwnersGoOn, SpotsGoOn, ProcessesGoOn, world
  <1> QED
    BY <1>1, <1>2, WorldRests, WorldGoesOn DEF ObserverInv, StepTyped, tick

LEMMA NothingSeenYet ==
    ASSUME ObserverInv, seen' = [g \in Gpus |-> None] \/ seen' = [g \in Gpus |-> Failed]
    PROVE  ObservationsAreRight'
  BY DEF ObservationsAreRight

LEMMA ListOwnersOk ==
    ASSUME ObserverInv, ListOwners
    PROVE  ObserverInv'
  <1>1. /\ step = "owners" /\ step' = "spots"
        /\ listed' = [o \in {o \in Owners : Alive(o)} |-> ParseGpuRefs(owner[o].inspect)]
        /\ UNCHANGED <<world, spotGpu, gpuList, index, snap, seen, moves>>
    BY DEF ListOwners
  <1>2. WorldInv' /\ StepTyped'
    BY <1>1, WorldRests DEF ObserverInv, StepTyped
  <1>3. index = 0 /\ seen = [g \in Gpus |-> None]
    BY <1>1 DEF ObserverInv, ListsAreCurrent
  <1>4. \A o \in DOMAIN listed' : /\ o \in Owners /\ owner[o] # None
                                  /\ listed'[o] = ParseGpuRefs(owner[o].inspect)
    BY <1>1 DEF Alive
  <1>5. ListsAreCurrent'
    BY <1>1, <1>3, <1>4 DEF ObserverInv, ListsAreCurrent, world
  <1>6. SnapshotIsCurrent' /\ ObservationsAreRight'
    BY <1>1, <1>3, NothingSeenYet DEF SnapshotIsCurrent
  <1> QED
    BY <1>2, <1>5, <1>6 DEF ObserverInv

LEMMA ListSpotsOk ==
    ASSUME ObserverInv, ListSpots
    PROVE  ObserverInv'
  <1>1. /\ step = "spots" /\ step' = "gpus"
        /\ spotGpu' = [s \in {s \in Spots : Up(s)} |-> spot[s].gpu]
        /\ UNCHANGED <<world, listed, gpuList, index, snap, seen, moves>>
    BY DEF ListSpots
  <1>2. WorldInv' /\ StepTyped'
    BY <1>1, WorldRests DEF ObserverInv, StepTyped
  <1>3. index = 0 /\ seen = [g \in Gpus |-> None]
    BY <1>1 DEF ObserverInv, ListsAreCurrent
  <1>4. \A s \in DOMAIN spotGpu' : s \in Spots /\ spot[s] # None /\ spotGpu'[s] = spot[s].gpu
    BY <1>1 DEF Up
  <1>5. ListsAreCurrent'
    BY <1>1, <1>3, <1>4 DEF ObserverInv, ListsAreCurrent, world
  <1>6. SnapshotIsCurrent' /\ ObservationsAreRight'
    BY <1>1, <1>3, NothingSeenYet DEF SnapshotIsCurrent
  <1> QED
    BY <1>2, <1>5, <1>6 DEF ObserverInv

LEMMA ListGpusOk ==
    ASSUME ObserverInv, ListGpus
    PROVE  ObserverInv'
  <1>1. /\ step = "gpus" /\ step' = "snapshot" /\ gpuList' = numbering
        /\ UNCHANGED <<world, listed, spotGpu, index, snap, seen, moves>>
    BY DEF ListGpus
  <1>2. index = 0 /\ seen = [g \in Gpus |-> None] /\ numbering \in Bijection(Indices, Gpus)
    BY <1>1 DEF ObserverInv, ListsAreCurrent, WorldInv, WorldTyped
  <1>3. WorldInv' /\ StepTyped'
    BY <1>1, <1>2, WorldRests, GpusAreNumbered DEF ObserverInv, StepTyped
  <1>4. ListsAreCurrent'
    BY <1>1, <1>2 DEF ObserverInv, ListsAreCurrent, world
  <1>5. SnapshotIsCurrent' /\ ObservationsAreRight'
    BY <1>1, <1>2, NothingSeenYet DEF SnapshotIsCurrent
  <1> QED
    BY <1>3, <1>4, <1>5 DEF ObserverInv

LEMMA BlindOk ==
    ASSUME ObserverInv, Blind
    PROVE  ObserverInv'
  <1>1. /\ step' = "done" /\ seen' = [g \in Gpus |-> Failed]
        /\ UNCHANGED <<world, listed, spotGpu, gpuList, index, snap, moves>>
    BY DEF Blind
  <1>2. WorldInv' /\ StepTyped'
    BY <1>1, WorldRests DEF ObserverInv, StepTyped
  <1>3. ListsAreCurrent'
    BY <1>1 DEF ObserverInv, ListsAreCurrent, world
  <1>4. SnapshotIsCurrent' /\ ObservationsAreRight'
    BY <1>1, NothingSeenYet DEF SnapshotIsCurrent
  <1> QED
    BY <1>2, <1>3, <1>4 DEF ObserverInv

LEMMA SnapshotOk ==
    ASSUME ObserverInv, Snapshot
    PROVE  ObserverInv'
  <1> DEFINE here == {p \in Pids : Present(p) /\ process[p].on = numbering[index]}
             now == [gpu |-> numbering[index], truth |-> [p \in here |-> process[p].in],
                     attached |-> {o \in DOMAIN listed : /\ Alive(o) /\ ~owner[o].moved
                                                         /\ numbering[index] \in owner[o].has}]
  <1>1. /\ step = "snapshot" /\ step' = "pids" /\ snap' = now /\ numbering[index] = gpuList[index]
        /\ UNCHANGED <<world, listed, spotGpu, gpuList, index, seen, moves>>
    BY DEF Snapshot, Compared, SameIdentity
  <1>2. index \in Indices /\ gpuList \in Bijection(Indices, Gpus)
    BY <1>1 DEF ObserverInv, ListsAreCurrent, StepTyped
  <1>3. PICK g \in Gpus : g = gpuList[index]
    BY <1>2, Numberings
  <1>4. WorldInv' /\ StepTyped'
    BY <1>1, WorldRests DEF ObserverInv, StepTyped
  <1>5. ListsAreCurrent'
    BY <1>1 DEF ObserverInv, ListsAreCurrent, Numbered, world
  <1>6. now.gpu = g
    BY <1>1, <1>3
  <1>7. now.attached \subseteq OwnersOn(g)
    BY <1>1, <1>3, OwnersOnIsRight
  <1>8. DOMAIN now.truth = here
    OBVIOUS
  <1>9. ASSUME NEW p \in here
        PROVE  /\ Known(now.truth[p]) /\ process[p] # None /\ process[p].in = now.truth[p]
    <2>1. /\ now.truth[p] = process[p].in /\ Present(p) /\ p \in Pids
      OBVIOUS
    <2>2. process[p].in \in Owners \union Spots \union {Host} /\ process[p] # None
      BY <2>1 DEF Present, ObserverInv, WorldInv, WorldTyped
    <2>3. Known(process[p].in)
      BY <2>1, <2>2 DEF Known, Alive, Up, ObserverInv, WorldInv, ProcessesAreHeld
    <2> HIDE DEF now
    <2> QED
      BY <2>1, <2>2, <2>3
  <1>10. here \subseteq Pids
    OBVIOUS
  <1>11. SnapshotIsCurrent'
    <2> HIDE DEF now, here
    <2>1. OwnersOn(gpuList[index])' = OwnersOn(g)
      BY <1>1, <1>3 DEF OwnersOn
    <2>2. \A p \in DOMAIN snap'.truth : /\ Known(snap.truth[p])' /\ process'[p] # None
                                        /\ process'[p].in = snap'.truth[p]
      BY <1>1, <1>8, <1>9 DEF Known, world
    <2> QED
      BY <1>1, <1>3, <1>6, <1>7, <1>8, <1>10, <2>1, <2>2 DEF SnapshotIsCurrent
  <1>12. ObservationsAreRight'
    <2>1. \A h \in Gpus : RightAbout(h) => RightAbout(h)'
      BY <1>1 DEF RightAbout, Known, Unidentified, world
    <2> QED
      BY <1>1, <2>1 DEF ObserverInv, ObservationsAreRight
  <1> QED
    BY <1>4, <1>5, <1>11, <1>12 DEF ObserverInv

\* The loop over the GPUs moves on.
LEMMA AdvanceOk ==
    ASSUME ObserverInv, step \in {"snapshot", "pids"}, Advance, UNCHANGED <<world, moves, listed, spotGpu, gpuList>>
    PROVE  /\ WorldInv' /\ StepTyped' /\ ListsAreCurrent' /\ SnapshotIsCurrent'
           /\ \A h \in Gpus : RightAbout(h) /\ seen'[h] = seen[h] => RightAbout(h)'
  <1>1. index \in Indices /\ index' = index + 1 /\ step' = IF index' \in Indices THEN "snapshot" ELSE "done"
    BY DEF Advance, ObserverInv, StepTyped
  <1>2. WorldInv' /\ StepTyped'
    BY <1>1, WorldRests, GpusAreNumbered DEF ObserverInv, StepTyped
  <1>3. ListsAreCurrent'
    BY <1>1 DEF ObserverInv, ListsAreCurrent, Numbered, world
  <1>4. SnapshotIsCurrent'
    BY <1>1 DEF SnapshotIsCurrent
  <1>5. \A h \in Gpus : RightAbout(h) /\ seen'[h] = seen[h] => RightAbout(h)'
    BY DEF RightAbout, Known, Unidentified, world
  <1> QED
    BY <1>2, <1>3, <1>4, <1>5

LEMMA SnapshotFailsOk ==
    ASSUME ObserverInv, SnapshotFails
    PROVE  ObserverInv'
  <1>1. /\ step = "snapshot" /\ Advance /\ seen' = [seen EXCEPT ![gpuList[index]] = Failed]
        /\ UNCHANGED <<world, listed, spotGpu, gpuList, snap, moves>>
    BY DEF SnapshotFails
  <1>2. \A h \in Gpus : RightAbout(h) /\ seen'[h] = seen[h] => RightAbout(h)'
    BY <1>1, AdvanceOk
  <1>3. ObservationsAreRight'
    <2>1. seen = [g \in Gpus |-> seen[g]] /\ \A g \in Gpus : seen[g] \in {None, Failed} \/ RightAbout(g)
      BY DEF ObserverInv, ObservationsAreRight
    <2>2. seen' = [g \in Gpus |-> seen'[g]] /\ \A g \in Gpus : seen'[g] \in {seen[g], Failed}
      BY <1>1, <2>1
    <2> QED
      BY <1>2, <2>1, <2>2 DEF ObservationsAreRight
  <1> QED
    BY <1>1, <1>3, AdvanceOk DEF ObserverInv

LEMMA ClassifyOk ==
    ASSUME ObserverInv, Classify
    PROVE  ObserverInv'
  <1>1. step = "pids" /\ Advance /\ UNCHANGED <<world, listed, spotGpu, gpuList, moves>>
    BY DEF Classify
  <1>2. index \in Indices /\ gpuList \in Bijection(Indices, Gpus)
    BY <1>1 DEF ObserverInv, ListsAreCurrent, StepTyped
  <1>3. PICK g \in Gpus : g = gpuList[index]
    BY <1>2, Numberings
  <1> DEFINE new == [ok |-> TRUE,
                     kinds |-> [p \in DOMAIN snap.truth |-> Kind(g, ContainerOfPid(p))],
                     owners |-> OwnersOn(g),
                     truth |-> snap,
                     gone |-> {p \in DOMAIN snap.truth : ~Present(p)}]
  <1>4. seen' = [seen EXCEPT ![g] = new]
    BY <1>3 DEF Classify
  <1>5. /\ new.ok /\ new.truth = snap /\ new.owners = OwnersOn(g)
        /\ DOMAIN new.kinds = DOMAIN snap.truth
        /\ \A p \in DOMAIN snap.truth : /\ new.kinds[p] = Kind(g, ContainerOfPid(p))
                                        /\ p \in new.gone <=> ~Present(p)
    OBVIOUS
  <1>6. snap.gpu = g /\ snap.attached \subseteq OwnersOn(g)
    BY <1>1, <1>3 DEF ObserverInv, SnapshotIsCurrent
  <1>7. \A o \in OwnersOn(g) :
            /\ o \in Owners /\ owner[o] # None
            /\ g \in owner[o].has \/ owner[o].moved
               \/ LET i == owner[o].inspect IN i.uuids = {} /\ i.requests = {} /\ ~i.runtime
    <2>1. OwnersOn(g) \subseteq DOMAIN listed
      BY DEF OwnersOn
    <2> QED
      BY <1>1, <2>1, OwnersOnIsRight
  <1> HIDE DEF new
  <1>8. \A p \in DOMAIN snap.truth :
            LET c == snap.truth[p] IN
            /\ Known(c) /\ new.kinds[p] \in {"owner", "spot", "unknown"}
            /\ new.kinds[p] = "spot" => c \in Spots /\ spot[c].gpu = g
            /\ new.kinds[p] = "unknown" =>
                  \/ c = Host \/ p \in new.gone
                  \/ c \in Owners /\ (g \notin owner[c].has \/ owner[c].moved \/ c \notin DOMAIN listed)
                  \/ c \in Spots /\ (spot[c].gpu # g \/ c \notin DOMAIN spotGpu)
    <2>1. \A p \in DOMAIN snap.truth : Known(snap.truth[p])
      BY <1>1 DEF ObserverInv, SnapshotIsCurrent
    <2> QED
      BY <1>1, <1>5, <2>1, KindIsRight
  <1>9. seen'[g] = new
    BY <1>4 DEF ObserverInv, ObservationsAreRight
  <1>10. RightAbout(g)'
    BY <1>1, <1>5, <1>6, <1>7, <1>8, <1>9 DEF RightAbout, Known, Unidentified, world
  <1>11. \A h \in Gpus : RightAbout(h) /\ seen'[h] = seen[h] => RightAbout(h)'
    BY <1>1, AdvanceOk
  <1>12. ObservationsAreRight'
    <2>1. seen = [h \in Gpus |-> seen[h]] /\ \A h \in Gpus : seen[h] \in {None, Failed} \/ RightAbout(h)
      BY DEF ObserverInv, ObservationsAreRight
    <2>2. seen' = [h \in Gpus |-> seen'[h]] /\ \A h \in Gpus : h # g => seen'[h] = seen[h]
      BY <1>4, <2>1
    <2> QED
      BY <1>10, <1>11, <2>1, <2>2 DEF ObservationsAreRight
  <1> QED
    BY <1>1, <1>12, AdvanceOk DEF ObserverInv

\* Ids are used again only when the tick that knew them is over.
LEMMA NextTickOk ==
    ASSUME ObserverInv, NextTick
    PROVE  ObserverInv'
  <1>1. /\ step' = "owners" /\ listed' = <<>> /\ spotGpu' = <<>> /\ index' = 0 /\ moves' = 0
        /\ seen' = [g \in Gpus |-> None] /\ numbering' = numbering
        /\ owner' = [o \in Owners |-> IF Alive(o) THEN owner[o] ELSE None]
        /\ spot' = [s \in Spots |-> IF Up(s) THEN spot[s] ELSE None]
        /\ process' = [p \in Pids |-> IF Present(p) THEN process[p] ELSE None]
    BY DEF NextTick
  <1>2. WorldTyped'
    BY <1>1 DEF ObserverInv, WorldInv, WorldTyped
  <1>3. ProcessesAreHeld'
    BY <1>1 DEF ObserverInv, WorldInv, ProcessesAreHeld, Present, Alive, Up
  <1>4. AttachedAsAsked'
    BY <1>1 DEF ObserverInv, WorldInv, AttachedAsAsked, Given
  <1>5. StepTyped'
    BY <1>1, ObserverAssumption, GpusAreNumbered DEF StepTyped
  <1>6. ListsAreCurrent'
    <2>1. DOMAIN listed' = {} /\ DOMAIN spotGpu' = {}
      BY <1>1
    <2> QED
      BY <1>1, <2>1 DEF ListsAreCurrent
  <1>7. SnapshotIsCurrent' /\ ObservationsAreRight'
    BY <1>1, NothingSeenYet DEF SnapshotIsCurrent
  <1> QED
    BY <1>2, <1>3, <1>4, <1>5, <1>6, <1>7 DEF ObserverInv, WorldInv

LEMMA MovesOk ==
    ASSUME ObserverInv, WorldStep
    PROVE  ObserverInv'
  <1>1. Moves
    BY DEF WorldStep, OwnerEnds, OwnerStarts, SpotEnds, SpotStarts, ProcessStarts, ProcessEnds, Renumber
  <1>2. UNCHANGED tick /\ moves' \in {moves, moves + 1} /\ (moves' = moves \/ moves < MaxMoves)
    BY <1>1 DEF Moves
  <1>3. StepTyped'
    BY <1>2, ObserverAssumption DEF ObserverInv, StepTyped, tick
  <1> QED
    BY <1>2, <1>3, WorldStepOk, WorldGoesOn DEF ObserverInv

-----------------------------------------------------------------------------
\* ObserverInv holds of every tick: what it remembers is right about the
\* containers it has listed and the processes it has seen.
THEOREM ObserverInvariant == Spec => []ObserverInv
  <1>1. Init => ObserverInv
    <2> SUFFICES ASSUME Init PROVE ObserverInv
      OBVIOUS
    <2>1. WorldInv
      BY DEF Init, WorldInv, WorldTyped, ProcessesAreHeld, AttachedAsAsked, Present
    <2>2. StepTyped
      BY ObserverAssumption, GpusAreNumbered DEF Init, StepTyped
    <2>3. ListsAreCurrent
      <3>1. DOMAIN listed = {} /\ DOMAIN spotGpu = {}
        BY DEF Init
      <3> QED
        BY <3>1 DEF Init, ListsAreCurrent
    <2>4. SnapshotIsCurrent
      BY DEF Init, SnapshotIsCurrent
    <2>5. ObservationsAreRight
      BY DEF Init, ObservationsAreRight
    <2> QED
      BY <2>1, <2>2, <2>3, <2>4, <2>5 DEF ObserverInv
  <1>2. ObserverInv /\ [Next]_vars => ObserverInv'
    <2> SUFFICES ASSUME ObserverInv, [Next]_vars PROVE ObserverInv'
      OBVIOUS
    <2>1. CASE TickStep
      BY <2>1, ListOwnersOk, ListSpotsOk, ListGpusOk, BlindOk, SnapshotOk, SnapshotFailsOk,
         ClassifyOk, NextTickOk DEF TickStep
    <2>2. CASE WorldStep
      BY <2>2, MovesOk
    <2>3. CASE UNCHANGED vars
      BY <2>3, Stays
    <2> QED
      BY <2>1, <2>2, <2>3 DEF Next
  <1> QED
    BY <1>1, <1>2, PTL DEF Spec

LEMMA ObservedIsRight ==
    ASSUME ObserverInv, NEW g \in Observed
    PROVE  g \in Gpus /\ RightAbout(g)
  BY DEF ObserverInv, ObservationsAreRight, Observed, Failed

\* Every variable has its type.
THEOREM ObserverTypes == Spec => []TypeOK
  <1>1. ObserverInv => TypeOK
    <2> SUFFICES ASSUME ObserverInv PROVE TypeOK
      OBVIOUS
    <2>1. \A g \in Observed : \A p \in DOMAIN seen[g].kinds : seen[g].kinds[p] \in {"owner", "spot", "unknown"}
      BY ObservedIsRight DEF RightAbout
    <2> QED
      BY <2>1 DEF TypeOK, ObserverInv, WorldInv, WorldTyped, StepTyped, ListsAreCurrent
  <1> QED
    BY <1>1, ObserverInvariant, PTL

\* Whoever uses a GPU counts against lending it, except the spot container
\* that was put on that very GPU.
THEOREM NobodyHides == Spec => []NothingHides
  <1>1. ObserverInv => NothingHides
    BY ObservedIsRight DEF RightAbout, NothingHides
  <1> QED
    BY <1>1, ObserverInvariant, PTL

\* Renumbering in the middle of a tick never files an observation under
\* another GPU.
THEOREM ObservationsKeepIdentity == Spec => []IdentityKept
  <1>1. ObserverInv => IdentityKept
    BY ObservedIsRight DEF RightAbout, IdentityKept
  <1> QED
    BY <1>1, ObserverInvariant, PTL

\* A session that has held the GPU since the listing is one of its owners, in each
\* of the ways of attachment the code knows.
THEOREM AttachedAreCounted == Spec => []OwnersAreCounted
  <1>1. ObserverInv => OwnersAreCounted
    BY ObservedIsRight DEF RightAbout, OwnersAreCounted
  <1> QED
    BY <1>1, ObserverInvariant, PTL

\* Nobody is counted as an owner without a reason.
THEOREM CountedAreAttached == Spec => []OwnersAreAttached
  <1>1. ObserverInv => OwnersAreAttached
    BY ObservedIsRight DEF RightAbout, OwnersAreAttached
  <1> QED
    BY <1>1, ObserverInvariant, PTL

\* No process is unidentified without a reason.
THEOREM UnknownIsExplained == Spec => []UnknownForAReason
  <1>1. ObserverInv => UnknownForAReason
    BY ObservedIsRight DEF RightAbout, Unidentified, UnknownForAReason
  <1> QED
    BY <1>1, ObserverInvariant, PTL

=============================================================================
