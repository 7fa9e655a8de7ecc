SPECIFICATION Spec
CONSTANTS
    g1 = g1
    g2 = g2
    Gpus = {g1, g2}
    Owners = {o1}
    Spots = {s1}
    Pids = {p1, p2}
    Inspects <- MCInspects
    All = All
    Host = Host
    None = None
    MaxMoves = 2
INVARIANTS TypeOK NothingHides IdentityKept OwnersAreCounted OwnersAreAttached UnknownForAReason
SYMMETRY Symmetry
