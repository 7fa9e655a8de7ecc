SPECIFICATION Spec
CONSTANTS
    Jobs = {j1, j2}
    Gpus = {g1, g2}
    Ram <- MCRam
    HostMemory = 6
    Reserve = 2
INVARIANT ReserveIsKept
