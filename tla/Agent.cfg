SPECIFICATION Spec
CONSTANTS
    PerDevice = 3
    MiB = 4
    Reserved = 1
    Gpus <- MCGpus
    Plugins = {"cuda_frac", "gpu_slot_1"}
    Total <- MCTotal
    Model <- MCModel
    NoClaim = NoClaim
    Sessions = {s1, s2}
    Configs <- MCConfigs
    Pids = {1, 2}
    MaxBoots = 3
    NoSession = NoSession
CHECK_DEADLOCK FALSE
INVARIANTS TypeOK NoGpuOversubscribed BooksBalance OneTakerPerGpu ConflictsAreReal
    FractionsAreEnforced MemoryLimitsFit LimitsHitTheirGpu
SYMMETRY Symmetry
