\* One job through all its attempts, under every fault of the model.
SPECIFICATION Spec
CONSTANTS
  Jobs = {j1}
  Gpus = {g1}
  MaxAttempts = 2
  NoGpu = NoGpu
  NoContainer = NoContainer
  IdleTicks = 2
  Elapsed = {1, 2}
  MaxHalts = 1
  Faults = {"cancel", "pause", "shutdown", "stop-post", "tick-error", "db-error", "docker-down",
            "nvml-fail", "gone", "misread", "low-memory", "no-room", "run-fails",
            "run-late", "stop-fails", "rm-fails", "vanish", "drain-timeout"}
INVARIANTS
  JobRunsOnce
  RunsMatchJobs
  PreemptionsCounted
PROPERTIES
  LeaseRefined
