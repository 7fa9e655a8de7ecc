\* Owners, pauses, cancels and the queue are served in the end.
SPECIFICATION FairSpec
CONSTANTS
  Jobs = {j1}
  Gpus = {g1}
  MaxAttempts = 2
  NoGpu = NoGpu
  NoContainer = NoContainer
  IdleTicks = 1
  Elapsed = {1}
  MaxHalts = 1
  Faults = {"cancel", "pause"}
PROPERTIES
  OwnerGetsGpuBack
  PauseGivesGpuBack
  StopsComplete
  IdleGpuIsLent
