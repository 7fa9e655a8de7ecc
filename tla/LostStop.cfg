\* A docker stop that failed once is never tried again.
SPECIFICATION FairSpec
CONSTANTS
  Jobs = {j1}
  Gpus = {g1}
  MaxAttempts = 1
  NoGpu = NoGpu
  NoContainer = NoContainer
  IdleTicks = 1
  Elapsed = {1}
  MaxHalts = 0
  Faults = {"stop-fails"}
PROPERTIES
  OwnerGetsGpuBack
