\* A cancel during a docker run that fails is overwritten.
SPECIFICATION Spec
CONSTANTS
  Jobs = {j1}
  Gpus = {g1}
  MaxAttempts = 1
  NoGpu = NoGpu
  NoContainer = NoContainer
  IdleTicks = 1
  Elapsed = {1}
  MaxHalts = 0
  Faults = {"cancel", "run-fails"}
PROPERTIES
  FinalIsFinal
