\* A crash, ExecStopPost, and the restarted daemon.
SPECIFICATION Spec
CONSTANTS
  Jobs = {j1}
  Gpus = {g1}
  MaxAttempts = 1
  NoGpu = NoGpu
  NoContainer = NoContainer
  IdleTicks = 1
  Elapsed = {1}
  MaxHalts = 1
  Faults = {"stop-post"}
INVARIANTS
  ReclaimedNeverFails
