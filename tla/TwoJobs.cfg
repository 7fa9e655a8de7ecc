\* Two jobs compete for two GPUs while users, docker and the daemon get in the way.
SPECIFICATION Spec
CONSTANTS
  Jobs = {j1, j2}
  Gpus = {g1, g2}
  MaxAttempts = 1
  NoGpu = NoGpu
  NoContainer = NoContainer
  IdleTicks = 1
  Elapsed = {1}
  MaxHalts = 1
  Faults = {"cancel", "shutdown", "tick-error", "docker-down", "vanish"}
SYMMETRY Symmetry
INVARIANTS
  TypeOK
  OneLeasePerGpu
  OneSpotPerGpu
  StopsAreRecorded
  StopIssuedIsLive
  CleanExitReclaims
  ReclaimedNeverFails
PROPERTIES
  FinalIsFinal
