\* Every plan for two GPUs and a queue of two jobs.
SPECIFICATION Spec
CONSTANTS
  NumGpus = 2
  NumJobs = 2
  Verdicts <- MCVerdicts
  Requests <- MCRequests
  Budgets <- MCBudgets
  DefaultGpuMem = 1
INVARIANTS
  OneJobPerGpu
  RamIsKept
  OvertakenForAReason
  NothingLeftLying
  PlanFillsUp
CHECK_DEADLOCK FALSE
