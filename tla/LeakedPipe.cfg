SPECIFICATION Spec
CONSTANTS
  Lines <- PipeLines
  MaxTasks = 2
  MaxFd = 6
  Rlim = 7
  HostFds <- Std
  PipeCap = 1
  CapSteps = 2
  Env = {"prep"}
INVARIANTS
  CleanupComplete
