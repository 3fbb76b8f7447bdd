SPECIFICATION Spec
CONSTANTS
  Lines <- PlainLines
  MaxTasks = 2
  MaxFd = 6
  Rlim = 7
  HostFds <- Std
  PipeCap = 1
  CapSteps = 2
  Env = {"fork"}
INVARIANTS
  ForkFailureReported
