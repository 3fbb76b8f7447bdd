SPECIFICATION Spec
CONSTANTS
  Lines <- FaultLines
  MaxTasks = 3
  MaxFd = 7
  Rlim = 8
  HostFds <- Std
  PipeCap = 1
  CapSteps = 2
  Env = {"prep", "open", "pipe", "fork", "nomem", "eintr", "host"}
INVARIANTS
  HostFdsKept
  StatusIsOfLastChild
  LeakBounded
  OwnDescriptors
