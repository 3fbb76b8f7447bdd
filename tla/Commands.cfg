SPECIFICATION FairSpec
CONSTANTS
  Lines <- AllLines
  MaxTasks = 3
  MaxFd = 7
  Rlim = 8
  HostFds <- Std
  PipeCap = 1
  CapSteps = 2
  Env <- AllEvents
INVARIANTS
  TypeOK
  RunIfHonoured
  NeverAborts
  StatusIsOfLastChild
  WiredAsWritten
  OnlyStdio
  WaitsForWholeJob
PROPERTIES
  JobControlSpec
  Terminates
