CONSTANTS
  NumThreads = 2
  W = 3
  NumCores = 6
  NumCos = 4
  AssignableCores <- MCAssignableCores
  WarmupInterval = 2
  ProfileInterval = 8
  NumPhases = 3
  MonitorLen = 1
  PhaseBound = 5
  MpkiOf <- MCMpkiOf
  IpcOf <- MCIpcOf
  SampleRecord = {TRUE}
  AllowExit = FALSE
  AllowSigint = FALSE
  AllowUserStop = FALSE
  AllowKill = FALSE
SPECIFICATION TracerSpec
INVARIANT TracerTypeOK
PROPERTY ProfilerTerminates
CHECK_DEADLOCK FALSE
