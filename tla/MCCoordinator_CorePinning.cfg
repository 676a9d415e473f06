CONSTANTS
  NumThreads = 2
  W = 3
  NumCores = 8
  NumCos = 4
  MonitorLen = 1
  WarmupInterval = 2
  AssignableCores <- MCAssignableCoresInterleaved
  ProfileInterval = 20
  NumPhases = 9
  PhaseBound = 10
  MpkiOf <- MCMpkiOf
  IpcOf <- MCIpcOf
  SampleRecord = {TRUE}
SPECIFICATION Spec
INVARIANT SamplingRowsMatchHardware
CHECK_DEADLOCK FALSE
