CONSTANTS
  NumThreads = 1
  W = 4
  NumCores = 4
  NumCos = 4
  MonitorLen = 1
  WarmupInterval = 2
  AssignableCores <- MCAssignableCoresContiguous
  ProfileInterval = 4
  NumPhases = 12
  PhaseBound = 12
  MpkiOf <- MCMpkiOf
  IpcOf <- MCIpcOf
  SampleRecord = {TRUE}
SPECIFICATION Spec
PROPERTY SliceIdxMonotonic
CHECK_DEADLOCK FALSE
