CONSTANTS
  NumThreads = 1
  W = 3
  NumCores = 4
  NumCos = 4
  MonitorLen = 1
  WarmupInterval = 2
  AssignableCores <- MCAssignableCoresContiguous
  ProfileInterval = 20
  NumPhases = 9
  PhaseBound = 10
  MpkiOf <- MCMpkiOf
  IpcOf <- MCIpcOf
  SampleRecord = {TRUE}
SPECIFICATION Spec
INVARIANT EmittedPointsMeasuredAtLabel
CHECK_DEADLOCK FALSE
