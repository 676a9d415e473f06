CONSTANTS
  NumThreads = 2
  W = 3
  NumCores = 4
  NumCos = 4
  MonitorLen = 1
  WarmupInterval = 2
  AssignableCores <- MCAssignableCoresContiguous
  ProfileInterval = 20
  NumPhases = 9
  PhaseBound = 10
  MpkiOf <- MCMpkiOf
  IpcOf <- MCIpcOf
  SampleRecord = {TRUE}
SPECIFICATION Spec
INVARIANT SampleSlotInRange
CHECK_DEADLOCK FALSE
