CONSTANTS
  NumThreads = 2
  W = 3
  NumCores = 6
  NumCos = 4
  AssignableCores <- MCAssignableCoresContiguous
  WarmupInterval = 2
  ProfileInterval = 4
  NumPhases = 9
  MonitorLen = 1
  PhaseBound = 10
  MpkiOf <- MCMpkiOf
  IpcOf <- MCIpcOf
  SampleRecord = {FALSE, TRUE}
SPECIFICATION Spec
INVARIANT TypeOK
INVARIANT Isolation
INVARIANT SamplingRowsMatchHardware
INVARIANT SharedWhenIdle
INVARIANT SampledCurvesMonotone
CHECK_DEADLOCK FALSE
PROPERTY RoundsRefined
