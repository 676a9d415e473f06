CONSTANTS
  W = 12
  NumLogicalCores = 12
  MaxCatFailures = 1
  MrcInputs <- MCMrcInputs
  IpcInputs <- MCIpcInputs
SPECIFICATION UcpSpec
INVARIANT UcpTypeOK
INVARIANT WaysPartitioned
INVARIANT Ways10And11Together
INVARIANT GreedyOptimal
PROPERTY UcpTerminates
CHECK_DEADLOCK FALSE
