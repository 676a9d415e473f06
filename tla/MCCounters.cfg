CONSTANTS
    RotatingEventCounts = {0, 3, 4, 7}
    MbmMax = 4
    TrafficStep = 3
    TrafficBound = 12
    MaxPending = 3
    MaxOpenFailures = 2
SPECIFICATION CountersSpec
INVARIANTS
    CountersTypeOK
    RotationInStep
    NoOvercount
    EventGroupsFit
PROPERTIES
    
    RotationRefined
\* The thread's counters stop for good after a non-SAMPLE record on the
\* rotation phase, and the traffic bound ends memory traffic.
CHECK_DEADLOCK FALSE
