SPECIFICATION Spec
CONSTANTS
    kBlockSize = 10
    Lengths = {0, 3, 5}
    MaxRecords = 3
    MaxFaults = 1
    FaultBytes = {0, 4, 8}
    TrailerBytes = {}
    InitialOffsets = {0, 11}
    NULL = NULL
INVARIANT AcknowledgedRecordsAreRead
CHECK_DEADLOCK FALSE
