SPECIFICATION Spec
CONSTANTS
    NULL = NULL
    kMaxByte = 2
    kMaxSequenceNumber = 4
    block_size = 14
    block_restart_interval = 2
    kFilterBase = 16
    bits_per_key = 3
    MinBits = 8
    k_ = 2
    HashBits = 6
    MaxAdds = 3
    FailingCalls = {4, 99}
    MaxMem = 1
    Snapshots = {2, 3}
    kBlockSize = 10
    Lengths = {0, 3, 6}
    MaxRecords = 3
    MaxFaults = 1
    FaultBytes = {0, 4, 8}
    TrailerBytes = {0, 1}
    InitialOffsets = {0, 11}
    MaxSet = 2
INVARIANTS
    LookupsAreRight
    IteratorIsACursor
    OnlyWrittenRecordsAreRead
    NothingIsLostSilently
    WholeMessagesArrive
    TruncationOnlyLosesFields
CHECK_DEADLOCK FALSE
