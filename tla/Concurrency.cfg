SPECIFICATION Spec
CONSTANTS
    t1 = t1
    t2 = t2
    t3 = t3
    NULL = NULL
    write_buffer_size = 0
    kL0_CompactionTrigger = 1
    kL0_SlowdownWritesTrigger = 1
    kL0_StopWritesTrigger = 2
    MaxGroupGrowth = 2
    MaxGroupSize = 5
    MaxFaults = 1
    Keys = {1, 2, 3}
    kMaxHeight = 2
    Readers = {"r1"}
    CacheKeys = {0, 1, 2}
    Charges = {1, 2}
    capacity = 3
    kNumShards = 2
    InitialLength = 1
    MaxInserts = 3
    MaxItems = 3
    Openers = {1, 2, 3}
    mmap_limit = 1
    open_read_only_file_limit = 1
    Processes = {1, 2}
    ProcessOf <- TwoAndOne
    Accounts = {"a", "b"}
    Records = {"r1", "r2"}
    MaxScreens = 5
    MaxSignIns = 2
    MaxEvents = 2
    MaxLaunches = 2
INVARIANTS
    BatchesAppearWhole
    AnsweredMeansLogged
    ReadersMissNothing
    CacheAccounting
    LimiterAccounting
    OneHolderPerProcess
    ScreensAreServed
    RowsCoverRecords
PROPERTIES
    EveryCallReturns
    ScheduledWorkRuns
CHECK_DEADLOCK FALSE
