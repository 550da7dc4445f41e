SPECIFICATION DatabaseSpec
CONSTANTS
  Keys = {1, 3}
  MaxWrites = 6
  Scripts <- PutFirst
  Ranges <- WholeRange
  kNumLevels = 4
  kMaxMemCompactLevel = 1
  kL0_CompactionTrigger = 2
  kL0_StopWritesTrigger = 4
  TargetFileSize = 1
  GrandParentFactor = 10
  ExpandFactor = 25
  LevelBase = 2
  LevelRatio = 10
  BlockEntries = 1
  ShortestSeparator <- Halfway
  write_buffer_size = 1
  MaxSnapshots = 0
  MaxRangeCalls = 0
  SizeKeys = {1, 2, 3}
  Readers = TRUE
  AllowedSeeks = 1
  NULL = NULL
  MaxFileWrites = 3
  MaxFile = 10
  MaxCrashes = 2
  MaxFaults = 1
INVARIANT LevelsDisjoint
INVARIANT SmallerLevelIsNewer
INVARIANT ApproximateSizesBounded
INVARIANT FilesInUseExist
INVARIANT SyncedWritesSurvive
INVARIANT OpenDatabaseIsComplete
CHECK_DEADLOCK FALSE
