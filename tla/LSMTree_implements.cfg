SPECIFICATION FairSpec
CONSTANTS
  Keys = {1, 2}
  MaxWrites = 3
  Scripts <- FewDeletes
  Ranges <- WholeRange
  kNumLevels = 4
  kMaxMemCompactLevel = 1
  kL0_CompactionTrigger = 2
  kL0_StopWritesTrigger = 4
  TargetFileSize = 8
  GrandParentFactor = 10
  ExpandFactor = 25
  LevelBase = 2
  LevelRatio = 10
  BlockEntries = 1
  ShortestSeparator <- Halfway
  write_buffer_size = 1
  MaxSnapshots = 1
  MaxRangeCalls = 1
  SizeKeys = {1, 2}
  Readers = TRUE
  AllowedSeeks = 1
  NULL = NULL
PROPERTY ImplementsKVStore
PROPERTY CompactRangeReturns
CHECK_DEADLOCK FALSE
