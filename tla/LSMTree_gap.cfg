SPECIFICATION Spec
CONSTANTS
  Keys = {1, 2, 3}
  MaxWrites = 5
  Scripts <- OneIntoTheGap
  Ranges <- WholeRange
  kNumLevels = 4
  kMaxMemCompactLevel = 1
  kL0_CompactionTrigger = 4
  kL0_StopWritesTrigger = 8
  TargetFileSize = 8
  GrandParentFactor = 10
  ExpandFactor = 25
  LevelBase = 10
  LevelRatio = 10
  BlockEntries = 1
  ShortestSeparator <- Halfway
  write_buffer_size = 0
  MaxSnapshots = 0
  MaxRangeCalls = 1
  SizeKeys = {1, 2}
  Readers = FALSE
  AllowedSeeks = 1
  NULL = NULL
INVARIANT LevelsDisjoint
CHECK_DEADLOCK FALSE
