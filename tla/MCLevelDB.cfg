CONSTANTS
 kNumLevels = 3
 kL0_CompactionTrigger = 2
 kMaxMemCompactLevel = 1
 MaxBytesForLevel <- Limits
 MaxOutputFileSize = 1
 kMaxGrandParentOverlapBytes = 1
 kExpandedCompactionByteSizeLimit = 6
 Keys = {1, 2, 3}
 Scenarios <- SomeOfEach
 DBWriters = {w1, w2}
 write_buffer_size = 0
 MaxGroup = 2
 kL0_SlowdownWritesTrigger = 2
 kL0_StopWritesTrigger = 3
SPECIFICATION LevelDBSpec
CHECK_DEADLOCK FALSE
INVARIANTS
  ReadsNewest
  
  NamedTablesExist
  SyncedStay
PROPERTY
  WritesReturn
