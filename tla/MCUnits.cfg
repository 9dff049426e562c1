SPECIFICATION UnitsSpec
CONSTANTS
  u1 = u1
  u2 = u2
  t1 = t1
  t2 = t2
  Users <- MCUsers
  Threads <- MCThreads
  UserOf <- MCUserOf
  Shares = {s1, s2, s3}
  ContainerCap = 2
  MaxName = 6
  MaxBatch <- MCTwoShares
  MaxPackages <- MCUnevenPackages
  StageWithinWait = TRUE
  FlushFaults = TRUE
  NoEntry = NoEntry
  SecretJobs <- MCSecretJobs
  SizeJobs <- MCSizeJobs
  Files <- MCFiles
  polyBase = 3
  polyMOD = 8
  WordMod = 32
  minChunkSize = 2
  avgChunkSize = 4
  maxChunkSize = 5
  slidingWinSize = 2
  bufferSize = 6
  NumKeys = 4
  kMaxHeight = 2
  kBlockSize = 11
  kHeaderSize = 7
  RecordSizes = {0, 4, 9}
  MaxRecords = 3
  Readers = {1, 2}
  TableFiles = {1, 2, 3}
  HashOf <- MCHashOf
  capacity_ = 2
  MinLength = 1
  MaxInserts = 4
  UserKeys <- MCUserKeys
  Tags = {1, 2}
  MaxByte = 3
  MaxTag = 9
  block_restart_interval = 2
  block_size = 24
  MaxEntries = 8
SYMMETRY Symmetry
CHECK_DEADLOCK FALSE
INVARIANTS
  PackageIndexed
  StoredOncePerConnection
  NoForeignBytes
  AnyKRestore
  BuffersHold
  EndsAtFirstAnchor
  SecretsTileFile
  FoundIsNearest
  CutKeepsPrefix
  DamageStaysInBlock
  CacheConsistent
  IteratorAtEntry
  GetFindsVisible
PROPERTY
  ContainersWrittenOnce
