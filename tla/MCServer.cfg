SPECIFICATION RestoreSpec
CONSTANTS
  u1 = u1
  u2 = u2
  t1 = t1
  t2 = t2
  Users <- MCUsers
  Threads <- MCThreads
  UserOf <- MCUserOf
  Shares = {s1, s2, s3}
  ContainerCap = 2
  MaxName = 4
  MaxBatch <- MCUnevenBatch
  MaxPackages <- MCOnePackage
  StageWithinWait = TRUE
  FlushFaults = FALSE
  NoEntry = NoEntry
  MaxRecipe = 3
  CacheCap = 2
  MessageCap = 2
  Garbage = Garbage
SYMMETRY Symmetry
INVARIANTS
  IndexedRestorable
  SettledRestoreExact
