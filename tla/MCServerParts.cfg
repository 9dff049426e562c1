SPECIFICATION ServerPartsSpec
CONSTANTS
  u1 = u1
  u2 = u2
  t1 = t1
  t2 = t2
  Users <- MCUsers
  Threads <- MCThreads
  UserOf <- MCUserOf
  Shares = {s1, s2}
  ContainerCap = 1
  MaxName = 4
  MaxBatch <- MCTwoOrOne
  MaxPackages <- MCOnePackage
  StageWithinWait = TRUE
  FlushFaults = FALSE
  NoEntry = NoEntry
  MaxRecipe = 2
  CacheCap = 1
  MessageCap = 1
  Garbage = Garbage
  Peers = {p1, p2, p3}
  Backlog = 2
  MaxKilled = 1
  StoredFiles = {1, 2, 3}
  fileSize <- MCFileSize
  maxCacheSize = 3
  MaxOpens = 2
CHECK_DEADLOCK FALSE
INVARIANT
  LostWasOpenedEarly
PROPERTIES
  HandlersEnd
  ServedUnlessKilled
  AddedIsStored
