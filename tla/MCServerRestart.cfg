SPECIFICATION RestartSpec
CONSTANTS
  u1 = u1
  t1 = t1
  Users <- MCUsers
  Threads <- MCThreads
  UserOf <- MCUserOf
  Shares = {s1, s2}
  ContainerCap = 1
  MaxName = 4
  MaxBatch <- MCTwoShares
  MaxPackages <- MCPackages
  StageWithinWait = TRUE
  FlushFaults = FALSE
  NoEntry = NoEntry
PROPERTY
  FiledStaysRestorable
