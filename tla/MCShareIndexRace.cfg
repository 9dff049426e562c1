SPECIFICATION Spec
CONSTANTS
  u1 = u1
  u2 = u2
  t1 = t1
  t2 = t2
  Users <- MCUsers
  Threads <- MCThreads
  UserOf <- MCUserOf
  Shares = {s1, s2}
  ContainerCap = 1
  MaxName = 4
  MaxBatch <- MCTwoShares
  MaxPackages <- MCOnePackage
  StageWithinWait = TRUE
  FlushFaults = FALSE
  NoEntry = NoEntry
PROPERTY
  EntriesOnlyAdded
