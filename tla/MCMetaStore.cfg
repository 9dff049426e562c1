SPECIFICATION MetaSpec
CONSTANTS
  u1 = u1
  u2 = u2
  t1 = t1
  t2 = t2
  f1 = f1
  f2 = f2
  root = root
  sub = sub
  Users <- MCUsers
  Threads <- MCThreads
  UserOf <- MCUserOf
  s1 = s1
  s2 = s2
  Shares <- MCShares
  ContainerCap = 1
  MaxName = 5
  MaxBatch <- MCTwoShares
  MaxPackages <- MCPackages
  StageWithinWait = TRUE
  FlushFaults = FALSE
  NoEntry = NoEntry
  MaxRecipe = 1
  CacheCap = 1
  MessageCap = 1
  Garbage = Garbage
  Files <- MCFiles
  Dirs <- MCDirs
  Path <- MCPath
  Sends <- MCSends
  RecipeCap = 4
  MaxRecipeName = 5
  Overlap = FALSE
  NoName = NoName
INVARIANTS
  VersionsKept
  FoundFromRoot
  RecipeAsUploaded
