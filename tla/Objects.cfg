CONSTANTS
  Worlds <- MCWorlds
  MaxLog = 3
  t1 = t1
  t2 = t2
  ping = ping
  poll = poll
  Threads <- MCThreads
  Tasks <- MCTasks
  Name <- OwnNames
  Count <- MCCount
  Per <- MCPer
  Day = 3
  SweepEvery = 2
  Stall = 1
  MaxTime = 6
SPECIFICATION MCSpec
INVARIANTS AccessesAnswerRight AuditAccounts CachedResultsFresh RulesHold
INVARIANTS RateBounded RefusesOnlyWhenFull
SYMMETRY Symmetric
