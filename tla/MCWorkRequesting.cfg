CONSTANTS
  NbRanks = 2
  TaskCounts <- MCTaskCounts
  SegmentMax = 2
  TmpMax = 3
  Sessions = 2
  Loaded = 0
  LoadedTasks = {4, 7}
  OtherTasks = {0, 3}
SPECIFICATION RequestingSpec
INVARIANTS TypeOK RequestsMiss
PROPERTIES ImplementsTaskPool
