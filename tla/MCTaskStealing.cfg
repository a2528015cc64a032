CONSTANTS
  NbRanks = 3
  TaskCounts <- MCTaskCounts
  SegmentMax = 2
  TmpMax = 2
  Sessions = 2
  Loaded = 0
  LoadedTasks = {5}
  OtherTasks = {0}
SPECIFICATION FairSpec
INVARIANTS EveryTaskOnce LockAsserts IdsMatchData CountIsExact
PROPERTIES SegmentStable ImplementsTaskPool Completion
