CONSTANTS
    SegmentSizes <- Segments
    TaskSizes <- Sizes
    ResultSizes <- Sizes
    TaskCounts <- Counts
    IntRange = 40
    LongRange = 65536
    HeaderTask = 3
    HeaderTmp = 6
    HeaderResult = 5
    HeaderElt = 2
    MaxProblems = 2
SPECIFICATION Spec
INVARIANTS MemoryFits
