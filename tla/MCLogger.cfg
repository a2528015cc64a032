CONSTANTS
    Plain = {0}
    Histograms = {1}
    Thefts = {2}
    SessionTime = 0
    Delays = {3, 12}
    Buckets = 3
    HistStart = 2
    MaxTime = 18
    MaxSessions = 2
SPECIFICATION LoggerSpec
INVARIANTS TimersAreExact AggregateIsSumOfSnapshots
CHECK_DEADLOCK FALSE
