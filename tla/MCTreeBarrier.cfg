CONSTANTS
    N = 4
    NoRank = 99
    RanksInGroup <- AllRanks
    MaxBarriers = 2
    MaxSize = 40
SPECIFICATION FairSpec
INVARIANTS NotificationsAreSound TreeIsRight
PROPERTIES ImplementsBarrier Completion
CHECK_DEADLOCK FALSE
