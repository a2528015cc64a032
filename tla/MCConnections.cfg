CONSTANTS
    NbRanks = 3
    Dvs <- TreeOnly
    Dynamic = TRUE
    QueueNum = 4
    QueueMax = 3
    MaxContexts = 1
    MaxProblems = 2
    MaxPushes = 1
SPECIFICATION FairSpec
INVARIANTS NotificationsKeptApart SetUpBeforeUse QueuesUsable
PROPERTIES SetupEnds
