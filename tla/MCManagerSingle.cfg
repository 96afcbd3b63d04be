CONSTANTS
    MaxManagers   = 2
    WorkerThreads <- OnlyMain
    WorkerConnections <- TwoEach
    Clients       = {c1, c2}
SPECIFICATION FairSpec
PROPERTIES DrainEnds
CHECK_DEADLOCK FALSE
