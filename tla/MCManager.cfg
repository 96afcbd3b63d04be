CONSTANTS
    MaxManagers   = 2
    WorkerThreads <- TwoThenNone
    WorkerConnections <- TwoEach
    Clients       = {c1, c2}
SPECIFICATION FairSpec
INVARIANTS TypeOK GroupOutlived MapsOutliveRoles OneListener NothingLeft
PROPERTIES DrainKeepsTaken DrainEnds ExitEnds
CHECK_DEADLOCK FALSE
