CONSTANTS
    Groups     = {g1}
    Listening  = g1
    Publishers = {p1, p2}
    Players    = {c1}
    Pullers    = {u1}
    Streams    = {s1}
    WorkerConnections = 3
    OnEventUrl  = TRUE
    IdleTimeout = TRUE
    Listener = Listener
    None     = None
SPECIFICATION FairSpec
INVARIANTS TypeOK FoundIsLive PublisherHasRing
PROPERTIES OrphanLeaves NameIsFreed
