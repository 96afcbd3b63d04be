CONSTANTS
    Groups     = {g1, g2}
    Listening  = g1
    Publishers = {p1, p2}
    Players    = {c1}
    Pullers    = {}
    Streams    = {s1}
    WorkerConnections = 3
    OnEventUrl  = TRUE
    IdleTimeout = FALSE
    Listener = Listener
    None     = None
SPECIFICATION FairSpec
INVARIANTS PublisherHasRing
PROPERTIES BrokenIsDeleted
