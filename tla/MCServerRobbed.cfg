CONSTANTS
    Groups     = {g1, g2}
    Listening  = g1
    Publishers = {p1}
    Players    = {c1}
    Pullers    = {u1}
    Streams    = {s1}
    WorkerConnections = 3
    OnEventUrl  = FALSE
    IdleTimeout = FALSE
    Listener = Listener
    None     = None
SPECIFICATION Spec
INVARIANTS PublisherHasRing
