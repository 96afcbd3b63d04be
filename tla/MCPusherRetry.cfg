CONSTANTS
    Groups     = {g1, g2}
    Listening  = g1
    Upstreams  = {1, 2}
    Pushers    = {p1, p2}
    MaxStarts  <- OneOrTwo
    MaxEntries = 2
    None       = None
SPECIFICATION FairSpec
PROPERTIES DueIsRetried
CHECK_DEADLOCK FALSE
