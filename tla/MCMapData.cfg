CONSTANTS
    Readers  = {r1}
    Size     = 5
    MaxPut   = 2
    Aligned  = 2
    BufLen   = 4
    CountMod = 8
    MaxTotal = 13
    MaxGen   = 2
SPECIFICATION FairSpec
INVARIANTS IInv HandedIsRunOfLog NothingNewIsTrue
PROPERTIES NoFetchOverUnsent ImplementsLog CatchesUp StaleGetsNewStream
CHECK_DEADLOCK FALSE
