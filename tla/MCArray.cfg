CONSTANTS
    Size    = 3
    MaxLen  = 4
    MaxPuts = 7
SPECIFICATION Spec
INVARIANTS FifoUntilExpanded
