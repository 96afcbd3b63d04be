CONSTANTS
    Contents   <- MCContents
    Pids       = {1, 2, 3, 4}
    Layouts    <- MCLayouts
    Room       = 3
    MaxStreams = 2
    None       = None
SPECIFICATION Spec
INVARIANTS TypeOK SetsAreCut OrderlyIsServed
PROPERTIES HeaderIsFinal
