SPECIFICATION Spec
CONSTANTS
    Parts = 4
    Workers = 3
    Pages = 4
    MaxObjects = 3
    FlushHits = 2
    MaxScans = 2
    Pieces = 2
    MaxWrites = 3
INVARIANTS
    ObjectIsWhole
    OpenIsTracked
    HitsAreTheListing
    MovedIsThere
    HalfCopyAborted
PROPERTIES
    AbandonedIsAborted
    UnheardWalkStops
    SpinnerEnds
CHECK_DEADLOCK FALSE
