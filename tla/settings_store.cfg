SPECIFICATION FairSpec
CONSTANTS
    Debounce = 2
    MaxDefer = 3
    Errors = {"EACCES", "ENOSPC"}
    MaxDocs = 4
INVARIANTS
    NothingForgotten
    BoundedDeferral
PROPERTIES
    NeverOlder
    FlushSaves
    ImplementsWriteBehind
    EventuallySaved
