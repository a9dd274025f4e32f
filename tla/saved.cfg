SPECIFICATION SavedSpec
CONSTANTS
    Windows = {A, B}
    Fields = {"x"}
    Maps = {}
    Faults = {"channels", "drop"}
    Seed = 4
    MaxActs = 3
    MaxDrops = 1
    MaxSteps = 3
    Handlers = {p, q}
    Endpoints = {"a", "b"}
    Saved = "a"
    MaxEdits = 3
    MaxRestarts = 1
    NotLoaded = NotLoaded
    Unreadable = Unreadable
    Resources = {"a", "b", "c", "d"}
    Elsewhere = {"b"}
    MaxRecent = 1
    MaxPinned = 3
    MaxOps = 2
SYMMETRY Symmetry
INVARIANTS
    UncrossedAgree
    RecordHasItsKey
    ClientIsCurrent
    AnsweredIsOnDisk
PROPERTIES
    NoRollback
    PinsStayPut
    MoveTakesThePlace
CHECK_DEADLOCK FALSE
