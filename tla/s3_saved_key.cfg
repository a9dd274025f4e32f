SPECIFICATION ConnectionSpec
CONSTANTS
    Handlers = {"p", "q"}
    Endpoints = {"a", "b"}
    Saved = "a"
    MaxEdits = 3
    MaxRestarts = 1
    NotLoaded = NotLoaded
    Unreadable = Unreadable
INVARIANTS
    SavedKeyStays
CHECK_DEADLOCK FALSE
