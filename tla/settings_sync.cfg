SPECIFICATION FairSpec
CONSTANTS
    Windows = {"A", "B"}
    Fields = {"x"}
    Maps = {"m"}
    Faults = {}
    Seed = 4
    MaxActs = 3
    MaxDrops = 0
INVARIANTS
    Converged
PROPERTIES
    EventuallyAgree
CHECK_DEADLOCK FALSE
