SPECIFICATION Spec
CONSTANTS
    Windows = {"A", "B"}
    Fields = {"x"}
    Maps = {}
    Faults = {"channels"}
    Seed = 0
    MaxActs = 2
    MaxDrops = 0
INVARIANTS
    Converged
CHECK_DEADLOCK FALSE
