SPECIFICATION Spec
CONSTANTS
    Windows = {A, B}
    Fields = {"x"}
    Maps = {}
    Faults = {"overtake", "drop", "lose", "restart", "fresh"}
    Seed = 0
    MaxActs = 2
    MaxDrops = 1
SYMMETRY WindowSymmetry
INVARIANTS
    OwnEditsStay
PROPERTIES
    ImportComesFirst
CHECK_DEADLOCK FALSE
