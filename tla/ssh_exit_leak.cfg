SPECIFICATION DriverSpec
CONSTANTS
    MaxJumps = 1
INVARIANTS
    ClosedMeansClosed
CHECK_DEADLOCK FALSE
