SPECIFICATION FairSpec
CONSTANTS
    Sessions = {s}
    Sockets = {A, B}
    NoSocket = NoSocket
    MaxConcurrent = 1
    MaxStarts = 1
    IdleOn = FALSE
    MaxPrompts = 0
    MaxOut = 0
PROPERTIES
    ConnectTimesOut
CHECK_DEADLOCK FALSE
