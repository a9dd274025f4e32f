SPECIFICATION TerminalsSpec
CONSTANTS
    Windows = {"V", "W"}
    Sessions = {"s", "t"}
    Sockets = {"A", "B"}
    NoSocket = NoSocket
    NoCall = NoCall
    MaxConcurrent = 1
    MaxStarts = 1
    IdleOn = FALSE
    MaxPrompts = 1
    MaxOut = 0
    MaxNames = 3
    MaxJumps = 3
INVARIANTS
    NoShellUnasked
    QuestionOnScreen
    NothingLeft
PROPERTIES
    LeftShellEnds
    ConnectEnds
    SessionEnds
    KeepsTheContract
CHECK_DEADLOCK FALSE
