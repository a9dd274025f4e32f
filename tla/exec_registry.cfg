SPECIFICATION ExecSpec
CONSTANTS
    Sessions = {s, t}
    Sockets = {A, B}
    NoSocket = NoSocket
    MaxConcurrent = 1
    MaxStarts = 1
    IdleOn = TRUE
    MaxPrompts = 2
    MaxOut = 3
    Capacity = 4
    Written <- Ordinary
    MaxBytes = 9
    MaxUnread = 5
    MaxSize = 4
    MaxSaid = 3
    MaxResizes = 1
SYMMETRY NameSymmetry
INVARIANTS
    TimersFit
    QuestionIsVisible
    TrustIsExplicit
    ScreenIsOutput
    ClosedOnce
    ReplayStartsClean
    KeepsTheTail
    TranscriptIsOutput
CHECK_DEADLOCK FALSE
