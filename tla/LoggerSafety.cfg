SPECIFICATION Spec
CONSTANTS
    Threads = {t1, t2}
    NoOne = NoOne
    NSinks = 2
    SinkLevel <- MCSinkLevel
    FlushLevel = 1
    LevelOff = 2
    InfoLevel = 0
    QSize = 2
    Outcomes <- MCAll
    CallLevels <- MCCallLevels
    MaxCalls = 2
    MaxFaults = 2
SYMMETRY MCSymmetry
INVARIANTS Delivered FlushCovers DumpedInOrder NoDeadlock
CHECK_DEADLOCK FALSE
