SPECIFICATION Spec
CONSTANTS
    MaxSize = 3
    MaxFiles = 2
    RotateOnOpen <- MCOnOpen
    Lengths <- MCLengths
    MaxMsgs = 5
    MaxFaults = 3
INVARIANTS FilesOrdered WithinLimit
PROPERTY OnlyOldestDropped
CHECK_DEADLOCK FALSE
