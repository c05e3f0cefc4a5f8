SPECIFICATION Spec
CONSTANTS
    Period = 2
    Arguments <- MCArguments
    MaxTime = 7
    MaxMsgs = 3
    MaxFaults = 2
INVARIANTS NeverBackdated WithinMax
PROPERTIES KeepsMaxFiles NothingTruncated
CHECK_DEADLOCK FALSE
