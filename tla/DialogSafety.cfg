SPECIFICATION Spec
CONSTANTS
    NSenders = 2
    NSinks = 2
    Cb = 2
    Batch = 1
    Counts <- MCCounts
    UIntMod = 3
    TextCap = 2
INVARIANT TypeOK
INVARIANT MutexOwner
INVARIANT EditIntact
INVARIANT StopQuiesces
INVARIANT StartResumes
CHECK_DEADLOCK FALSE
