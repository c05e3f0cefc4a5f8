SPECIFICATION FairSpec
CONSTANTS
    NSenders = 2
    NSinks = 2
    Cb = 2
    Batch = 1
    Counts <- MCCounts
    UIntMod = 2
    TextCap = 0
PROPERTY MessageArrives
PROPERTY HandlersReturn
CHECK_DEADLOCK FALSE
