SPECIFICATION Spec
CONSTANTS
    p1 = p1
    p2 = p2
    main = main
    w1 = w1
    w2 = w2
    Producers <- MCProducers
    Registry = main
    Workers <- MCWorkers
    Pools <- MCPools
    Kinds = {"log", "flush"}
    Policies = {"block", "overrun_oldest"}
    MaxItems = 2
    MaxCalls = 3
SYMMETRY Symmetric
INVARIANTS
    NothingForgotten
    NoLostWakeup
PROPERTIES
    FlushCovers
    WrittenInOrder
    IsChannel
CHECK_DEADLOCK FALSE
