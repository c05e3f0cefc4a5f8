SPECIFICATION FairSpec
CONSTANTS
    p1 = p1
    p2 = p2
    main = main
    w1 = w1
    w2 = w2
    Producers <- MCProducers
    Registry = main
    Workers <- MCWorkers
    Pools <- MCPoolSizes
    Kinds = {"log"}
    Policies = {"block"}
    MaxItems = 1
    MaxCalls = 3
PROPERTIES
    CallsReturn
    EveryPostDealt
CHECK_DEADLOCK FALSE
