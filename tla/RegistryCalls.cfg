SPECIFICATION FairSpec
CONSTANTS
    c1 = c1
    c2 = c2
    a = a
    s = s
    w1 = w1
    w2 = w2
    p = p
    null = null
    Callers <- MCCallers
    Loggers <- MCLoggers
    Async <- Asynchronous
    Defaults <- MCDefaults
    Names = {"one"}
    NameOf <- NamedAlike
    FlushLevels = {TRUE}
    Registrations = {FALSE}
    Pools <- MCPools
    Workers <- MCWorkers
    None = null
INVARIANTS
    DefaultRegistered
    SettingsReach
    OneFlusher
    EndsOnlyIfOrphaned
    NoDeadlock
PROPERTY CallsReturn
CHECK_DEADLOCK FALSE
