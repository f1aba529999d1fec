SPECIFICATION InlineSpec
CONSTANTS
    a = a
    b = b
    c = c
    P = P
    NoModule = NoModule
    Pools = {P}
    Modules = {a, b, c}
    PoolName <- OnePool
    ModuleList <- ABC
    Returns <- DoneOrShutdown
    Commands = {"RUN", "STEP", "PAUSE", "QUIT"}
    Swappable = {a, b, c}
    Spurious = TRUE
    MaxRound = 4
    MaxDepth = 4
INVARIANT NoUseBeforeShutdown
PROPERTY CommandReturns
\* The process ends, or a command hangs.
CHECK_DEADLOCK FALSE
