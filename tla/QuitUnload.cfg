\* quit() unloads modules that a pool is still executing.
SPECIFICATION Spec
CONSTANTS
    a = a
    b = b
    c = c
    P = P
    Q = Q
    NoModule = NoModule
    Pools = {P}
    Modules = {a, b, c}
    PoolName <- OnePool
    ModuleList <- ABC
    Returns <- AlwaysOK
    Commands = {"QUIT"}
    Swappable = {}
    Spurious = FALSE
    MaxRound = 2
INVARIANT
    NoUseAfterUnload
\* The system may stop: paused, ended, crashed, or at the bound on rounds.
CHECK_DEADLOCK FALSE
