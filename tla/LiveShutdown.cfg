\* A shutdown request, or the user's quit at any moment, ends the process in
\* time.
SPECIFICATION FairSpec
CONSTANTS
    a = a
    b = b
    c = c
    P = P
    Q = Q
    NoModule = NoModule
    Pools = {P}
    Modules = {a, b, c}
    PoolName <- OnePool
    ModuleList <- ABC
    Returns <- AShutdown
    Commands = {"QUIT"}
    Swappable = {}
    Spurious = TRUE
    MaxRound = 5
INVARIANT
    NoOvershoot
PROPERTIES
    QuitEnds
    RunTakesEffect
    ShutdownHappens
\* The system may stop: paused, ended, crashed, or at the bound on rounds.
CHECK_DEADLOCK FALSE
