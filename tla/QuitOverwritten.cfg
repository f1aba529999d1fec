\* quit() while a STEP round ends: the master's flag = PAUSE overwrites QUIT.
SPECIFICATION FairSpec
CONSTANTS
    a = a
    b = b
    c = c
    P = P
    Q = Q
    NoModule = NoModule
    Pools = {}
    Modules = {a, b, c}
    PoolName <- MasterOnly
    ModuleList <- ABC
    Returns <- AlwaysOK
    Commands = {"STEP", "QUIT"}
    Swappable = {}
    Spurious = FALSE
    MaxRound = 2
PROPERTY
    QuitEnds
\* The system may stop: paused, ended, crashed, or at the bound on rounds.
CHECK_DEADLOCK FALSE
