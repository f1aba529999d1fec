\* Modules that are DONE or request shutdown in any round, with commands at
\* any moment.
SPECIFICATION Spec
CONSTANTS
    a = a
    b = b
    c = c
    P = P
    Q = Q
    NoModule = NoModule
    Pools = {P}
    Modules = {a, b, c}
    PoolName <- OnePool
    ModuleList <- ABC
    Returns <- DoneOrShutdown
    Commands = {"RUN", "STEP", "PAUSE", "QUIT"}
    Swappable = {}
    Spurious = FALSE
    MaxRound = 4
INVARIANTS
    IInv
    StatusHeeded
PROPERTY
    LockStepRounds
\* The system may stop: paused, ended, crashed, or at the bound on rounds.
CHECK_DEADLOCK FALSE
