\* Two pools and the master's own: run, pause and the hot swap of a module at
\* any time, spurious wakeups.
SPECIFICATION FairSpec
CONSTANTS
    a = a
    b = b
    c = c
    P = P
    Q = Q
    NoModule = NoModule
    Pools = {P, Q}
    Modules = {a, b, c}
    PoolName <- TwoPools
    ModuleList <- ABC
    Returns <- AlwaysOK
    Commands = {"RUN", "PAUSE"}
    Swappable = {b}
    Spurious = TRUE
    MaxRound = 2
INVARIANTS
    RoundExclusion
    ActiveExact
    NobodyOversleeps
    NoDeadlock
PROPERTIES
    RoundCompletes
    PooledSwapHappens
\* The system may stop: paused, ended, crashed, or at the bound on rounds.
CHECK_DEADLOCK FALSE
