\* Modules come and go between rounds in which all of them use their
\* connectors.
SPECIFICATION SystemSpec
CONSTANTS
    a = a
    s = s
    z = z
    ain = ain
    sout = sout
    zin = zin
    NoObject = NoObject
    NoConnector = NoConnector
    NoOutput = NoOutput
    NoModule = NoModule
    Modules = {a, s, z}
    Inputs = {ain, zin}
    Outputs = {sout}
    Owner <- Owners
    Wish <- Wishes2
    Rank <- Ranks
    Type <- SameType
    TypeMatching = TRUE
    Libraries = {"s", "t"}
    LibraryOf <- TwoLibraries
    HotSwappable = {s}
    Swappable = {a, s}
    MaxLoads = 2
INVARIANTS
    TypeOK
    WholeValues
    LockGuardsObject
    OutputKnows
    EarlierReadersStop
    ThrowsOnlyUnguarded
    CodeStays
    LocksReturned
\* The process may end.
CHECK_DEADLOCK FALSE
