\* A reader that the map lists behind its source outlives it.
SPECIFICATION SystemSpec
CONSTANTS
    a = a
    s = s
    z = z
    ain = ain
    sout = sout
    zin = zin
    NoObject = NoObject
    NoConnector = NoConnector
    NoOutput = NoOutput
    NoModule = NoModule
    Modules = {a, s, z}
    Inputs = {ain, zin}
    Outputs = {sout}
    Owner <- Owners
    Wish <- Wishes2
    Rank <- Ranks
    Type <- SameType
    TypeMatching = TRUE
    Libraries = {"s", "t"}
    LibraryOf <- TwoLibraries
    HotSwappable = {s}
    Swappable = {}
    MaxLoads = 2
INVARIANT
    ReceiveSafe
\* The process may end.
CHECK_DEADLOCK FALSE
