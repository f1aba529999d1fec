\* Two modules lock either of their two connections while they hold the other.
SPECIFICATION FairSpec
CONSTANTS
    s = s
    z = z
    s1 = s1
    s2 = s2
    z1 = z1
    z2 = z2
    NoObject = NoObject
    NoConnector = NoConnector
    NoOutput = NoOutput
    NoModule = NoModule
    Modules = {s, z}
    Inputs = {z1, z2}
    Outputs = {s1, s2}
    Owner <- Owners
    Wish <- WishesBoth
    Rank <- Ranks
    Type <- SameType
    TypeMatching = TRUE
    Libraries = {"l"}
    LibraryOf <- OneLibrary
    HotSwappable = {z}
    Swappable = {z}
    MaxLoads = 2
INVARIANT
    WaitersNest
PROPERTY
    LocksComeFree
\* The process may end.
CHECK_DEADLOCK FALSE
