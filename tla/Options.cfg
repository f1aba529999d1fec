\* All small config files and command lines, another file later on, and the
\* modules they list.
SPECIFICATION FairSpec
CONSTANTS
    NoFile = NoFile
    NoName = NoName
    NoSection = NoSection
    NotFound = NotFound
    Files = {"f", "g"}
    Contents <- SmallFiles
    CommandLines <- SmallCommandLines
    Options <- AllOptions
    ModulesOption <- Lists
    ParallelismOption <- Words
    MaxOpen = 2
    MaxLoads = 2
    Readers = {"r"}
INVARIANTS
    TypeOK
    StoreIsMeaning
    ReadsWhole
    PoolsAsConfigured
    OrderAsListed
PROPERTIES
    AllStarted
    LoadEnds
\* The client has nothing to do, or the process ends.
CHECK_DEADLOCK FALSE
