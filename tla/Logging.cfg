\* Two threads log while one of them changes the settings.
SPECIFICATION FairSpec
CONSTANTS
    client = client
    pool = pool
    ga = ga
    gb = gb
    name = name
    Nobody = Nobody
    NoCell = NoCell
    NoLogger = NoLogger
    Threads = {client, pool}
    Client = client
    Loggers = {ga, gb}
    NameOf <- NameOfs
    Target <- Targets
    OwnLevel <- OwnLevels
    Handler <- Handlers
    Options = {name}
    OptionLevel <- OneLevel
    MaxLevel = 1
INVARIANTS
    TypeOK
    OneLineAtATime
    RightSinks
PROPERTIES
    LevelLostOnlyByRace
    LogReturns
\* The process may end.
CHECK_DEADLOCK FALSE
