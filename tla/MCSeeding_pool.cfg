CONSTANTS
    TableConfigs <- MCTableConfigs
    Files <- MCFiles
    NoFile = NoFile
    Sources <- MCSources
    Threads = 2
    MaxTime = 2
    MaxRuns = 2
SPECIFICATION FairSpec
INVARIANTS
    TypeOK
    SeededComplete
    LandedAfterSeed
PROPERTY EventuallyReported
CHECK_DEADLOCK FALSE
