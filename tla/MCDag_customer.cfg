SPECIFICATION FairSpec
CONSTANTS
    Tasks <- CustomerTasks
    Done <- NoTasks
    Slots = 2
    Retries = 1
    MaxRuns = 2
    MaxFailures = 1
    MaxOutages = 1
INVARIANTS
    TypeOK
    FreshOutputs
    NoSpuriousFailure
PROPERTIES
    RunsEnd
CHECK_DEADLOCK FALSE
