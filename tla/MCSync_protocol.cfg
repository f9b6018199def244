SPECIFICATION FairSpec
CONSTANTS
    Manual = {"operator"}
    Parts = {"p1", "p2"}
    Columns <- AgreedColumns
    MaxVersion = 2
    Retries = 1
    MaxManual = 2
    MaxFailures = 1
INVARIANTS
    TypeOK
    SoloSyncPublishes
PROPERTIES
    PublishesAtomically
    EventuallyPublished
CHECK_DEADLOCK FALSE
