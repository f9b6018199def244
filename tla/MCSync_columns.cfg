SPECIFICATION FairSpec
CONSTANTS
    Manual = {}
    Parts = {"p1", "p2"}
    Columns <- WrittenColumns
    MaxVersion = 2
    Retries = 2
    MaxManual = 0
    MaxFailures = 0
PROPERTIES
    EventuallyPublished
CHECK_DEADLOCK FALSE
