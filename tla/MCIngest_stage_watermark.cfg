SPECIFICATION Spec
CONSTANTS
    k1 = k1
    k2 = k2
    Keys = {k1, k2}
    MaxClock = 3
    MaxLateness = 0
    LiveSource = TRUE
    Incremental = TRUE
    Retries = 1
    MaxCrashes = 0
    MaxReadFaults = 0
    MaxWriteFaults = 0
PROPERTIES
    StageAdvanceCovered
