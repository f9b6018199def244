SPECIFICATION Spec
CONSTANTS
    k1 = k1
    k2 = k2
    Keys = {k1, k2}
    MaxClock = 3
    MaxLateness = 0
    LiveSource = FALSE
    Incremental = FALSE
    Retries = 1
    MaxCrashes = 2
    MaxReadFaults = 0
    MaxWriteFaults = 1
SYMMETRY KeySymmetry
INVARIANTS
    FullLoadIsSnapshot
