SPECIFICATION Spec
CONSTANTS
    k1 = k1
    k2 = k2
    Keys = {k1, k2}
    MaxClock = 3
    MaxLateness = 1
    LiveSource = TRUE
    Incremental = TRUE
    Retries = 1
    MaxCrashes = 2
    MaxReadFaults = 1
    MaxWriteFaults = 1
INVARIANTS
    WatermarkInPast
    StageReadsCommitted
    TornOnlyBeforeFirstWatermark
PROPERTIES
    WatermarkMonotone
    LandingGrows
    AuditedOutput
