SPECIFICATION Spec
CONSTANTS
    Tasks <- AllTasks
    Done <- ServingDone
    Slots = 2
    Retries = 1
    MaxRuns = 1
    MaxFailures = 2
    MaxOutages = 0
INVARIANTS
    ServedComplete
    SummaryMeansAll
CHECK_DEADLOCK FALSE
