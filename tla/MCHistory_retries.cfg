SPECIFICATION FairSpec
CONSTANTS
    c1 = c1
    c2 = c2
    v1 = v1
    v2 = v2
    Customers = {c1, c2}
    Values = {v1, v2}
    Absent = Absent
    MaxRuns = 3
    Retries = 1
    MaxFailures = 2
    MaxMisreads = 1
INVARIANTS
    TypeOK
    CurrentInHistory
    HistoryEndsInCurrent
    RepeatsAccounted
PROPERTIES
    EventuallyRecorded
CHECK_DEADLOCK FALSE
