CONSTANTS
    Jobs <- MCJobs
    Values = {1, 2}
    Null = Null
    Landings <- MCLandings
    Batches = {b1, b2}
    MaxStarts = 3
SPECIFICATION Spec
INVARIANTS
    TypeOK
    RowsConserved
    AuditedRejects
