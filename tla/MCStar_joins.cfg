\* The curated layer over two runs.  No task is left after the last run.
SPECIFICATION Spec
CONSTANTS
    Null = Null
    Names <- MCNames
    Snapshots <- MCSnapshots
    Hashes <- MCHashes
    Scale = 10000
    MaxRuns = 2
INVARIANTS TypeOK NoneLost GrainWhenUnambiguous  GateExposesCopies
CHECK_DEADLOCK FALSE
