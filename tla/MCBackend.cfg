SPECIFICATION BackendSpec
CONSTANTS
    Batches = {b1, b2}
    Clients = {s1, s2, s3}
    Programs <- MCPrograms
    CursorFlags = {TRUE, FALSE}
    None = None
    DryRuns = {d1, d2, d3}
    NoRun = NoRun
INVARIANTS
    BackendTypeOK
    FailureLeavesNothingPending
    ExplicitBlocksAtomic
    NoRunOutOfReach
PROPERTIES
    BackendEnds
CHECK_DEADLOCK FALSE
