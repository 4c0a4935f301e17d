SPECIFICATION Spec
CONSTANTS
    Batches = {b1, b2}
    Clients = {s1, s2, s3}
    Programs <- MCPrograms
    CursorFlags = {TRUE}
    None = None
INVARIANT CommitHonoured
CHECK_DEADLOCK FALSE
