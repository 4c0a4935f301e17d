SPECIFICATION Spec
CONSTANTS
    Batches = {b1, b2}
    Clients = {s1, s2}
    Programs <- MCPrograms
    CursorFlags = {TRUE}
    None = None
INVARIANT NoPoolDeadlock
CHECK_DEADLOCK FALSE
