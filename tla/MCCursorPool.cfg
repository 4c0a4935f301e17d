SPECIFICATION Spec
CONSTANTS
    Tasks = {t1, t2}
    Conns = {c1}
    Cursors = {x1, x2}
    Slots = {s1}
    MaxPools = 2
    MaxLosses = 1
    UserTxn = TRUE
    MayLeave = FALSE
    None = None
SYMMETRY Symmetry
INVARIANTS
    TypeOK
    SingleOwner
    ClientExclusive
    CursorUsable
    OpenCursorOwned
    FinishedIsOver
    NothingLeaks
PROPERTIES
    CursorLeases
CHECK_DEADLOCK FALSE
