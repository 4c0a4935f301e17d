SPECIFICATION Spec
CONSTANTS
    Tasks = {t1, t2}
    Conns = {c1}
    Cursors = {x1, x2}
    Slots = {s1}
    MaxPools = 2
    MaxLosses = 0
    UserTxn = FALSE
    MayLeave = FALSE
    None = None
SYMMETRY Symmetry
INVARIANT NoMissedCursorReturns
CHECK_DEADLOCK FALSE
