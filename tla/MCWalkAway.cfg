SPECIFICATION FairSpec
CONSTANTS
    Tasks = {t1, t2}
    Conns = {c1}
    Cursors = {x1, x2}
    Slots = {s1}
    MaxPools = 1
    MaxLosses = 0
    UserTxn = FALSE
    MayLeave = TRUE
    None = None
PROPERTIES
    WalkAwayReleases
CHECK_DEADLOCK FALSE
