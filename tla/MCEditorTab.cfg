SPECIFICATION SideSpec
CONSTANTS
    Tabs = {t1}
    Conns = {c1}
    Runs = {r1, r2}
    MaxPages = 3
    MaxFetches = 2
    Replies <- MCReplies
    None = None
    MaxEdits = 2
    MaxNames = 1
    MaxCalls = 3
    NoTab = NoTab
INVARIANTS
    SideTypeOK
    GridIsPrefix
    NoLeftoverUnlessDisturbed
    CleanMeansSaved
PROPERTIES
    SpinnerEnds
    EditReachesRow
CHECK_DEADLOCK FALSE
