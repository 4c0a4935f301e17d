SPECIFICATION DrySpec
CONSTANTS
    DryRuns = {d1, d2}
    NoRun = NoRun
INVARIANTS
    CancelledOnlyIfAsked
CHECK_DEADLOCK FALSE
