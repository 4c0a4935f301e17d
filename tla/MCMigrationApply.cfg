SPECIFICATION Spec
CONSTANTS
    Versions = {1, 2}
    Contents = {old, new}
    Clients = {s1, s2, s3}
    Commands = {m1, m2}
    Folders <- MCFolders
    MaxChanges = 2
    None = None
SYMMETRY Symmetry
INVARIANTS
    TypeOK
    LedgerAgrees
    ScriptsFit
    NoGap
CHECK_DEADLOCK FALSE
