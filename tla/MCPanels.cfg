SPECIFICATION PanelsSpec
CONSTANTS
    Ops <- MCOps
    Texts = {"s1", "s2", "bad"}
    Broken = {"bad"}
    Script <- MCScript
    MaxPast = 2
    MaxApplies = 1
    NoText = "none"
    BaseTables = {"users", "orders"}
    BaseColumns <- MCBaseColumns
    KeyName = "id"
    TypedNames = {"x", "y"}
    NewTable <- MCNewTable
    NewColumn <- MCNewColumn
    MaxOps = 4
    NoName = "-"
    Explains = {r1, r2}
    Pids = {p1, p2}
    Other = Other
    NoPid = NoPid
    Cells = {"a", "b"}
    TableOf <- MCTableOf
    DbConns = {"local", "prod"}
    Prod = {"prod"}
    MaxResolves = 2
    MaxSaves = 1
    Nothing = Nothing
    Sources = {"s0", "s1", "s2"}
    Untitled = "s0"
    MaxOut = 2
    MaxRuns = 1
    NoNotebook = NoNotebook
    SchemaConns = {"A", "B"}
    Nodes = {"schemas", "tables"}
    Root = "schemas"
    MaxFetches = 3
    NoConn = NoConn
    Defs = {"a", "b"}
    HttpDefs = {"b"}
    AutoDefs = {"a"}
    NoDef = "none"
    MaxCommands = 3
    MaxEdits = 1
    MaxInstances = 2
    MaxJobRuns = 2
    MaxCancels = 2
    N = 3
    Names = {"a", "b", "c"}
    Namings <- MCNamings
    Docs <- MCDocs
    LeafValues <- MCLeafValues
    AsNumber <- MCAsNumber
    AsSerde <- MCAsSerde
    TooLarge <- MCTooLarge
    ObjectKeys = {"a", "b"}
    PathIndices <- MCPathIndices
    DIFF_OPS_THRESHOLD = 2
    MaxDraftEdits = 1
    MaxDiffSaves = 1
INVARIANTS
    PanelsTypeOK
    SendsWhatIsShown
    ScriptGivesCanvas
    SpinnerHasRun
    PidIsOfARun
    
    WritesShownRow
    NoOrphanProcess
    DisconnectedIsStopped
    RunIsStoppable
    QuietMeansAgreed
    SharedFetchIsOut
    TreeOfItsConnection
    ComposeAnswers
PROPERTIES
    LinearUndo
    SaveMerges
CHECK_DEADLOCK FALSE
