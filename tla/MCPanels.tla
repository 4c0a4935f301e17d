------------------------------- MODULE MCPanels -------------------------------
(* Ten parts of the workbench that share no state.  A behaviour belongs to one   *)
(* of them, chosen at the start, and the others keep their initial state: the    *)
(* states are the sum of the panels' own, not their product.                     *)
EXTENDS BackupJob, MCErdDdl, ErdEdit, ExplainRun, MCJsonbDiff, MCJsonbEdit, McpClients, Notebook,
        MCNotebookCte, SchemaBrowser

VARIABLE panel

panelsVars ==
    <<panel, backupVars, cteVars, log, diffVars, erdVars, explainVars, jsonbVars, mcpVars, nbVars, schemaVars>>

Panels == {"backup", "compose", "ddl", "diff", "erd", "explain", "jsonb", "mcp", "notebook", "schema"}

\* A panel that is not chosen has one initial state.
PanelsInit ==
    /\ panel \in Panels
    /\ BackupInit /\ DdlInit /\ ErdInit /\ ExplainInit /\ NotebookInit /\ SchemaInit
    /\ McpInit /\ (panel # "mcp" => file = NoDef)
    /\ JsonbInit /\ (panel # "jsonb" => tabConn = CHOOSE c \in DbConns : TRUE)
    /\ DiffInit /\ (panel # "diff" => cell = Leaf("1"))
    /\ CteInit /\ (panel # "compose" => /\ name \in MCOwnNames
                                       /\ body = [c \in Candidates |-> {}] /\ target = {})

\* A notebook is followed to its first gap: what comes after one is excused anyway.
PanelsNext ==
    \/ /\ panel = "backup" /\ BackupNext
       /\ UNCHANGED <<panel, cteVars, log, diffVars, erdVars, explainVars, jsonbVars, mcpVars, nbVars, schemaVars>>
    \/ /\ panel = "compose" /\ CteNext
       /\ UNCHANGED <<panel, backupVars, log, diffVars, erdVars, explainVars, jsonbVars, mcpVars, nbVars, schemaVars>>
    \/ /\ panel = "ddl" /\ DdlNext
       /\ UNCHANGED <<panel, backupVars, cteVars, diffVars, erdVars, explainVars, jsonbVars, mcpVars, nbVars, schemaVars>>
    \/ /\ panel = "diff" /\ DiffNext
       /\ UNCHANGED <<panel, backupVars, cteVars, log, erdVars, explainVars, jsonbVars, mcpVars, nbVars, schemaVars>>
    \/ /\ panel = "erd" /\ ErdNext
       /\ UNCHANGED <<panel, backupVars, cteVars, log, diffVars, explainVars, jsonbVars, mcpVars, nbVars, schemaVars>>
    \/ /\ panel = "explain" /\ ExplainNext
       /\ UNCHANGED <<panel, backupVars, cteVars, log, diffVars, erdVars, jsonbVars, mcpVars, nbVars, schemaVars>>
    \/ /\ panel = "jsonb" /\ JsonbNext
       /\ UNCHANGED <<panel, backupVars, cteVars, log, diffVars, erdVars, explainVars, mcpVars, nbVars, schemaVars>>
    \/ /\ panel = "mcp" /\ McpNext
       /\ UNCHANGED <<panel, backupVars, cteVars, log, diffVars, erdVars, explainVars, jsonbVars, nbVars, schemaVars>>
    \/ /\ panel = "notebook" /\ ~slipped /\ NotebookNext
       /\ UNCHANGED <<panel, backupVars, cteVars, log, diffVars, erdVars, explainVars, jsonbVars, mcpVars, schemaVars>>
    \/ /\ panel = "schema" /\ SchemaNext
       /\ UNCHANGED <<panel, backupVars, cteVars, log, diffVars, erdVars, explainVars, jsonbVars, mcpVars, nbVars>>

PanelsSpec == PanelsInit /\ [][PanelsNext]_panelsVars

\* Each panel keeps its types; the others stay as they begin.
PanelsTypeOK ==
    /\ panel = "backup"   => BackupTypeOK
    /\ panel = "compose"  => CteTypeOK
    /\ panel = "ddl"      => DdlTypeOK
    /\ panel = "diff"     => DiffTypeOK
    /\ panel = "erd"      => ErdTypeOK
    /\ panel = "explain"  => ExplainTypeOK
    /\ panel = "jsonb"    => JsonbTypeOK
    /\ panel = "mcp"      => McpTypeOK
    /\ panel = "notebook" => NotebookTypeOK
    /\ panel = "schema"   => SchemaTypeOK

----------------------------------------------------------------------------
(* Values of the constants.                                                      *)

Move(n) == [kind |-> "moveTable", table |-> "t", pos |-> n]
Column  == [kind |-> "addColumn", table |-> "t", pos |-> 0]

MCOps    == {Move(1), Move(2), Column}
MCScript == [t \in Texts |-> IF t = "s1" THEN <<Column>> ELSE <<Move(1)>>]
=============================================================================
