------------------------------ MODULE MCErdDdl ------------------------------
EXTENDS ErdDdl, TLC

\* Two tables of one schema, and the names the canvas gives to what it adds.
MCBaseColumns == [t \in BaseTables |-> IF t = "users" THEN {"id", "email"} ELSE {"id"}]
MCNewTable(n) == "new_table_" \o ToString(n)
MCNewColumn(n) == "col_" \o ToString(n)
=============================================================================
