------------------------------- MODULE ErdDdl -------------------------------
(***************************************************************************)
(* What Apply runs after edits on the ERD canvas.  The canvas shows the    *)
(* base graph with the operations played forward (applyOps); Apply sends a *)
(* script that is made of the same operations in groups, not in order      *)
(* (generateDdl).  The two ought to mean the same schema.                  *)
(*                                                                         *)
(* One schema, foreign keys of one column; types, nullability, the names   *)
(* of constraints and the position of tables are left out.  Every table    *)
(* has one key column, and a foreign key is drawn to a key: for another    *)
(* column the validation warns.  An operation's id is its place in the     *)
(* log.  Operations read from the DDL panel's text are left out: then      *)
(* Apply sends the text.                                                   *)
(*                                                                         *)
(* Source: src/features/erd/ErdPane.tsx, edit/applyOps.ts, edit/ddlGen.ts, *)
(* edit/validation.ts and src-tauri/src/schema/apply_ddl.rs.               *)
(***************************************************************************)
EXTENDS Naturals, Sequences, FiniteSets, FiniteSetsExt, Functions

CONSTANTS
    BaseTables,     \* names of the tables of the base graph
    BaseColumns,    \* names of the columns of each
    KeyName,        \* name of every key column to begin with
    TypedNames,     \* names the user types
    NewTable(_), NewColumn(_),  \* names the canvas gives
    MaxOps,         \* bound: operations in the log
    NoName          \* a reference to what an operation added has no name

ASSUME DdlAssumption ==
    /\ \A t \in BaseTables : KeyName \in BaseColumns[t] /\ IsFiniteSet(BaseColumns[t])
    /\ MaxOps \in Nat /\ TypedNames \subseteq STRING
    /\ \A n \in 1..MaxOps : NewTable(n) \in STRING /\ NewColumn(n) \in STRING
    /\ \A t \in BaseTables, n \in 1..MaxOps : NewColumn(Cardinality(BaseColumns[t]) + n) \in STRING

VARIABLE log    \* the operations

----------------------------------------------------------------------------
(* References and the working graph.                                       *)

\* A table or column of the base goes by its first name, a new one by its operation.
Base(name) == [op |-> 0, name |-> name]
New(i)     == [op |-> i, name |-> NoName]
IsBase(ref) == ref.op = 0
Refs == {New(i) : i \in 1..MaxOps} \cup {Base(n) : n \in BaseTables \cup UNION {BaseColumns[t] : t \in BaseTables}}

CanvasOps == [kind : {"addTable"}, name : STRING]
       \cup [kind : {"addColumn", "renameTable"}, table : Refs, name : STRING]
       \cup [kind : {"renameColumn"}, table : Refs, column : Refs, name : STRING]
       \cup [kind : {"addFk"}, table : Refs, column : Refs, target : Refs]

\* Tables and their columns, by reference, with the names they have now.
BaseGraph ==
    [tables |-> [t \in {Base(n) : n \in BaseTables} |->
                    [name |-> t.name,
                     columns |-> [c \in {Base(n) : n \in BaseColumns[t.name]} |-> c.name]]],
     fks |-> {}]

Put(f, k, v) == [x \in DOMAIN f \cup {k} |-> IF x = k THEN v ELSE f[x]]

\* One operation played on a graph.  Nothing is dropped on the canvas, so what an
\* operation refers to is there.
ApplyOp(graph, i) ==
    LET op == log[i] IN
    CASE op.kind = "addTable" ->
           [graph EXCEPT !.tables = Put(@, New(i), [name |-> op.name, columns |-> Put(<<>>, New(i), KeyName)])]
      [] op.kind = "addColumn" ->
           [graph EXCEPT !.tables[op.table].columns = Put(@, New(i), op.name)]
      [] op.kind = "renameTable" ->
           [graph EXCEPT !.tables[op.table].name = op.name]
      [] op.kind = "renameColumn" ->
           [graph EXCEPT !.tables[op.table].columns[op.column] = op.name]
      [] op.kind = "addFk" ->
           [graph EXCEPT !.fks = @ \cup {[from |-> op.table, column |-> op.column, to |-> op.target]}]

\* The graph after the first operations.
Played[n \in 0..Len(log)] == IF n = 0 THEN BaseGraph ELSE ApplyOp(Played[n - 1], n)

WorkingGraph == Played[Len(log)]

\* The key of a table.
Key(t) == IF IsBase(t) THEN Base(KeyName) ELSE t

----------------------------------------------------------------------------
(* The canvas.                                                             *)

DdlInit == log = <<>>

Push(op) == Len(log) < MaxOps /\ log' = Append(log, op)

NewTables == {t \in DOMAIN WorkingGraph.tables : ~IsBase(t)}

AddTable == Push([kind |-> "addTable", name |-> NewTable(Cardinality(NewTables) + 1)])

AddColumn(t) ==
    Push([kind |-> "addColumn", table |-> t,
          name |-> NewColumn(Cardinality(DOMAIN WorkingGraph.tables[t].columns) + 1)])

\* The inline editor commits a name that differs from the one shown.
RenameTable(t, name) ==
    /\ name # WorkingGraph.tables[t].name
    /\ Push([kind |-> "renameTable", table |-> t, name |-> name])

RenameColumn(t, c, name) ==
    /\ name # WorkingGraph.tables[t].columns[c]
    /\ Push([kind |-> "renameColumn", table |-> t, column |-> c, name |-> name])

\* Dragged from one table to another, and confirmed in the picker.
AddFk(s, c, t) ==
    /\ s # t
    /\ Push([kind |-> "addFk", table |-> s, column |-> c, target |-> t])

DdlNext ==
    \/ AddTable
    \/ \E t \in DOMAIN WorkingGraph.tables : AddColumn(t)
    \/ \E t \in DOMAIN WorkingGraph.tables, name \in TypedNames : RenameTable(t, name)
    \/ \E t \in DOMAIN WorkingGraph.tables : \E c \in DOMAIN WorkingGraph.tables[t].columns, name \in TypedNames :
          RenameColumn(t, c, name)
    \/ \E s, t \in DOMAIN WorkingGraph.tables : \E c \in DOMAIN WorkingGraph.tables[s].columns : AddFk(s, c, t)

DdlSpec == DdlInit /\ [][DdlNext]_log

\* The log is of operations, and what one refers to is of the base or was added by an
\* earlier one.
DdlTypeOK ==
    /\ log \in Seq(CanvasOps)
    /\ Len(log) <= MaxOps
    /\ \A i \in DOMAIN log : log[i].kind # "addTable" => log[i].table.op < i

----------------------------------------------------------------------------
(* generateDdl.                                                            *)

\* A new table and a new column are created under the last name they got.
LastName(first, renames) == IF renames = {} THEN first ELSE log[Max(renames)].name

FinalTable(i) ==
    LastName(log[i].name, {j \in DOMAIN log : log[j].kind = "renameTable" /\ log[j].table = New(i)})

FinalColumn(i) ==
    LastName(IF log[i].kind = "addTable" THEN KeyName ELSE log[i].name,
             {j \in DOMAIN log : log[j].kind = "renameColumn" /\ log[j].column = New(i)})

\* MUTANT of FkTable: the name the table was drawn under.
FkTableAsDrawn(t) == IF IsBase(t) THEN t.name ELSE FinalTable(t.op)

\* A rename counts when it leaves from the name found so far.
Follow(found, n) ==
    IF log[n].kind = "renameTable" /\ log[n].table = Base(found) THEN log[n].name ELSE found

Followed(t) ==
    LET found[n \in 0..Len(log)] == IF n = 0 THEN t.name ELSE Follow(found[n - 1], n)
    IN  found

\* The name a foreign key uses for a table.
FkTable(t) == IF IsBase(t) THEN Followed(t)[Len(log)] ELSE FinalTable(t.op)

FkColumn(t, c) ==
    IF IsBase(c)
      THEN LastName(c.name, {j \in DOMAIN log : /\ log[j].kind = "renameColumn"
                                                /\ log[j].table = t /\ log[j].column = c})
      ELSE FinalColumn(c.op)

\* A foreign key between new tables is written inside CREATE TABLE.
Inline(op) == op.kind = "addFk" /\ ~IsBase(op.table) /\ ~IsBase(op.target)

FkOf(i) ==
    LET op == log[i]
    IN  [from |-> FkTable(op.table), column |-> FkColumn(op.table, op.column),
         to |-> FkTable(op.target), key |-> FkColumn(op.target, Key(op.target))]

\* A new table has the column it was drawn with and those added to it.
Create(i) ==
    [kind |-> "create", table |-> FinalTable(i), key |-> FinalColumn(i),
     columns |-> [n \in {i} \cup {m \in DOMAIN log : log[m].kind = "addColumn" /\ log[m].table = New(i)} |->
                     FinalColumn(n)],
     fks |-> {FkOf(n) : n \in {m \in DOMAIN log : Inline(log[m]) /\ log[m].table = New(i)}}]

\* generateDdl loops over the log once for every group of statements: what the loop
\* makes of an operation, if anything.  Statements about a table or a column of the base
\* use its first name.
Statement(group, i) ==
    LET op == log[i] IN
    CASE group = "create" /\ op.kind = "addTable" -> Create(i)
      [] group = "renameTable" /\ op.kind = "renameTable" /\ IsBase(op.table) ->
           [kind |-> "renameTable", table |-> op.table.name, to |-> op.name]
      [] group = "addColumn" /\ op.kind = "addColumn" /\ IsBase(op.table) ->
           [kind |-> "addColumn", table |-> op.table.name, column |-> FinalColumn(i)]
      [] group = "renameColumn" /\ op.kind = "renameColumn" /\ IsBase(op.column) ->
           [kind |-> "renameColumn", table |-> op.table.name, column |-> op.column.name, to |-> op.name]
      [] group = "addFk" /\ op.kind = "addFk" /\ ~Inline(op) ->
           [kind |-> "addFk", fk |-> FkOf(i)]
      [] OTHER -> [kind |-> "none"]

\* validateOps, the issues that keep Apply from being pressed.
HasErrors ==
    \E i \in DOMAIN log :
        \/ /\ log[i].kind = "addTable"
           /\ \/ FinalTable(i) \in BaseTables
              \/ \E j \in 1..(i - 1) : log[j].kind = "addTable" /\ FinalTable(j) = FinalTable(i)
        \/ /\ log[i].kind = "addColumn" /\ IsBase(log[i].table)
           /\ log[i].name \in BaseColumns[log[i].table.name]

----------------------------------------------------------------------------
(* PostgreSQL.  schema_apply_ddl runs the script in one transaction.       *)

BaseDb ==
    [runs |-> TRUE,
     tables |-> [t \in BaseTables |-> [columns |-> BaseColumns[t], key |-> KeyName]],
     fks |-> {}]

\* Both ends of a foreign key are there and its target is a key.
CanRefer(tables, fk) ==
    /\ fk.from \in DOMAIN tables /\ fk.to \in DOMAIN tables
    /\ fk.column \in tables[fk.from].columns /\ fk.key = tables[fk.to].key

Failed(db) == [db EXCEPT !.runs = FALSE]

ExecCreate(db, s) ==
    LET tables == Put(db.tables, s.table, [columns |-> Range(s.columns), key |-> s.key])
    IN  IF /\ s.table \notin DOMAIN db.tables /\ IsInjective(s.columns)
           /\ \A fk \in s.fks : CanRefer(tables, fk)
          THEN [db EXCEPT !.tables = tables, !.fks = @ \cup s.fks]
          ELSE Failed(db)

ExecRenameTable(db, s) ==
    IF s.table \in DOMAIN db.tables /\ s.to \notin DOMAIN db.tables
      THEN [db EXCEPT !.tables = [t \in (DOMAIN @ \ {s.table}) \cup {s.to} |->
                                     IF t = s.to THEN @[s.table] ELSE @[t]]]
      ELSE Failed(db)

ExecAddColumn(db, s) ==
    IF s.table \in DOMAIN db.tables /\ s.column \notin db.tables[s.table].columns
      THEN [db EXCEPT !.tables[s.table].columns = @ \cup {s.column}]
      ELSE Failed(db)

ExecRenameColumn(db, s) ==
    IF /\ s.table \in DOMAIN db.tables /\ s.column \in db.tables[s.table].columns
       /\ s.to \notin db.tables[s.table].columns
      THEN [db EXCEPT !.tables[s.table] =
              [columns |-> (@.columns \ {s.column}) \cup {s.to},
               key |-> IF @.key = s.column THEN s.to ELSE @.key]]
      ELSE Failed(db)

ExecAddFk(db, s) ==
    IF CanRefer(db.tables, s.fk) THEN [db EXCEPT !.fks = @ \cup {s.fk}] ELSE Failed(db)

\* No statement names a table that has foreign keys already and is then renamed: the
\* base has none, and the script makes them last or between new tables.
Exec(db, s) ==
    IF ~db.runs THEN db
    ELSE CASE s.kind = "create" -> ExecCreate(db, s)
           [] s.kind = "renameTable" -> ExecRenameTable(db, s)
           [] s.kind = "addColumn" -> ExecAddColumn(db, s)
           [] s.kind = "renameColumn" -> ExecRenameColumn(db, s)
           [] s.kind = "addFk" -> ExecAddFk(db, s)
           [] s.kind = "none" -> db

\* The database after the statements that a group made of the first operations.
After(group, db) ==
    LET after[n \in 0..Len(log)] == IF n = 0 THEN db ELSE Exec(after[n - 1], Statement(group, n))
    IN  after

\* The script is one group after the other.
Applied ==
    LET Run(group, db) == After(group, db)[Len(log)]
    IN  Run("addFk", Run("renameColumn", Run("addColumn", Run("renameTable", Run("create", BaseDb)))))

----------------------------------------------------------------------------
(* Properties.                                                             *)

\* The canvas in names, and so the schema after the script.
Canvas ==
    LET g == WorkingGraph
        Column(t, c) == g.tables[t].columns[c]
    IN  [tables |-> {[name |-> g.tables[t].name, columns |-> {Column(t, c) : c \in DOMAIN g.tables[t].columns}] :
                        t \in DOMAIN g.tables},
         fks |-> {[from |-> g.tables[f.from].name, column |-> Column(f.from, f.column),
                   to |-> g.tables[f.to].name, key |-> Column(f.to, Key(f.to))] : f \in g.fks}]

Schema(db) ==
    [tables |-> {[name |-> t, columns |-> db.tables[t].columns] : t \in DOMAIN db.tables},
     fks |-> db.fks]

\* Nothing is given a name that something else has, or had in the base.
FreshNames ==
    LET g == WorkingGraph
        Distinct(f) == \A x, y \in DOMAIN f : f[x] = f[y] => x = y
    IN  /\ Distinct([t \in DOMAIN g.tables |-> g.tables[t].name])
        /\ \A t \in DOMAIN g.tables : Distinct(g.tables[t].columns)
        /\ \A i \in DOMAIN log :
              /\ log[i].kind = "renameTable" => log[i].name \notin BaseTables
              /\ log[i].kind = "renameColumn" /\ IsBase(log[i].table) =>
                    log[i].name \notin BaseColumns[log[i].table.name]

\* The logs whose groups do not get into each other's way: a renamed table of the base
\* has no other statement but foreign keys, nothing of the base is renamed twice, and a
\* new table refers to new tables that were added before it.
Untangled ==
    \A i, j \in DOMAIN log :
        /\ log[i].kind = "renameTable" /\ IsBase(log[i].table) /\ i # j =>
              ~(log[j].kind \in {"renameTable", "addColumn", "renameColumn"} /\ log[j].table = log[i].table)
        /\ log[i].kind = "renameColumn" /\ IsBase(log[i].column) /\ i # j =>
              ~(log[j].kind = "renameColumn" /\ log[j].table = log[i].table /\ log[j].column = log[i].column)
        /\ Inline(log[i]) => log[i].target.op < log[i].table.op

\* A script that runs leaves the schema that the canvas shows, and one whose groups do
\* not get into each other's way runs: regrouping, coalescing and inlining mean what
\* the operations mean.  A reused name is excused: it may be resolved to its new owner.
ScriptGivesCanvas ==
    LET db == Applied IN
    ~HasErrors /\ FreshNames /\ (db.runs \/ Untangled) => db.runs /\ Schema(db) = Canvas

\* ErdPane.tsx:130-131: "Existing tables ref by their ORIGINAL schema/name (pre-rename)
\* so subsequent ops compose cleanly": the script of a log that validates, in which no
\* name is used twice, runs.
OpsCompose == ~HasErrors /\ FreshNames => Applied.runs
=============================================================================
