---------------------------- MODULE MigrationApply ----------------------------
(***************************************************************************)
(* migrations_apply and migrations_rollback: which scripts they choose,    *)
(* what reaches the database, and what the ledger says of it.              *)
(*                                                                         *)
(* A command checks a client out, lists the folder and the ledger with a   *)
(* second one, and takes the chosen versions in order.  Reading the file,  *)
(* looking the version up in the ledger, running the script and writing    *)
(* the row are separate round trips: other commands, edits of the folder,  *)
(* lost connections and the end of the program fall between them.  A       *)
(* content stands for a file's bytes and for their checksum.               *)
(*                                                                         *)
(* Source: src-tauri/src/migrations/commands.rs, executor.rs, tracking.rs  *)
(***************************************************************************)
EXTENDS Naturals, FiniteSets

CONSTANTS
    Versions,    \* versions, in the order of their names
    Contents,    \* what an up script may contain
    Clients,     \* the client slots of the connection's pool
    Commands,    \* the applies and rollbacks of one run of the model
    Folders,     \* what the folder may hold when the program starts
    MaxChanges,  \* bound: edits of the folder and of the options
    None

ASSUME MigrationAssumption ==
    /\ Versions \subseteq Nat
    /\ None \notin Clients \cup Contents
    /\ Folders \subseteq [up : [Versions -> Contents \cup {None}], down : SUBSET Versions]
    /\ MaxChanges \in Nat

VARIABLES
    cmd,       \* cmd[c]: where command c is and what it carries
    aborted,   \* clients whose session is inside a failed block
    up,        \* up[v]: content of the up script in the folder, or None
    down,      \* versions with a down script in the folder
    ledger,    \* ledger[v]: checksum in ide99_migrations, or None
    schema,    \* schema[v]: content whose effect the database shows, or None
    tracking,  \* migration_tracking_enabled of the connection
    changes,   \* edits so far
    parted,    \* history: versions whose row and effect may have parted, see Part
    misrun     \* history: versions run when in effect, or undone when not

folder == <<up, down, tracking, changes>>
vars == <<cmd, aborted, up, down, ledger, schema, tracking, changes, parted, misrun>>

----------------------------------------------------------------------------
(* What the user asks for.                                                 *)

Request(k, a, b) == [kind |-> k, from |-> a, to |-> b]

Requests ==
    {Request(k, v, v) : k \in {"single", "rollback"}, v \in Versions}
      \cup {Request("range", a, b) : a \in Versions, b \in Versions}
      \cup {Request("all", None, None)}

Working == {"take", "discover", "second", "read", "file", "check", "run", "row",
            "look", "undo", "unrow"}

NotBegun == [pc |-> "idle", req |-> Request("all", None, None), tracked |-> FALSE, joined |-> FALSE,
             client |-> None, second |-> None, ups |-> {}, downs |-> {},
             chosen |-> {}, todo |-> {}, bytes |-> None, ran |-> {}]

Command ==
    [pc : Working \cup {"idle", "over"}, req : Requests, tracked : BOOLEAN, joined : BOOLEAN,
     client : Clients \cup {None}, second : Clients \cup {None},
     ups : SUBSET Versions, downs : SUBSET Versions,
     chosen : SUBSET Versions, todo : SUBSET Versions,
     bytes : Contents \cup {None}, ran : SUBSET Versions]

\* A command at work on versions has one; it holds its clients while it needs them.
WellFormed(r) ==
    /\ r.pc \in {"file", "check", "run", "row", "look", "undo", "unrow"} => r.todo # {}
    /\ r.pc \in {"row", "unrow"} => r.tracked
    /\ r.todo \subseteq r.chosen
    /\ r.client # None <=> r.pc \in Working \ {"take"}
    /\ r.second # None <=> r.pc = "read"

TypeOK ==
    /\ cmd \in [Commands -> Command]
    /\ \A c \in Commands : WellFormed(cmd[c])
    /\ aborted \subseteq Clients
    /\ up \in [Versions -> Contents \cup {None}] /\ down \subseteq Versions
    /\ ledger \in [Versions -> Contents \cup {None}]
    /\ schema \in [Versions -> Contents \cup {None}]
    /\ tracking \in BOOLEAN /\ changes \in 0..MaxChanges
    /\ parted \subseteq Versions /\ misrun \subseteq Versions

\* The folder holds something; nothing has been applied yet.
Init ==
    /\ cmd = [c \in Commands |-> NotBegun]
    /\ aborted = {}
    /\ \E f \in Folders : up = f.up /\ down = f.down
    /\ ledger = [v \in Versions |-> None]
    /\ schema = ledger
    /\ tracking = TRUE /\ changes = 0
    /\ parted = {} /\ misrun = {}

----------------------------------------------------------------------------
At(c, l) == cmd[c].pc = l
Free == Clients \ UNION {{cmd[c].client, cmd[c].second} : c \in Commands}
Least(S) == CHOOSE v \in S : \A u \in S : v <= u
Cur(c) == Least(cmd[c].todo)
Usable(c) == cmd[c].client \notin aborted

\* The command has looked version v up and has yet to write its row.
InFlight(c, v) == cmd[c].pc \in {"run", "row", "undo", "unrow"} /\ v = Cur(c)

\* Both clients go back to the pool, in whatever state their sessions are.
Ended(r) == [r EXCEPT !.pc = "over", !.client = None, !.second = None]

End(c) == cmd' = [cmd EXCEPT ![c] = Ended(@)]

\* On to the next chosen version.
Advanced(r, v) == IF r.todo = {v} THEN Ended([r EXCEPT !.todo = {}])
                                  ELSE [r EXCEPT !.todo = @ \ {v}, !.pc = "file"]

\* Row and effect of v part company: a second command between its lookup and
\* its row, an unrecorded run, or an end between script and row.
Part(V) == parted' = parted \cup V

Begin(c, r) ==
    /\ At(c, "idle")
    /\ cmd' = [cmd EXCEPT ![c].pc = "take", ![c].req = r, ![c].tracked = tracking]
    /\ UNCHANGED <<aborted, folder, ledger, schema, parted, misrun>>

\* pool_client: waits for a client at rest.
Take(c) ==
    /\ At(c, "take")
    /\ \E s \in Free : cmd' = [cmd EXCEPT ![c].pc = "discover", ![c].client = s]
    /\ UNCHANGED <<aborted, folder, ledger, schema, parted, misrun>>

\* list_with_ledger: the folder first, and the tracking option once more.
Discover(c) ==
    /\ At(c, "discover")
    /\ cmd' = [cmd EXCEPT ![c].pc = "second", ![c].joined = tracking,
                          ![c].ups = {v \in Versions : up[v] # None}, ![c].downs = down]
    /\ UNCHANGED <<aborted, folder, ledger, schema, parted, misrun>>

TakeSecond(c) ==
    /\ At(c, "second")
    /\ \E s \in Free : cmd' = [cmd EXCEPT ![c].pc = "read", ![c].second = s]
    /\ UNCHANGED <<aborted, folder, ledger, schema, parted, misrun>>

\* join_with_ledger: a script without a row is pending, whatever else it may be.
Pending(ups, rows) == ups \ rows

Between(S, a, b) == IF a \in S /\ b \in S THEN {v \in S : a <= v /\ v <= b} ELSE {}

\* select_for_apply, and the lookup and checks of migrations_rollback, on the
\* folder joined with the rows: what is chosen, or {} when nothing can be.
Chosen(r, ups, downs, rows) ==
    CASE r.kind = "single"   -> {r.from} \cap ups
      [] r.kind = "range"    -> Between(Pending(ups, rows), r.from, r.to)
      [] r.kind = "all"      -> Pending(ups, rows)
      [] r.kind = "rollback" -> {r.from} \cap downs

\* With the listing still in scope the second client stays out.
SelectKeepsSecond(c, rows) ==
    LET chosen == Chosen(cmd[c].req, cmd[c].ups, cmd[c].downs, rows)
        next   == IF cmd[c].req.kind = "rollback" THEN "look" ELSE "file"
    IN cmd' = [cmd EXCEPT ![c] =
           IF chosen = {} THEN Ended(@)
                          ELSE [@ EXCEPT !.pc = next, !.chosen = chosen, !.todo = chosen]]

Select(c, rows) ==
    LET chosen == Chosen(cmd[c].req, cmd[c].ups, cmd[c].downs, rows)
        next   == IF cmd[c].req.kind = "rollback" THEN "look" ELSE "file"
    IN cmd' = [cmd EXCEPT ![c] =
           IF chosen = {} THEN Ended(@)
                          ELSE [@ EXCEPT !.pc = next, !.second = None, !.chosen = chosen, !.todo = chosen]]

\* Without a second client the listing is the folder alone.
SecondFails(c) ==
    /\ At(c, "second")
    /\ Select(c, {})
    /\ UNCHANGED <<aborted, folder, ledger, schema, parted, misrun>>

\* The rows are read only if the option was set; the second client goes back.
ReadLedger(c) ==
    /\ At(c, "read")
    /\ cmd[c].joined => cmd[c].second \notin aborted
    /\ Select(c, IF cmd[c].joined THEN {v \in Versions : ledger[v] # None} ELSE {})
    /\ UNCHANGED <<aborted, folder, ledger, schema, parted, misrun>>

----------------------------------------------------------------------------
(* executor::apply, once per chosen version.                               *)

\* ensure_table, and the file as it is on disk now.
ReadFile(c) ==
    /\ At(c, "file")
    /\ cmd[c].tracked => Usable(c)
    /\ up[Cur(c)] # None
    /\ cmd' = [cmd EXCEPT ![c].pc = "check", ![c].bytes = up[Cur(c)]]
    /\ UNCHANGED <<aborted, folder, ledger, schema, parted, misrun>>

\* A second command in flight on the same version parts it.
Lookup(c, next) ==
    /\ cmd' = [cmd EXCEPT ![c].pc = next]
    /\ Part({v \in {Cur(c)} : \E d \in Commands \ {c} : InFlight(d, v)})

\* Without the look into the ledger.
CheckSkipped(c) ==
    /\ At(c, "check")
    /\ cmd[c].tracked => Usable(c)
    /\ Lookup(c, "run")
    /\ UNCHANGED <<aborted, folder, ledger, schema, misrun>>

\* The version must not be in the ledger; without tracking nobody looks.
CheckLedger(c) ==
    /\ At(c, "check")
    /\ cmd[c].tracked => Usable(c) /\ ledger[Cur(c)] = None
    /\ Lookup(c, "run")
    /\ UNCHANGED <<aborted, folder, ledger, schema, misrun>>

\* The script commits, in its own block or as it is.
ScriptCommits(c, v) ==
    /\ schema' = [schema EXCEPT ![v] = cmd[c].bytes]
    /\ misrun' = misrun \cup {u \in {v} : schema[u] # None}

RunScript(c) ==
    LET v == Cur(c)
        r == [cmd[c] EXCEPT !.ran = @ \cup {v}]
    IN /\ At(c, "run") /\ Usable(c)
       /\ ScriptCommits(c, v)
       /\ cmd' = [cmd EXCEPT ![c] = IF r.tracked THEN [r EXCEPT !.pc = "row"] ELSE Advanced(r, v)]
       /\ Part({u \in {v} : ~cmd[c].tracked})
       /\ UNCHANGED <<aborted, folder, ledger>>

\* After a failure the loop goes on to the next version.
ScriptFailsGoesOn(c) ==
    /\ cmd[c].pc \in {"run", "undo"}
    /\ \E s \in {{}, {cmd[c].client}} : aborted' = aborted \cup s
    /\ cmd' = [cmd EXCEPT ![c] = Advanced(@, Cur(c))]
    /\ UNCHANGED <<folder, ledger, schema, parted, misrun>>

\* A wrapped script that fails while it runs leaves BEGIN open and failed on
\* the client; one that does not parse, or is not wrapped, leaves nothing.
ScriptFails(c) ==
    /\ cmd[c].pc \in {"run", "undo"}
    /\ \E s \in {{}, {cmd[c].client}} : aborted' = aborted \cup s
    /\ End(c)
    /\ UNCHANGED <<folder, ledger, schema, parted, misrun>>

\* The checksum of the file as it is by now.
InsertDiskChecksum(c) ==
    LET v == Cur(c)
    IN /\ At(c, "row")
       /\ IF ledger[v] = None
          THEN /\ ledger' = [ledger EXCEPT ![v] = up[v]]
               /\ cmd' = [cmd EXCEPT ![c] = Advanced(@, v)]
          ELSE /\ End(c)
               /\ UNCHANGED ledger
       /\ UNCHANGED <<aborted, folder, schema, parted, misrun>>

\* tracking::insert; a row that is there already is an error.
InsertRow(c) ==
    LET v == Cur(c)
    IN /\ At(c, "row")
       /\ IF ledger[v] = None
          THEN /\ ledger' = [ledger EXCEPT ![v] = cmd[c].bytes]
               /\ cmd' = [cmd EXCEPT ![c] = Advanced(@, v)]
          ELSE /\ End(c)
               /\ UNCHANGED ledger
       /\ UNCHANGED <<aborted, folder, schema, parted, misrun>>

----------------------------------------------------------------------------
(* executor::rollback.                                                     *)

\* The row must be there, and the down script still in the folder.
LookForRow(c) ==
    /\ At(c, "look")
    /\ cmd[c].tracked => Usable(c) /\ ledger[Cur(c)] # None
    /\ Cur(c) \in down
    /\ Lookup(c, "undo")
    /\ UNCHANGED <<aborted, folder, ledger, schema, misrun>>

UndoCommits(c, v) ==
    /\ schema' = [schema EXCEPT ![v] = None]
    /\ misrun' = misrun \cup {u \in {v} : schema[u] = None}

UndoScript(c) ==
    LET v == Cur(c)
    IN /\ At(c, "undo") /\ Usable(c)
       /\ UndoCommits(c, v)
       /\ cmd' = [cmd EXCEPT ![c] = IF @.tracked THEN [@ EXCEPT !.pc = "unrow"] ELSE Ended(@)]
       /\ Part({u \in {v} : ~cmd[c].tracked})
       /\ UNCHANGED <<aborted, folder, ledger>>

DeleteRow(c) ==
    /\ At(c, "unrow")
    /\ ledger' = [ledger EXCEPT ![Cur(c)] = None]
    /\ End(c)
    /\ UNCHANGED <<aborted, folder, schema, parted, misrun>>

----------------------------------------------------------------------------
(* What goes wrong between two steps.                                      *)

\* No client, no folder, no file, no row where one is needed, a row where none
\* may be, a client in a failed block: the command ends without an effect.
Refused(c) ==
    /\ \/ cmd[c].pc \in {"take", "discover", "file", "check", "look"}
       \/ At(c, "read") /\ cmd[c].joined
    /\ End(c)
    /\ UNCHANGED <<aborted, folder, ledger, schema, parted, misrun>>

\* The connection is lost after the script committed and before its answer.
AnswerLost(c) ==
    /\ Usable(c)
    /\ \/ At(c, "run") /\ ScriptCommits(c, Cur(c))
       \/ At(c, "undo") /\ UndoCommits(c, Cur(c))
    /\ End(c)
    /\ Part({Cur(c)})
    /\ UNCHANGED <<aborted, folder, ledger>>

\* The statement of the row is lost on its way, or its answer is.
RowLost(c) ==
    LET v == Cur(c)
    IN /\ cmd[c].pc \in {"row", "unrow"}
       /\ \/ UNCHANGED ledger
          \/ At(c, "row") /\ ledger[v] = None /\ ledger' = [ledger EXCEPT ![v] = cmd[c].bytes]
          \/ At(c, "unrow") /\ ledger' = [ledger EXCEPT ![v] = None]
       /\ End(c)
       /\ Part({u \in {v} : ledger'[u] # schema[u]})
       /\ UNCHANGED <<aborted, folder, schema, misrun>>

\* The program ends: its sessions with it.
Crash ==
    /\ \E c \in Commands : cmd[c].pc \in Working
    /\ cmd' = [c \in Commands |-> IF cmd[c].pc \in Working THEN Ended(cmd[c]) ELSE cmd[c]]
    /\ aborted' = {}
    /\ Part({Cur(c) : c \in {d \in Commands : cmd[d].pc \in {"row", "unrow"}}})
    /\ UNCHANGED <<folder, ledger, schema, misrun>>

EditFolder ==
    /\ changes < MaxChanges
    /\ \E v \in Versions :
         \/ \E k \in Contents \cup {None} : up' = [up EXCEPT ![v] = k] /\ UNCHANGED down
         \/ down' \in {down \cup {v}, down \ {v}} /\ UNCHANGED up
    /\ changes' = changes + 1
    /\ UNCHANGED <<cmd, aborted, ledger, schema, tracking, parted, misrun>>

\* migrations_set_options.
SetOptions ==
    /\ changes < MaxChanges
    /\ tracking' = ~tracking
    /\ changes' = changes + 1
    /\ UNCHANGED <<cmd, aborted, up, down, ledger, schema, parted, misrun>>

----------------------------------------------------------------------------
Step(c) ==
    \/ Take(c) \/ Discover(c) \/ TakeSecond(c) \/ SecondFails(c) \/ ReadLedger(c)
    \/ ReadFile(c) \/ CheckLedger(c) \/ RunScript(c) \/ ScriptFails(c) \/ InsertRow(c)
    \/ LookForRow(c) \/ UndoScript(c) \/ DeleteRow(c)
    \/ Refused(c) \/ AnswerLost(c) \/ RowLost(c)

Next ==
    \/ \E c \in Commands : Step(c) \/ \E r \in Requests : Begin(c, r)
    \/ Crash \/ EditFolder \/ SetOptions

Spec == Init /\ [][Next]_vars

----------------------------------------------------------------------------
\* The ledger says what the database shows (executor.rs: "did the DDL run?"
\* and "did the ledger row land?"), by content, for every version that no
\* command is working on and whose row and effect nothing has parted.
LedgerAgrees ==
    \A v \in Versions \ parted :
        (\A c \in Commands : ~InFlight(c, v)) => ledger[v] = schema[v]

\* An up script runs only while its version is not in effect and a down script
\* only while it is: from stale listings, edited folders and concurrent
\* commands, except on versions that have parted.
ScriptsFit == misrun \subseteq parted

\* Whatever fails, the scripts one command ran are the first ones it chose,
\* in order and without a gap (executor.rs:113-117).
NoGap ==
    \A c \in Commands : \A v \in cmd[c].ran, u \in cmd[c].chosen : u < v => u \in cmd[c].ran

\* A command that waits for its second client keeps the first (commands.rs:335): when no
\* client is left, some command must have all it needs, or nobody ever gives one back.
ClientsComeBack ==
    Free = {} => \E c \in Commands : cmd[c].pc \in Working \ {"take", "second"}
=============================================================================
