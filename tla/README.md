# ide99: TLA+ models, checks and proofs

ide99 is a desktop PostgreSQL IDE: a React store and a Tauri (Rust) backend in one process,
PostgreSQL at the other end of a small client pool. Its hard part is not SQL text. It is the
lifetime of things that outlive one command: a cursor that keeps a client and an open
transaction between pages, a pool that is replaced while clients of it are out, a tab that is
closed while its query runs, a migration whose script and ledger row are two steps, a late answer that
lands on another cell, tab, notebook or connection than it was asked for. This directory models that part,
checks it with TLC and proves the core of it with TLAPS.

Paths below are relative to the repository; `B/` stands for `src-tauri/src/`, `F/` for `src/features/`.

## 1. Inventory

| Component | State it keeps | Operations | What is hard | What makes it correct |
|---|---|---|---|---|
| Cursor registry (`B/query/cursor.rs`, `B/query/commands.rs`) | `inner`: live cursors with their client; `finished`: metadata of ended ones | open, fetch, close, cancel, row-key lookup, drains | a command owns a cursor while it awaits and puts it back afterwards | one owner per cursor; given-up cursors stay dead; the client never waits idle in an open block |
| Pools and connection lifecycle (`B/connection/pool.rs`, `commands.rs`) | one deadpool pool per connection, at most 4 clients | connect, disconnect, update, delete | `Pool` handles survive their registration; checkout waits without a timeout | every pool is registered, or closed, or held by the command that will decide |
| Idle sweeper (`B/lib.rs`) | none between rounds | every minute: drain what was idle for 30 minutes, roll it back | runs beside all commands | whatever the user abandons is released |
| Batches (`B/query/batch.rs`) | one client per batch in progress | run statements, roll back at the first failure, defer the last one | two clients per batch; transactions written by hand | blocks are atomic; a failed batch leaves nothing pending; batches end |
| Editor run state (`F/editor/store.ts`) | `runStates`, `batchRunStates`, `tabs` | run, fetch more, cancel, close tab, switch connection, switch sub-tab | answers land on a store that moved on | the grid shows one result; no cursor is forgotten; the spinner stops |
| Migration engine (`B/migrations/commands.rs`, `executor.rs`, `tracking.rs`, `discovery.rs`) | ledger table, files on disk | list, apply, roll back | script and ledger row are two steps; two applies at once; stale listings | no script twice; ledger and schema agree; no gap |
| Migration dry run (`B/migrations/dryrun.rs`) | one canceller per connection | start, cancel, finish | a run registers over another one, and unregisters whatever is there | a cancel reaches the run at work, and nobody else's |
| ERD edit mode (`F/erd/edit/`, `F/erd/ErdPane.tsx`) | operations, undo and redo stacks, the text of the DDL panel | draw, undo, type, apply, discard | text is parsed late; the script regroups what was drawn | undo inverts; Apply sends what is shown; the script makes the schema that is drawn |
| JSONB editor (`F/jsonb/`, `B/query/jsonb/write.rs`) | one editor state for all cells | open, resolve the row's key, save, confirm | the key arrives after another cell was opened | the row shown is the row written; a prod row is not written unnamed past one failed guard |
| Notebooks (`F/notebook/`) | the pane's copy, the store's copy, the row | edit, autosave, Save, run a cell | three copies, several writers | the copies agree when all is quiet |
| Editor tabs' rows (`F/editor/store.ts`, `B/query/tabs.rs`) | tabs, debounce timers, SQLite rows | type, rename, close, restart | calls without an order; failures | clean means saved; the last edit is saved |
| EXPLAIN (`F/editor/store.ts`, `B/query/explain.rs`) | `explain_in_flight`: tab to pid | run, cancel, close | the pid is stored by a task of its own | no pid of another; the spinner stops |
| Schema tree (`F/schema/store.ts`) | active connection, cache, shared fetches | connect, expand, refresh, disconnect | fetches are not cancelled | a caller waits for a fetch that is out; the tree is that of its connection |
| External MCP servers (`B/mcp/client/`, `F/mcp/ExternalServers.tsx`) | config file, registry of instances, child processes | start at boot, connect, disconnect, reload, list | a command works on an instance another has replaced | no process without an owner; shown as stopped means stopped |
| Backup jobs (`B/backup/runner.rs`, `F/backup/`) | `backup_jobs`: job id to sender | run, cancel, finish | runs of one wizard share an id | a tool at work can be stopped |
| MCP server (`B/mcp/`) | pending authorise and write-confirm requests, tokens | authorise, confirm, call a tool, revoke | see section 7 | one outcome per request |
| JSONB inference, health actions | in-flight keys, pids | start, cancel, finish | small maps | one task per key |
| Keychain and connection rows | SQLite rows, secrets, a cache | create, duplicate, update, delete | two stores, no common transaction | no row without its secret |
| History, snippets, telemetry, updater, linting, parsing, live operations, file sharing, interface | rows or nothing | single steps | nothing concurrent | – |

Interaction: the editor store calls commands through `invoke`. Each command is a task of its own on
the tokio runtime, so commands interleave at every `await`. They share `PoolRegistry`,
`CursorRegistry` and the other maps of `AppState` under short locks that are never held across a
database round trip. Answers come back to a single-threaded store in any order. A batch calls the
cursor path, which checks a second client out of the same pool.

## 2. Modules

| Module | Models | Abstracts from |
|---|---|---|
| `CursorPool` | cursor registry, pools, lifecycle commands, sweeper, server sessions | rows, SQL, history rows, passwords |
| `CursorLease` | what the registry promises of a cursor: the abstract specification | – |
| `CursorPoolProofs` | theorems about `CursorPool`, among them that it implements `CursorLease` | – |
| `BatchRun` | one Run on the clients of one pool | result rows, connection loss, pool replacement |
| `EditorRun` | the store's side of a query | sorting, columns, persistence, other tab kinds |
| `MigrationApply` | apply and rollback of migrations, the folder, the ledger, the schema | script texts, snapshots, duplicated version names |
| `MigrationApplyProofs` | theorems about `MigrationApply` | – |
| `DryRun` | the dry runs of one connection and their canceller | containers, reports |
| `BackendProofs` | theorems about `BatchRun` and `DryRun`, which share no state, and about `MCBackend` | – |
| `EditHistory` | what undo and redo promise of any editor: the abstract specification | – |
| `ErdEdit` | ERD edit mode of one tab: operations, stacks, DDL panel, Apply | what scripts and operations say |
| `ErdDdl` | the canvas (`applyOps`), the script (`generateDdl`), the validation, PostgreSQL running it | types, constraint names, several schemas, operations read from text |
| `ErdProofs` | theorems about `ErdEdit`, among them that it implements `EditHistory`, and about `ErdDdl`: a script and its canvas agree | – |
| `JsonbEdit` | the cell editor and the backend's checks before it writes | JSON, SQL, what makes a key |
| `JsonbDiff` | the difference of original and draft, its preview, the UPDATE made of it | row keys, the guard, text of the SQL |
| `JsonbProofs` | theorems about `JsonbEdit`, and about `JsonbDiff`: a save merges | – |
| `Notebook` | one notebook's three copies and their writers | cells one by one |
| `NotebookCte` | the SQL of a cell composed with the shared cells it uses | the hint about unknown names, lexing of names |
| `TabStore` | one editor tab and its row | other tab kinds, the order of tabs |
| `EditorProofs` | theorems about `EditorRun`, `TabStore` and `MCEditorTab` | – |
| `ExplainRun` | EXPLAIN of one tab, from the button to the session | plans, options |
| `SchemaBrowser` | the schema tree's cache, shared fetches, connection | what the nodes are, selection, filter |
| `McpClients` | one external MCP server: file, instance, process, commands, row | tools and resources, other servers |
| `McpClientsProofs` | theorems about `McpClients` | – |
| `BackupJob` | a backup wizard and the runs of its job id | options, progress, schedules |
| `PanelProofs` | theorems about `ExplainRun`, `SchemaBrowser`, `BackupJob`, `Notebook` and `NotebookCte`, and about `MCPanels` | – |
| `MCBackend`, `MCEditorTab`, `MCPanels` | several components that share no state, in one run | – |
| other `MC...` | values of the constants for TLC | – |

`MCBackend` (batches, dry runs), `MCEditorTab` (a tab in memory, its row) and `MCPanels` (ten panels)
are sums, not products: the components of each share no variable, so a behaviour belongs to one of
them, chosen in the initial state, and the others keep theirs. Every component is explored as if
alone, and one TLC run checks all of them. Fairness is that of the component chosen.

### CursorPool

`job[t]` is one activation of a command: `pc` is the await it stands at, `hand` the `CursorState`
it owns, `pool` its clone of a `Pool` handle. A state change happens between two awaits and is one
action; each await lets all others run. The correspondence:

| TLA+ | Code |
|---|---|
| `registry` | `PoolRegistry.pools` |
| `inner`, `finished` | the two maps of `CursorRegistry` |
| `age` | `last_fetch_at` against `IDLE_TIMEOUT`: fresh or stale |
| `avail`, `sess` | deadpool's idle clients and the session behind each client (external) |
| `Open*` | `_query_open_cursor_inner`: checkout, inline path, DECLARE and FETCH, failure of each |
| `Fetch*`, `Commit` | `query_fetch_page`: take, FETCH, re-insert or stash, CLOSE and COMMIT |
| `CloseCursor`, `Cancel`, `EndCursor`, `Rollback` | `query_close_cursor`, `query_cancel` |
| `Resolve*` | `jsonb_resolve_row_key`: takes a live cursor out, reads, puts it back |
| `Connect*`, `LifecycleStart`, `Cleanup`, `Evict`, `Unsave` | `connection_connect`, `connection_disconnect`, `update_connection`, `delete_connection` |
| `Sweep*` | the sweeper task: drain, roll back one by one, drop old metadata |
| `LoseSession`, `ShutPools`, `CheckoutFails` | server and deadpool behaviour the code has to live with |

A client is a slot of a pool that has a unique name, so "the pool of this client" survives the
replacement of the registered pool. Rows are not modelled; whether a page is the last one is a
choice of the server. The cancel request of `query_cancel` and its ROLLBACK are one step, and a signal that arrives after them is left out. Hand-written transactions enter through the inline path, which can leave a
session in an open or an aborted block.

`CursorLease` is the contract without the commands: a cursor is a lease of one client. It is granted once, on a client no other
lease covers and with a transaction on the server; it is parked and taken back any number of times; whoever has taken it gives it
up once, with the client and the transaction. `CursorPool` implements it (`CursorLeases`): `Place` reads from `home`, `client` and
`inner` where a cursor is in that life, `client` is what is lent, and `Declared` are the cursors some session has. A `DECLARE` is
a grant; each insert into the registry parks; a take, a drain or a row-key lookup takes back, a drain several at once; `COMMIT`, `ROLLBACK` and
the drop of a `CursorState` give up; a lost session loses the transaction and leaves the lease.

### BatchRun

`run[b]` is a call of `query_run_batch`: its statements, the index, the client in `hand` and the
`second` client of the deferred statement. Statements are kept as far as they move transactions.
`Execute` is PostgreSQL's transaction-block automaton. `EndCursor` stands for whatever ends a
registered cursor, which `CursorPool` has in detail. A pool that is closed under a batch, or
a session that cannot be opened, turns a checkout into an error.

### EditorRun

A store action up to its first await is one action, and what follows an await is another.
`runs[r]` is an activation of `runQuery`, `fetching[t]` the pages on their way, `closing` the
fire-and-forget closes. The backend is what an `invoke` observes of the other two modules: a cursor
is open, taken by a fetch, or ended. `disturbed` is a history variable: it has the tabs on which
the user acted while one of their calls was under way, switched sub-tabs, or had a run refused over
a live cursor. Two properties hold outside `disturbed` only, and that is what they say about the
code: each of those acts really breaks them.

### MigrationApply

`cmd[c]` is a call of `migrations_apply` or `migrations_rollback`; `pc` is the round trip it is about
to make. Versions are numbers in the order of their names, a content stands for the bytes of an up
script and for their checksum, and `schema[v]` is the content whose effect the database shows. The
correspondence:

| TLA+ | Code |
|---|---|
| `Begin`, `Take` | `migrations_apply`/`migrations_rollback`: the connection's row, then `pool_client` |
| `Discover`, `TakeSecond`, `SecondFails`, `ReadLedger` | `list_with_ledger`, with its own second client |
| `Chosen`, `Select` | `select_for_apply` on `join_with_ledger`; the lookup of `migrations_rollback` |
| `ReadFile`, `CheckLedger`, `RunScript`, `ScriptFails`, `InsertRow` | `executor::apply`, once per version |
| `LookForRow`, `UndoScript`, `DeleteRow` | `executor::rollback` |
| `Refused` | every error path that ends a command before it ran something |
| `AnswerLost`, `RowLost`, `Crash` | a connection or the program lost around a commit |
| `EditFolder`, `SetOptions` | the user's edits, `migrations_set_options` |
| `aborted` | clients handed back inside a failed `BEGIN` |

Two history variables make the properties precise. `misrun` has the versions whose script ran when
its effect was already there, or was undone when it was not. `parted` has the versions whose row and
effect the design lets part: two commands were at the version between lookup and row, a script ran
without tracking, or something ended between script and row and left the two different. The code
gives no guarantee for those (script and row are not one transaction, and a `no-transaction` script
could not be), and it makes no other exception: that is what `LedgerAgrees` and `ScriptsFit` say. A
script is all or nothing here; a `no-transaction` script that fails halfway is outside the model.

### DryRun

`canceller` is the entry of one connection in `dryrun_cancellers`, named by the run that put it
there, and `resolved` has the runs whose oneshot has sent or lost its sender. `at[d]` is the await the
run stands at: three of them race the receiver, the others do not look at it.

### ErdEdit, EditHistory and ErdDdl

`ops`, `past`, `future`, `lastChangeBy` and `lastReverseText` are the fields of a tab in `edit/store.ts`;
`typed` is text waiting for the 200 ms debounce and `parsing` the texts `parseDdl` has not answered. A
parse lands on whatever the store holds by then. `travelled` is a history variable: undo and redo leave
`lastChangeBy` alone, so after one of them Apply may send a text that is not what is shown, and
`SendsWhatIsShown` excuses just that. `EditHistory` is a line of documents with a cursor; `LinearUndo` is the
refinement, with the undo stack, the document shown and the reversed redo stack as the line. `setMode`
and `clearTab` are not called while a tab lives, and are left out.

`ErdDdl` has one variable, the log of operations. `WorkingGraph` is the log played forward, which the canvas
draws; `Statement(group, i)` is what `generateDdl` makes of an operation in its loop for a group; `Applied` is the
schema PostgreSQL has after the groups, with the failures that matter (a name taken, missing or not a key). One schema; the base has no foreign keys; nothing
is dropped or retyped, because the canvas cannot.

### JsonbEdit

`shown`, `rowKey`, `drafted`, `status` are the one editor state of `jsonb/state/store.ts`; `resolving` has the
calls of `jsonb_resolve_row_key` without an answer, `saving` those of `jsonb_save` with what each carries. A
save remembers its `target`, the cell it was opened for, and whether the opening was `raced`: an answer of an
earlier opening was out, or the tab changed its connection. `found` says whether `jsonb_save` found the connection's row:
when it does not, the environment is local (`commands.rs:413-419`) and `apply` asks for no name. So there are two guards
before a prod row, the editor's question and the backend's check, and neither is sure.

### JsonbDiff

A document is a function from its paths to what is there: the value of a leaf, "object" or "array". A path is a sequence of keys,
an array index being the text it has in a path; `IsDoc` says which functions are documents. What is under a path is the
function restricted to the paths that begin with it (`Below`), so nothing in the module is recursive: `diff_walk` comes to the
paths that are containers of one kind in both documents all the way down (`Walked`), and what it pushes are the `Operations`
there. `Diff` is `compute_diff`; `Resized` is the one case that ends the walk early. The order of the operations is any that takes
the elements of an array from the first (`Walks`): the keys of a JSON object come in the order of its map. `Update` applies the operations as the
nested `jsonb_set` and `#-` do, whose behaviour on missing steps, indices past the end and scalars is PostgreSQL's; `#-` in an array
moves the elements after it up (`Up`).

Three parsers read a document, and two of them round. PostgreSQL keeps every digit (`cell`). `JSON.parse` rounds above 2^53
(`AsNumber`, `Parsed`): the tree editor and the preview work on that. `serde_json` without `arbitrary_precision` rounds beyond u64 and
f64 (`AsSerde`, `Read`) and refuses what no double holds (`TooLarge`, `Readable`): `jsonb_save` parses both texts with it
(`BothRead`, `SaveDiff`), so two texts may count as equal, and what is written is what it read; the grid's text of a jsonb value
goes through it too (`GridText`), and a value it does not read is shown as NULL and cannot be opened.

A save is three steps. `Save` sends the texts, `ApplySave` is `jsonb_save`, `SaveAnswered` puts the answer in the grid: the text of the draft
as it was sent (`write.rs:929`, `971`), not what was written. The editor closes 600 ms after (`TimedClose`) if its status is still "saved";
`setDraft` leaves the status alone, so what is typed in that window is lost, although the comment at `store.ts:203-204` says that a new edit stops the
closing. That loss is in the actions; no property denies it.

### Notebook, NotebookCte and TabStore

`pane`, `cached` and `disk` are the three copies of a notebook; `nbSaves` the calls of `notebook_save` in the
order they were sent, which they may be written in or not. `TabStore` does the same for a tab: `tabCalls`
are its `tabs_save` and `tabs_delete`. History variables name what the code does not guard against
(`slipped`, `overtaken`, `lost`). A text is a number, and every edit a new one, so `updatedAt` never
takes two different versions for one.

In `NotebookCte` a text is the set of candidate names found in it. `state`, `path` and `tried` are the search's own arrays,
stack and loop position; `included`, `frontier`, `next` and `before` those of the closure's loop. One step is one turn of a loop.

### ExplainRun and SchemaBrowser

`step[r]` is how far an EXPLAIN is; the pid is stored by a spawned task (`inserting`) and removed by the
command, in either order: `late` says that it happened in the wrong one. A pid is the client it belongs
to, which other commands use when the run has returned it. A run that times out (`TimesOut`) gives its client back while the session goes on
with the EXPLAIN; what is issued there begins when it is done (`SessionEnds`). A tab without a connection, or whose source is closed, shows an error
and sends nothing. In `SchemaBrowser` a fetch has a number; `inFlight[node]` is the shared fetch
that callers of `loadChildren` are told to wait for, and `crossed` says that a connect landed
while a fetch of another connection was out.

### McpClients

`call[c]` is a command of the backend and what the panel does after it; `at` is where it stands. Instances are
numbered: `registry` has the one that is registered, and a command may hold another one. Each keeps at most
one child process, named by the command that spawned it. `Dropped` are the children of the instances nobody
holds any more: `kill_on_drop` ends them in the step that drops the last handle (`Running`). A disconnect keeps
the lock of the child while it waits for its end, and `sync_from_config` keeps the registry's meanwhile.
HTTP servers are refused by `connect_http`. The panel is opened once, and a list is drawn when it is
answered, which loses no behaviour of the backend.

### BackupJob

A run of the wizard goes from `called` to `over`; `sender` is the run whose sender is under the job id, and `signalled`
has the runs whose receiver has an answer, sent or by the sender's drop: the `select!` takes either. It is over when the tool's
stderr ends (`StreamEnds`): a cancel is no longer heard while the exit is waited for, and if that wait fails (`WaitFails`) the command
answers without a Done event and leaves its sender. `missed` and `overtaken` are the wizard's two gaps: a cancel before the sender is
registered does nothing and is shown as done, and an earlier run's end is shown for the later one.

## 3. Runs

| Run | Instance | Shows |
|---|---|---|
| `cursor_pool` | 2 commands, 2 cursors, 1 connection, 2 pools of 1 client, 1 lost session, hand-written blocks | eight properties of ownership, transactions and pools |
| `walk_away` | 2 commands, 2 cursors, 1 pool of 1 client, fairness | after the user walks away everything is released |
| `idle_client` | as above | violated: a client at rest in an aborted block |
| `cancel_in_flight` | as above | violated: a cancelled cursor is registered again |
| `backend` | 2 batches, 3 clients, 7 programs, both flags; 3 dry runs; fairness | atomic blocks, clean failures, batches end; a dry run at work is in a cancel's reach, dry runs end |
| `batch_commit` | 2 batches, editor's flag | violated: COMMIT on another session |
| `batch_wait` | 2 batches, 2 clients | violated: pool deadlock |
| `editor` | 1 tab, 2 runs, 3 pages, 2 fetches at once; its row with 2 edits, 1 rename, 3 calls; fairness | grid, cursors and spinner; clean means saved, edits reach the row |
| `migrations` | 2 commands, 2 versions, 2 contents, 3 clients, 2 edits | ledger and schema agree, scripts fit, no gap |
| `dry_run_retry` | 2 runs | violated: a run cancelled that nobody cancelled |
| `panels` | ten panels, bounds below | sixteen properties, one line each below |
| `jsonb_wrong_row` | 2 cells, 2 connections | violated: the wrong row is updated |

What the bounds have to allow, and do:

- `cursor_pool`: one command owns a cursor while the other closes, cancels, drains or looks it up;
  a connection is replaced while a client of its first pool is out; a cursor id is used up while
  another is live; a pool has no free client. One client per pool makes exhaustion the normal
  case. A third command adds interleavings of the same pairs: every step of the code touches one
  cursor and one pool, and every conflict is between two owners.
- `backend`, batches: a third client lets both batches hold one and one of them defer. The programs have a
  closed block before the last statement, a failure in a block, between two of its writes and after them, a block closed by the last
  statement, a failing last statement, and a rollback by hand.
- `editor`: the second run lands before, between or after the first one's pages; three pages are
  what a skipped page in the middle needs; two fetches at once are one more than the code wants.
  `MaxPages`, `MaxFetches` and the number of `Runs` are the bounds. In the row: two edits and a rename with three
  calls out let a save be overtaken by the next one, by a delete and by a save for another reason.
- `migrations`: two versions are what a gap needs, two commands what a stale listing and a shared
  version need; a version edited between listing, run and row needs two contents, and an edit that
  is taken back two edits. Three clients give one command both of its clients while the other holds
  one, and let both starve (four would be the pool's size and add only symmetric cases).
- `backend`, dry runs: one run cancelled, one begun over it, one after both.
- `panels`, ERD: three canvas operations (two of them coalesce), two scripts and one that does not parse, two
  snapshots (`MaxPast`), one Apply at a time (`MaxApplies`). Script: four operations (`MaxOps`) on two tables and
  what is added to them are what a foreign key between renamed tables or columns needs.
- `panels`, JSONB: two cells of two connections, one of them prod, two keys and one save out at once.
- `panels`, notebook: three texts, two saves (`MaxOut`) and one run (`MaxRuns`) out at once; a notebook is
  followed to its first gap, because what comes after it is excused.
- `panels`, EXPLAIN: two runs, two clients, statements of others on both.
- `panels`, schema: two connections, two nodes, three fetches out at once (`MaxFetches`).
- `panels`, MCP: an stdio definition that starts at boot and an HTTP one, one edit of the file, three commands after the
  start at boot, two instances: enough for a connect whose instance a reload replaces while a disconnect
  waits for the lock.
- `panels`, backup: a run over another one that is on its way out, with two cancels.
- `panels`, JSONB difference: the documents differ by a leaf, a key, a kind, a length and a depth, at the root and one level down; every pair
  meets as original and draft and as original and row. Among the leaves are a number only `JSON.parse` rounds, one both parsers round and one `serde_json`
  refuses. One edit, typed or in the tree (`MaxDraftEdits`); one save that succeeds (`MaxDiffSaves`) because every state a second
  save could start from (a grid that is not the row) is also one the first can start from, by a write of another session. One save is under way at a time, and nothing is
  opened or run again meanwhile: calls of several openings are in `JsonbEdit`.
- `panels`, composed cells: three candidates, with names of their own or the last named like the first, and every way they and
  the target can use each other. Three are what a circle that is not a pair needs, and a use that takes two passes.

Deadlock is not checked: each model stops when its ids are used up and nothing is under way.

### Properties of CursorPool

- `SingleOwner`: a live `CursorState` is in the registry, or with one command, or with the sweeper.
- `ClientExclusive`: a client is with one cursor, one command or the pool, never two of them.
- `CursorUsable`: a registered cursor's session is still in the block its cursor lives in.
- `OpenCursorOwned`: a server cursor on a session belongs to somebody who will end it.
- `FinishedIsOver`: finished metadata and a registered state never exist for one id.
- `NothingLeaks`: an open pool is registered or with the command about to register or close it (`PoolsAccountedFor`), and each
  of its clients is at rest in it, in a command's hand or with a live cursor (`ClientsAccountedFor`), whatever failed.
- `CursorLeases` (refinement): the registry implements `CursorLease`. Whatever overlaps, a cursor is ended once and by a command that took it
  out, never changes its client, and takes its transaction with it. `DeadStaysDead`, that no step brings back a cursor that was given up,
  is proved besides.
- `WalkAwayReleases` (liveness): if the user stops, cursors end, blocks close, clients return.

### Properties of MigrationApply and DryRun

- `LedgerAgrees`: outside `parted`, a version nobody is working on has a row exactly if its effect is
  there, with the checksum of what ran, whatever was edited, refused, lost or crashed.
- `ScriptsFit`: outside `parted`, no script runs over its own effect, and none is undone that was
  not there. It rests on the check in `apply`: the listing a command chose from may be stale.
- `NoGap`: what a command ran is an initial piece of what it chose.
- `ClientsComeBack`: when no client is left, a command that has all it needs is at work. It has no run: it holds with fewer commands
  than clients, which is proved, and fails with as many.
- `NoRunOutOfReach`: a dry run at work holds the canceller or was signalled.

### Properties of the other modules

- `FailureLeavesNothingPending`, `ExplicitBlocksAtomic` (`BatchRun`): a failed batch leaves no write pending, and a block's writes
  are kept or undone together.
- `BackendEnds` (`MCBackend`, liveness): every batch ends (`BatchesEnd`), and every dry run answers (`DryRunsEnd`). The state
  predicate below it, `NoStandstill`, is proved: with no client at rest or with a cursor, some batch does not wait for one.
- `GridIsPrefix`, `NoLeftoverUnlessDisturbed`, `SpinnerEnds` (`EditorRun`): the grid is an unbroken beginning of one result, and no cursor is forgotten outside `disturbed`.
- `CleanMeansSaved`, `EditReachesRow` (`TabStore`): a tab that shows no dot has its text in its row; what is typed gets there.
- `SpinnerIsOwedAnAnswer` (`EditorRun`), `TextIsOnItsWay` (`TabStore`): what `SpinnerEnds` and `EditReachesRow` rest on in every state, proved: a
  spinner of an open tab stands for a call that is out; a text that is not in the row is in a call or has its timer.
- `LinearUndo`, `SendsWhatIsShown` (`ErdEdit`): the stacks are one linear history; Apply sends the operations shown.
- `ScriptGivesCanvas` (`ErdDdl`): a script that runs leaves the schema that is drawn, and one whose groups do not get into
  each other's way runs.
- `WritesShownRow`, `UnnamedSlippedTwice` (`JsonbEdit`): a save writes the row shown; a prod row changes without its table's name only when
  both guards gave way, the editor's to a race with its opening and the backend's to a failed lookup.
- `SaveMerges` (`JsonbDiff`, action property): a save of two texts `serde_json` reads, over a row of the original's shape, is not refused and leaves the draft
  as `serde_json` reads it, or what the row had where original and draft are the same; by paths it keeps, to the last digit and over a row of any shape, what is at keys the user
  did not edit. It says nothing of the digits a save of the whole document writes beyond what `serde_json` read: those are rounded.
- `ComposeAnswers` (`NotebookCte`): a circle is refused (`AcceptedIsAcyclic`) and a refusal shows one (`RefusalShowsCircle`); the WITH
  block is the least set closed under use (`IncludesWhatIsUsed`).
- `QuietMeansAgreed` (`Notebook`): with nothing armed or out, pane, store and row agree, outside the named gaps.
- `SpinnerHasRun`, `PidIsOfARun` (`ExplainRun`): the tab never spins over nothing; a kept pid is that of a run at work.
- `SharedFetchIsOut`, `TreeOfItsConnection` (`SchemaBrowser`): nobody waits for a fetch that is over; the tree is that of its
  connection, outside `crossed`.
- `NoOrphanProcess`, `DisconnectedIsStopped` (`McpClients`): a process that runs is kept by the registered instance or by one
  a command is at; an instance shown as disconnected keeps none.
- `RunIsStoppable` (`BackupJob`): a tool at work has its sender under the job id and a Cancel button, the wizard's gaps apart. A tool past the end of its
  stderr is not claimed.

### What the history variables excuse

A property that excuses what a history variable names does not catch that: it says that there is no other way to go wrong. Where the excused
part is what a hazard is about, the code really has it, and the hazard's note says so.

| Variable | Excused | Left to say |
|---|---|---|
| `disturbed` (`EditorRun`) | tabs acted upon while one of their calls was out | the undisturbed paths lose no page and no cursor |
| `parted` (`MigrationApply`) | two commands at one version; an end between script and row | no other version is harmed, and every other way is closed |
| `travelled` (`ErdEdit`) | an undo or redo before Apply | late parses, drags and discards |
| `Untangled` (`ErdDdl`) | scripts whose groups get into each other's way and fail | what runs is what is drawn |
| `raced` (`JsonbEdit`) | an earlier opening's answers, a reconnected tab | no other way to another row |
| `late` (`ExplainRun`) | a pid stored after its removal | no other way for a pid to stay |
| `slipped` (`Notebook`) | autosaves failed, out of order or put back; overlapping runs | text typed while a cell runs, one run at a time |
| `overtaken`, `lost` (`TabStore`) | calls out of order or failed | edits made while calls are out |
| `crossed` (`SchemaBrowser`) | a fetch of another connection out at a connect | refreshes, failures, disconnects |
| `missed`, `overtaken` (`BackupJob`) | the wizard's two gaps | the backend's side of overlapping runs |

### Fairness

Weak fairness of a command's steps stands for: the database answers, tokio runs every ready task.
A checkout has strong fairness because deadpool serves its waiters in order, so one that waits while
clients come back again and again gets one. The sweeper is a loop over `interval`, hence weakly
fair. In `EditorRun` the event loop runs every continuation. In `DryRun` each await of a run is answered,
by success or failure; no run waits for another. In `TabStore` the two debounce timers fire and the backend writes
and answers each call, in any order (`TabFairness`).  The panels have no fairness: their properties are safety. Nothing is assumed of the user, of a
preflight's dialog, or of a statement that never answers: `BatchesEnd` and `SpinnerEnds` hold under
the assumption that statements answer, and `BatchesEnd` with fewer batches than clients.

## 4. Where the code differs from its comments

Each has a violation run; the shortest behaviour TLC prints is the explanation.

1. `idle_client`: a failed DECLARE or FETCH drops the client inside an aborted block, and the pool's
   fast recycling hands it out as it is (`cursor.rs:15-18` says this must not happen).
2. `cancel_in_flight`: `query_cancel` during a fetch finds nothing in the registry and returns Ok;
   the cursor is registered again (`commands.rs:943-951`).
3. `batch_commit`: a batch whose last statement is `COMMIT` commits nothing when it is run as the
   editor runs it (`batch.rs:3-5`).
4. `batch_wait`: a batch holds its client while the deferred statement waits for another
   (`batch.rs:121-124`). `FewBatchesGoOn` proves the condition under which it cannot go wrong: fewer batches than clients.
5. `dry_run_retry`: a dry run on its way out removes the canceller of the run begun after it, which
   then reports itself cancelled (`dryrun.rs:319-324`). In the behaviour TLC prints nobody cancels anything: docker fails the first run
   after the second was begun. A cancel of the first and an early second start take the same way.
6. `jsonb_wrong_row`: the row key of a cell that was closed arrives while another is open and replaces
   its key; Save then updates the other row (`jsonb/state/store.ts:31-32`).

The models state more comments that the code does not keep. They are definitions of their modules without a run
of their own:

| Definition | What the code says | What it does |
|---|---|---|
| `EditorRun!OneLiveCursorPerTab` | `editor/store.ts:1631-1632`: the previous cursor is closed before a run | a second Run before the first answer leaves a cursor nobody closes |
| `ErdEdit!TextIsCanonical` | `DdlPreviewPanel.tsx:107-112`: in text mode the text is canonical for the operations | undo and redo keep text mode and change the operations: Apply sends the old text |
| `ErdDdl!OpsCompose` | `ErdPane.tsx:130-131`: references by first names compose | a table renamed and then given a column is altered under a name it no longer has |
| `Notebook!ResultSurvives` | `CellList.tsx:12-14`: results survive a reload | an autosave of the pane's copy writes over the result |
| `ExplainRun!CancelsOnlyItsExplain` | `query/commands.rs:206-207`: a cancel of a finished run is a no-op | between reading the pid and the signal the session may be at another statement |
| `McpClients!CommandsSerialize` | `connection.rs:81-83`: commands serialize under the registry's mutex | they take a handle and let the lock go: two are at one instance at once |
| `JsonbDiff!GridShowsRow` | `query/types.rs:556-557`: the new value is re-fetched after the UPDATE | it is the draft's text; after a save by paths over a row another session wrote, or of numbers `serde_json` rounds, the grid shows what no row has |
| `JsonbDiff!PreviewIsWhatRuns` | `computeDiff.ts:13-15`: the preview mirrors `compute_diff` | a tree edit writes all numbers of the draft as JavaScript parsed them, rounded above 2^53, and the preview compares parsed values; the save compares what `serde_json` reads |
| `NotebookCte!ReusedByLaterCells` | `notebook/cte.rs:3-4`: a shared cell is reused by later cells | a cell that uses a later one comes before it in the WITH block, which PostgreSQL refuses |
| `BackupJob!StoppedOnPurpose` | `runner.rs:239`: a run unregisters its own channel | a run that ends late removes the next run's sender, and that run's tool is killed |

And a few are only in the actions: Cancel in the editor is offered only while a page is on its way,
and the late page or failure changes the result `store.ts:1783-1786` calls frozen (`EditorRun`). After a connect that
fails, the panel of the MCP servers keeps its list (`ExternalServers.tsx:87-94`), so the error shows after the next
one (`McpClients`). A backup cancelled before its tool has registered is shown as cancelled and runs on
(`BackupJob`).

## 5. Proofs

### CursorPool

`CursorPoolProofs` proves for every set of commands, connections, cursors, pools and clients:

| Theorem | States |
|---|---|
| `TypeCorrect` | `Spec => []TypeOK` |
| `Ownership` | `Spec => []SingleOwner` |
| `FinishedNeverRegistered` | `Spec => []FinishedIsOver` |
| `NoRevival` | `Spec => DeadStaysDead` |
| `ImplementsLease` | `Spec => CursorLeases` |
| `NeverShared` | `Spec => []ClientExclusive` |
| `AlwaysUsable` | `Spec => []CursorUsable` |
| `NeverOrphaned` | `Spec => []OpenCursorOwned` |
| `NoLeaks` | `Spec => []NothingLeaks` |
| `Invariance`, `ClientInvariance` | `Spec => []IInv`, `Spec => []CInv` |

The assumptions are the named ones of `CursorPool`: they say that the parameter sets do not contain
`None` and that bounds are numbers. None of the safety properties is inductive alone.
`IInv` adds to them:

- `JobShape`: at each `pc` a command's local variables have the shape the code gives them there. A
  step from an await can only be understood with what was read before it.
- `HomeKnown`: a cursor that exists has a connection.
- `FinishedEnding`: a cursor whose metadata was stored is with the command that is about to end it,
  or gone. Without it, a re-insert after the stash could not be excluded: this is what carries
  `FinishedIsOver` over `FetchRows` and `Commit`.
- `SweeperRests`: between rounds the sweeper holds no cursor, so a new drain loses none.

The preservation proof has a lemma per action and in it one step per conjunct the action can
disturb.

The clients have an invariant of their own over `IInv`. `CInv` adds `ClientExclusive`, `CursorUsable`, `OpenCursorOwned` and
`BuiltOnly` (a client anybody has is of a pool that was built, so a new pool brings clients nobody has). Its proof does not go
action by action: `StepKinds` shows that a step does one of five things to the clients (`FiveKinds`): leaves them
where they are, adds those of a new pool, hands one to a command, gives a command's to a `CursorState`, or takes one back; and each
of the five keeps `CInv`. The pools have `PInv`: registered pools and pools being probed are built, open and
distinct. Only connecting and evicting touch them (`PoolSteps`, `SwapPools`). `AccountsKept` goes by the five kinds again: each of them puts a
client of an open pool where it takes one from.

`ImplementsLease` is the refinement step by step (`LeaseStep`): an action that touches no cursor is a stutter (`LeasesRest`), and the others
are one step of a lease each: `Granted`, `Parked`, `TakenBack`, `GivenUp`, `LostOne`. A grant needs that the client has no lease, which is
`ClientExclusive`; giving up needs that no other session has declared the cursor, which is `CursorUsable` and `OpenCursorOwned` of `CInv`: the abstract
`declared` is a set of cursors, the code's is a state of each session.

### EditorRun and TabStore

`EditorProofs` proves for every set of tabs, connections and runs, any number of pages and every set of replies:
`ClosedTabsStayEmpty`, `[]ClosedTabShowsNothing`; `GridsArePrefixes`, `[]GridIsPrefix`; `NothingLeftOver`,
`[]NoLeftoverUnlessDisturbed`; `EditorTypes` and `EditorInvariance`. The two about grids and cursors are not inductive: they follow from
what the calls of a tab are at. `TabOk` says it for every tab that is not disturbed. It has at most one call under way, which is a
run that is out (`WaitOk`) or the next page of the cursor it shows (`FetchOk`); the rows it shows are the pages fetched so far
(`ShowOk`); and a cursor that is open belongs to a run whose answer is to come, is shown, or is on its way to a close (`LeftOk`).
An act of the user that would break this is what puts the tab into `disturbed`, so the proof is also the reason why that set is as
it is. `RefsOk` (a tab refers only to runs of its own) keeps the calls of the other tabs out of it.

`SpinnersAreOwed`, `[]SpinnerIsOwedAnAnswer`, is about all tabs, the disturbed ones too: two runs and several pages may be out, answers land on
other runs' panels, and still a spinner on an open tab has a call behind it. `SpinInv` adds that neither a sub-tab nor an
answer holds a state that spins, so what is put back or lands is at rest.

About `TabStore`: `CleanTabsAreSaved`, `[]CleanMeansSaved`, by `TabInvariance`. As long as no call overtook another, `InOrder` holds: the
calls that have written come first, their texts grow in the order they were sent, and the row is at least as new as the ones that
have written and no newer than the ones to come. `TextIsNeverDropped`, `[]TextIsOnItsWay`, follows the newest text from its timer to a call and
from the call to the row, where by `InOrder` no older call can replace it.

`MCEditorTab` runs one side or the other. `SideParts`, `SideSpec => Spec /\ TabSpec`, carries what is proved of each over to it;
`SideTypesCorrect` is `[]SideTypeOK`.

### MigrationApply

`MigrationApplyProofs` proves for every set of versions, contents, clients and commands:

| Theorem | States |
|---|---|
| `TypeCorrect` | `Spec => []TypeOK` |
| `LedgerAlwaysAgrees` | `Spec => []LedgerAgrees` |
| `ScriptsAlwaysFit` | `Spec => []ScriptsFit` |
| `NeverAGap` | `Spec => []NoGap` |
| `FewCommandsGoOn` | `Spec => []ClientsComeBack`, if there are fewer commands than clients |
| `Agreed` | `Spec => []MInv` |

`LedgerAgrees` says nothing of a version in flight, so it does not survive the step that lands one.
`MInv` adds what a command in flight knows: `Knows` relates its `pc` to the row and the effect of its
version (no row and no effect before the script, the effect of its own bytes before the row, and the
reverse for a rollback), and `OneInFlight` says that only one command is at a version that has not
parted, so nobody falsifies what it knows. A lookup either finds the version free and establishes
both, or parts it. The lemmas follow the flight: `StaysOut`, `Enters`, `Acts`, `Lands`; a lemma per
group of actions applies one of them. Assumed are the named facts of `MigrationAssumption`: versions are numbers, bounds are numbers,
`None` is neither a client nor a content. That a set of versions has a first one is a lemma (`FirstVersion`), from
the well-foundedness of the numbers. `FewCommandsGoOn` is the pigeonhole principle on the clients that the waiting commands hold; the condition
is needed, since as many commands as clients can all wait for their second one (`commands.rs:335`). `NeverAGap` has an invariant of its own, `InOrder`: what a command has run is below what it has still to run,
and together they have all it chose.

### BatchRun and DryRun

`BackendProofs` proves for every pool, every number of batches and every set of programs `FailedBatchesForgotten`,
`Spec => []FailureLeavesNothingPending`; `BlocksAreAtomic`, `Spec => []ExplicitBlocksAtomic`; `BatchTypes` and `BatchInvariance`. The
two properties speak of what is committed or pending at the end, which no step of the proof can see. `BInv` says where a
batch's writes are at each of its points: `PendingOk` that a pending write is on the batch's own client until its last
statement, `CommittedOk` that none is committed before it runs, and `BlockOk` of each block of the program that inside it the
writes so far are pending on a session in a block, that a batch that failed inside has lost them, and that past it all are
committed or all are lost. `Apart` (a client is at rest, with a cursor, or with one batch) is why other batches
leave all that as it is (`OthersKeep`). `StatementKeeps` is the heart: one case for each place the statement has in a block.

`FewBatchesGoOn` proves `Spec => []NoStandstill` for finitely many batches, fewer than clients: `ClientsKept` says that no client is lost from the pool, the
cursors and the batches together, so a standstill would need a batch for each client. This is the safety below `BatchesEnd`, and the exact
line `batch_wait` is on the other side of.

For any set of dry runs it proves `AlwaysInReach`, `DrySpec => []NoRunOutOfReach`: with the types
the property is inductive, because every step that empties or takes the place signals the run whose
sender was there. `BatchesEnd` and `DryRunsEnd` are liveness and model-checked only. `BackendParts`, `BackendSpec => Spec /\ DrySpec`, carries both
over to `MCBackend`, whose types are `BackendTypesCorrect`.

### ErdEdit and ErdDdl

`ErdProofs` proves about `ErdEdit`, for every set of operations, scripts and bounds: `AppliesWhatIsShown`, `ErdSpec => []SendsWhatIsShown`;
`ImplementsHistory`, `ErdSpec => LinearUndo`; `ErdTypeCorrect` and `ErdInvariance`. The refinement rests on lemmas about the line the
stacks make (`LinePushed`, `LineAmended`, `LineUndone`, `LineRedone`): a push extends it, a coalesced drag amends it, undo and redo
leave it alone. The invariant adds `StartsBlank`: the oldest document is the empty one, so a coalesced drag, which replaces
the document shown, has an older one below it.

About `ErdDdl`, for every base, every set of names and every log: `ScriptsGiveCanvas`, `DdlSpec => []ScriptGivesCanvas`, and
`DdlTypesCorrect`, by `DdlInvariance`; `RefersBack` adds to the types that an operation refers to what is of the base or was added
before it. Canvas and script are both recursions over the log, and the proof reads both off it without recursion:

- `PlayedIs`, `FollowedIs` and `AfterIs`: the three recursive functions satisfy their equations. The functions up to `n` exist by the
  least number principle (`LeastNumber`, `StepByStep`), which needs no rule of induction over an operator.
- `PlayedIsGraph`: after `n` operations the canvas is `GraphAfter(n)`: the tables added so far, each under the last name it was given so
  far, and so its columns; the foreign keys drawn so far.
- `IsDb(db, a, b, c, d, e)` says the same of the database while the script runs, with a count for each group: the
  tables of the first `a` operations are created, tables of the base are renamed by the first `b`, and so on. A lemma per group
  (`CreateStep`, `RenameTableStep`, `AddColumnStep`, `RenameColumnStep`, `AddFkStep`) takes it over one statement that succeeds, and shows that the statement succeeds
  when the groups keep apart. Names are why: under `FreshNames` and the validation a name of the base means its first
  owner until that is renamed (`BaseNames`), so a second rename of one table cannot succeed, a key keeps its owner, and the chain of
  renames that a foreign key follows ends at the name the canvas shows (`FollowedName`).
- `SchemaIsCanvas`: with all five counts at the end, the two are the same.

### JsonbEdit and JsonbDiff

`JsonbProofs`, about `JsonbEdit`: `UnnamedSlipsTwice`, `[]UnnamedSlippedTwice`, and `ShownRowIsWritten`, `[]WritesShownRow`. `KeyIsOfShown` says that in an
opening nothing raced with, the key, the environment and the calls that are out concern the row shown; `SavesNameTarget` carries it over
the save, whose answer comes when the editor may show another cell, and adds that such a save to prod carries its table's name; `FoundIsNamed` is the
backend's half, for a save whose connection was found.

About `JsonbDiff`, for every set of documents, keys, indices and values, every threshold and whatever the parsers round: `SavesMerge`, `DiffSpec => SaveMerges`, and
`DiffTypesCorrect`, by `DiffInvariance`. The invariant is that everything is a document (`IsDoc`); a document as a parser reads it has its shape. The rest is about `Update`:

- `SetDoc` and `WithoutDoc`: `jsonb_set` and `#-` make documents of documents. Their hard part is an array: a set
  past the end takes the next index (`TargetIs`), and when an element goes, the paths through the later ones move up without two
  meeting (`UpInjective`) and leave the indices without a gap (`WithoutElement`).
- `SetLeaves` and `DeleteLeaves`: a statement changes nothing under a path of keys that neither leads to its own nor is led to by it,
  also where the row has an array or a leaf by now (`ArrayHides`). `WalkKeeps` carries that over all statements, and `SameApart` shows that no
  operation is at such a path when original and draft have the same there.
- `MergeWalk`: over a row of the original's shape, the row after the first statements is `Merged`, that row with the parts of the draft at their paths.
  No path of an operation leads to another's (`OperationsApart`), which is why the order does not matter, and with no array resized
  every index is there (`WayIs`), which is why no statement fails or appends. Where no operation leads, original and
  draft are the same (`Untouched`), so with all merged each place has the draft's or what the row had, as `LeavesDraft` says. The function
  that the statements compute satisfies its equations by the least number principle, as in `ErdProofs` (`SteppedIs`).

### ExplainRun, SchemaBrowser, BackupJob, Notebook, NotebookCte and MCPanels

`PanelProofs`, about `ExplainRun`: `SpinnerIsHonest` and `PidIsHonest`; the two strengthen each other with the types, which have
`Served` (a run that waits has a client that runs it), and `InsertersRan` (a task that stores a pid is of a run that captured one). About `SchemaBrowser`: `SharedIsOut` and
`TreeIsOfConnection`, with `FetchesOfIt`: until a connect lands over the fetches of another connection, all fetches are of the
active one.

About `BackupJob`: `ToolsAreStoppable`, `[]RunIsStoppable`. `SenderOk` says that the sender under the job id is that of a run
nobody has sent to, and a tool without one has its answer; `NoGapMet`, for behaviours that met neither gap of the wizard,
that only the last run can be unstopped and that a cancel which found a sender stopped it.

About `Notebook`: `QuietNotebooksAgree`, by `NotebookInvariance`. An open pane that met none of the gaps is in one of three
states: what it shows is what was saved last and everything under way carries that text (`AllOneText`); an autosave of it is out
and nothing with another text follows it (`BeingSaved`); or the save is still due, because the debounce timer is armed or a run
has yet to hand over its result (`ToBeSaved`). A quiet notebook has no timer, no call and no run, which leaves the first.

About `NotebookCte`, for any number of cells: `ComposeIsRight`, `[]ComposeAnswers`, from
`AcceptedAreAcyclic`, `RefusalsShowCircles` and `BlockIsWhatIsUsed`, by `CteInvariance`. The
search keeps that its path is its stack, each using the next (`PathIsStack`), that what was tried from a candidate is done
with or comes next (`TriedIsSeen`), and that what is done with uses only what is done with and has no circle (`DoneIsAcyclic`): when
the top is done with, a circle through it would leave, without it, a circle among the rest. The closure keeps that what is included is
in every closed set, and that a pass that added nothing so far missed nothing (`ClosureInv`).

About `MCPanels`: `PanelTypesCorrect`, `PanelsSpec => []PanelsTypeOK`, from the theorems on types of all ten components. A behaviour of the
panel that is chosen is one of its component (`ChosenSteps`), so what is proved of the component holds there.

### McpClients

`McpClientsProofs`: `NoneIsOrphaned`, `[]NoOrphanProcess`, and `ShownStoppedIsStopped`, `[]DisconnectedIsStopped`, for any number of commands,
instances and definitions. The invariant adds `HoldsWhileWorking` (a command holds an instance while it works on it and only
then) and `LockedIsEmpty` (a child's lock is held by a disconnect that took the child). Every step that gives a handle
back drops what nobody holds: `DropsTheRest` is the lemma about it.

### What is model-checked only

Liveness (`WalkAwayReleases`, `BackendEnds`, `SpinnerEnds`, `EditReachesRow`): fairness and ENABLED are out of the prover's reach. What
three of them rest on in each state is proved (`NoStandstill`, `SpinnerIsOwedAnAnswer`, `TextIsOnItsWay`).

Every invariant and every action property of a passing run is proved, and so are the two refinements.

## 6. How it was built, and what could follow

The modules were written in the order of their importance: cursors, batches and the editor first, then
migrations, then the panels where answers land late. Next would be two servers in `McpClients`, with the start at boot
going from one to the next.

## 7. Not modelled

- The MCP server's waits on the user. `issue_token` and `register_authorize` (`B/mcp/auth.rs:169`, `301`) are called by tests
  only, so no client is authorised in the running program, and the confirm event (`B/mcp/tools/db.rs:444-452`) lacks the `kind` that
  `writeConfirmEventSchema` (`F/mcp/api.ts:97-102`) asks for, so no dialog opens. A model would be of a protocol nobody can run.
- JSONB inference (one set under one lock) and health actions (a pid in a map under an id of its own, removed by a guard
  before the client goes back): small, and the pattern is that of `ExplainRun` and `DryRun`.
- Keychain and connection rows: single steps but for create and duplicate, which write two stores one after the other.
- Backup schedules: a file and the system's scheduler. The migration watcher: file notifications.
- History, snippets, telemetry, the updater, paid modules, linting, parsing, SQL generation, file sharing,
  live operations and rendering are single steps or pure text. TLS, authentication and PostgreSQL itself appear only as what a
  session does to a transaction, a script or a signal.
- What a module leaves out of its own component is in the last column of section 2 and in the comment at its head.
