----------------------------- MODULE CursorPool -----------------------------
(***************************************************************************)
(* Result cursors, the pooled PostgreSQL clients they hold, and the        *)
(* transactions those clients are in.                                      *)
(*                                                                         *)
(* query_open_cursor checks a client out of the connection's pool, runs    *)
(* BEGIN; DECLARE; FETCH on it and either finishes at once or parks the    *)
(* client in the CursorRegistry.  query_fetch_page, query_close_cursor,    *)
(* query_cancel, jsonb_resolve_row_key, the lifecycle hooks (disconnect,   *)
(* update, delete) and the idle sweeper take entries out of that registry, *)
(* run SQL with the registry unlocked, and put the entry back or drop it.  *)
(* Each lock acquisition and each await that another task can overtake is  *)
(* a step of its own; statements on a client nobody else can reach are one *)
(* step.                                                                   *)
(*                                                                         *)
(* Sources: src-tauri/src/query/{cursor,commands}.rs, src-tauri/src/lib.rs *)
(*          src-tauri/src/connection/{pool,commands}.rs                    *)
(***************************************************************************)
EXTENDS Naturals, FiniteSets

CONSTANTS
    Tasks,      \* commands that can be in flight at the same time
    Conns,      \* saved connections
    Cursors,    \* cursor ids (a fresh uuid per opened cursor)
    Slots,      \* the client slots of one pool (max_size is 4 in the code)
    MaxPools,   \* bound: pools built per connection in one run of the program
    MaxLosses,  \* bound: server sessions that die
    UserTxn,    \* whether users type BEGIN, COMMIT and ROLLBACK by hand
    MayLeave,   \* whether the user may walk away
    None

Pools     == Conns \X (1..MaxPools)
Clients   == Pools \X Slots
PoolOf(s) == s[1]
ConnOf(p) == p[1]
ClientsOf(p) == {s \in Clients : PoolOf(s) = p}

ASSUME ConstantAssumption ==
    /\ IsFiniteSet(Slots) /\ Slots # {}
    /\ MaxPools \in Nat \ {0}
    /\ MaxLosses \in Nat
    /\ UserTxn \in BOOLEAN /\ MayLeave \in BOOLEAN
    /\ None \notin Cursors \cup Conns \cup Pools \cup Clients

VARIABLES
    saved,     \* connections with a row in the local store
    registry,  \* PoolRegistry.pools: the pool registered for each connection
    built,     \* how many pools were built for each connection
    shut,      \* pools that were closed
    avail,     \* clients their pool can hand out
    sess,      \* server session behind each client
    inner,     \* CursorRegistry.inner: ids of the registered CursorStates
    finished,  \* CursorRegistry.finished: ids with metadata of a finished cursor
    aged,      \* those of them unused for IDLE_TIMEOUT (last_fetch_at, last_access)
    client,    \* the client each live CursorState owns
    home,      \* the pool each cursor was opened on; its conn_id is ConnOf of it
    missed,    \* live ids query_cancel returned Ok for while a fetch held them
    job,       \* the command each task runs
    sweeper,   \* the background sweeper
    losses,    \* sessions lost so far
    away       \* the user has walked away: no new command is issued

poolVars == <<saved, registry, built, shut>>
sessVars == <<avail, sess>>
regVars  == <<inner, finished, aged, client, home, missed>>
envVars  == <<losses, away>>
vars == <<poolVars, sessVars, regVars, job, sweeper, envVars>>

----------------------------------------------------------------------------
(* PostgreSQL, external: a session is idle, in a transaction block (which  *)
(* may hold one declared cursor), in an aborted block, or closed.          *)

Gone    == [txn |-> "gone",   cursor |-> None]
Idle    == [txn |-> "idle",   cursor |-> None]
Failed  == [txn |-> "failed", cursor |-> None]
Open(x) == [txn |-> "open",   cursor |-> x]

Session == [txn : {"gone", "idle", "failed", "open"}, cursor : Cursors \cup {None}]

\* A statement fails: an open block is aborted, nothing else changes.
AfterError(q) == IF q.txn = "open" THEN Failed ELSE q

\* ROLLBACK ends whatever block there is.
AfterRollback(q) == IF q.txn = "gone" THEN Gone ELSE Idle

\* `CLOSE "x"; COMMIT;` and `CLOSE "x"; ROLLBACK;` are one simple query: when
\* CLOSE fails the statement after it is not run.
AfterClose(q, x) == IF q.txn = "open" /\ q.cursor = x THEN Idle ELSE AfterError(q)

(* deadpool, external: dropping an Object returns the client to its pool,  *)
(* or closes it when the pool was closed meanwhile.  RecyclingMethod::Fast *)
(* leaves the session as it is.                                            *)

Release(s, q) ==
    /\ avail' = IF PoolOf(s) \in shut THEN avail ELSE avail \cup {s}
    /\ sess' = [sess EXCEPT ![s] = IF PoolOf(s) \in shut THEN Gone ELSE q]

\* Pool::close for a set of pools: the clients at rest in them are dropped.
ShutPools(ps) ==
    /\ shut' = shut \cup ps
    /\ avail' = {s \in avail : PoolOf(s) \notin ps}
    /\ sess' = [s \in Clients |-> IF s \in avail /\ PoolOf(s) \in ps THEN Gone ELSE sess[s]]

----------------------------------------------------------------------------
NoJob == [pc |-> "idle", conn |-> None, pool |-> None, hand |-> None,
          cur |-> None, drained |-> {}, mode |-> "none"]

PCs == {"idle", "checkout", "opened", "stash", "commit", "rollback", "register",
        "take", "fetching", "touch", "lookup", "reading", "probe",
        "drain", "cleanup", "evict", "unsave"}

Modes == {"none", "open", "resolve", "disconnect", "update", "delete"}

Job == [pc      : PCs,                      \* where the command awaits
        conn    : Conns \cup {None},        \* its connection
        pool    : Pools \cup {None},        \* the Pool handle it cloned
        hand    : Clients \cup {None},      \* the client it checked out
        cur     : Cursors \cup {None},      \* its cursor id, or the CursorState it took
        drained : SUBSET Cursors,           \* CursorStates drain_for_conn returned
        mode    : Modes]                    \* which command, where several share steps

TypeOK ==
    /\ saved \subseteq Conns
    /\ registry \in [Conns -> Pools \cup {None}]
    /\ built \in [Conns -> 0..MaxPools]
    /\ shut \subseteq Pools
    /\ avail \subseteq Clients
    /\ sess \in [Clients -> Session]
    /\ inner \subseteq Cursors
    /\ finished \subseteq Cursors
    /\ aged \subseteq inner \cup finished
    /\ client \in [Cursors -> Clients \cup {None}]
    /\ home \in [Cursors -> Pools \cup {None}]
    /\ missed \subseteq Cursors
    /\ job \in [Tasks -> Job]
    /\ sweeper \in [pc : {"tick", "sweep"}, drained : SUBSET Cursors]
    /\ losses \in 0..MaxLosses
    /\ away \in BOOLEAN

Init ==
    /\ saved = Conns
    /\ registry = [c \in Conns |-> None]
    /\ built = [c \in Conns |-> 0]
    /\ shut = {}
    /\ avail = {}
    /\ sess = [s \in Clients |-> Gone]
    /\ inner = {} /\ finished = {} /\ aged = {} /\ missed = {}
    /\ client = [x \in Cursors |-> None]
    /\ home = [x \in Cursors |-> None]
    /\ job = [t \in Tasks |-> NoJob]
    /\ sweeper = [pc |-> "tick", drained |-> {}]
    /\ losses = 0
    /\ away = FALSE

At(t, l) == job[t].pc = l
Go(t, l) == job' = [job EXCEPT ![t].pc = l]
Done(t)  == job' = [job EXCEPT ![t] = NoJob]

\* The user issues a command on a task that runs none.
Start(t, j) ==
    /\ ~away
    /\ At(t, "idle")
    /\ job' = [job EXCEPT ![t] = j]

\* Cursor ids an open has returned: what the frontend can name.
Issued == {x \in Cursors : /\ home[x] # None
                           /\ ~\E t \in Tasks : job[t].mode = "open" /\ job[t].cur = x}

\* Cursor ids whose CursorState was dropped.
Dropped == {x \in Cursors : home[x] # None /\ client[x] = None}

----------------------------------------------------------------------------
(* query_open_cursor.                                                      *)

\* require_pool: NotConnected unless a pool is registered.
OpenStart(t, c) ==
    /\ registry[c] # None
    /\ Start(t, [NoJob EXCEPT !.pc = "checkout", !.mode = "open",
                 !.conn = c, !.pool = registry[c]])
    /\ UNCHANGED <<poolVars, sessVars, regVars, sweeper, envVars>>

\* pool.get(): waits, with no timeout, until the pool has a client to hand
\* out.  A dead client is replaced by a fresh connection.
Checkout(t) ==
    \E from \in {"checkout", "lookup"}, s \in avail :
        /\ At(t, from)
        /\ PoolOf(s) = job[t].pool
        /\ avail' = avail \ {s}
        /\ sess' = [sess EXCEPT ![s] = IF @.txn = "gone" THEN Idle ELSE @]
        /\ job' = [job EXCEPT ![t].hand = s,
                              ![t].pc = IF from = "checkout" THEN "opened" ELSE "reading"]
        /\ UNCHANGED <<poolVars, regVars, sweeper, envVars>>

\* pool.get() on a closed pool, or when the connection that would replace a dead client is
\* not opened: PoolError.
CheckoutFails(t) ==
    /\ job[t].pc \in {"checkout", "lookup"}
    /\ job[t].pool \in shut \/ \E s \in avail : PoolOf(s) = job[t].pool /\ sess[s].txn = "gone"
    /\ Done(t)
    /\ UNCHANGED <<poolVars, sessVars, regVars, sweeper, envVars>>

\* Path 1, no rowset: the statement is executed and the client returned.  A
\* hand-written BEGIN or COMMIT changes the session's transaction.
OpenInline(t) ==
    /\ At(t, "opened")
    /\ LET s == job[t].hand
           results == IF UserTxn THEN {Idle, Open(None)} ELSE {Idle}
       IN \E q \in results :
            /\ sess[s].txn \in {"idle", "open"} \/ (sess[s].txn = "failed" /\ UserTxn /\ q = Idle)
            /\ Release(s, q)
    /\ Done(t)
    /\ UNCHANGED <<poolVars, regVars, sweeper, envVars>>

\* prepare, execute, BEGIN; DECLARE or the first FETCH fails: `?` drops the
\* client as it is.  DECLARE and FETCH fail inside the block BEGIN opened.
OpenFails(t) ==
    /\ At(t, "opened")
    /\ LET s == job[t].hand
       IN \E q \in {AfterError(sess[s])} \cup (IF sess[s].txn = "idle" THEN {Failed} ELSE {}) :
            Release(s, q)
    /\ Done(t)
    /\ UNCHANGED <<poolVars, regVars, sweeper, envVars>>

OpenRowsKeepsClient(t, x) ==
    /\ At(t, "opened")
    /\ home[x] = None
    /\ sess[job[t].hand].txn \in {"idle", "open"}
    /\ sess' = [sess EXCEPT ![job[t].hand] = Open(x)]
    /\ client' = [client EXCEPT ![x] = job[t].hand]
    /\ home' = [home EXCEPT ![x] = job[t].pool]
    /\ job' = [job EXCEPT ![t].pc = "register", ![t].cur = x]
    /\ UNCHANGED <<poolVars, avail, inner, finished, aged, missed, sweeper, envVars>>

\* Path 2, rowset: BEGIN; DECLARE; FETCH FORWARD 1000.  A short page finishes
\* the cursor, a full one registers it.
OpenRows(t, x) ==
    /\ At(t, "opened")
    /\ home[x] = None
    /\ LET s == job[t].hand
       IN /\ sess[s].txn \in {"idle", "open"}
          /\ sess' = [sess EXCEPT ![s] = Open(x)]
          /\ client' = [client EXCEPT ![x] = s]
    /\ home' = [home EXCEPT ![x] = job[t].pool]
    /\ \E next \in {"stash", "register"} :
         job' = [job EXCEPT ![t].pc = next, ![t].hand = None, ![t].cur = x]
    /\ UNCHANGED <<poolVars, avail, inner, finished, aged, missed, sweeper, envVars>>

StashThenRegister(t) ==
    /\ At(t, "stash")
    /\ finished' = finished \cup {job[t].cur}
    /\ Go(t, "register")
    /\ UNCHANGED <<poolVars, sessVars, inner, aged, client, home, missed, sweeper, envVars>>

\* insert_finished.
Stash(t) ==
    /\ At(t, "stash")
    /\ finished' = finished \cup {job[t].cur}
    /\ Go(t, "commit")
    /\ UNCHANGED <<poolVars, sessVars, inner, aged, client, home, missed, sweeper, envVars>>

\* The CursorState x is dropped, its client going back in session state q.
DropState(x, q) ==
    /\ Release(client[x], q)
    /\ client' = [client EXCEPT ![x] = None]
    /\ missed' = missed \ {x}

TakeOutKeepsAge(xs) == inner' = inner \ xs /\ UNCHANGED aged

\* The states in xs leave the registry; their last_fetch_at goes with them.
TakeOut(xs) ==
    /\ inner' = inner \ xs
    /\ aged' = aged \ (xs \cap inner)

CommitSkipped(t) ==
    /\ At(t, "commit")
    /\ DropState(job[t].cur, sess[client[job[t].cur]])
    /\ Done(t)
    /\ UNCHANGED <<poolVars, inner, finished, aged, home, sweeper, envVars>>

\* `CLOSE "x"; COMMIT;`, the result ignored; then the state is dropped.
Commit(t) ==
    /\ At(t, "commit")
    /\ LET x == job[t].cur IN DropState(x, AfterClose(sess[client[x]], x))
    /\ Done(t)
    /\ UNCHANGED <<poolVars, inner, finished, aged, home, sweeper, envVars>>

\* CursorRegistry::insert, from an open, a fetch or jsonb_resolve_row_key.
Register(t) ==
    /\ At(t, "register")
    /\ inner' = inner \cup {job[t].cur}
    /\ IF job[t].mode = "resolve"
       THEN job' = [job EXCEPT ![t].pc = "lookup", ![t].cur = None]
       ELSE Done(t)
    /\ UNCHANGED <<poolVars, sessVars, finished, aged, client, home, missed, sweeper, envVars>>

----------------------------------------------------------------------------
(* query_fetch_page, query_close_cursor, query_cancel.                     *)

\* CursorRegistry::touch.
FetchStart(t, x) ==
    /\ x \in Issued
    /\ Start(t, [NoJob EXCEPT !.pc = "take", !.cur = x])
    /\ aged' = IF x \in inner THEN aged \ {x} ELSE aged
    /\ UNCHANGED <<poolVars, sessVars, inner, finished, client, home, missed, sweeper, envVars>>

FetchPeek(t) ==
    /\ At(t, "take")
    /\ IF job[t].cur \in inner THEN Go(t, "fetching") ELSE Done(t)
    /\ UNCHANGED <<poolVars, sessVars, regVars, sweeper, envVars>>

\* CursorRegistry::take; CursorNotFound when the id is not registered.
FetchTake(t) ==
    /\ At(t, "take")
    /\ IF job[t].cur \in inner THEN Go(t, "fetching") ELSE Done(t)
    /\ TakeOut({job[t].cur})
    /\ UNCHANGED <<poolVars, sessVars, finished, client, home, missed, sweeper, envVars>>

FetchFailsRegisters(t) ==
    /\ At(t, "fetching")
    /\ LET s == client[job[t].cur] IN sess' = [sess EXCEPT ![s] = AfterError(@)]
    /\ Go(t, "register")
    /\ UNCHANGED <<poolVars, avail, regVars, sweeper, envVars>>

\* FETCH fails: `?` drops the state, and nobody issues ROLLBACK.
FetchFails(t) ==
    /\ At(t, "fetching")
    /\ LET x == job[t].cur IN DropState(x, AfterError(sess[client[x]]))
    /\ Done(t)
    /\ UNCHANGED <<poolVars, inner, finished, aged, home, sweeper, envVars>>

\* FETCH returns a short page (finished) or a full one (registered again).
FetchRows(t) ==
    /\ At(t, "fetching")
    /\ sess[client[job[t].cur]] = Open(job[t].cur)
    /\ \E next \in {"stash", "register"} : Go(t, next)
    /\ UNCHANGED <<poolVars, sessVars, regVars, sweeper, envVars>>

InFetch(x) == \E t \in Tasks : At(t, "fetching") /\ job[t].cur = x

\* Take the state out and end it as `next` says, or return Ok at once.
EndCursor(t, x, next) ==
    /\ x \in Issued
    /\ IF x \in inner
       THEN /\ Start(t, [NoJob EXCEPT !.pc = next, !.cur = x])
            /\ TakeOut({x})
            /\ UNCHANGED missed
       ELSE /\ ~away /\ At(t, "idle")
            /\ missed' = IF next = "rollback" THEN missed \cup {y \in {x} : InFetch(y)} ELSE missed
            /\ UNCHANGED <<job, inner, aged>>
    /\ UNCHANGED <<poolVars, sessVars, finished, client, home, sweeper, envVars>>

CloseCursor(t, x) == EndCursor(t, x, "commit")

Cancel(t, x) == EndCursor(t, x, "rollback")

\* query_cancel: the cancel request and the ROLLBACK after it, one step since nobody else
\* reaches the client.  A signal so late that it meets the ROLLBACK, or the next user of the
\* client, is left out.
Rollback(t) ==
    /\ At(t, "rollback")
    /\ LET x == job[t].cur IN DropState(x, AfterRollback(sess[client[x]]))
    /\ Done(t)
    /\ UNCHANGED <<poolVars, inner, finished, aged, home, sweeper, envVars>>

(* jsonb_resolve_row_key: snapshot a registered state (taking it out and    *)
(* putting it back) or a finished one, then run a catalog query.           *)

ResolveStart(t, c, x) ==
    /\ x \in Issued
    /\ registry[c] # None
    /\ Start(t, [NoJob EXCEPT !.conn = c, !.pool = registry[c], !.mode = "resolve",
                 !.pc = IF x \in inner THEN "register" ELSE "touch", !.cur = x])
    /\ TakeOut({x})
    /\ UNCHANGED <<poolVars, sessVars, finished, client, home, missed, sweeper, envVars>>

\* get_finished bumps last_access; CursorNotFound when there is no metadata.
ResolveFinished(t) ==
    /\ At(t, "touch")
    /\ IF job[t].cur \in finished
       THEN /\ aged' = aged \ {job[t].cur}
            /\ job' = [job EXCEPT ![t].pc = "lookup", ![t].cur = None]
       ELSE Done(t) /\ UNCHANGED aged
    /\ UNCHANGED <<poolVars, sessVars, inner, finished, client, home, missed, sweeper, envVars>>

\* No or several base tables: read-only, no catalog query.
ResolveReadOnly(t) ==
    /\ At(t, "lookup")
    /\ Done(t)
    /\ UNCHANGED <<poolVars, sessVars, regVars, sweeper, envVars>>

\* The catalog query, which may fail.
ResolveRead(t) ==
    /\ At(t, "reading")
    /\ LET s == job[t].hand
       IN \E q \in {sess[s], AfterError(sess[s])} : Release(s, q)
    /\ Done(t)
    /\ UNCHANGED <<poolVars, regVars, sweeper, envVars>>

----------------------------------------------------------------------------
(* Connection lifecycle.                                                   *)

\* connection_connect: read the row, build a pool, probe it.
ConnectStart(t, c) ==
    /\ c \in saved
    /\ built[c] < MaxPools
    /\ LET p == <<c, built[c] + 1>>
       IN /\ Start(t, [NoJob EXCEPT !.pc = "probe", !.conn = c, !.pool = p])
          /\ avail' = avail \cup ClientsOf(p)
    /\ built' = [built EXCEPT ![c] = @ + 1]
    /\ UNCHANGED <<saved, registry, shut, sess, regVars, sweeper, envVars>>

ConnectKeepsOld(t) ==
    /\ At(t, "probe")
    /\ registry' = [registry EXCEPT ![job[t].conn] = job[t].pool]
    /\ Done(t)
    /\ UNCHANGED <<saved, built, shut, sessVars, regVars, sweeper, envVars>>

\* The probe succeeds: PoolRegistry::insert replaces and closes the old pool.
ConnectOk(t) ==
    /\ At(t, "probe")
    /\ LET c == job[t].conn
       IN /\ registry' = [registry EXCEPT ![c] = job[t].pool]
          /\ ShutPools({registry[c]} \ {None})
    /\ Done(t)
    /\ UNCHANGED <<saved, built, regVars, sweeper, envVars>>

\* The probe fails or times out: the pool is closed and never registered.
ConnectFails(t) ==
    /\ At(t, "probe")
    /\ ShutPools({job[t].pool})
    /\ Done(t)
    /\ UNCHANGED <<saved, registry, built, regVars, sweeper, envVars>>

\* disconnect and delete clean the cursors up first, an update that changes
\* the target evicts the pool first.
LifecycleStart(t, c, m) ==
    /\ m = "update" => c \in saved
    /\ Start(t, [NoJob EXCEPT !.pc = IF m = "update" THEN "evict" ELSE "drain",
                              !.conn = c, !.mode = m])
    /\ UNCHANGED <<poolVars, sessVars, regVars, sweeper, envVars>>

OfConn(c) == {x \in Cursors : home[x] # None /\ ConnOf(home[x]) = c}

\* drain_for_conn.
Drain(t) ==
    /\ At(t, "drain")
    /\ LET xs == inner \cap OfConn(job[t].conn)
       IN /\ job' = [job EXCEPT ![t].drained = xs, ![t].pc = "cleanup"]
          /\ TakeOut(xs)
    /\ UNCHANGED <<poolVars, sessVars, finished, client, home, missed, sweeper, envVars>>

\* `CLOSE "x"; ROLLBACK;` on one drained state.
Cleanup(t, x) ==
    /\ At(t, "cleanup")
    /\ x \in job[t].drained
    /\ DropState(x, AfterClose(sess[client[x]], x))
    /\ job' = [job EXCEPT ![t].drained = @ \ {x}]
    /\ UNCHANGED <<poolVars, inner, finished, aged, home, sweeper, envVars>>

\* cleanup_finished_for_conn.
Tidy(t) ==
    /\ At(t, "cleanup")
    /\ job[t].drained = {}
    /\ finished' = finished \ OfConn(job[t].conn)
    /\ aged' = aged \ (finished \ finished')
    /\ IF job[t].mode = "update" THEN Done(t) ELSE Go(t, "evict")
    /\ UNCHANGED <<poolVars, sessVars, inner, client, home, missed, sweeper, envVars>>

\* PoolRegistry::evict.
Evict(t) ==
    /\ At(t, "evict")
    /\ LET c == job[t].conn
       IN /\ registry' = [registry EXCEPT ![c] = None]
          /\ ShutPools({registry[c]} \ {None})
    /\ CASE job[t].mode = "disconnect" -> Done(t)
         [] job[t].mode = "update"     -> Go(t, "drain")
         [] job[t].mode = "delete"     -> Go(t, "unsave")
    /\ UNCHANGED <<saved, built, regVars, sweeper, envVars>>

\* Store::delete.
Unsave(t) ==
    /\ At(t, "unsave")
    /\ saved' = saved \ {job[t].conn}
    /\ Done(t)
    /\ UNCHANGED <<registry, built, shut, sessVars, regVars, sweeper, envVars>>

----------------------------------------------------------------------------
(* The sweeper: drain_idle, end each drained state, drain_idle_finished.   *)

SweepDrainCopies ==
    /\ sweeper.pc = "tick"
    /\ sweeper' = [pc |-> "sweep", drained |-> inner \cap aged]
    /\ UNCHANGED <<poolVars, sessVars, regVars, job, envVars>>

SweepDrain ==
    /\ sweeper.pc = "tick"
    /\ sweeper' = [pc |-> "sweep", drained |-> inner \cap aged]
    /\ TakeOut(aged)
    /\ UNCHANGED <<poolVars, sessVars, finished, client, home, missed, job, envVars>>

SweepOne(x) ==
    /\ sweeper.pc = "sweep"
    /\ x \in sweeper.drained
    /\ DropState(x, AfterClose(sess[client[x]], x))
    /\ sweeper' = [sweeper EXCEPT !.drained = @ \ {x}]
    /\ UNCHANGED <<poolVars, inner, finished, aged, home, job, envVars>>

SweepKeepsFinished ==
    /\ sweeper.pc = "sweep"
    /\ sweeper.drained = {}
    /\ sweeper' = [sweeper EXCEPT !.pc = "tick"]
    /\ UNCHANGED <<poolVars, sessVars, regVars, job, envVars>>

SweepFinished ==
    /\ sweeper.pc = "sweep"
    /\ sweeper.drained = {}
    /\ finished' = finished \ aged
    /\ aged' = aged \ finished
    /\ sweeper' = [sweeper EXCEPT !.pc = "tick"]
    /\ UNCHANGED <<poolVars, sessVars, inner, client, home, missed, job, envVars>>

----------------------------------------------------------------------------
(* The environment.                                                        *)

\* IDLE_TIMEOUT passes since the last use of x.
Age(x) ==
    /\ x \in (inner \cup finished) \ aged
    /\ aged' = aged \cup {x}
    /\ UNCHANGED <<poolVars, sessVars, inner, finished, client, home, missed, job, sweeper, envVars>>

\* The server ends a session (restart, network, administrator).
LoseSession(s) ==
    /\ losses < MaxLosses
    /\ sess[s].txn # "gone"
    /\ sess' = [sess EXCEPT ![s] = Gone]
    /\ losses' = losses + 1
    /\ UNCHANGED <<poolVars, avail, regVars, job, sweeper, away>>

WalkAway ==
    /\ MayLeave /\ ~away
    /\ away' = TRUE
    /\ UNCHANGED <<poolVars, sessVars, regVars, job, sweeper, losses>>

----------------------------------------------------------------------------
UserCommand(t) ==
    \/ \E c \in Conns : OpenStart(t, c) \/ ConnectStart(t, c)
    \/ \E c \in Conns, m \in {"disconnect", "update", "delete"} : LifecycleStart(t, c, m)
    \/ \E x \in Cursors : FetchStart(t, x) \/ CloseCursor(t, x) \/ Cancel(t, x)
    \/ \E c \in Conns, x \in Cursors : ResolveStart(t, c, x)

\* The steps a running command takes once the server or a lock answers.
Proceed(t) ==
    \/ CheckoutFails(t) \/ OpenInline(t) \/ OpenFails(t)
    \/ \E x \in Cursors : OpenRows(t, x) \/ Cleanup(t, x)
    \/ Stash(t) \/ Commit(t) \/ Rollback(t) \/ Register(t)
    \/ FetchTake(t) \/ FetchFails(t) \/ FetchRows(t)
    \/ ResolveFinished(t) \/ ResolveReadOnly(t) \/ ResolveRead(t)
    \/ ConnectOk(t) \/ ConnectFails(t)
    \/ Drain(t) \/ Tidy(t) \/ Evict(t) \/ Unsave(t)

Sweep == SweepDrain \/ SweepFinished \/ \E x \in Cursors : SweepOne(x)

Next ==
    \/ \E t \in Tasks : UserCommand(t) \/ Checkout(t) \/ Proceed(t)
    \/ Sweep
    \/ \E x \in Cursors : Age(x)
    \/ \E s \in Clients : LoseSession(s)
    \/ WalkAway

Spec == Init /\ [][Next]_vars

\* Every await is answered; deadpool hands clients out in request order; the
\* sweeper ticks for ever; time passes.
Fairness ==
    /\ \A t \in Tasks : WF_vars(Proceed(t)) /\ SF_vars(Checkout(t))
    /\ WF_vars(Sweep)
    /\ \A x \in Cursors : WF_vars(Age(x))

FairSpec == Spec /\ Fairness

----------------------------------------------------------------------------
(* Properties.                                                             *)

\* The CursorStates a task owns: the one it works on, and those it drained.
Owning == {"stash", "commit", "rollback", "fetching", "register"}

Owned(t) ==
    job[t].drained \cup
    (IF job[t].pc \in Owning THEN {job[t].cur} ELSE {})

\* Every live CursorState has exactly one owner: the registry, one command or
\* the sweeper.  take, re-insert, drain_for_conn and drain_idle may interleave
\* in any order without two of them ending the same cursor.
SingleOwner ==
    \A x \in Cursors :
        /\ client[x] # None <=> \/ x \in inner \cup sweeper.drained
                               \/ \E t \in Tasks : x \in Owned(t)
        /\ x \in inner => x \notin sweeper.drained
        /\ \A t \in Tasks :
             x \in Owned(t) => /\ x \notin inner \cup sweeper.drained
                              /\ \A u \in Tasks \ {t} : x \notin Owned(u)

\* No two users of the program ever share a client: it rests in its pool, or
\* one command holds it, or one CursorState owns it.
ClientExclusive ==
    \A s \in Clients :
        /\ \A x, y \in Cursors : client[x] = s /\ client[y] = s => x = y
        /\ \A t, u \in Tasks : job[t].hand = s /\ job[u].hand = s => t = u
        /\ \A x \in Cursors, t \in Tasks : ~(client[x] = s /\ job[t].hand = s)
        /\ s \in avail => /\ \A x \in Cursors : client[x] # s
                         /\ \A t \in Tasks : job[t].hand # s

\* A live CursorState can be fetched from: its client is still inside the
\* transaction that declared it, unless the server ended the session.
CursorUsable ==
    \A x \in Cursors : client[x] # None => sess[client[x]] \in {Open(x), Gone}

\* No transaction with a declared cursor is ever orphaned: the state that must
\* close it still owns its client, so some command or the sweeper ends it.
OpenCursorOwned ==
    \A s \in Clients : sess[s].cursor # None => client[sess[s].cursor] = s

\* Finished metadata never coexists with a registered state of the same id
\* (jsonb_resolve_row_key looks in both).
FinishedIsOver == finished \cap inner = {}

\* A registered pool is open, and a pool that is neither registered nor being
\* probed was closed: reconnects, evictions and failed probes leak no pool.
PoolsAccountedFor ==
    \A p \in Pools :
        /\ registry[ConnOf(p)] = p => p \notin shut
        /\ p[2] <= built[ConnOf(p)] /\ p \notin shut =>
             \/ registry[ConnOf(p)] = p
             \/ \E t \in Tasks : At(t, "probe") /\ job[t].pool = p

\* An open pool has lost no client: each of its max_size slots is at rest in it,
\* in the hand of a command or with a live CursorState, whichever `?` was taken.
ClientsAccountedFor ==
    \A s \in Clients :
        LET p == PoolOf(s)
        IN  p[2] <= built[ConnOf(p)] /\ p \notin shut =>
              \/ s \in avail
              \/ \E x \in Cursors : client[x] = s
              \/ \E t \in Tasks : job[t].hand = s

\* Neither pools nor their clients leak.
NothingLeaks == PoolsAccountedFor /\ ClientsAccountedFor

\* A cursor that was given up never comes back under any interleaving of a
\* late re-insert with close, cancel, cleanup or sweep.
DeadStaysDead ==
    [][Dropped \subseteq Dropped' /\ Dropped' \cap inner' = {}]_vars

\* Where the CursorState of an id is: in the registry, or with whoever took it.
Place(x) ==
    IF home[x] = None THEN "unborn"
    ELSE IF client[x] = None THEN "over"
    ELSE IF x \in inner THEN "parked" ELSE "out"

\* Ids whose cursor some server session has declared.
Declared == {x \in Cursors : \E s \in Clients : sess[s].cursor = x}

Lease == INSTANCE CursorLease
    WITH Leases <- Cursors, Lenders <- Clients, lent <- client, declared <- Declared,
         place <- [x \in Cursors |-> Place(x)]

\* open, fetch, close, cancel, the lifecycle hooks and the sweeper implement a
\* lease: whatever overlaps, a cursor is ended once, by a command that took it
\* out first, never changes its client on the way in and out of the registry,
\* and takes its transaction with it.
CursorLeases == Lease!LeaseSpec

\* Once the user walks away every cursor, its transaction and its metadata are
\* given up, and no command is left waiting for a client of a full pool.
Released == /\ \A s \in Clients : sess[s].cursor = None
            /\ inner = {} /\ finished = {}
            /\ \A t \in Tasks : job[t] = NoJob

WalkAwayReleases == [](away => <>[]Released)

----------------------------------------------------------------------------
(* What the comments of the code promise and the code does not keep.       *)

\* cursor.rs:15-18: a CursorState is closed before it is dropped, so that the
\* pool never hands out a client whose old transaction is still open.
IdleClientClean == \A s \in avail : sess[s].txn \in {"idle", "gone"}

\* query_cancel: cancelling interrupts a fetch in flight, so that no cursor the
\* user cancelled is registered again.
NoMissedCursorReturns == missed \cap inner = {}

=============================================================================
