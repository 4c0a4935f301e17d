----------------------------- MODULE EditorRun -----------------------------
(***************************************************************************)
(* The editor store's side of a query: Run, fetchMore, Cancel, closing a   *)
(* tab, switching its connection, switching the sub-tab of a batch.        *)
(*                                                                         *)
(* A store action is synchronous between two awaits.  Its invoke() calls   *)
(* run on the backend in any order and their answers land in any order, on *)
(* a store that may have moved on.  A result is named by its run: the      *)
(* backend cursor of run r is r, and row block <<r, n>> is its page n.     *)
(* Sorting, cell patches and column layout keep the rows and are left out. *)
(* The statuses error and cancelled differ in what the panel says, not in  *)
(* what an action does: both are "stopped" here.                           *)
(*                                                                         *)
(* Source: src/features/editor/store.ts.  The backend is reduced to what   *)
(* an invoke observes of CursorPool.                                       *)
(***************************************************************************)
EXTENDS Naturals, Sequences, FiniteSets, SequencesExt

CONSTANTS
    Tabs, Conns,
    Runs,       \* runs and, by the same names, backend cursors
    MaxPages,   \* bound: pages of one result
    MaxFetches, \* bound: fetches of a tab under way at once
    Replies,    \* what the statements of a batch can come to
    None

Outcomes == {"rows", "cursor", "page", "dml", "error"}

ASSUME EditorAssumption ==
    /\ None \notin Conns \cup Runs \cup Tabs
    /\ MaxPages \in Nat \ {0, 1} /\ MaxFetches \in Nat \ {0}
    /\ Replies \subseteq Seq(Outcomes) \ {<<>>}

VARIABLES
    tabs,       \* open editor tabs
    conn,       \* connectionId of each tab
    runStates,  \* what the result panel of each tab shows
    batches,    \* batchRunStates: the results of the tab's last batch, <<>> when not ready
    runs,       \* runQuery activations
    fetching,   \* query_fetch_page calls of each tab whose answer has not landed
    closing,    \* cursors with a query_close_cursor or query_cancel under way
    server,     \* backend state of each cursor
    fetched,    \* pages the server has handed out of each cursor
    disturbed   \* history: tabs the user acted on while a call of theirs was under way

vars == <<tabs, conn, runStates, batches, runs, fetching, closing, server, fetched, disturbed>>

----------------------------------------------------------------------------
(* Run states.                                                             *)

Plain(status) == [status |-> status, cursor |-> None, rows |-> <<>>,
                  exhausted |-> TRUE, prefetching |-> FALSE]

Streaming(c, rows, exhausted) ==
    [status |-> "streaming", cursor |-> c, rows |-> rows,
     exhausted |-> exhausted, prefetching |-> FALSE]

\* mapStatementToRunState: rows of a statement that is not the last (block 0), a
\* cursor with more pages, the only page of one, no rowset, a failure.
MapStatement(r, kind) ==
    CASE kind = "rows"   -> Streaming(None, <<<<r, 0>>>>, TRUE)
      [] kind = "cursor" -> Streaming(r, <<<<r, 1>>>>, FALSE)
      [] kind = "page"   -> Streaming(r, <<<<r, 1>>>>, TRUE)
      [] kind = "dml"    -> Streaming(None, <<>>, TRUE)
      [] kind = "error"  -> Plain("stopped")

NewRun  == [pc |-> "new", tab |-> None, conn |-> None, reply |-> <<>>]
Sent(c) == [cursor |-> c, st |-> "sent", page |-> 0, last |-> FALSE]

Pages == Runs \X (0..MaxPages)

RunStateOK(q) ==
    /\ q.status \in {"idle", "opening", "streaming", "stopped"}
    /\ q.cursor \in Runs \cup {None}
    /\ Range(q.rows) \subseteq Pages
    /\ q.status # "streaming" => q = Plain(q.status)
    /\ q.prefetching => ~q.exhausted

TypeOK ==
    /\ tabs \subseteq Tabs
    /\ conn \in [Tabs -> Conns \cup {None}]
    /\ \A t \in Tabs :
         /\ RunStateOK(runStates[t])
         /\ \A q \in Range(batches[t]) : RunStateOK(q) /\ ~q.prefetching
         /\ \A k \in Range(fetching[t]) :
              /\ k.cursor \in Runs
              /\ k.st \in {"sent", "working", "page", "failed"}
              /\ k.page \in 0..MaxPages
    /\ \A r \in Runs :
         /\ runs[r].pc \in {"new", "preflight", "sent", "answered", "over"}
         /\ runs[r].pc # "new" => runs[r].tab \in Tabs /\ runs[r].conn \in Conns
    /\ closing \subseteq Runs
    /\ server \in [Runs -> {"none", "open", "taken", "ended"}]
    /\ fetched \in [Runs -> 0..MaxPages]
    /\ disturbed \subseteq Tabs

Init ==
    /\ tabs = Tabs
    /\ conn \in [Tabs -> Conns]
    /\ runStates = [t \in Tabs |-> Plain("idle")]
    /\ batches = [t \in Tabs |-> <<>>]
    /\ runs = [r \in Runs |-> NewRun]
    /\ fetching = [t \in Tabs |-> <<>>]
    /\ closing = {}
    /\ server = [r \in Runs |-> "none"]
    /\ fetched = [r \in Runs |-> 0]
    /\ disturbed = {}

----------------------------------------------------------------------------
(* Helpers.                                                                *)

Busy(t) == fetching[t] # <<>> \/
           \E r \in Runs : runs[r].tab = t /\ runs[r].pc \in {"preflight", "sent", "answered"}

\* History: the user acts on t, or a run of t drops a result it did not close.
Disturb(t, when) == disturbed' = IF when THEN disturbed \cup {t} ELSE disturbed

\* The cursor a closing tab, a switching tab or a new run closes.
CursorOf(t) == IF runStates[t].status = "streaming" /\ runStates[t].cursor # None
               THEN {runStates[t].cursor} ELSE {}

Backend == <<server, fetched>>

----------------------------------------------------------------------------
(* Store actions up to their first await.                                  *)

\* runQuery: resolve the statements, then await the preflights.
RunQuery(t, r) ==
    /\ t \in tabs /\ runs[r].pc = "new"
    /\ IF conn[t] = None
       THEN /\ runStates' = [runStates EXCEPT ![t] = Plain("stopped")]
            /\ UNCHANGED <<runs, disturbed>>
       ELSE /\ runs' = [runs EXCEPT ![r] = [@ EXCEPT !.pc = "preflight", !.tab = t, !.conn = conn[t]]]
            /\ Disturb(t, Busy(t))
            /\ UNCHANGED runStates
    /\ UNCHANGED <<tabs, conn, batches, fetching, closing, Backend>>

FetchMoreUnguarded(t) ==
    /\ t \in tabs
    /\ runStates[t].status = "streaming" /\ ~runStates[t].exhausted
    /\ runStates[t].cursor # None
    /\ Len(fetching[t]) < MaxFetches
    /\ runStates' = [runStates EXCEPT ![t].prefetching = TRUE]
    /\ fetching' = [fetching EXCEPT ![t] = Append(@, Sent(runStates[t].cursor))]
    /\ Disturb(t, \E r \in Runs : runs[r].tab = t /\ runs[r].pc \in {"preflight", "sent", "answered"})
    /\ UNCHANGED <<tabs, conn, batches, runs, closing, Backend>>

\* fetchMore: the grid nears the end of the loaded rows.
FetchMore(t) ==
    /\ t \in tabs
    /\ runStates[t].status = "streaming" /\ ~runStates[t].exhausted
    /\ ~runStates[t].prefetching /\ runStates[t].cursor # None
    /\ Len(fetching[t]) < MaxFetches
    /\ runStates' = [runStates EXCEPT ![t].prefetching = TRUE]
    /\ fetching' = [fetching EXCEPT ![t] = Append(@, Sent(runStates[t].cursor))]
    /\ Disturb(t, Busy(t))
    /\ UNCHANGED <<tabs, conn, batches, runs, closing, Backend>>

\* cancelRun: the button is there while a run opens or a page is on its way.
CancelRun(t) ==
    /\ t \in tabs
    /\ \/ /\ runStates[t].status = "opening"
          /\ runStates' = [runStates EXCEPT ![t] = Plain("stopped")]
          /\ UNCHANGED closing
       \/ /\ runStates[t].prefetching /\ runStates[t].cursor # None
          /\ closing' = closing \cup CursorOf(t)
          /\ runStates' = [runStates EXCEPT ![t] =
                [@ EXCEPT !.cursor = None, !.exhausted = TRUE, !.prefetching = FALSE]]
    /\ Disturb(t, Busy(t))
    /\ UNCHANGED <<tabs, conn, batches, runs, fetching, Backend>>

\* closeTab: batchRunStates keeps its entry.
CloseTab(t) ==
    /\ t \in tabs
    /\ tabs' = tabs \ {t}
    /\ closing' = closing \cup CursorOf(t)
    /\ runStates' = [runStates EXCEPT ![t] = Plain("idle")]
    /\ Disturb(t, Busy(t))
    /\ UNCHANGED <<conn, batches, runs, fetching, Backend>>

\* setTabConnection, by the user or by the toolbar's rebinding effect.
SetTabConnection(t, c) ==
    /\ t \in tabs /\ c # conn[t]
    /\ conn' = [conn EXCEPT ![t] = c]
    /\ closing' = closing \cup CursorOf(t)
    /\ runStates' = [runStates EXCEPT ![t] = Plain("idle")]
    /\ Disturb(t, Busy(t))
    /\ UNCHANGED <<tabs, batches, runs, fetching, Backend>>

\* setActiveBatchTab: the panel goes back to the statement's first page.
SetActiveBatchTab(t, i) ==
    /\ t \in tabs /\ i \in DOMAIN batches[t]
    /\ runStates' = [runStates EXCEPT ![t] = batches[t][i]]
    /\ Disturb(t, TRUE)
    /\ UNCHANGED <<tabs, conn, batches, runs, fetching, closing, Backend>>

----------------------------------------------------------------------------
(* What follows an await.                                                  *)

RunKeepsPrevious(r) ==
    LET t == runs[r].tab
    IN /\ runs[r].pc = "preflight"
       /\ runStates' = [runStates EXCEPT ![t] = Plain("opening")]
       /\ batches' = [batches EXCEPT ![t] = <<>>]
       /\ runs' = [runs EXCEPT ![r].pc = "sent"]
       /\ UNCHANGED <<tabs, conn, fetching, closing, Backend, disturbed>>

\* The preflights pass: close the previous cursor, show the spinner, send.
PreflightOk(r) ==
    LET t == runs[r].tab
    IN /\ runs[r].pc = "preflight"
       /\ closing' = closing \cup CursorOf(t)
       /\ runStates' = [runStates EXCEPT ![t] = Plain("opening")]
       /\ batches' = [batches EXCEPT ![t] = <<>>]
       /\ runs' = [runs EXCEPT ![r].pc = "sent"]
       /\ UNCHANGED <<tabs, conn, fetching, Backend, disturbed>>

\* A preflight blocks the run or the user declines it: the panel shows that,
\* and the previous result's cursor is not closed.
PreflightRefused(r) ==
    LET t == runs[r].tab
    IN /\ runs[r].pc = "preflight"
       /\ runStates' = [runStates EXCEPT ![t] = Plain("stopped")]
       /\ runs' = [runs EXCEPT ![r].pc = "over"]
       /\ Disturb(t, CursorOf(t) # {})
       /\ UNCHANGED <<tabs, conn, batches, fetching, closing, Backend>>

\* queryRunBatch resolves, or rejects (an empty reply).  Nothing compares the
\* reply with the run or the connection the tab has now.
LandRun(r) ==
    LET t == runs[r].tab
    IN /\ runs[r].pc = "answered"
       /\ runs' = [runs EXCEPT ![r].pc = "over", ![r].reply = <<>>]
       /\ IF t \in tabs
          THEN /\ runStates' = [runStates EXCEPT ![t] =
                     IF runs[r].reply = <<>> THEN Plain("stopped") ELSE Last(runs[r].reply)]
               /\ batches' = [batches EXCEPT ![t] = runs[r].reply]
          ELSE UNCHANGED <<runStates, batches>>
       /\ UNCHANGED <<tabs, conn, fetching, closing, Backend, disturbed>>

\* What fetchMore makes of answer k: it looks at the status only.
AfterFetch(q, k) ==
    IF k.st = "failed" THEN Plain("stopped")
    ELSE [q EXCEPT !.rows = Append(@, <<k.cursor, k.page>>), !.exhausted = k.last,
                   !.prefetching = FALSE, !.cursor = IF k.last THEN None ELSE @]

LandFetchKeepsSpinner(t, i) ==
    /\ i \in DOMAIN fetching[t] /\ fetching[t][i].st \notin {"sent", "working"}
    /\ fetching' = [fetching EXCEPT ![t] = RemoveAt(@, i)]
    /\ runStates' = IF runStates[t].status = "streaming" /\ fetching[t][i].st = "page"
                    THEN [runStates EXCEPT ![t] = AfterFetch(@, fetching[t][i])]
                    ELSE runStates
    /\ UNCHANGED <<tabs, conn, batches, runs, closing, Backend, disturbed>>

LandFetchUnchecked(t, i) ==
    /\ i \in DOMAIN fetching[t] /\ fetching[t][i].st \notin {"sent", "working"}
    /\ fetching' = [fetching EXCEPT ![t] = RemoveAt(@, i)]
    /\ runStates' = [runStates EXCEPT ![t] = AfterFetch(@, fetching[t][i])]
    /\ UNCHANGED <<tabs, conn, batches, runs, closing, Backend, disturbed>>

\* fetchMore resumes: the page or the failure goes to whatever streams now.
LandFetch(t, i) ==
    /\ i \in DOMAIN fetching[t] /\ fetching[t][i].st \notin {"sent", "working"}
    /\ fetching' = [fetching EXCEPT ![t] = RemoveAt(@, i)]
    /\ runStates' = IF runStates[t].status = "streaming"
                    THEN [runStates EXCEPT ![t] = AfterFetch(@, fetching[t][i])]
                    ELSE runStates
    /\ UNCHANGED <<tabs, conn, batches, runs, closing, Backend, disturbed>>

----------------------------------------------------------------------------
(* The backend, as far as an invoke observes it (CursorPool, BatchRun).    *)

\* query_run_batch: only its last statement can leave a cursor open.
ServeRun(r) ==
    /\ runs[r].pc = "sent"
    /\ \E reply \in Replies :
         /\ runs' = [runs EXCEPT ![r] = [@ EXCEPT !.pc = "answered",
                !.reply = [n \in DOMAIN reply |-> MapStatement(r, reply[n])]]]
         /\ server' = [server EXCEPT ![r] = IF Last(reply) = "cursor" THEN "open" ELSE @]
         /\ fetched' = [fetched EXCEPT ![r] = IF Last(reply) = "cursor" THEN 1 ELSE @]
    /\ UNCHANGED <<tabs, conn, runStates, batches, fetching, closing, disturbed>>

\* The invoke rejects: nothing ran, or nobody learns what ran.
RejectRun(r) ==
    /\ runs[r].pc = "sent"
    /\ runs' = [runs EXCEPT ![r].pc = "answered"]
    /\ UNCHANGED <<tabs, conn, runStates, batches, fetching, closing, Backend, disturbed>>

\* query_fetch_page takes the cursor out of the registry, or does not find it.
TakeFetch(t, i) ==
    /\ i \in DOMAIN fetching[t] /\ fetching[t][i].st = "sent"
    /\ LET c == fetching[t][i].cursor
       IN IF server[c] = "open"
          THEN /\ server' = [server EXCEPT ![c] = "taken"]
               /\ fetching' = [fetching EXCEPT ![t][i].st = "working"]
          ELSE /\ fetching' = [fetching EXCEPT ![t][i].st = "failed"]
               /\ UNCHANGED server
    /\ UNCHANGED <<tabs, conn, runStates, batches, runs, closing, fetched, disturbed>>

\* It answers with the next page and registers the cursor again unless the page
\* was the last, or it fails and the cursor is gone.
AnswerFetch(t, i) ==
    /\ i \in DOMAIN fetching[t] /\ fetching[t][i].st = "working"
    /\ LET c == fetching[t][i].cursor
       IN \/ \E last \in BOOLEAN :
               /\ fetched[c] < MaxPages /\ (fetched[c] + 1 = MaxPages => last)
               /\ fetched' = [fetched EXCEPT ![c] = @ + 1]
               /\ server' = [server EXCEPT ![c] = IF last THEN "ended" ELSE "open"]
               /\ fetching' = [fetching EXCEPT ![t][i] =
                     [@ EXCEPT !.st = "page", !.page = fetched[c] + 1, !.last = last]]
          \/ /\ server' = [server EXCEPT ![c] = "ended"]
             /\ fetching' = [fetching EXCEPT ![t][i].st = "failed"]
             /\ UNCHANGED fetched
    /\ UNCHANGED <<tabs, conn, runStates, batches, runs, closing, disturbed>>

\* query_close_cursor, query_cancel: without effect on a cursor a fetch has out.
Close(r) ==
    /\ r \in closing
    /\ closing' = closing \ {r}
    /\ server' = [server EXCEPT ![r] = IF @ = "open" THEN "ended" ELSE @]
    /\ UNCHANGED <<tabs, conn, runStates, batches, runs, fetching, fetched, disturbed>>

\* The idle sweeper, or the connection's end, takes a cursor away.
Expire(r) ==
    /\ server[r] = "open"
    /\ server' = [server EXCEPT ![r] = "ended"]
    /\ UNCHANGED <<tabs, conn, runStates, batches, runs, fetching, closing, fetched, disturbed>>

----------------------------------------------------------------------------

Calls(t) == DOMAIN fetching[t]

Answer(t) == \E i \in Calls(t) : TakeFetch(t, i) \/ AnswerFetch(t, i)
Land(t)   == \E i \in Calls(t) : LandFetch(t, i)

User(t) ==
    \/ \E r \in Runs : RunQuery(t, r)
    \/ FetchMore(t) \/ CancelRun(t) \/ CloseTab(t)
    \/ \E c \in Conns \cup {None} : SetTabConnection(t, c)
    \/ \E i \in DOMAIN batches[t] : SetActiveBatchTab(t, i)

Next ==
    \/ \E t \in Tabs : User(t) \/ Answer(t) \/ Land(t)
    \/ \E r \in Runs :
         \/ PreflightOk(r) \/ PreflightRefused(r) \/ ServeRun(r) \/ RejectRun(r)
         \/ LandRun(r) \/ Close(r) \/ Expire(r)

Spec == Init /\ [][Next]_vars

\* Every invoke is answered (CursorPool, BatchRun) and the event loop runs every
\* continuation.  Nothing is assumed of the user, the preflights or the sweeper.
Fairness ==
    /\ \A t \in Tabs : WF_vars(Answer(t)) /\ WF_vars(Land(t))
    /\ \A r \in Runs : WF_vars(ServeRun(r) \/ RejectRun(r)) /\ WF_vars(LandRun(r))

FairSpec == Spec /\ Fairness

----------------------------------------------------------------------------
(* Properties.                                                             *)

\* A closed tab shows no result: whatever answer lands late, the panel of a
\* closed tab never fills with rows nobody can see or release.
ClosedTabShowsNothing ==
    \A t \in Tabs \ tabs : runStates[t].status # "streaming"

\* The grid shows the first pages of one result of the tab's connection, in
\* order, none twice and none skipped, as long as the user does not act on the
\* tab while one of its calls is under way and does not switch sub-tabs.
GridIsPrefix ==
    \A t \in Tabs \ disturbed :
        LET rows == runStates[t].rows
        IN rows # <<>> => \E r \in Runs :
             /\ runs[r].tab = t /\ runs[r].conn = conn[t]
             /\ rows = <<<<r, 0>>>> \/ rows = [n \in 1..Len(rows) |-> <<r, n>>]

\* Under the same condition no cursor is left over: one that lives in the backend
\* is the one the tab shows, or is being closed, or its answer is on its way.
NoLeftoverUnlessDisturbed ==
    \A r \in Runs :
        server[r] \in {"open", "taken"} /\ runs[r].tab \notin disturbed =>
            \/ r \in closing \/ runs[r].pc = "answered"
            \/ runStates[runs[r].tab].cursor = r

\* The spinner of an open tab always stops, whatever is cancelled, lost, run
\* again or lands late meanwhile.
SpinnerEnds ==
    \A t \in Tabs :
        (runStates[t].status = "opening" \/ runStates[t].prefetching) ~>
            (t \notin tabs \/ ~(runStates[t].status = "opening" \/ runStates[t].prefetching))

\* What SpinnerEnds rests on: the spinner of an open tab stands for an answer that
\* is still owed to it, a run that was sent or a page that was asked for.
SpinnerIsOwedAnAnswer ==
    \A t \in tabs :
        /\ runStates[t].status = "opening" =>
              \E r \in Runs : runs[r].tab = t /\ runs[r].pc \in {"sent", "answered"}
        /\ runStates[t].prefetching => fetching[t] # <<>>

----------------------------------------------------------------------------
(* What the comments of store.ts promise and the code does not keep.       *)

\* store.ts:1631-1632: the leftover cursor of a previous run on the tab is closed
\* before a new one is opened, so that a tab never has two live cursors of which
\* none is being closed.
OneLiveCursorPerTab ==
    \A r, q \in Runs :
        /\ r # q /\ runs[r].tab = runs[q].tab
        /\ server[r] \in {"open", "taken"} /\ server[q] \in {"open", "taken"}
        => r \in closing \/ q \in closing

=============================================================================
