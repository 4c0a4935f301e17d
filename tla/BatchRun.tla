------------------------------ MODULE BatchRun ------------------------------
(***************************************************************************)
(* query_run_batch: the statements of one Run, on the clients of one pool. *)
(*                                                                         *)
(* A batch checks one client out and runs its statements on it in order.   *)
(* When cursor_for_last is set, as the editor always does, the last one    *)
(* goes to query_open_cursor instead, which checks out a client of its     *)
(* own.  The first failing statement ends the batch with a ROLLBACK.       *)
(* What users write in statements is kept as far as it moves transactions: *)
(* begin, commit, rollback, a write, a query, and one that fails.          *)
(*                                                                         *)
(* Source: src-tauri/src/query/batch.rs                                    *)
(***************************************************************************)
EXTENDS Naturals, Sequences, FiniteSets

CONSTANTS
    Batches,      \* the batches of one run of the program
    Clients,      \* the client slots of the pool (max_size is 4 in the code)
    Programs,     \* statement lists users run
    CursorFlags,  \* values of cursor_for_last in use
    None

Kinds == {"begin", "commit", "rollback", "write", "query", "bad"}

ASSUME BatchAssumption ==
    /\ Programs \subseteq Seq(Kinds) \ {<<>>}
    /\ CursorFlags \subseteq BOOLEAN
    /\ None \notin Clients

VARIABLES
    run,        \* run[b]: where batch b is, its statements and its clients
    avail,      \* clients at rest in the pool
    sess,       \* server session behind each client
    parked,     \* clients held by a registered cursor
    committed   \* writes that reached the database

vars == <<run, avail, sess, parked, committed>>

----------------------------------------------------------------------------
(* PostgreSQL, external.  A write is named by its batch and its index.     *)

Writes == Batches \X UNION {DOMAIN p : p \in Programs}

Idle    == [txn |-> "idle",   work |-> {}]
Open(w) == [txn |-> "open",   work |-> w]
Failed  == [txn |-> "failed", work |-> {}]

Session == [txn : {"idle", "open", "failed"}, work : SUBSET Writes]

Reply(ok, q, done) == [ok |-> ok, next |-> q, done |-> done]

AfterError(q) == IF q.txn = "idle" THEN Idle ELSE Failed

\* A statement that fails: by itself, or because its block is aborted already.
Aborts(k, q) == k = "bad" \/ (q.txn = "failed" /\ k \notin {"commit", "rollback"})

\* What statement k, as write w, makes of session q.
Execute(k, w, q) ==
    IF Aborts(k, q) THEN Reply(FALSE, AfterError(q), {})
    ELSE CASE k = "commit"   -> Reply(TRUE, Idle, q.work)
           [] k = "rollback" -> Reply(TRUE, Idle, {})
           [] k = "begin"    -> Reply(TRUE, Open(q.work), {})
           [] k = "query"    -> Reply(TRUE, q, {})
           [] k = "write"    -> IF q.txn = "open" THEN Reply(TRUE, Open(q.work \cup {w}), {})
                                                  ELSE Reply(TRUE, Idle, {w})

----------------------------------------------------------------------------
NotRun == [pc |-> "idle", stmts |-> <<>>, cursorForLast |-> FALSE, i |-> 1,
           hand |-> None, second |-> None, failedAt |-> 0]

TypeOK ==
    /\ DOMAIN run = Batches
    /\ \A b \in Batches :
         /\ run[b].pc \in {"idle", "checkout", "loop", "open", "last", "undo", "done", "rejected"}
         /\ run[b].stmts \in Programs \cup {<<>>}
         /\ run[b].i \in 1..(Len(run[b].stmts) + 1)
         /\ run[b].failedAt \in 0..Len(run[b].stmts)
         /\ run[b].hand # None <=> run[b].pc \in {"loop", "open", "last", "undo"}
         /\ run[b].second # None <=> run[b].pc = "last"
         /\ {run[b].hand, run[b].second} \subseteq Clients \cup {None}
    /\ avail \subseteq Clients /\ parked \subseteq Clients \ avail
    /\ sess \in [Clients -> Session]
    /\ \A s \in Clients : sess[s].work # {} => sess[s].txn = "open"
    /\ committed \subseteq Writes

Init ==
    /\ run = [b \in Batches |-> NotRun]
    /\ avail = Clients
    /\ sess = [s \in Clients |-> Idle]
    /\ parked = {}
    /\ committed = {}

At(b, l) == run[b].pc = l
Stmt(b) == run[b].stmts[run[b].i]
Deferred(b) == run[b].cursorForLast /\ run[b].i = Len(run[b].stmts)

\* The batch is requested on a connected connection.
Start(b, p, flag) ==
    /\ At(b, "idle")
    /\ run' = [run EXCEPT ![b].pc = "checkout", ![b].stmts = p, ![b].cursorForLast = flag]
    /\ UNCHANGED <<avail, sess, parked, committed>>

\* pool.get() waits, without a timeout, for a client at rest.
Checkout(b) ==
    /\ At(b, "checkout")
    /\ \E s \in avail :
         /\ avail' = avail \ {s}
         /\ run' = [run EXCEPT ![b].pc = "loop", ![b].hand = s]
    /\ UNCHANGED <<sess, parked, committed>>

\* PoolError: the pool was closed, or no session could be opened.
CheckoutFails(b) ==
    /\ At(b, "checkout")
    /\ run' = [run EXCEPT ![b].pc = "rejected"]
    /\ UNCHANGED <<avail, sess, parked, committed>>

StatementElsewhere(b) ==
    /\ At(b, "loop")
    /\ run[b].i <= Len(run[b].stmts) /\ ~Deferred(b)
    /\ \E s \in avail \cup {run[b].hand} :
       LET r == Execute(Stmt(b), <<b, run[b].i>>, sess[s])
       IN /\ sess' = [sess EXCEPT ![s] = r.next]
          /\ committed' = committed \cup r.done
          /\ run' = IF r.ok THEN [run EXCEPT ![b].i = @ + 1]
                            ELSE [run EXCEPT ![b].pc = "undo", ![b].failedAt = run[b].i]
    /\ UNCHANGED <<avail, parked>>

StatementRetries(b) ==
    /\ At(b, "loop")
    /\ run[b].i <= Len(run[b].stmts) /\ ~Deferred(b)
    /\ LET r == Execute(Stmt(b), <<b, run[b].i>>, sess[run[b].hand])
       IN /\ sess' = [sess EXCEPT ![run[b].hand] = r.next]
          /\ committed' = committed \cup r.done
          /\ run' = IF r.ok THEN [run EXCEPT ![b].i = @ + 1] ELSE run
    /\ UNCHANGED <<avail, parked>>

\* run_one_on_conn: a statement that is not deferred, on the batch's client.
RunStatement(b) ==
    /\ At(b, "loop")
    /\ run[b].i <= Len(run[b].stmts) /\ ~Deferred(b)
    /\ LET r == Execute(Stmt(b), <<b, run[b].i>>, sess[run[b].hand])
       IN /\ sess' = [sess EXCEPT ![run[b].hand] = r.next]
          /\ committed' = committed \cup r.done
          /\ run' = IF r.ok THEN [run EXCEPT ![b].i = @ + 1]
                            ELSE [run EXCEPT ![b].pc = "undo", ![b].failedAt = run[b].i]
    /\ UNCHANGED <<avail, parked>>

\* The last statement goes to query_open_cursor, whose pool.get() waits too.
DeferLast(b) ==
    /\ At(b, "loop")
    /\ run[b].i <= Len(run[b].stmts) /\ Deferred(b)
    /\ run' = [run EXCEPT ![b].pc = "open"]
    /\ UNCHANGED <<avail, sess, parked, committed>>

CheckoutLast(b) ==
    /\ At(b, "open")
    /\ \E s \in avail :
         /\ avail' = avail \ {s}
         /\ run' = [run EXCEPT ![b].pc = "last", ![b].second = s]
    /\ UNCHANGED <<sess, parked, committed>>

\* The same error is the deferred statement's outcome.
CheckoutLastFails(b) ==
    /\ At(b, "open")
    /\ run' = [run EXCEPT ![b].pc = "undo", ![b].failedAt = run[b].i]
    /\ UNCHANGED <<avail, sess, parked, committed>>

\* query_open_cursor, path 1: no rowset, or an error; the client goes back.
RunLastInline(b) ==
    /\ At(b, "last")
    /\ LET s == run[b].second
           r == Execute(Stmt(b), <<b, run[b].i>>, sess[s])
       IN /\ Stmt(b) = "query" => ~r.ok
          /\ sess' = [sess EXCEPT ![s] = r.next]
          /\ avail' = avail \cup {s}
          /\ committed' = committed \cup r.done
          /\ run' = IF r.ok
                    THEN [run EXCEPT ![b].pc = "loop", ![b].i = @ + 1, ![b].second = None]
                    ELSE [run EXCEPT ![b].pc = "undo", ![b].failedAt = run[b].i, ![b].second = None]
    /\ UNCHANGED parked

RunLastCursorReturnsClient(b) ==
    /\ At(b, "last") /\ Stmt(b) = "query"
    /\ LET s == run[b].second
       IN /\ sess[s].txn # "failed"
          /\ sess' = [sess EXCEPT ![s] = Open(@.work)]
          /\ parked' = parked \cup {s}
          /\ avail' = avail \cup {s}
    /\ run' = [run EXCEPT ![b].pc = "loop", ![b].i = @ + 1, ![b].second = None]
    /\ UNCHANGED committed

\* Path 2: BEGIN; DECLARE; FETCH.  A short page ends with CLOSE; COMMIT, a full
\* one parks the client in the registered cursor, its block open.
RunLastCursor(b) ==
    /\ At(b, "last") /\ Stmt(b) = "query"
    /\ LET s == run[b].second
       IN /\ sess[s].txn # "failed"
          /\ \/ /\ sess' = [sess EXCEPT ![s] = Idle]
                /\ committed' = committed \cup sess[s].work
                /\ avail' = avail \cup {s}
                /\ UNCHANGED parked
             \/ /\ sess' = [sess EXCEPT ![s] = Open(@.work)]
                /\ parked' = parked \cup {s}
                /\ UNCHANGED <<avail, committed>>
    /\ run' = [run EXCEPT ![b].pc = "loop", ![b].i = @ + 1, ![b].second = None]

\* DECLARE or FETCH fails: the client goes back inside its aborted block, the
\* batch rolls back its own client only.
RunLastFails(b) ==
    /\ At(b, "last") /\ Stmt(b) = "query"
    /\ sess' = [sess EXCEPT ![run[b].second] = Failed]
    /\ avail' = avail \cup {run[b].second}
    /\ run' = [run EXCEPT ![b].pc = "undo", ![b].failedAt = run[b].i, ![b].second = None]
    /\ UNCHANGED <<parked, committed>>

UndoForgotten(b) ==
    /\ At(b, "undo")
    /\ avail' = avail \cup {run[b].hand}
    /\ run' = [run EXCEPT ![b].pc = "done", ![b].hand = None]
    /\ UNCHANGED <<sess, parked, committed>>

\* The failing statement ends the batch: ROLLBACK, and the client goes back.
Undo(b) ==
    /\ At(b, "undo")
    /\ sess' = [sess EXCEPT ![run[b].hand] = Idle]
    /\ avail' = avail \cup {run[b].hand}
    /\ run' = [run EXCEPT ![b].pc = "done", ![b].hand = None]
    /\ UNCHANGED <<parked, committed>>

\* Every statement succeeded: the client goes back as it is.
Finish(b) ==
    /\ At(b, "loop")
    /\ run[b].i > Len(run[b].stmts)
    /\ avail' = avail \cup {run[b].hand}
    /\ run' = [run EXCEPT ![b].pc = "done", ![b].hand = None]
    /\ UNCHANGED <<sess, parked, committed>>

\* A registered cursor ends: CLOSE; COMMIT when it is exhausted or closed,
\* ROLLBACK when it is cancelled, swept or cleaned up.
EndCursor(s) ==
    /\ s \in parked
    /\ parked' = parked \ {s}
    /\ avail' = avail \cup {s}
    /\ \E w \in {sess[s].work, {}} : committed' = committed \cup w
    /\ sess' = [sess EXCEPT ![s] = Idle]
    /\ UNCHANGED run

Step(b) == RunStatement(b) \/ DeferLast(b) \/ RunLastInline(b) \/ RunLastCursor(b)
           \/ RunLastFails(b) \/ Undo(b) \/ Finish(b)

Next ==
    \/ \E b \in Batches :
         \/ \E p \in Programs, flag \in CursorFlags : Start(b, p, flag)
         \/ Checkout(b) \/ CheckoutLast(b) \/ Step(b)
         \/ CheckoutFails(b) \/ CheckoutLastFails(b)
    \/ \E s \in Clients : EndCursor(s)

Spec == Init /\ [][Next]_vars

\* Statements are answered, deadpool serves waiters in order, and an abandoned
\* cursor is swept after IDLE_TIMEOUT (CursorPool, WalkAwayReleases).
Fairness ==
    /\ \A b \in Batches : WF_vars(Step(b)) /\ SF_vars(Checkout(b)) /\ SF_vars(CheckoutLast(b))
    /\ \A s \in Clients : WF_vars(EndCursor(s))

FairSpec == Spec /\ Fairness

----------------------------------------------------------------------------
(* Properties.                                                             *)

Ended(b) == run[b].pc \in {"done", "rejected"}

\* A batch that fails leaves none of its writes pending in a transaction that
\* some later statement on the same client could commit.
FailureLeavesNothingPending ==
    \A b \in Batches : Ended(b) /\ run[b].failedAt # 0 =>
        \A s \in Clients : \A w \in sess[s].work : w[1] # b

\* Statements i and j of program p are in one block the user closed before the
\* statement that is deferred.
SameBlock(b, i, j) ==
    LET p == run[b].stmts
        last == IF run[b].cursorForLast THEN Len(p) - 1 ELSE Len(p)
    IN /\ p[i] = "write" /\ p[j] = "write"
       /\ \E k \in 1..i, m \in j..last :
            /\ p[k] = "begin" /\ p[m] \in {"commit", "rollback"}
            /\ \A n \in (k + 1)..(m - 1) : p[n] \notin {"begin", "commit", "rollback"}

\* Two writes between a BEGIN and its COMMIT are committed together or not at
\* all, whatever runs on the other clients and whatever fails in between.
ExplicitBlocksAtomic ==
    \A b \in Batches : run[b].pc # "idle" =>
        \A i, j \in 1..Len(run[b].stmts) : i < j /\ SameBlock(b, i, j) =>
            (<<b, i>> \in committed <=> <<b, j>> \in committed)

\* Not every client is with a batch that waits for one more: when none is at rest
\* and none is with a cursor the user or the sweeper will end, some batch has all it
\* needs.  It holds with fewer batches than clients.
NoStandstill ==
    avail = {} /\ parked = {} => \E b \in Batches : run[b].pc \in {"loop", "last", "undo"}

\* With fewer batches than clients, every batch that is started ends.
BatchesEnd == \A b \in Batches : run[b].pc # "idle" ~> Ended(b)

----------------------------------------------------------------------------
(* What the comments of batch.rs promise and the code does not keep.       *)

\* batch.rs:3-5: the statements run on one connection, so that a hand-written
\* BEGIN ... COMMIT is honoured: after a batch without a failure whose last
\* statement is COMMIT, its writes are committed.
CommitHonoured ==
    \A b \in Batches :
        At(b, "done") /\ run[b].failedAt = 0 /\ run[b].stmts[Len(run[b].stmts)] = "commit" =>
            \A i \in 1..Len(run[b].stmts) : run[b].stmts[i] = "write" => <<b, i>> \in committed

\* batch.rs:121-124: the batch's client is released before query_open_cursor
\* asks for one, so batches cannot hold all the clients while each of them waits
\* for one more.
NoPoolDeadlock ==
    ~ \A s \in Clients : \E b \in Batches : At(b, "open") /\ run[b].hand = s

=============================================================================
