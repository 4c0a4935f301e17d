--------------------------- MODULE BackendProofs ---------------------------
(***************************************************************************)
(* Proofs about what the backend runs on one pool: the batches of BatchRun,*)
(* for every pool, every number of batches and every list of statements,   *)
(* and the dry runs of DryRun, for every set of runs.  They share nothing: *)
(* each has its own invariant here, and what holds of one holds of it in   *)
(* MCBackend, which runs either.                                           *)
(***************************************************************************)
EXTENDS MCBackend, FiniteSetTheorems, TLAPS

----------------------------------------------------------------------------
(* Batches.                                                                 *)

BatchPoints == {"idle", "checkout", "loop", "open", "last", "undo", "done", "rejected"}

Record == [pc : BatchPoints, stmts : Seq(Kinds), cursorForLast : BOOLEAN, i : Nat \ {0},
           hand : Clients \cup {None}, second : Clients \cup {None}, failedAt : Nat]

\* What a batch carries at each point.
Shape(r) ==
    /\ r.stmts \in Programs \cup {<<>>} /\ r.i <= Len(r.stmts) + 1
    /\ r.pc \in {"idle", "checkout", "rejected"} => r.i = 1
    /\ r.pc \in {"open", "last"} => r.cursorForLast /\ r.i = Len(r.stmts)
    /\ r.pc = "undo" => r.failedAt = r.i /\ r.i <= Len(r.stmts)
    /\ r.pc \notin {"undo", "done"} => r.failedAt = 0
    /\ r.failedAt <= Len(r.stmts)
    /\ r.hand # None <=> r.pc \in {"loop", "open", "last", "undo"}
    /\ r.second # None <=> r.pc = "last"
    /\ r.hand # None => r.hand # r.second

Typed ==
    /\ run \in [Batches -> Record]
    /\ \A b \in Batches : Shape(run[b])
    /\ avail \subseteq Clients /\ parked \subseteq Clients \ avail
    /\ sess \in [Clients -> Session]
    /\ \A s \in Clients : sess[s].work # {} => sess[s].txn = "open"
    /\ committed \subseteq Writes

\* A client is at rest, with a cursor, or with one batch.
Held(b, s) == run[b].hand = s \/ run[b].second = s

Apart ==
    \A s \in Clients : \A b \in Batches : Held(b, s) =>
        s \notin avail \cup parked /\ \A c \in Batches \ {b} : ~Held(c, s)

\* A pending write of b is one b has run; it is pending on the client of b,
\* unless it was the last one, and not when b failed.
PendingOk(b) ==
    \A n \in Nat \ {0} : \A s \in Clients : <<b, n>> \in sess[s].work =>
        /\ n < run[b].i
        /\ run[b].pc \in {"loop", "open", "last", "undo"} =>
               s = run[b].hand \/ (run[b].pc = "loop" /\ run[b].i > Len(run[b].stmts))
        /\ run[b].pc = "done" => run[b].failedAt = 0

\* A committed write of b is one b has run.
CommittedOk(b) == \A n \in Nat \ {0} : <<b, n>> \in committed => n < run[b].i

\* The statements k and m of r enclose a block of statements run on one client.
IsBlock(r, k, m) ==
    /\ k < m /\ m <= (IF r.cursorForLast THEN Len(r.stmts) - 1 ELSE Len(r.stmts))
    /\ r.stmts[k] = "begin" /\ r.stmts[m] \in {"commit", "rollback"}
    /\ \A n \in (k + 1)..(m - 1) : r.stmts[n] \notin {"begin", "commit", "rollback"}

WritesIn(r, k, m) == {n \in (k + 1)..(m - 1) : r.stmts[n] = "write"}

\* The write is neither committed nor waiting to be.
Lost(b, n) == <<b, n>> \notin committed /\ \A s \in Clients : <<b, n>> \notin sess[s].work

\* In a block, its writes so far are pending on the batch's client; a batch that
\* failed in it has lost them; past it, all are committed or all are lost.
BlockOk(b, k, m) ==
    LET i == run[b].i
    IN /\ At(b, "loop") /\ k < i /\ i <= m =>
             /\ sess[run[b].hand].txn = "open"
             /\ \A n \in WritesIn(run[b], k, m) : n < i =>
                    <<b, n>> \in sess[run[b].hand].work /\ <<b, n>> \notin committed
       /\ run[b].pc \in {"undo", "done"} /\ k < i /\ i <= m =>
             \A n \in WritesIn(run[b], k, m) : n < i => Lost(b, n)
       /\ m < i => \/ \A n \in WritesIn(run[b], k, m) : <<b, n>> \in committed
                   \/ \A n \in WritesIn(run[b], k, m) : Lost(b, n)

BlocksOk(b) ==
    \A k, m \in 1..Len(run[b].stmts) : IsBlock(run[b], k, m) => BlockOk(b, k, m)

WritesOk(b) == PendingOk(b) /\ CommittedOk(b) /\ BlocksOk(b)

\* The inductive invariant of the batches.
BInv ==
    /\ Typed
    /\ Apart
    /\ \A b \in Batches : WritesOk(b)

\* Programs are lists of statements, and None is no client.
LEMMA BatchConstants ==
    /\ Programs \subseteq Seq(Kinds) /\ <<>> \notin Programs
    /\ CursorFlags \subseteq BOOLEAN /\ None \notin Clients
  BY BatchAssumption DEF BatchAssumption

\* A write of a statement of a program is a write.
LEMMA WriteTypes ==
    ASSUME Typed, NEW b \in Batches, run[b].i <= Len(run[b].stmts)
    PROVE  /\ Stmt(b) \in Kinds /\ run[b].i \in 1..Len(run[b].stmts)
           /\ <<b, run[b].i>> \in Writes /\ run[b].stmts \in Programs
<1>1. /\ run[b] \in Record /\ Shape(run[b])
  BY DEF Typed
<1>2. run[b].i \in 1..Len(run[b].stmts) /\ run[b].stmts \in Seq(Kinds)
  BY <1>1 DEF Record
<1>3. Stmt(b) \in Kinds
  BY <1>2 DEF Stmt
<1>4. run[b].stmts # <<>>
  BY <1>2
<1>5. run[b].stmts \in Programs
  BY <1>1, <1>4 DEF Shape
<1>6. run[b].i \in UNION {DOMAIN p : p \in Programs}
  BY <1>2, <1>5
<1> QED
  BY <1>2, <1>3, <1>5, <1>6 DEF Writes

\* What a statement makes of a session.
LEMMA ExecuteFacts ==
    ASSUME NEW k \in Kinds, NEW w \in Writes, NEW q \in Session, q.work # {} => q.txn = "open"
    PROVE  LET r == Execute(k, w, q) IN
           /\ r.ok \in BOOLEAN /\ r.next \in Session
           /\ r.next.work \subseteq q.work \cup {w} /\ r.done \subseteq q.work \cup {w}
           /\ r.done \in SUBSET Writes
           /\ r.next.work # {} => r.next.txn = "open"
           /\ ~r.ok => r.done = {} /\ r.next.work = {}
           /\ k = "begin" /\ r.ok => r.next.txn = "open"
           /\ k \in {"query", "write", "bad"} /\ q.txn = "open" /\ r.ok =>
                  /\ r.next.txn = "open" /\ q.work \subseteq r.next.work /\ r.done = {}
                  /\ k = "write" => w \in r.next.work
           /\ k = "commit" => r.ok /\ r.next.work = {} /\ r.done = q.work
           /\ k = "rollback" => r.ok /\ r.next.work = {} /\ r.done = {}
<1>0. q = [txn |-> q.txn, work |-> q.work] /\ q.txn \in {"idle", "open", "failed"} /\ q.work \subseteq Writes
  BY DEF Session
<1>1. CASE Aborts(k, q)
  BY <1>0, <1>1 DEF Execute, Aborts, Reply, AfterError, Idle, Failed, Session
<1>2. CASE ~Aborts(k, q) /\ k = "commit"
  BY <1>0, <1>2 DEF Execute, Reply, Idle, Session
<1>3. CASE ~Aborts(k, q) /\ k = "rollback"
  BY <1>0, <1>3 DEF Execute, Reply, Idle, Session
<1>4. CASE ~Aborts(k, q) /\ k = "begin"
  BY <1>0, <1>4 DEF Execute, Reply, Open, Session
<1>5. CASE ~Aborts(k, q) /\ k = "query"
  BY <1>0, <1>5 DEF Execute, Reply, Session
<1>6. CASE ~Aborts(k, q) /\ k = "write"
  BY <1>0, <1>6 DEF Execute, Reply, Idle, Open, Session
<1>7. k \in {"commit", "rollback", "begin", "query", "write"} \/ Aborts(k, q)
  BY DEF Kinds, Aborts
<1> QED
  BY <1>1, <1>2, <1>3, <1>4, <1>5, <1>6, <1>7

\* One batch moves to a record of its shape.
LEMMA OneBatchMoves ==
    ASSUME Typed, NEW b \in Batches, NEW r \in Record, Shape(r), run' = [run EXCEPT ![b] = r]
    PROVE  /\ run' \in [Batches -> Record] /\ \A c \in Batches : Shape(run'[c])
           /\ run'[b] = r /\ \A c \in Batches \ {b} : run'[c] = run[c]
  BY DEF Typed

\* Clients change hands between one batch and the pool.
LEMMA ApartKeeps ==
    ASSUME Apart, NEW b \in Batches, \A c \in Batches \ {b} : run'[c] = run[c],
           \A s \in Clients : Held(b, s)' => (Held(b, s) \/ s \in avail) /\ s \notin avail' \cup parked',
           \A s \in Clients : s \in avail' \cup parked' => s \in avail \cup parked \/ Held(b, s)
    PROVE  Apart'
  BY DEF Apart, Held

\* A block lies among the statements before the last one or ends with it.
LEMMA BlockBounds ==
    ASSUME NEW r \in Record, NEW k \in 1..Len(r.stmts), NEW m \in 1..Len(r.stmts), IsBlock(r, k, m)
    PROVE  /\ k \in Nat \ {0} /\ m \in Nat \ {0} /\ k < m /\ m <= Len(r.stmts)
           /\ r.cursorForLast => m < Len(r.stmts)
           /\ WritesIn(r, k, m) \subseteq Nat \ {0}
           /\ \A n \in WritesIn(r, k, m) : k < n /\ n < m
  BY DEF Record, IsBlock, WritesIn

\* What others do on their clients leaves the writes of a batch as they are.
LEMMA OthersKeep ==
    ASSUME BInv, NEW c \in Batches, run'[c] = run[c], NEW s \in Clients, s # run[c].hand,
           \A r \in Clients \ {s} : sess'[r] = sess[r],
           \A n \in Nat \ {0} : <<c, n>> \in sess'[s].work => <<c, n>> \in sess[s].work,
           committed \subseteq committed',
           \A n \in Nat \ {0} : <<c, n>> \in committed' => <<c, n>> \in committed \cup sess[s].work
    PROVE  WritesOk(c)'
<1>1. /\ run[c] \in Record /\ Shape(run[c])
      /\ PendingOk(c) /\ CommittedOk(c) /\ BlocksOk(c)
  BY DEF BInv, Typed, WritesOk
<1>2. PendingOk(c)'
  BY <1>1 DEF PendingOk
<1>3. CommittedOk(c)'
  BY <1>1 DEF CommittedOk, PendingOk
<1>4. BlocksOk(c)'
  <2> SUFFICES ASSUME NEW k \in 1..Len(run[c].stmts), NEW m \in 1..Len(run[c].stmts),
                      IsBlock(run[c], k, m)
               PROVE  BlockOk(c, k, m)'
    BY DEF BlocksOk
  <2> DEFINE W == WritesIn(run[c], k, m)
  <2>1. BlockOk(c, k, m)
    BY <1>1 DEF BlocksOk
  <2>2. W \subseteq Nat \ {0} /\ m <= Len(run[c].stmts) /\ run[c].i \in Nat /\ Len(run[c].stmts) \in Nat /\ m \in Nat
    BY <1>1, BlockBounds DEF Record
  <2>3. W' = W
    BY DEF WritesIn
  <2>4. \A n \in W : Lost(c, n) => Lost(c, n)'
    BY <2>2 DEF Lost
  <2> HIDE DEF W
  <2>5. ASSUME At(c, "loop"), k < run[c].i, run[c].i <= m
        PROVE  /\ sess'[run[c].hand].txn = "open"
               /\ \A n \in W : n < run[c].i =>
                      <<c, n>> \in sess'[run[c].hand].work /\ <<c, n>> \notin committed'
    <3>1. run[c].hand \in Clients
      BY <1>1, <2>5, BatchConstants DEF Shape, At, Record
    <3>2. sess'[run[c].hand] = sess[run[c].hand]
      BY <3>1
    <3>3. \A n \in Nat \ {0} : <<c, n>> \notin sess[s].work
      <4>1. run[c].i <= Len(run[c].stmts)
        BY <2>2, <2>5
      <4> QED
        BY <1>1, <2>2, <2>5, <4>1 DEF PendingOk, At
    <3> QED
      BY <2>1, <2>2, <2>5, <3>2, <3>3 DEF BlockOk, W
  <2>6. ASSUME run[c].pc \in {"undo", "done"}, k < run[c].i, run[c].i <= m
        PROVE  \A n \in W : n < run[c].i => Lost(c, n)'
    BY <2>1, <2>4, <2>6 DEF BlockOk, W
  <2>7. ASSUME m < run[c].i
        PROVE  (\A n \in W : <<c, n>> \in committed') \/ \A n \in W : Lost(c, n)'
    BY <2>1, <2>4, <2>7 DEF BlockOk, W
  <2> QED
    BY <2>3, <2>5, <2>6, <2>7 DEF BlockOk, At, W
<1> QED
  BY <1>2, <1>3, <1>4 DEF WritesOk

\* So does a step that touches no session.
LEMMA StillKeeps ==
    ASSUME BInv, NEW c \in Batches, run'[c] = run[c], UNCHANGED <<sess, committed>>
    PROVE  WritesOk(c)'
<1>1. WritesOk(c)
  BY DEF BInv
<1>2. PendingOk(c)' /\ CommittedOk(c)'
  BY <1>1 DEF WritesOk, PendingOk, CommittedOk
<1>3. BlocksOk(c)'
  <2> SUFFICES ASSUME NEW k \in 1..Len(run[c].stmts), NEW m \in 1..Len(run[c].stmts),
                      IsBlock(run[c], k, m)
               PROVE  BlockOk(c, k, m)'
    BY DEF BlocksOk
  <2>1. BlockOk(c, k, m)
    BY <1>1 DEF WritesOk, BlocksOk
  <2>2. WritesIn(run[c], k, m)' = WritesIn(run[c], k, m) /\ \A n : Lost(c, n)' <=> Lost(c, n)
    BY DEF WritesIn, Lost
  <2> QED
    BY <2>1, <2>2 DEF BlockOk, At
<1> QED
  BY <1>2, <1>3 DEF WritesOk

\* Before its first statement a batch has written nothing.
LEMMA UnbegunKeeps ==
    ASSUME BInv, NEW b \in Batches, run[b].i = 1, run'[b].i = 1, run'[b] \in Record,
           UNCHANGED <<sess, committed>>
    PROVE  WritesOk(b)'
<1>1. WritesOk(b)
  BY DEF BInv
<1>2. \A n \in Nat \ {0} : ~(n < 1)
  OBVIOUS
<1>3. \A n \in Nat \ {0} : <<b, n>> \notin committed /\ \A s \in Clients : <<b, n>> \notin sess[s].work
  BY <1>1, <1>2 DEF WritesOk, PendingOk, CommittedOk
<1>4. PendingOk(b)' /\ CommittedOk(b)'
  BY <1>3 DEF PendingOk, CommittedOk
<1>5. BlocksOk(b)'
  <2> SUFFICES ASSUME NEW k \in 1..Len(run'[b].stmts), NEW m \in 1..Len(run'[b].stmts)
               PROVE  BlockOk(b, k, m)'
    BY DEF BlocksOk
  <2>1. Len(run'[b].stmts) \in Nat
    BY DEF Record
  <2> QED
    BY <2>1 DEF BlockOk, At
<1> QED
  BY <1>4, <1>5 DEF WritesOk

\* At its last statement, or past it, every block of a batch lies behind: what
\* the batch does on another client than its own touches none of them.
LEMMA LateKeeps ==
    ASSUME BInv, NEW b \in Batches, run'[b] \in Record,
           run'[b].stmts = run[b].stmts, run'[b].cursorForLast = run[b].cursorForLast,
           \/ run[b].i = Len(run[b].stmts) /\ run[b].cursorForLast
           \/ run[b].i = Len(run[b].stmts) + 1,
           run'[b].i >= run[b].i,
           \A n \in Nat \ {0} : \A s \in Clients : <<b, n>> \in sess'[s].work =>
               <<b, n>> \in sess[s].work \/ (n = run[b].i /\ n < run'[b].i),
           committed \subseteq committed',
           \A n \in Nat \ {0} : <<b, n>> \in committed' =>
               \/ <<b, n>> \in committed
               \/ \E s \in Clients : <<b, n>> \in sess[s].work
               \/ n = run[b].i /\ n < run'[b].i,
           \/ /\ run[b].pc \in {"open", "last"} \/ (At(b, "loop") /\ run[b].i = Len(run[b].stmts))
              /\ run'[b].pc \in {"open", "last", "undo"} /\ run'[b].hand = run[b].hand
              /\ run'[b].i = run[b].i
           \/ run'[b].pc = "loop" /\ run'[b].i > Len(run[b].stmts)
           \/ run'[b].pc = "done" /\ run'[b].failedAt = 0
    PROVE  WritesOk(b)'
<1>1. /\ run[b] \in Record
      /\ PendingOk(b) /\ CommittedOk(b) /\ BlocksOk(b)
      /\ run[b].i \in Nat \ {0} /\ run'[b].i \in Nat \ {0} /\ Len(run[b].stmts) \in Nat
  BY DEF BInv, Typed, WritesOk, Record
<1>2. PendingOk(b)'
  <2> SUFFICES ASSUME NEW n \in Nat \ {0}, NEW s \in Clients, <<b, n>> \in sess'[s].work
               PROVE  /\ n < run'[b].i
                      /\ run'[b].pc \in {"loop", "open", "last", "undo"} =>
                             s = run'[b].hand \/ (run'[b].pc = "loop" /\ run'[b].i > Len(run'[b].stmts))
                      /\ run'[b].pc = "done" => run'[b].failedAt = 0
    BY DEF PendingOk
  <2>1. <<b, n>> \in sess[s].work => n < run[b].i
    BY <1>1 DEF PendingOk
  <2>2. n < run'[b].i
    BY <1>1, <2>1
  <2>3. CASE run'[b].i = run[b].i /\ run'[b].pc \in {"open", "last", "undo"} /\ run'[b].hand = run[b].hand
             /\ (run[b].pc \in {"open", "last"} \/ (At(b, "loop") /\ run[b].i = Len(run[b].stmts)))
    <3>1. <<b, n>> \in sess[s].work
      BY <1>1, <2>3
    <3>2. s = run[b].hand
      BY <1>1, <2>3, <3>1 DEF PendingOk, At
    <3> QED
      BY <2>2, <2>3, <3>2
  <2>4. CASE \/ run'[b].pc = "loop" /\ run'[b].i > Len(run[b].stmts)
             \/ run'[b].pc = "done" /\ run'[b].failedAt = 0
    BY <2>2, <2>4
  <2> QED
    BY <2>3, <2>4
<1>3. CommittedOk(b)'
  BY <1>1 DEF CommittedOk, PendingOk
<1>4. BlocksOk(b)'
  <2> SUFFICES ASSUME NEW k \in 1..Len(run[b].stmts), NEW m \in 1..Len(run[b].stmts),
                      IsBlock(run[b], k, m)'
               PROVE  BlockOk(b, k, m)'
    BY DEF BlocksOk
  <2>0. IsBlock(run[b], k, m) /\ WritesIn(run[b], k, m)' = WritesIn(run[b], k, m)
    BY DEF IsBlock, WritesIn
  <2>1. /\ m < run[b].i /\ WritesIn(run[b], k, m) \subseteq Nat \ {0} /\ m \in Nat
        /\ \A n \in WritesIn(run[b], k, m) : n < m
    BY <1>1, <2>0, BlockBounds
  <2>2. m < run'[b].i
    BY <1>1, <2>1
  <2>3. \A n \in WritesIn(run[b], k, m) : n \in Nat \ {0} /\ n < run[b].i
    BY <1>1, <2>1
  <2>4. \A n \in WritesIn(run[b], k, m) : Lost(b, n) => Lost(b, n)'
    BY <1>1, <2>3 DEF Lost
  <2>5. \/ \A n \in WritesIn(run[b], k, m) : <<b, n>> \in committed
        \/ \A n \in WritesIn(run[b], k, m) : Lost(b, n)
    BY <1>1, <2>0, <2>1 DEF BlocksOk, BlockOk
  <2>6. \/ \A n \in WritesIn(run[b], k, m) : <<b, n>> \in committed'
        \/ \A n \in WritesIn(run[b], k, m) : Lost(b, n)'
    BY <2>4, <2>5
  <2>7. ~(run'[b].i <= m)
    BY <1>1, <2>1, <2>2
  <2> QED
    BY <2>0, <2>6, <2>7 DEF BlockOk
<1> QED
  BY <1>2, <1>3, <1>4 DEF WritesOk

\* A statement on the batch's own client: a block is entered, extended, left or
\* lost.
LEMMA StatementKeeps ==
    ASSUME BInv, NEW b \in Batches, RunStatement(b), run'[b] \in Record,
           run'[b].stmts = run[b].stmts, run'[b].cursorForLast = run[b].cursorForLast,
           run'[b].hand = run[b].hand,
           LET ok == Execute(Stmt(b), <<b, run[b].i>>, sess[run[b].hand]).ok
           IN IF ok THEN run'[b].pc = "loop" /\ run'[b].i = run[b].i + 1
                    ELSE run'[b].pc = "undo" /\ run'[b].i = run[b].i
    PROVE  WritesOk(b)'
<1> DEFINE i == run[b].i
           h == run[b].hand
           w == <<b, i>>
           r == Execute(Stmt(b), w, sess[h])
<1>1. /\ run[b] \in Record /\ Shape(run[b])
      /\ PendingOk(b) /\ CommittedOk(b) /\ BlocksOk(b)
      /\ i \in Nat \ {0} /\ Len(run[b].stmts) \in Nat
  BY DEF BInv, Typed, WritesOk, Record
<1>2. /\ At(b, "loop") /\ i <= Len(run[b].stmts) /\ ~Deferred(b)
      /\ sess' = [sess EXCEPT ![h] = r.next] /\ committed' = committed \cup r.done
  BY DEF RunStatement
<1>3. h \in Clients /\ h # None
  BY <1>1, <1>2, BatchConstants DEF Shape, At, Record
<1>4. Stmt(b) \in Kinds /\ w \in Writes /\ sess[h] \in Session /\ (sess[h].work # {} => sess[h].txn = "open")
  BY <1>1, <1>2, <1>3, WriteTypes DEF BInv, Typed
<1>5. /\ r.ok \in BOOLEAN
      /\ r.next.work \subseteq sess[h].work \cup {w} /\ r.done \subseteq sess[h].work \cup {w}
      /\ ~r.ok => r.done = {} /\ r.next.work = {}
      /\ Stmt(b) = "begin" /\ r.ok => r.next.txn = "open"
      /\ Stmt(b) \in {"query", "write", "bad"} /\ sess[h].txn = "open" /\ r.ok =>
             /\ r.next.txn = "open" /\ sess[h].work \subseteq r.next.work /\ r.done = {}
             /\ Stmt(b) = "write" => w \in r.next.work
      /\ Stmt(b) = "commit" => r.ok /\ r.next.work = {} /\ r.done = sess[h].work
      /\ Stmt(b) = "rollback" => r.ok /\ r.next.work = {} /\ r.done = {}
  <2> HIDE DEF w, h
  <2> QED
    BY <1>4, ExecuteFacts
<1>6. sess'[h] = r.next /\ \A s \in Clients \ {h} : sess'[s] = sess[s]
  BY <1>2, <1>3 DEF BInv, Typed
<1>7. IF r.ok THEN run'[b].pc = "loop" /\ run'[b].i = i + 1
              ELSE run'[b].pc = "undo" /\ run'[b].i = i
  OBVIOUS
<1>8. \A n \in Nat \ {0} : \A s \in Clients \ {h} : <<b, n>> \notin sess[s].work
  BY <1>1, <1>2 DEF PendingOk, At
<1>9. Stmt(b) = run[b].stmts[i] /\ w = <<b, i>>
  BY DEF Stmt
<1>10. run'[b].hand = h
  OBVIOUS
<1> HIDE DEF r, w, h, i
<1>11. PendingOk(b)'
  <2> SUFFICES ASSUME NEW n \in Nat \ {0}, NEW s \in Clients, <<b, n>> \in sess'[s].work
               PROVE  n < run'[b].i /\ s = run'[b].hand /\ run'[b].pc # "done"
    BY DEF PendingOk
  <2>1. s = h
    BY <1>6, <1>8
  <2>2. r.ok /\ (<<b, n>> \in sess[h].work \/ n = i)
    BY <1>5, <1>6, <1>9, <2>1
  <2>3. <<b, n>> \in sess[h].work => n < i
    BY <1>1, <1>3 DEF PendingOk, i
  <2> QED
    BY <1>1, <1>7, <1>10, <2>1, <2>2, <2>3
<1>12. CommittedOk(b)'
  <2> SUFFICES ASSUME NEW n \in Nat \ {0}, <<b, n>> \in committed'
               PROVE  n < run'[b].i
    BY DEF CommittedOk
  <2>1. <<b, n>> \in committed \/ <<b, n>> \in sess[h].work \/ (n = i /\ r.ok)
    BY <1>2, <1>5, <1>9
  <2>2. <<b, n>> \in committed \/ <<b, n>> \in sess[h].work => n < i
    BY <1>1, <1>3 DEF PendingOk, CommittedOk, i
  <2> QED
    BY <1>1, <1>7, <2>1, <2>2
<1>13. BlocksOk(b)'
  <2> SUFFICES ASSUME NEW k \in 1..Len(run[b].stmts), NEW m \in 1..Len(run[b].stmts),
                      IsBlock(run[b], k, m)'
               PROVE  BlockOk(b, k, m)'
    BY DEF BlocksOk
  <2> DEFINE W == WritesIn(run[b], k, m)
  <2>0. IsBlock(run[b], k, m) /\ WritesIn(run[b], k, m)' = W
    BY DEF IsBlock, WritesIn
  <2>1. /\ k \in Nat \ {0} /\ m \in Nat \ {0} /\ k < m
        /\ \A n \in W : n \in Nat \ {0} /\ k < n /\ n < m /\ run[b].stmts[n] = "write"
    BY <1>1, <2>0, BlockBounds DEF WritesIn
  <2>2. /\ run[b].stmts[k] = "begin" /\ run[b].stmts[m] \in {"commit", "rollback"}
        /\ \A n \in Nat : k < n /\ n < m => run[b].stmts[n] \notin {"begin", "commit", "rollback"}
    BY <2>0, <2>1 DEF IsBlock
  <2>3. BlockOk(b, k, m)
    BY <1>1, <2>0 DEF BlocksOk
  <2> HIDE DEF W
  <2>4. CASE i < k
    <3>1. ~(k < run'[b].i) /\ ~(m < run'[b].i)
      BY <1>1, <1>7, <2>1, <2>4
    <3> QED
      BY <3>1 DEF BlockOk
  <2>5. CASE i = k
    <3>1. Stmt(b) = "begin"
      BY <1>9, <2>2, <2>5
    <3>2. \A n \in W : ~(n < run'[b].i)
      BY <1>1, <1>7, <2>1, <2>5
    <3>3. run'[b].pc = "loop" => sess'[h].txn = "open"
      BY <1>5, <1>6, <1>7, <3>1
    <3>4. ~(m < run'[b].i)
      BY <1>1, <1>7, <2>1, <2>5
    <3> QED
      BY <1>10, <2>0, <3>2, <3>3, <3>4 DEF BlockOk, At
  <2>6. CASE k < i /\ i < m
    <3>1. /\ sess[h].txn = "open"
          /\ \A n \in W : n < i => <<b, n>> \in sess[h].work /\ <<b, n>> \notin committed
      BY <1>1, <1>2, <2>1, <2>3, <2>6 DEF BlockOk, W, h, i
    <3>2. Stmt(b) \in {"query", "write", "bad"}
      BY <1>1, <1>4, <1>9, <2>2, <2>6 DEF Kinds
    <3>3. ~(m < run'[b].i)
      BY <1>1, <1>7, <2>1, <2>6
    <3>4. CASE r.ok
      <4>1. /\ sess'[h].txn = "open" /\ sess[h].work \subseteq sess'[h].work /\ committed' = committed
            /\ Stmt(b) = "write" => w \in sess'[h].work
        BY <1>2, <1>5, <1>6, <3>1, <3>2, <3>4
      <4>2. ASSUME NEW n \in W, n < run'[b].i
            PROVE  <<b, n>> \in sess'[h].work /\ <<b, n>> \notin committed'
        <5>1. CASE n < i
          BY <3>1, <4>1, <5>1
        <5>2. CASE n = i
          <6>1. Stmt(b) = "write"
            BY <1>9, <2>1, <5>2
          <6>2. <<b, n>> \notin committed
            BY <1>1, <2>1, <5>2 DEF CommittedOk, i
          <6> QED
            BY <1>9, <4>1, <5>2, <6>1, <6>2
        <5> QED
          BY <1>1, <1>7, <2>1, <3>4, <4>2, <5>1, <5>2
      <4> QED
        BY <1>7, <1>10, <2>0, <3>3, <3>4, <4>1, <4>2 DEF BlockOk
    <3>5. CASE ~r.ok
      <4>1. committed' = committed /\ sess'[h].work = {}
        BY <1>2, <1>5, <1>6, <3>5
      <4>2. ASSUME NEW n \in W, n < run'[b].i
            PROVE  Lost(b, n)'
        <5>1. n < i /\ n \in Nat \ {0}
          BY <1>7, <2>1, <3>5, <4>2
        <5>2. <<b, n>> \notin committed'
          BY <3>1, <4>1, <5>1
        <5>3. \A s \in Clients : <<b, n>> \notin sess'[s].work
          BY <1>6, <1>8, <4>1, <5>1
        <5> QED
          BY <5>2, <5>3 DEF Lost
      <4> QED
        BY <1>7, <2>0, <3>3, <3>5, <4>2 DEF BlockOk, At
    <3> QED
      BY <1>5, <3>4, <3>5
  <2>7. CASE i = m
    <3>1. \A n \in W : <<b, n>> \in sess[h].work /\ <<b, n>> \notin committed
      BY <1>1, <1>2, <2>1, <2>3, <2>7 DEF BlockOk, W, h, i
    <3>2. Stmt(b) \in {"commit", "rollback"} /\ r.ok /\ sess'[h].work = {}
      BY <1>5, <1>6, <1>9, <2>2, <2>7
    <3>3. m < run'[b].i /\ ~(run'[b].i <= m)
      BY <1>1, <1>7, <2>7, <3>2
    <3>4. CASE Stmt(b) = "commit"
      <4>1. \A n \in W : <<b, n>> \in committed'
        BY <1>2, <1>5, <3>1, <3>4
      <4> QED
        BY <2>0, <3>3, <4>1 DEF BlockOk
    <3>5. CASE Stmt(b) = "rollback"
      <4>1. committed' = committed
        BY <1>2, <1>5, <3>5
      <4>2. \A n \in W : Lost(b, n)'
        BY <1>6, <1>8, <2>1, <3>1, <3>2, <4>1 DEF Lost
      <4> QED
        BY <2>0, <3>3, <4>2 DEF BlockOk
    <3> QED
      BY <3>2, <3>4, <3>5
  <2>8. CASE m < i
    <3>1. m < run'[b].i /\ ~(run'[b].i <= m)
      BY <1>1, <1>7, <2>1, <2>8
    <3>2. \A n \in W : n \in Nat \ {0} /\ n < i
      BY <1>1, <2>1, <2>8
    <3>3. ASSUME NEW n \in W, Lost(b, n) PROVE Lost(b, n)'
      <4>1. n \in Nat \ {0} /\ n # i
        BY <1>1, <3>2
      <4>2. <<b, n>> \notin committed /\ <<b, n>> # w /\ \A s \in Clients : <<b, n>> \notin sess[s].work
        BY <1>9, <3>3, <4>1 DEF Lost
      <4>3. <<b, n>> \notin committed' /\ <<b, n>> \notin sess'[h].work
        BY <1>2, <1>3, <1>5, <1>6, <4>2
      <4> QED
        BY <1>6, <4>2, <4>3 DEF Lost
    <3>4. (\A n \in W : <<b, n>> \in committed) \/ \A n \in W : Lost(b, n)
      BY <2>3, <2>8 DEF BlockOk, W, i
    <3>5. (\A n \in W : <<b, n>> \in committed') \/ \A n \in W : Lost(b, n)'
      BY <1>2, <3>3, <3>4
    <3> QED
      BY <2>0, <3>1, <3>5 DEF BlockOk
  <2> QED
    BY <1>1, <2>1, <2>4, <2>5, <2>6, <2>7, <2>8
<1> QED
  BY <1>11, <1>12, <1>13 DEF WritesOk

\* The ROLLBACK of a failed batch takes what is pending with it.
LEMMA UndoKeeps ==
    ASSUME BInv, NEW b \in Batches, Undo(b), run'[b] \in Record,
           run'[b].stmts = run[b].stmts, run'[b].cursorForLast = run[b].cursorForLast,
           run'[b].i = run[b].i, run'[b].pc = "done"
    PROVE  WritesOk(b)'
<1> DEFINE h == run[b].hand
<1>1. /\ run[b] \in Record /\ Shape(run[b]) /\ run[b].pc = "undo"
      /\ PendingOk(b) /\ CommittedOk(b) /\ BlocksOk(b)
  BY DEF BInv, Typed, WritesOk, Undo, At
<1>2. h \in Clients
  BY <1>1, BatchConstants DEF Shape, Record
<1>3. /\ sess'[h].work = {} /\ \A s \in Clients \ {h} : sess'[s] = sess[s]
      /\ committed' = committed
  BY <1>2 DEF Undo, Idle, BInv, Typed
<1>4. \A n \in Nat \ {0} : \A s \in Clients : <<b, n>> \notin sess'[s].work
  BY <1>1, <1>3 DEF PendingOk
<1> HIDE DEF h
<1>5. PendingOk(b)' /\ CommittedOk(b)'
  BY <1>1, <1>3, <1>4 DEF PendingOk, CommittedOk
<1>6. BlocksOk(b)'
  <2> SUFFICES ASSUME NEW k \in 1..Len(run[b].stmts), NEW m \in 1..Len(run[b].stmts),
                      IsBlock(run[b], k, m)'
               PROVE  BlockOk(b, k, m)'
    BY DEF BlocksOk
  <2>0. IsBlock(run[b], k, m) /\ WritesIn(run[b], k, m)' = WritesIn(run[b], k, m)
    BY DEF IsBlock, WritesIn
  <2>1. WritesIn(run[b], k, m) \subseteq Nat \ {0}
    BY <1>1, <2>0, BlockBounds
  <2>2. \A n \in WritesIn(run[b], k, m) : Lost(b, n) => Lost(b, n)'
    BY <1>3, <1>4, <2>1 DEF Lost
  <2>3. BlockOk(b, k, m)
    BY <1>1, <2>0 DEF BlocksOk
  <2> QED
    BY <1>1, <1>3, <2>0, <2>2, <2>3 DEF BlockOk, At
<1> QED
  BY <1>5, <1>6 DEF WritesOk

\* A step of one batch keeps the invariant when it keeps its parts.
LEMMA BatchStep ==
    ASSUME BInv, NEW b \in Batches, NEW r \in Record, Shape(r), run' = [run EXCEPT ![b] = r],
           avail' \subseteq Clients, parked' \subseteq Clients \ avail',
           sess' \in [Clients -> Session], committed' \subseteq Writes,
           \A s \in Clients : sess'[s].work # {} => sess'[s].txn = "open",
           \A s \in Clients : r.hand = s \/ r.second = s =>
               (Held(b, s) \/ s \in avail) /\ s \notin avail' \cup parked',
           \A s \in Clients : s \in avail' \cup parked' => s \in avail \cup parked \/ Held(b, s),
           \A c \in Batches : WritesOk(c)'
    PROVE  BInv'
<1>1. /\ run' \in [Batches -> Record] /\ \A c \in Batches : Shape(run'[c])
      /\ run'[b] = r /\ \A c \in Batches \ {b} : run'[c] = run[c]
  <2> HIDE DEF Record
  <2> QED
    BY OneBatchMoves DEF BInv
<1>2. Shape(run[b])' <=> Shape(run'[b])
  BY DEF Shape
<1>3. Typed'
  BY <1>1 DEF Typed, Shape
<1>4. Apart'
  <2>1. \A s \in Clients : Held(b, s)' => (Held(b, s) \/ s \in avail) /\ s \notin avail' \cup parked'
    BY <1>1 DEF Held
  <2> QED
    BY <1>1, <2>1, ApartKeeps DEF BInv
<1> QED
  BY <1>3, <1>4 DEF BInv

\* A batch that touches no session.
LEMMA QuietStep ==
    ASSUME BInv, NEW b \in Batches, NEW r \in Record, Shape(r), run' = [run EXCEPT ![b] = r],
           UNCHANGED <<sess, parked, committed>>, avail' \subseteq Clients \ parked,
           \A s \in Clients : r.hand = s \/ r.second = s =>
               (Held(b, s) \/ s \in avail) /\ s \notin avail' \cup parked,
           \A s \in Clients : s \in avail' => s \in avail \/ Held(b, s),
           WritesOk(b)'
    PROVE  BInv'
<1>1. run'[b] = r /\ \A c \in Batches \ {b} : run'[c] = run[c]
  BY DEF BInv, Typed
<1>2. \A c \in Batches : WritesOk(c)'
  BY <1>1, StillKeeps
<1>3. /\ avail' \subseteq Clients /\ parked' \subseteq Clients \ avail'
      /\ sess' \in [Clients -> Session] /\ committed' \subseteq Writes
      /\ \A s \in Clients : sess'[s].work # {} => sess'[s].txn = "open"
  BY DEF BInv, Typed
<1> QED
  BY <1>2, <1>3, BatchStep

\* A batch that runs a statement on a client of its own.
LEMMA OneClient ==
    ASSUME BInv, NEW b \in Batches, NEW s \in Clients, Held(b, s),
           run[b].i <= Len(run[b].stmts),
           \A c \in Batches \ {b} : run'[c] = run[c],
           NEW q \in Session, sess' = [sess EXCEPT ![s] = q], q.work # {} => q.txn = "open",
           NEW done \in SUBSET Writes, committed' = committed \cup done,
           q.work \subseteq sess[s].work \cup {<<b, run[b].i>>},
           done \subseteq sess[s].work \cup {<<b, run[b].i>>}
    PROVE  /\ sess' \in [Clients -> Session] /\ committed' \subseteq Writes
           /\ \A t \in Clients : sess'[t].work # {} => sess'[t].txn = "open"
           /\ \A c \in Batches \ {b} : WritesOk(c)'
<1>1. Typed /\ Apart
  BY DEF BInv
<1>2. sess'[s] = q /\ \A t \in Clients \ {s} : sess'[t] = sess[t]
  BY <1>1 DEF Typed
<1>3. /\ sess' \in [Clients -> Session] /\ committed' \subseteq Writes
      /\ \A t \in Clients : sess'[t].work # {} => sess'[t].txn = "open"
  BY <1>1, <1>2 DEF Typed
<1>4. ASSUME NEW c \in Batches \ {b} PROVE WritesOk(c)'
  <2>1. s # run[c].hand
    BY <1>1 DEF Apart, Held
  <2>2. \A n \in Nat \ {0} : <<c, n>> # <<b, run[b].i>>
    OBVIOUS
  <2>3. \A n \in Nat \ {0} : <<c, n>> \in sess'[s].work => <<c, n>> \in sess[s].work
    BY <1>2, <2>2
  <2>4. \A n \in Nat \ {0} : <<c, n>> \in committed' => <<c, n>> \in committed \cup sess[s].work
    BY <2>2
  <2> QED
    BY <1>2, <2>1, <2>3, <2>4, OthersKeep
<1> QED
  BY <1>3, <1>4

\* At its last statement, a step that touches no session.
LEMMA LateAndStill ==
    ASSUME BInv, NEW b \in Batches, run'[b] \in Record, UNCHANGED <<sess, committed>>,
           run'[b].stmts = run[b].stmts, run'[b].cursorForLast = run[b].cursorForLast,
           run'[b].i = run[b].i, run'[b].hand = run[b].hand,
           run[b].i = Len(run[b].stmts), run[b].cursorForLast = TRUE,
           run[b].pc \in {"loop", "open", "last"}, run'[b].pc \in {"open", "last", "undo"}
    PROVE  WritesOk(b)'
<1>1. run'[b].i >= run[b].i
  BY DEF BInv, Typed, Record
<1>2. \A n \in Nat \ {0} : \A s \in Clients : <<b, n>> \in sess'[s].work => <<b, n>> \in sess[s].work
  OBVIOUS
<1>3. committed' = committed
  OBVIOUS
<1>4. run[b].pc \in {"open", "last"} \/ (At(b, "loop") /\ run[b].i = Len(run[b].stmts))
  BY DEF At
<1> QED
  BY <1>1, <1>2, <1>3, <1>4, LateKeeps

\* A batch begins with its first statement.
LEMMA StartInv ==
    ASSUME BInv, NEW b \in Batches, NEW p \in Programs, NEW flag \in CursorFlags, Start(b, p, flag)
    PROVE  BInv'
<1> DEFINE r == [run[b] EXCEPT !.pc = "checkout", !.stmts = p, !.cursorForLast = flag]
<1>1. /\ run[b] \in Record /\ Shape(run[b]) /\ run[b].pc = "idle" /\ run[b].i = 1
      /\ p \in Seq(Kinds) /\ flag \in BOOLEAN /\ Len(p) \in Nat
  BY BatchConstants DEF BInv, Typed, Shape, Start, At
<1>2. r \in Record /\ Shape(r)
  <2>1. run[b].hand = None /\ run[b].second = None /\ run[b].failedAt = 0
    BY <1>1 DEF Shape
  <2>2. r \in Record
    BY <1>1 DEF Record, BatchPoints
  <2>3. /\ r.pc = "checkout" /\ r.stmts = p /\ r.i = 1 /\ r.hand = None /\ r.second = None
        /\ r.failedAt = 0
    BY <1>1, <2>1 DEF Record
  <2> HIDE DEF r
  <2> QED
    BY <1>1, <2>2, <2>3 DEF Shape
<1>3. run' = [run EXCEPT ![b] = r]
  BY DEF Start, BInv, Typed
<1>4. r.i = 1 /\ r.hand = None /\ r.second = None /\ run'[b] = r
  BY <1>1, <1>2, <1>3 DEF Shape, BInv, Typed
<1> HIDE DEF r
<1>5. WritesOk(b)'
  BY <1>1, <1>2, <1>4, UnbegunKeeps DEF Start
<1>6. /\ avail' \subseteq Clients \ parked /\ UNCHANGED <<sess, parked, committed>>
      /\ avail' = avail
  BY DEF Start, BInv, Typed
<1> QED
  BY <1>2, <1>3, <1>4, <1>5, <1>6, BatchConstants, QuietStep

\* It takes a client at rest.
LEMMA CheckoutInv ==
    ASSUME BInv, NEW b \in Batches, Checkout(b)
    PROVE  BInv'
<1>0. PICK s \in avail : /\ avail' = avail \ {s}
                         /\ run' = [run EXCEPT ![b].pc = "loop", ![b].hand = s]
  BY DEF Checkout
<1> DEFINE r == [run[b] EXCEPT !.pc = "loop", !.hand = s]
<1>1. /\ run[b] \in Record /\ Shape(run[b]) /\ run[b].pc = "checkout" /\ run[b].i = 1
      /\ s \in Clients /\ s # None
  BY BatchConstants DEF BInv, Typed, Shape, Checkout, At
<1>2. r \in Record /\ Shape(r)
  BY <1>1 DEF Record, Shape, BatchPoints
<1>3. run' = [run EXCEPT ![b] = r]
  BY <1>0 DEF BInv, Typed
<1>4. r.i = 1 /\ r.hand = s /\ r.second = None /\ run'[b] = r
  BY <1>1, <1>2, <1>3 DEF Shape, BInv, Typed, Record
<1> HIDE DEF r
<1>5. WritesOk(b)'
  BY <1>1, <1>2, <1>4, UnbegunKeeps DEF Checkout
<1>6. /\ avail' \subseteq Clients \ parked /\ UNCHANGED <<sess, parked, committed>>
      /\ s \notin avail' \cup parked
  BY <1>0 DEF Checkout, BInv, Typed
<1>7. \A t \in Clients : r.hand = t \/ r.second = t =>
          (Held(b, t) \/ t \in avail) /\ t \notin avail' \cup parked
  BY <1>0, <1>4, <1>6, BatchConstants
<1>8. \A t \in Clients : t \in avail' => t \in avail \/ Held(b, t)
  BY <1>0
<1> QED
  BY <1>2, <1>3, <1>5, <1>6, <1>7, <1>8, QuietStep

\* Or the pool has none for it.
LEMMA CheckoutFailsInv ==
    ASSUME BInv, NEW b \in Batches, CheckoutFails(b)
    PROVE  BInv'
<1> DEFINE r == [run[b] EXCEPT !.pc = "rejected"]
<1>1. /\ run[b] \in Record /\ Shape(run[b]) /\ run[b].pc = "checkout" /\ run[b].i = 1
  BY DEF BInv, Typed, Shape, CheckoutFails, At
<1>2. r \in Record /\ Shape(r)
  BY <1>1 DEF Record, Shape, BatchPoints
<1>3. run' = [run EXCEPT ![b] = r]
  BY DEF CheckoutFails, BInv, Typed
<1>4. r.i = 1 /\ r.hand = None /\ r.second = None /\ run'[b] = r
  BY <1>1, <1>2, <1>3 DEF Shape, BInv, Typed, Record
<1> HIDE DEF r
<1>5. WritesOk(b)'
  BY <1>1, <1>2, <1>4, UnbegunKeeps DEF CheckoutFails
<1>6. /\ avail' \subseteq Clients \ parked /\ UNCHANGED <<sess, parked, committed>>
      /\ avail' = avail
  BY DEF CheckoutFails, BInv, Typed
<1> QED
  BY <1>2, <1>3, <1>4, <1>5, <1>6, BatchConstants, QuietStep

\* The last statement is handed on, on the way to a client of its own.
LEMMA DeferLastInv ==
    ASSUME BInv, NEW b \in Batches, DeferLast(b)
    PROVE  BInv'
<1> DEFINE r == [run[b] EXCEPT !.pc = "open"]
<1>1. /\ run[b] \in Record /\ Shape(run[b]) /\ run[b].pc = "loop"
      /\ run[b].cursorForLast = TRUE /\ run[b].i = Len(run[b].stmts) /\ run[b].i \in Nat
  BY DEF BInv, Typed, DeferLast, Deferred, At, Record
<1>2. r \in Record /\ Shape(r)
  BY <1>1 DEF Record, Shape, BatchPoints
<1>3. run' = [run EXCEPT ![b] = r]
  BY DEF DeferLast, BInv, Typed
<1>4. /\ r.i = run[b].i /\ r.hand = run[b].hand /\ r.second = run[b].second /\ run'[b] = r
      /\ r.stmts = run[b].stmts /\ r.cursorForLast = run[b].cursorForLast /\ r.pc = "open"
  BY <1>1, <1>2, <1>3 DEF Shape, BInv, Typed, Record
<1> HIDE DEF r
<1>5. UNCHANGED <<sess, parked, committed>> /\ avail' = avail
  BY DEF DeferLast
<1>6. WritesOk(b)'
  BY <1>1, <1>2, <1>4, <1>5, LateAndStill
<1>7. avail' \subseteq Clients \ parked
  BY <1>5 DEF BInv, Typed
<1>8. \A s \in Clients : r.hand = s \/ r.second = s => Held(b, s) /\ s \notin avail' \cup parked
  BY <1>4, <1>5 DEF BInv, Apart, Held
<1> QED
  BY <1>2, <1>3, <1>5, <1>6, <1>7, <1>8, QuietStep

\* It takes a second client at rest.
LEMMA CheckoutLastInv ==
    ASSUME BInv, NEW b \in Batches, CheckoutLast(b)
    PROVE  BInv'
<1>0. PICK s \in avail : /\ avail' = avail \ {s}
                         /\ run' = [run EXCEPT ![b].pc = "last", ![b].second = s]
  BY DEF CheckoutLast
<1> DEFINE r == [run[b] EXCEPT !.pc = "last", !.second = s]
<1>1. /\ run[b] \in Record /\ Shape(run[b]) /\ run[b].pc = "open" /\ run[b].i \in Nat
      /\ run[b].cursorForLast = TRUE /\ run[b].i = Len(run[b].stmts)
      /\ s \in Clients /\ s # None /\ run[b].hand # s
  BY BatchConstants DEF BInv, Typed, Shape, CheckoutLast, At, Record, Apart, Held
<1>2. r \in Record /\ Shape(r)
  BY <1>1 DEF Record, Shape, BatchPoints
<1>3. run' = [run EXCEPT ![b] = r]
  BY <1>0 DEF BInv, Typed
<1>4. /\ r.i = run[b].i /\ r.hand = run[b].hand /\ r.second = s /\ run'[b] = r
      /\ r.stmts = run[b].stmts /\ r.cursorForLast = run[b].cursorForLast /\ r.pc = "last"
  BY <1>1, <1>2, <1>3 DEF Shape, BInv, Typed, Record
<1> HIDE DEF r
<1>5. UNCHANGED <<sess, parked, committed>>
  BY DEF CheckoutLast
<1>6. WritesOk(b)'
  BY <1>1, <1>2, <1>4, <1>5, LateAndStill
<1>7. avail' \subseteq Clients \ parked /\ s \notin avail' \cup parked /\ \A t \in avail' : t \in avail
  BY <1>0 DEF BInv, Typed
<1>8. \A t \in Clients : r.hand = t \/ r.second = t =>
          (Held(b, t) \/ t \in avail) /\ t \notin avail' \cup parked
  BY <1>0, <1>4, <1>7 DEF BInv, Apart, Held
<1> QED
  BY <1>2, <1>3, <1>5, <1>6, <1>7, <1>8, QuietStep

\* Without one, the batch has failed.
LEMMA CheckoutLastFailsInv ==
    ASSUME BInv, NEW b \in Batches, CheckoutLastFails(b)
    PROVE  BInv'
<1> DEFINE r == [run[b] EXCEPT !.pc = "undo", !.failedAt = run[b].i]
<1>1. /\ run[b] \in Record /\ Shape(run[b]) /\ run[b].pc = "open" /\ run[b].i \in Nat
      /\ run[b].cursorForLast = TRUE /\ run[b].i = Len(run[b].stmts)
  BY DEF BInv, Typed, Shape, CheckoutLastFails, At, Record
<1>2. r \in Record /\ Shape(r)
  <2>1. r \in Record
    BY <1>1 DEF Record, BatchPoints
  <2>2. /\ r.pc = "undo" /\ r.stmts = run[b].stmts /\ r.i = run[b].i /\ r.failedAt = run[b].i
        /\ r.hand = run[b].hand /\ r.second = run[b].second
    BY <1>1 DEF Record
  <2>3. run[b].hand # None /\ run[b].second = None
    BY <1>1 DEF Shape
  <2> HIDE DEF r
  <2> QED
    BY <1>1, <2>1, <2>2, <2>3 DEF Shape
<1>3. run' = [run EXCEPT ![b] = r]
  BY DEF CheckoutLastFails, BInv, Typed
<1>4. /\ r.i = run[b].i /\ r.hand = run[b].hand /\ r.second = run[b].second /\ run'[b] = r
      /\ r.stmts = run[b].stmts /\ r.cursorForLast = run[b].cursorForLast /\ r.pc = "undo"
  BY <1>1, <1>2, <1>3 DEF Shape, BInv, Typed, Record
<1> HIDE DEF r
<1>5. UNCHANGED <<sess, parked, committed>> /\ avail' = avail
  BY DEF CheckoutLastFails
<1>6. WritesOk(b)'
  BY <1>1, <1>2, <1>4, <1>5, LateAndStill
<1>7. avail' \subseteq Clients \ parked
  BY <1>5 DEF BInv, Typed
<1>8. \A s \in Clients : r.hand = s \/ r.second = s => Held(b, s) /\ s \notin avail' \cup parked
  BY <1>4, <1>5 DEF BInv, Apart, Held
<1> QED
  BY <1>2, <1>3, <1>5, <1>6, <1>7, <1>8, QuietStep

\* A batch whose statements all succeeded hands its client back.
LEMMA FinishInv ==
    ASSUME BInv, NEW b \in Batches, Finish(b)
    PROVE  BInv'
<1> DEFINE r == [run[b] EXCEPT !.pc = "done", !.hand = None]
<1>1. /\ run[b] \in Record /\ Shape(run[b]) /\ run[b].pc = "loop" /\ run[b].i \in Nat
      /\ run[b].i = Len(run[b].stmts) + 1 /\ run[b].failedAt = 0
      /\ run[b].hand \in Clients /\ run[b].second = None
  BY DEF BInv, Typed, Shape, Finish, At, Record
<1>2. r \in Record /\ Shape(r)
  BY <1>1 DEF Record, Shape, BatchPoints
<1>3. run' = [run EXCEPT ![b] = r]
  BY DEF Finish, BInv, Typed
<1>4. /\ r.i = run[b].i /\ r.hand = None /\ r.second = None /\ run'[b] = r /\ r.failedAt = 0
      /\ r.stmts = run[b].stmts /\ r.cursorForLast = run[b].cursorForLast /\ r.pc = "done"
  BY <1>1, <1>2, <1>3 DEF Shape, BInv, Typed, Record
<1> HIDE DEF r
<1>5. UNCHANGED <<sess, parked, committed>> /\ avail' = avail \cup {run[b].hand}
  BY DEF Finish
<1>6. WritesOk(b)'
  BY <1>1, <1>2, <1>4, <1>5, LateKeeps
<1>7. avail' \subseteq Clients \ parked
  BY <1>1, <1>5 DEF BInv, Typed, Apart, Held
<1>8. \A s \in Clients : s \in avail' => s \in avail \/ Held(b, s)
  BY <1>5 DEF Held
<1> QED
  BY <1>2, <1>3, <1>4, <1>5, <1>6, <1>7, <1>8, BatchConstants, QuietStep

\* The batches when b's last statement is answered, well or with an error.
AfterLast(b, ok) ==
    IF ok THEN [run EXCEPT ![b].pc = "loop", ![b].i = @ + 1, ![b].second = None]
          ELSE [run EXCEPT ![b].pc = "undo", ![b].failedAt = run[b].i, ![b].second = None]

\* The last statement runs on its own client, which rests or parks after it.
LEMMA LastStep ==
    ASSUME BInv, NEW b \in Batches, At(b, "last"), NEW s, s = run[b].second,
           NEW q \in Session, sess' = [sess EXCEPT ![s] = q], q.work # {} => q.txn = "open",
           NEW done \in SUBSET Writes, committed' = committed \cup done,
           q.work \subseteq sess[s].work \cup {<<b, run[b].i>>},
           done \subseteq sess[s].work \cup {<<b, run[b].i>>},
           NEW ok \in BOOLEAN, ~ok => q.work = {} /\ done = {},
           run' = AfterLast(b, ok),
           \/ avail' = avail \cup {s} /\ parked' = parked
           \/ avail' = avail /\ parked' = parked \cup {s}
    PROVE  BInv'
<1> DEFINE r == IF ok THEN [run[b] EXCEPT !.pc = "loop", !.i = @ + 1, !.second = None]
                      ELSE [run[b] EXCEPT !.pc = "undo", !.failedAt = run[b].i, !.second = None]
<1>1. /\ run[b] \in Record /\ Shape(run[b]) /\ run[b].pc = "last" /\ run[b].i \in Nat \ {0}
      /\ run[b].cursorForLast = TRUE /\ run[b].i = Len(run[b].stmts)
  BY DEF BInv, Typed, Shape, At, Record
<1>2. /\ run[b].second # None /\ run[b].hand # None /\ run[b].hand # s /\ run[b].failedAt = 0
  BY <1>1 DEF Shape
<1>3. s \in Clients /\ run[b].hand \in Clients /\ Held(b, s) /\ Held(b, run[b].hand)
  BY <1>1, <1>2 DEF Record, Held
<1>4. /\ r \in Record
      /\ r.pc = IF ok THEN "loop" ELSE "undo"
      /\ r.i = IF ok THEN run[b].i + 1 ELSE run[b].i
      /\ r.failedAt = IF ok THEN 0 ELSE run[b].i
      /\ r.stmts = run[b].stmts /\ r.cursorForLast = run[b].cursorForLast
      /\ r.hand = run[b].hand /\ r.second = None
  <2>1. CASE ok
    <3>1. r = [run[b] EXCEPT !.pc = "loop", !.i = @ + 1, !.second = None]
      BY <2>1
    <3>2. run[b].i + 1 \in Nat \ {0} /\ None \in Clients \cup {None} /\ "loop" \in BatchPoints
      BY <1>1 DEF BatchPoints
    <3> HIDE DEF r
    <3> QED
      BY <1>1, <1>2, <2>1, <3>1, <3>2 DEF Record
  <2>2. CASE ~ok
    BY <1>1, <1>2, <2>2 DEF Record, BatchPoints
  <2> QED
    BY <2>1, <2>2
<1>5. run' = [run EXCEPT ![b] = r]
  BY <1>1 DEF BInv, Typed, Record, AfterLast
<1> HIDE DEF r
<1>6. Shape(r)
  BY <1>1, <1>2, <1>4 DEF Shape
<1>7. run'[b] = r /\ \A c \in Batches \ {b} : run'[c] = run[c]
  BY <1>5 DEF BInv, Typed
<1>8. /\ sess' \in [Clients -> Session] /\ committed' \subseteq Writes
      /\ \A t \in Clients : sess'[t].work # {} => sess'[t].txn = "open"
      /\ \A c \in Batches \ {b} : WritesOk(c)'
  <2>1. run[b].i <= Len(run[b].stmts)
    BY <1>1
  <2> QED
    BY <1>3, <1>7, <2>1, OneClient
<1>9. WritesOk(b)'
  <2>1. sess'[s] = q /\ \A t \in Clients \ {s} : sess'[t] = sess[t]
    BY <1>3 DEF BInv, Typed
  <2>2. \A n \in Nat \ {0} : <<b, n>> = <<b, run[b].i>> => n = run[b].i
    OBVIOUS
  <2>3. \A n \in Nat \ {0} : \A t \in Clients : <<b, n>> \in sess'[t].work =>
            <<b, n>> \in sess[t].work \/ (n = run[b].i /\ n < run'[b].i)
    BY <1>1, <1>4, <1>7, <2>1, <2>2
  <2>4. \A n \in Nat \ {0} : <<b, n>> \in committed' =>
            \/ <<b, n>> \in committed
            \/ \E t \in Clients : <<b, n>> \in sess[t].work
            \/ n = run[b].i /\ n < run'[b].i
    <3> SUFFICES ASSUME NEW n \in Nat \ {0}, <<b, n>> \in done
                 PROVE  \/ \E t \in Clients : <<b, n>> \in sess[t].work
                        \/ n = run[b].i /\ n < run'[b].i
      OBVIOUS
    <3>1. ok
      OBVIOUS
    <3>2. run'[b].i = run[b].i + 1
      BY <1>4, <1>7, <3>1
    <3>3. <<b, n>> \in sess[s].work \/ n = run[b].i
      BY <2>2
    <3> QED
      BY <1>1, <1>3, <3>2, <3>3
  <2>5. run'[b].i >= run[b].i /\ committed \subseteq committed'
    BY <1>1, <1>4, <1>7
  <2>6. \/ /\ run[b].pc \in {"open", "last"} \/ (At(b, "loop") /\ run[b].i = Len(run[b].stmts))
           /\ run'[b].pc \in {"open", "last", "undo"} /\ run'[b].hand = run[b].hand
           /\ run'[b].i = run[b].i
        \/ run'[b].pc = "loop" /\ run'[b].i > Len(run[b].stmts)
    BY <1>1, <1>4, <1>7
  <2> QED
    BY <1>1, <1>4, <1>7, <2>3, <2>4, <2>5, <2>6, LateKeeps
<1>10. \A c \in Batches : WritesOk(c)'
  BY <1>8, <1>9
<1>11. /\ avail' \subseteq Clients /\ parked' \subseteq Clients \ avail'
       /\ run[b].hand \notin avail' \cup parked'
       /\ \A t \in Clients : t \in avail' \cup parked' => t \in avail \cup parked \/ Held(b, t)
  BY <1>2, <1>3 DEF BInv, Typed, Apart
<1>12. \A t \in Clients : r.hand = t \/ r.second = t =>
           (Held(b, t) \/ t \in avail) /\ t \notin avail' \cup parked'
  BY <1>3, <1>4, <1>11, BatchConstants
<1> QED
  BY <1>4, <1>5, <1>6, <1>8, <1>10, <1>11, <1>12, BatchStep

\* Without a cursor.
LEMMA RunLastInlineInv ==
    ASSUME BInv, NEW b \in Batches, RunLastInline(b)
    PROVE  BInv'
<1> DEFINE s == run[b].second
           r == Execute(Stmt(b), <<b, run[b].i>>, sess[s])
<1>1. At(b, "last")
  BY DEF RunLastInline
<1>2. run[b].i <= Len(run[b].stmts) /\ s \in Clients
  BY <1>1, BatchConstants DEF BInv, Typed, Shape, Record, At
<1>3. Stmt(b) \in Kinds /\ <<b, run[b].i>> \in Writes /\ sess[s] \in Session
      /\ (sess[s].work # {} => sess[s].txn = "open")
  BY <1>2, WriteTypes DEF BInv, Typed
<1>4. /\ r.ok \in BOOLEAN /\ r.next \in Session /\ r.done \in SUBSET Writes
      /\ r.next.work \subseteq sess[s].work \cup {<<b, run[b].i>>}
      /\ r.done \subseteq sess[s].work \cup {<<b, run[b].i>>}
      /\ r.next.work # {} => r.next.txn = "open"
      /\ ~r.ok => r.done = {} /\ r.next.work = {}
  <2> HIDE DEF s
  <2> QED
    BY <1>3, ExecuteFacts
<1>5. /\ sess' = [sess EXCEPT ![s] = r.next] /\ committed' = committed \cup r.done
      /\ avail' = avail \cup {s} /\ parked' = parked
      /\ run' = AfterLast(b, r.ok)
  BY DEF RunLastInline, AfterLast
<1>6. PICK q \in Session, done \in SUBSET Writes, ok \in BOOLEAN :
          q = r.next /\ done = r.done /\ ok = r.ok
  BY <1>4
<1>7. s = run[b].second
  OBVIOUS
<1> HIDE DEF r, s
<1>8. /\ sess' = [sess EXCEPT ![s] = q] /\ committed' = committed \cup done
      /\ q.work # {} => q.txn = "open"
      /\ q.work \subseteq sess[s].work \cup {<<b, run[b].i>>}
      /\ done \subseteq sess[s].work \cup {<<b, run[b].i>>}
      /\ ~ok => q.work = {} /\ done = {}
  BY <1>4, <1>5, <1>6
<1>9. run' = AfterLast(b, ok)
  BY <1>5, <1>6
<1> QED
  BY <1>1, <1>5, <1>7, <1>8, <1>9, LastStep

\* Its cursor is opened; it ends at once or stays.
LEMMA RunLastCursorInv ==
    ASSUME BInv, NEW b \in Batches, RunLastCursor(b)
    PROVE  BInv'
<1> DEFINE s == run[b].second
           ok == TRUE
<1>1. At(b, "last") /\ sess[s].txn # "failed"
  BY DEF RunLastCursor
<1>2. s \in Clients
  BY <1>1, BatchConstants DEF BInv, Typed, Shape, Record, At
<1>3. sess[s] \in Session /\ sess[s].work \in SUBSET Writes
  BY <1>2 DEF BInv, Typed, Session
<1>4. run' = AfterLast(b, ok)
  BY DEF RunLastCursor, AfterLast
<1>5. ok \in BOOLEAN /\ ok
  OBVIOUS
<1>6. CASE /\ sess' = [sess EXCEPT ![s] = Idle]
           /\ committed' = committed \cup sess[s].work
           /\ avail' = avail \cup {s} /\ UNCHANGED parked
  <2>1. Idle \in Session /\ Idle.work = {}
    BY DEF Idle, Session
  <2> HIDE DEF ok
  <2> QED
    BY <1>1, <1>3, <1>4, <1>5, <1>6, <2>1, LastStep
<1>7. CASE /\ sess' = [sess EXCEPT ![s] = Open(@.work)]
           /\ parked' = parked \cup {s} /\ UNCHANGED <<avail, committed>>
  <2> DEFINE q == Open(sess[s].work)
  <2>1. q \in Session /\ q.work = sess[s].work /\ q.txn = "open"
    BY <1>3 DEF Open, Session
  <2>2. sess' = [sess EXCEPT ![s] = q]
    BY <1>7
  <2>3. /\ committed' = committed \cup {} /\ {} \in SUBSET Writes
        /\ avail' = avail /\ parked' = parked \cup {s}
    BY <1>7
  <2> HIDE DEF ok, q
  <2> QED
    BY <1>1, <1>4, <1>5, <2>1, <2>2, <2>3, LastStep
<1> QED
  BY <1>6, <1>7 DEF RunLastCursor

\* Its cursor cannot be opened.
LEMMA RunLastFailsInv ==
    ASSUME BInv, NEW b \in Batches, RunLastFails(b)
    PROVE  BInv'
<1> DEFINE s == run[b].second
           ok == FALSE
<1>1. At(b, "last")
  BY DEF RunLastFails
<1>2. Failed \in Session /\ Failed.work = {}
  BY DEF Failed, Session
<1>3. /\ sess' = [sess EXCEPT ![s] = Failed] /\ committed' = committed \cup {}
      /\ {} \in SUBSET Writes /\ avail' = avail \cup {s} /\ parked' = parked
  BY DEF RunLastFails
<1>4. run' = AfterLast(b, ok)
  BY DEF RunLastFails, AfterLast
<1>5. ok \in BOOLEAN
  OBVIOUS
<1> HIDE DEF ok
<1> QED
  BY <1>1, <1>2, <1>3, <1>4, <1>5, LastStep

\* A statement runs on the batch's own client.
LEMMA RunStatementInv ==
    ASSUME BInv, NEW b \in Batches, RunStatement(b)
    PROVE  BInv'
<1> DEFINE h == run[b].hand
           x == Execute(Stmt(b), <<b, run[b].i>>, sess[h])
           r == IF x.ok THEN [run[b] EXCEPT !.i = @ + 1]
                        ELSE [run[b] EXCEPT !.pc = "undo", !.failedAt = run[b].i]
<1>1. /\ run[b] \in Record /\ Shape(run[b]) /\ run[b].pc = "loop" /\ run[b].i \in Nat \ {0}
      /\ run[b].i <= Len(run[b].stmts) /\ Len(run[b].stmts) \in Nat
  BY DEF BInv, Typed, RunStatement, At, Record
<1>2. h \in Clients /\ h # None /\ Held(b, h) /\ run[b].second = None /\ run[b].failedAt = 0
  BY <1>1 DEF Shape, Record, Held
<1>3. Stmt(b) \in Kinds /\ <<b, run[b].i>> \in Writes /\ sess[h] \in Session
      /\ (sess[h].work # {} => sess[h].txn = "open")
  BY <1>1, <1>2, WriteTypes DEF BInv, Typed
<1>4. /\ x.ok \in BOOLEAN /\ x.next \in Session /\ x.done \in SUBSET Writes
      /\ x.next.work \subseteq sess[h].work \cup {<<b, run[b].i>>}
      /\ x.done \subseteq sess[h].work \cup {<<b, run[b].i>>}
      /\ x.next.work # {} => x.next.txn = "open"
  <2> HIDE DEF h
  <2> QED
    BY <1>3, ExecuteFacts
<1>5. /\ sess' = [sess EXCEPT ![h] = x.next] /\ committed' = committed \cup x.done
      /\ avail' = avail /\ parked' = parked
      /\ run' = IF x.ok THEN [run EXCEPT ![b].i = @ + 1]
                        ELSE [run EXCEPT ![b].pc = "undo", ![b].failedAt = run[b].i]
  BY DEF RunStatement
<1>6. x.ok = Execute(Stmt(b), <<b, run[b].i>>, sess[run[b].hand]).ok
  OBVIOUS
<1> HIDE DEF x
<1>7. /\ r \in Record
      /\ r.pc = IF x.ok THEN "loop" ELSE "undo"
      /\ r.i = IF x.ok THEN run[b].i + 1 ELSE run[b].i
      /\ r.failedAt = IF x.ok THEN 0 ELSE run[b].i
      /\ r.stmts = run[b].stmts /\ r.cursorForLast = run[b].cursorForLast
      /\ r.hand = h /\ r.second = None
  <2>1. CASE x.ok
    BY <1>1, <1>2, <2>1 DEF Record, BatchPoints
  <2>2. CASE ~x.ok
    BY <1>1, <1>2, <2>2 DEF Record, BatchPoints
  <2> QED
    BY <2>1, <2>2
<1>8. run' = [run EXCEPT ![b] = r]
  BY <1>1, <1>5 DEF BInv, Typed, Record
<1> HIDE DEF r
<1>9. Shape(r)
  BY <1>1, <1>2, <1>7 DEF Shape
<1>10. run'[b] = r /\ \A c \in Batches \ {b} : run'[c] = run[c]
  BY <1>8 DEF BInv, Typed
<1>11. /\ sess' \in [Clients -> Session] /\ committed' \subseteq Writes
       /\ \A t \in Clients : sess'[t].work # {} => sess'[t].txn = "open"
       /\ \A c \in Batches \ {b} : WritesOk(c)'
  BY <1>1, <1>2, <1>4, <1>5, <1>10, OneClient
<1>12. WritesOk(b)'
  <2>1. IF Execute(Stmt(b), <<b, run[b].i>>, sess[run[b].hand]).ok
        THEN run'[b].pc = "loop" /\ run'[b].i = run[b].i + 1
        ELSE run'[b].pc = "undo" /\ run'[b].i = run[b].i
    BY <1>6, <1>7, <1>10
  <2> QED
    BY <1>7, <1>10, <2>1, StatementKeeps
<1>13. \A c \in Batches : WritesOk(c)'
  BY <1>11, <1>12
<1>14. /\ avail' \subseteq Clients /\ parked' \subseteq Clients \ avail'
       /\ h \notin avail' \cup parked'
  BY <1>2, <1>5 DEF BInv, Typed, Apart
<1>15. \A t \in Clients : r.hand = t \/ r.second = t =>
           (Held(b, t) \/ t \in avail) /\ t \notin avail' \cup parked'
  BY <1>2, <1>7, <1>14, BatchConstants
<1>16. \A t \in Clients : t \in avail' \cup parked' => t \in avail \cup parked
  BY <1>5
<1> QED
  BY <1>7, <1>8, <1>9, <1>11, <1>13, <1>14, <1>15, <1>16, BatchStep

\* A failed batch rolls back and hands its client back.
LEMMA UndoInv ==
    ASSUME BInv, NEW b \in Batches, Undo(b)
    PROVE  BInv'
<1> DEFINE h == run[b].hand
           r == [run[b] EXCEPT !.pc = "done", !.hand = None]
<1>1. /\ run[b] \in Record /\ Shape(run[b]) /\ run[b].pc = "undo" /\ run[b].i \in Nat \ {0}
      /\ run[b].i <= Len(run[b].stmts) /\ Len(run[b].stmts) \in Nat
  BY DEF BInv, Typed, Shape, Undo, At, Record
<1>2. h \in Clients /\ h # None /\ Held(b, h) /\ run[b].second = None /\ run[b].failedAt = run[b].i
  BY <1>1 DEF Shape, Record, Held
<1>3. /\ r \in Record /\ r.pc = "done" /\ r.i = run[b].i /\ r.failedAt = run[b].i
      /\ r.stmts = run[b].stmts /\ r.cursorForLast = run[b].cursorForLast
      /\ r.hand = None /\ r.second = None
  BY <1>1, <1>2 DEF Record, BatchPoints
<1>4. run' = [run EXCEPT ![b] = r]
  BY <1>1 DEF Undo, BInv, Typed, Record
<1> HIDE DEF r
<1>5. Shape(r)
  BY <1>1, <1>2, <1>3 DEF Shape
<1>6. run'[b] = r /\ \A c \in Batches \ {b} : run'[c] = run[c]
  BY <1>4 DEF BInv, Typed
<1>7. /\ Idle \in Session /\ Idle.work = {} /\ {} \in SUBSET Writes
      /\ sess' = [sess EXCEPT ![h] = Idle] /\ committed' = committed \cup {}
      /\ avail' = avail \cup {h} /\ parked' = parked
  BY DEF Idle, Session, Undo
<1>8. /\ sess' \in [Clients -> Session] /\ committed' \subseteq Writes
      /\ \A t \in Clients : sess'[t].work # {} => sess'[t].txn = "open"
      /\ \A c \in Batches \ {b} : WritesOk(c)'
  BY <1>1, <1>2, <1>6, <1>7, OneClient
<1>9. WritesOk(b)'
  BY <1>3, <1>6, UndoKeeps
<1>10. \A c \in Batches : WritesOk(c)'
  BY <1>8, <1>9
<1>11. /\ avail' \subseteq Clients /\ parked' \subseteq Clients \ avail'
       /\ \A t \in Clients : t \in avail' \cup parked' => t \in avail \cup parked \/ Held(b, t)
  BY <1>2, <1>7 DEF BInv, Typed, Apart
<1> QED
  BY <1>3, <1>4, <1>5, <1>8, <1>10, <1>11, BatchConstants, BatchStep

\* A cursor ends: what was pending on its client is committed or lost.
LEMMA EndCursorInv ==
    ASSUME BInv, NEW s \in Clients, EndCursor(s)
    PROVE  BInv'
<1>1. PICK w \in {sess[s].work, {}} : committed' = committed \cup w
  BY DEF EndCursor
<1>2. /\ s \in parked /\ parked' = parked \ {s} /\ avail' = avail \cup {s} /\ run' = run
      /\ sess'[s] = Idle /\ \A t \in Clients \ {s} : sess'[t] = sess[t]
      /\ sess' = [sess EXCEPT ![s] = Idle]
  BY DEF EndCursor, BInv, Typed
<1>3. Idle \in Session /\ Idle.work = {}
  BY DEF Idle, Session
<1>4. sess[s].work \in SUBSET Writes
  BY DEF BInv, Typed, Session
<1>5. Typed'
  <2>1. run' \in [Batches -> Record] /\ \A b \in Batches : Shape(run'[b])
    BY <1>2 DEF BInv, Typed
  <2>2. avail' \subseteq Clients /\ parked' \subseteq Clients \ avail'
    BY <1>2 DEF BInv, Typed
  <2>3. /\ sess' \in [Clients -> Session] /\ committed' \subseteq Writes
        /\ \A t \in Clients : sess'[t].work # {} => sess'[t].txn = "open"
    BY <1>1, <1>2, <1>3, <1>4 DEF BInv, Typed
  <2> QED
    BY <2>1, <2>2, <2>3 DEF Typed, Shape
<1>6. Apart'
  BY <1>2 DEF BInv, Apart, Held
<1>7. ASSUME NEW c \in Batches PROVE WritesOk(c)'
  <2>1. s # run[c].hand
    BY <1>2 DEF BInv, Apart, Held
  <2>2. \A n \in Nat \ {0} : <<c, n>> \in committed' => <<c, n>> \in committed \cup sess[s].work
    BY <1>1
  <2> QED
    BY <1>1, <1>2, <1>3, <2>1, <2>2, OthersKeep
<1> QED
  BY <1>5, <1>6, <1>7 DEF BInv

\* No batch has begun.
LEMMA BatchInit == Init => BInv
<1> SUFFICES ASSUME Init PROVE BInv
  OBVIOUS
<1>1. NotRun \in Record /\ Shape(NotRun)
  BY DEF NotRun, Record, Shape, BatchPoints
<1>2. Idle \in Session /\ Idle.work = {}
  BY DEF Idle, Session
<1>3. run = [b \in Batches |-> NotRun] /\ sess = [s \in Clients |-> Idle] /\ avail = Clients
      /\ parked = {} /\ committed = {}
  BY DEF Init
<1>4. Typed
  BY <1>1, <1>2, <1>3 DEF Typed
<1>5. Apart
  BY <1>3, BatchConstants DEF Apart, Held, NotRun
<1>6. ASSUME NEW b \in Batches PROVE WritesOk(b)
  <2>1. PendingOk(b) /\ CommittedOk(b)
    BY <1>2, <1>3 DEF PendingOk, CommittedOk
  <2>2. \A k \in 1..Len(run[b].stmts) : FALSE
    BY <1>3 DEF NotRun
  <2> QED
    BY <2>1, <2>2 DEF WritesOk, BlocksOk
<1> QED
  BY <1>4, <1>5, <1>6 DEF BInv

\* Every step of the batches keeps it.
LEMMA BatchSteps == BInv /\ [Next]_vars => BInv'
<1> SUFFICES ASSUME BInv, [Next]_vars PROVE BInv'
  OBVIOUS
<1>1. CASE UNCHANGED vars
  <2>1. run' = run /\ sess' = sess /\ committed' = committed /\ avail' = avail /\ parked' = parked
    BY <1>1 DEF vars
  <2>2. \A b \in Batches : WritesOk(b)'
    BY <2>1, StillKeeps
  <2>3. Typed' /\ Apart'
    BY <2>1 DEF BInv, Typed, Shape, Apart, Held
  <2> QED
    BY <2>2, <2>3 DEF BInv
<1>2. ASSUME NEW b \in Batches,
             \/ \E p \in Programs, flag \in CursorFlags : Start(b, p, flag)
             \/ Checkout(b) \/ CheckoutLast(b) \/ Step(b)
             \/ CheckoutFails(b) \/ CheckoutLastFails(b)
      PROVE  BInv'
  BY <1>2, StartInv, CheckoutInv, CheckoutLastInv, CheckoutFailsInv, CheckoutLastFailsInv,
     RunStatementInv, DeferLastInv, RunLastInlineInv, RunLastCursorInv, RunLastFailsInv,
     UndoInv, FinishInv DEF Step
<1>3. ASSUME NEW s \in Clients, EndCursor(s) PROVE BInv'
  BY <1>3, EndCursorInv
<1> QED
  BY <1>1, <1>2, <1>3 DEF Next

\* Behind batch.rs: what a batch has written is where its position says, for
\* every pool, every number of batches and every list of statements.
THEOREM BatchInvariance == Spec => []BInv
  BY BatchInit, BatchSteps, PTL DEF Spec

\* Every state of the batches has its type.
THEOREM BatchTypes == Spec => []TypeOK
<1>1. BInv => TypeOK
  <2> SUFFICES ASSUME BInv PROVE TypeOK
    OBVIOUS
  <2>1. ASSUME NEW b \in Batches
        PROVE  /\ run[b].pc \in {"idle", "checkout", "loop", "open", "last", "undo", "done", "rejected"}
               /\ run[b].stmts \in Programs \cup {<<>>}
               /\ run[b].i \in 1..(Len(run[b].stmts) + 1)
               /\ run[b].failedAt \in 0..Len(run[b].stmts)
               /\ run[b].hand # None <=> run[b].pc \in {"loop", "open", "last", "undo"}
               /\ run[b].second # None <=> run[b].pc = "last"
               /\ {run[b].hand, run[b].second} \subseteq Clients \cup {None}
    <3>1. run[b] \in Record /\ Shape(run[b])
      BY DEF BInv, Typed
    <3>2. Len(run[b].stmts) \in Nat
      BY <3>1 DEF Record
    <3> QED
      BY <3>1, <3>2 DEF Record, Shape, BatchPoints
  <2>2. DOMAIN run = Batches
    BY DEF BInv, Typed
  <2> QED
    BY <2>1, <2>2 DEF TypeOK, BInv, Typed
<1> QED
  BY <1>1, BatchInvariance, PTL

\* batch.rs:136 rolls a failed batch back: nothing it wrote is left pending on
\* any client of the pool, where a later statement could commit it.
THEOREM FailedBatchesForgotten == Spec => []FailureLeavesNothingPending
<1>1. BInv => FailureLeavesNothingPending
  <2> SUFFICES ASSUME BInv, NEW b \in Batches, Ended(b), run[b].failedAt # 0,
                      NEW s \in Clients, NEW w \in sess[s].work, w[1] = b
               PROVE  FALSE
    BY DEF FailureLeavesNothingPending
  <2>1. w \in Writes /\ w[2] \in Nat \ {0} /\ w = <<b, w[2]>>
    <3>1. w \in Writes
      BY DEF BInv, Typed, Session
    <3>2. PICK p \in Programs : w[2] \in DOMAIN p /\ w = <<w[1], w[2]>>
      BY <3>1 DEF Writes
    <3>3. p \in Seq(Kinds)
      BY BatchConstants
    <3> QED
      BY <3>1, <3>2, <3>3
  <2>2. run[b].pc = "done" => run[b].failedAt = 0
    BY <2>1 DEF BInv, WritesOk, PendingOk
  <2>3. run[b].pc = "rejected" => run[b].failedAt = 0
    BY DEF BInv, Typed, Shape
  <2> QED
    BY <2>2, <2>3 DEF Ended
<1> QED
  BY <1>1, BatchInvariance, PTL

\* Two writes the user put between BEGIN and COMMIT reach the database together
\* or not at all, whatever fails and whatever other batches do.
THEOREM BlocksAreAtomic == Spec => []ExplicitBlocksAtomic
<1>1. BInv => ExplicitBlocksAtomic
  <2> SUFFICES ASSUME BInv, NEW b \in Batches, NEW i \in 1..Len(run[b].stmts),
                      NEW j \in 1..Len(run[b].stmts), i < j, SameBlock(b, i, j)
               PROVE  <<b, i>> \in committed <=> <<b, j>> \in committed
    BY DEF ExplicitBlocksAtomic
  <2>1. /\ run[b] \in Record /\ Shape(run[b]) /\ CommittedOk(b) /\ BlocksOk(b)
        /\ Len(run[b].stmts) \in Nat /\ run[b].i \in Nat \ {0}
    BY DEF BInv, Typed, WritesOk, Record
  <2> DEFINE last == IF run[b].cursorForLast THEN Len(run[b].stmts) - 1 ELSE Len(run[b].stmts)
  <2>2. PICK k \in 1..i, m \in j..last :
            /\ run[b].stmts[k] = "begin" /\ run[b].stmts[m] \in {"commit", "rollback"}
            /\ \A n \in (k + 1)..(m - 1) : run[b].stmts[n] \notin {"begin", "commit", "rollback"}
    BY DEF SameBlock
  <2>3. run[b].stmts[i] = "write" /\ run[b].stmts[j] = "write"
    BY DEF SameBlock
  <2>4. k # i /\ m # j
    BY <2>2, <2>3
  <2>5. last \in Nat /\ last <= Len(run[b].stmts)
    BY <2>1
  <2>6. k < i /\ j < m /\ k \in 1..Len(run[b].stmts) /\ m \in 1..Len(run[b].stmts) /\ m <= last
    BY <2>1, <2>4, <2>5
  <2>7. i \in WritesIn(run[b], k, m) /\ j \in WritesIn(run[b], k, m)
    BY <2>1, <2>3, <2>6 DEF WritesIn
  <2>8. IsBlock(run[b], k, m)
    BY <2>1, <2>2, <2>6 DEF IsBlock
  <2>9. BlockOk(b, k, m)
    BY <2>1, <2>6, <2>8 DEF BlocksOk
  <2> HIDE DEF last
  <2>10. CASE run[b].i <= m
    <3>1. \A n \in Nat \ {0} : ~(n < run[b].i) => <<b, n>> \notin committed
      BY <2>1 DEF CommittedOk
    <3>2. ASSUME NEW n \in {i, j}, n < run[b].i PROVE <<b, n>> \notin committed
      <4>1. n \in WritesIn(run[b], k, m) /\ k < run[b].i
        BY <2>1, <2>6, <2>7, <3>2
      <4>2. run[b].pc \in {"loop", "undo", "done"}
        <5>1. run[b].pc \notin {"idle", "checkout", "rejected"}
          BY <2>1, <2>6, <4>1 DEF Shape
        <5>2. run[b].pc \notin {"open", "last"}
          <6>1. ASSUME run[b].cursorForLast PROVE m < Len(run[b].stmts)
            BY <2>1, <2>6, <6>1 DEF last
          <6> QED
            BY <2>1, <2>6, <2>10, <6>1 DEF Shape
        <5> QED
          BY <2>1, <5>1, <5>2 DEF Record, BatchPoints
      <4> QED
        BY <2>9, <2>10, <3>2, <4>1, <4>2 DEF BlockOk, At, Lost
    <3> QED
      BY <2>1, <3>1, <3>2
  <2>11. CASE m < run[b].i
    BY <2>7, <2>9, <2>11 DEF BlockOk, Lost
  <2> QED
    BY <2>1, <2>6, <2>10, <2>11
<1> QED
  BY <1>1, BatchInvariance, PTL

\* Every client is somewhere: no way out of a statement forgets one.
ClientsKept == \A s \in Clients : s \in avail \cup parked \/ \E b \in Batches : Held(b, s)

\* Where batch b gives up what it had to the pool or a cursor, or takes what was at
\* rest, the others keep theirs.
LEMMA KeptWhere ==
    ASSUME Typed, ClientsKept, NEW b \in Batches, NEW r, run' = [run EXCEPT ![b] = r],
           \A s \in avail \cup parked : s \in avail' \cup parked' \/ r.hand = s \/ r.second = s,
           \A s \in Clients : Held(b, s) => s \in avail' \cup parked' \/ r.hand = s \/ r.second = s
    PROVE  ClientsKept'
<1>1. run'[b] = r /\ \A c \in Batches \ {b} : run'[c] = run[c]
  BY DEF Typed
<1>2. \A s \in Clients : \A c \in Batches \ {b} : Held(c, s) => Held(c, s)'
  BY <1>1 DEF Held
<1>3. \A s \in Clients : r.hand = s \/ r.second = s => Held(b, s)'
  BY <1>1 DEF Held
<1> QED
  BY <1>2, <1>3 DEF ClientsKept

\* Every step keeps all clients.
LEMMA KeptStep == BInv /\ ClientsKept /\ [Next]_vars => ClientsKept'
<1> SUFFICES ASSUME BInv, ClientsKept, [Next]_vars PROVE ClientsKept'
  OBVIOUS
<1>0. Typed
  BY DEF BInv
<1>1. CASE UNCHANGED vars
  BY <1>1 DEF vars, ClientsKept, Held
<1>2. ASSUME NEW b \in Batches, NEW r,
             run' = [run EXCEPT ![b] = r], r.hand = run[b].hand, r.second = run[b].second,
             UNCHANGED <<avail, parked>>
      PROVE  ClientsKept'
  BY <1>0, <1>2, KeptWhere DEF Held
<1>3. ASSUME NEW b \in Batches,
             \/ \E p \in Programs, flag \in CursorFlags : Start(b, p, flag)
             \/ CheckoutFails(b) \/ DeferLast(b) \/ CheckoutLastFails(b)
      PROVE  ClientsKept'
  <2>1. run[b] \in Record
    BY <1>0 DEF Typed
  <2>2. CASE \E p \in Programs, flag \in CursorFlags : Start(b, p, flag)
    <3>1. PICK p \in Programs, flag \in CursorFlags : Start(b, p, flag)
      BY <2>2
    <3> DEFINE r == [run[b] EXCEPT !.pc = "checkout", !.stmts = p, !.cursorForLast = flag]
    <3>2. run' = [run EXCEPT ![b] = r] /\ UNCHANGED <<avail, parked>>
      BY <3>1 DEF Start
    <3>3. r.hand = run[b].hand /\ r.second = run[b].second
      BY <2>1 DEF Record
    <3> HIDE DEF r
    <3> QED
      BY <1>2, <3>2, <3>3
  <2>3. CASE CheckoutFails(b)
    <3> DEFINE r == [run[b] EXCEPT !.pc = "rejected"]
    <3>2. run' = [run EXCEPT ![b] = r] /\ UNCHANGED <<avail, parked>>
      BY <2>3 DEF CheckoutFails
    <3>3. r.hand = run[b].hand /\ r.second = run[b].second
      BY <2>1 DEF Record
    <3> HIDE DEF r
    <3> QED
      BY <1>2, <3>2, <3>3
  <2>4. CASE DeferLast(b)
    <3> DEFINE r == [run[b] EXCEPT !.pc = "open"]
    <3>2. run' = [run EXCEPT ![b] = r] /\ UNCHANGED <<avail, parked>>
      BY <2>4 DEF DeferLast
    <3>3. r.hand = run[b].hand /\ r.second = run[b].second
      BY <2>1 DEF Record
    <3> HIDE DEF r
    <3> QED
      BY <1>2, <3>2, <3>3
  <2>5. CASE CheckoutLastFails(b)
    <3> DEFINE r == [run[b] EXCEPT !.pc = "undo", !.failedAt = run[b].i]
    <3>2. run' = [run EXCEPT ![b] = r] /\ UNCHANGED <<avail, parked>>
      BY <2>5 DEF CheckoutLastFails
    <3>3. r.hand = run[b].hand /\ r.second = run[b].second
      BY <2>1 DEF Record
    <3> HIDE DEF r
    <3> QED
      BY <1>2, <3>2, <3>3
  <2> QED
    BY <1>3, <2>2, <2>3, <2>4, <2>5
<1>4. ASSUME NEW b \in Batches, RunStatement(b) PROVE ClientsKept'
  <2>1. run[b] \in Record
    BY <1>0 DEF Typed
  <2> DEFINE q == [run[b] EXCEPT !.i = @ + 1]
             r == [run[b] EXCEPT !.pc = "undo", !.failedAt = run[b].i]
  <2>2. (run' = [run EXCEPT ![b] = q] \/ run' = [run EXCEPT ![b] = r]) /\ UNCHANGED <<avail, parked>>
    BY <1>4 DEF RunStatement
  <2>3. q.hand = run[b].hand /\ q.second = run[b].second /\ r.hand = run[b].hand /\ r.second = run[b].second
    BY <2>1 DEF Record
  <2> HIDE DEF q, r
  <2> QED
    BY <1>2, <2>2, <2>3
<1>5. ASSUME NEW b \in Batches, Checkout(b) PROVE ClientsKept'
  <2>1. run[b] \in Record /\ run[b].hand = None /\ run[b].second = None
    BY <1>0, <1>5 DEF Typed, Shape, Checkout, At
  <2>2. PICK s \in avail : avail' = avail \ {s} /\ run' = [run EXCEPT ![b].pc = "loop", ![b].hand = s]
    BY <1>5 DEF Checkout
  <2> DEFINE r == [run[b] EXCEPT !.pc = "loop", !.hand = s]
  <2>3. run' = [run EXCEPT ![b] = r] /\ parked' = parked
    BY <1>5, <2>2 DEF Checkout
  <2>4. r.hand = s
    BY <2>1 DEF Record
  <2>5. \A u \in Clients : ~Held(b, u)
    BY <2>1, BatchConstants DEF Held
  <2> HIDE DEF r
  <2> QED
    BY <1>0, <2>2, <2>3, <2>4, <2>5, KeptWhere
<1>6. ASSUME NEW b \in Batches, CheckoutLast(b) PROVE ClientsKept'
  <2>1. run[b] \in Record /\ run[b].second = None
    BY <1>0, <1>6 DEF Typed, Shape, CheckoutLast, At
  <2>2. PICK s \in avail : avail' = avail \ {s} /\ run' = [run EXCEPT ![b].pc = "last", ![b].second = s]
    BY <1>6 DEF CheckoutLast
  <2> DEFINE r == [run[b] EXCEPT !.pc = "last", !.second = s]
  <2>3. run' = [run EXCEPT ![b] = r] /\ parked' = parked
    BY <1>6, <2>2 DEF CheckoutLast
  <2>4. r.hand = run[b].hand /\ r.second = s
    BY <2>1 DEF Record
  <2>5. \A u \in Clients : Held(b, u) => run[b].hand = u
    BY <2>1, BatchConstants DEF Held
  <2> HIDE DEF r
  <2> QED
    BY <1>0, <2>2, <2>3, <2>4, <2>5, KeptWhere
<1>7. ASSUME NEW b \in Batches, NEW r, run' = [run EXCEPT ![b] = r], r.hand = run[b].hand,
             avail \cup parked \cup {run[b].second} \subseteq avail' \cup parked'
      PROVE  ClientsKept'
  BY <1>0, <1>7, KeptWhere DEF Held
<1>8. ASSUME NEW b \in Batches, RunLastInline(b) \/ RunLastCursor(b) \/ RunLastFails(b) PROVE ClientsKept'
  <2>1. run[b] \in Record
    BY <1>0 DEF Typed
  <2> DEFINE q == [run[b] EXCEPT !.pc = "loop", !.i = @ + 1, !.second = None]
             r == [run[b] EXCEPT !.pc = "undo", !.failedAt = run[b].i, !.second = None]
  <2>2. run' = [run EXCEPT ![b] = q] \/ run' = [run EXCEPT ![b] = r]
    BY <1>8 DEF RunLastInline, RunLastCursor, RunLastFails
  <2>3. q.hand = run[b].hand /\ r.hand = run[b].hand
    BY <2>1 DEF Record
  <2>4. avail \cup parked \cup {run[b].second} \subseteq avail' \cup parked'
    BY <1>8 DEF RunLastInline, RunLastCursor, RunLastFails
  <2> HIDE DEF q, r
  <2> QED
    BY <1>7, <2>2, <2>3, <2>4
<1>9. ASSUME NEW b \in Batches, Undo(b) \/ Finish(b) PROVE ClientsKept'
  <2>1. run[b] \in Record /\ run[b].second = None
    BY <1>0, <1>9 DEF Typed, Shape, Undo, Finish, At
  <2> DEFINE r == [run[b] EXCEPT !.pc = "done", !.hand = None]
  <2>2. run' = [run EXCEPT ![b] = r] /\ avail' = avail \cup {run[b].hand} /\ parked' = parked
    BY <1>9 DEF Undo, Finish
  <2>3. \A s \in Clients : Held(b, s) => s = run[b].hand
    BY <2>1, BatchConstants DEF Held
  <2> HIDE DEF r
  <2> QED
    BY <1>0, <2>2, <2>3, KeptWhere
<1>10. ASSUME NEW s \in Clients, EndCursor(s) PROVE ClientsKept'
  BY <1>10 DEF EndCursor, ClientsKept, Held
<1> QED
  BY <1>1, <1>3, <1>4, <1>5, <1>6, <1>8, <1>9, <1>10 DEF Next, Step

\* When none is at rest or with a cursor and every batch waits, each client is in the
\* hand of a batch of its own: there are as many batches as clients.
LEMMA StandstillNeedsAll ==
    ASSUME BInv, ClientsKept, IsFiniteSet(Batches), IsFiniteSet(Clients),
           Cardinality(Batches) < Cardinality(Clients)
    PROVE  NoStandstill
<1> SUFFICES ASSUME avail = {}, parked = {}, \A b \in Batches : run[b].pc \notin {"loop", "last", "undo"}
             PROVE  FALSE
  BY DEF NoStandstill
<1>1. ASSUME NEW s \in Clients PROVE \E b \in Batches : run[b].hand = s
  <2>1. PICK b \in Batches : Held(b, s)
    BY DEF ClientsKept
  <2>2. run[b].second = None
    BY DEF BInv, Typed, Shape
  <2> QED
    BY <2>1, <2>2, BatchConstants DEF Held
<1> DEFINE f == [s \in Clients |-> CHOOSE b \in Batches : run[b].hand = s]
<1>2. f \in [Clients -> Batches] /\ \A s \in Clients : run[f[s]].hand = s
  BY <1>1
<1> HIDE DEF f
<1>3. \E s, u \in Clients : s # u /\ f[s] = f[u]
  BY <1>2, FS_PigeonHole
<1> QED
  BY <1>2, <1>3

\* The condition under which batch.rs cannot wait for itself: with fewer batches than
\* clients, however each of them holds one client while its deferred statement waits
\* for another (batch.rs:121-124), some batch goes on, or the pool has a client, or a
\* cursor has one that will come back.  MCBatchWait shows the standstill with as many.
THEOREM FewBatchesGoOn ==
    ASSUME IsFiniteSet(Batches), IsFiniteSet(Clients), Cardinality(Batches) < Cardinality(Clients)
    PROVE  Spec => []NoStandstill
<1>1. Init => ClientsKept
  BY DEF Init, ClientsKept
<1>2. BInv /\ ClientsKept /\ [Next]_vars => ClientsKept'
  BY KeptStep
<1>3. BInv /\ ClientsKept => NoStandstill
  BY StandstillNeedsAll
<1> QED
  BY <1>1, <1>2, <1>3, BatchInvariance, PTL DEF Spec

----------------------------------------------------------------------------
(* Dry runs.                                                                *)

\* A dry run at work holds the place or was signalled; with the types this is
\* inductive, because whoever empties or takes the place signals its holder.
IInv == DryTypeOK /\ NoRunOutOfReach

\* No run has begun.
LEMMA InitInv == DryInit => IInv
  BY DEF DryInit, IInv, DryTypeOK, Points, NoRunOutOfReach, AtWork

\* Taking the place signals the run that had it.
LEMMA RegisterInv ==
    ASSUME IInv, NEW d \in DryRuns, Register(d)
    PROVE  IInv'
<1>1. DryTypeOK'
  BY DryRunAssumption DEF IInv, DryTypeOK, Points, Register, Go, Gone, DryRunAssumption
<1>2. NoRunOutOfReach'
  BY DryRunAssumption DEF IInv, DryTypeOK, NoRunOutOfReach, Register, Go, Gone, AtWork, DryRunAssumption
<1> QED
  BY <1>1, <1>2 DEF IInv

\* The steps of a run up to its answer leave place and signals alone, and an
\* answer ends its work.
LEMMA WorkInv ==
    ASSUME IInv, NEW d \in DryRuns,
           \/ DockerAnswers(d) \/ LoadScripts(d) \/ ContainerStarts(d) \/ AddressKnown(d)
           \/ Cancelled(d) \/ LoadFails(d) \/ WorkFails(d) \/ ScriptsEnd(d)
    PROVE  IInv'
<1> USE DEF IInv, DryTypeOK, Points, Go, Answer, Raced
<1>1. UNCHANGED <<canceller, resolved>> /\ asked' = asked /\ AtWork(d)
  BY DEF DockerAnswers, LoadScripts, ContainerStarts, AddressKnown, Onward,
         Cancelled, LoadFails, WorkFails, ScriptsEnd, AtWork
<1>2. CASE DockerAnswers(d) \/ LoadScripts(d) \/ ContainerStarts(d) \/ AddressKnown(d)
  <2>1. PICK p \in {"load", "container", "address", "scripts"} : reached' = [reached EXCEPT ![d] = p]
    BY <1>2 DEF DockerAnswers, LoadScripts, ContainerStarts, AddressKnown, Onward
  <2>2. verdict' = verdict
    BY <1>2 DEF DockerAnswers, LoadScripts, ContainerStarts, AddressKnown, Onward
  <2>3. reached' \in [DryRuns -> Points]
    BY <2>1
  <2>4. \A e \in DryRuns : reached'[e] \in {"leave", "over"} <=> reached[e] \in {"leave", "over"}
    BY <1>1, <2>1 DEF AtWork
  <2>5. DryTypeOK'
    BY <1>1, <2>2, <2>3, <2>4
  <2>6. NoRunOutOfReach'
    BY <1>1, <2>1 DEF NoRunOutOfReach, AtWork
  <2> QED
    BY <2>5, <2>6
<1>3. CASE Cancelled(d) \/ LoadFails(d) \/ WorkFails(d) \/ ScriptsEnd(d)
  <2>1. PICK p \in {"leave", "over"} : reached' = [reached EXCEPT ![d] = p]
    BY <1>3 DEF Cancelled, LoadFails, WorkFails, ScriptsEnd
  <2>2. PICK w \in Answers : verdict' = [verdict EXCEPT ![d] = w]
    BY <1>3 DEF Cancelled, LoadFails, WorkFails, ScriptsEnd, Answers
  <2>3. DryTypeOK'
    BY <1>1, <2>1, <2>2, DryRunAssumption DEF DryRunAssumption
  <2>4. NoRunOutOfReach'
    BY <1>1, <2>1 DEF NoRunOutOfReach, AtWork
  <2> QED
    BY <2>3, <2>4
<1> QED
  BY <1>2, <1>3

\* Emptying the place signals the run that had it.
LEMMA EmptyInv ==
    ASSUME IInv, DryCancel \/ \E d \in DryRuns : Unregister(d)
    PROVE  IInv'
<1>1. canceller' = NoRun /\ resolved' = Gone
  BY DEF DryCancel, Unregister
<1>2. \A d \in DryRuns : AtWork(d)' => AtWork(d)
  BY DEF IInv, DryTypeOK, Points, DryCancel, Unregister, Go, AtWork
<1>3. NoRunOutOfReach'
  BY <1>1, <1>2, DryRunAssumption DEF IInv, NoRunOutOfReach, Gone, DryRunAssumption
<1>4. DryTypeOK'
  BY <1>1 DEF IInv, DryTypeOK, Points, DryCancel, Unregister, Go, Gone
<1> QED
  BY <1>3, <1>4 DEF IInv

\* The types and the reach of the cancel hold forever.
THEOREM Invariance == DrySpec => []IInv
<1>1. IInv /\ [DryNext]_dryVars => IInv'
  <2> SUFFICES ASSUME IInv, [DryNext]_dryVars PROVE IInv'
    OBVIOUS
  <2>1. CASE DryCancel
    BY <2>1, EmptyInv
  <2>2. CASE \E d \in DryRuns : Register(d) \/ DryStep(d)
    BY <2>2, RegisterInv, WorkInv, EmptyInv DEF DryStep
  <2>3. CASE UNCHANGED dryVars
    BY <2>3 DEF dryVars, IInv, DryTypeOK, NoRunOutOfReach, AtWork
  <2> QED
    BY <2>1, <2>2, <2>3 DEF DryNext
<1> QED
  BY <1>1, InitInv, PTL DEF DrySpec

\* A dry run at work is the one a cancel reaches, or it was signalled
\* (dryrun.rs:277-281, 308-317).
THEOREM AlwaysInReach == DrySpec => []NoRunOutOfReach
<1>1. IInv => NoRunOutOfReach
  BY DEF IInv
<1> QED
  BY <1>1, Invariance, PTL

----------------------------------------------------------------------------
(* Both.                                                                    *)

\* Whatever the backend does is something the batches do, or nothing to them, and so
\* for the dry runs: what is proved of either holds of the backend (batch.rs and
\* dryrun.rs share no state).
THEOREM BackendParts == BackendSpec => Spec /\ DrySpec
<1>1. BackendInit => Init /\ DryInit
  BY DEF BackendInit
<1>2. [BackendNext]_<<command, vars, dryVars>> => [Next]_vars /\ [DryNext]_dryVars
  BY DEF BackendNext
<1> QED
  BY <1>1, <1>2, PTL DEF BackendSpec, Spec, DrySpec

\* Every state of the backend has its types, whichever part is running
\* (batch.rs, dryrun.rs).
THEOREM BackendTypesCorrect == BackendSpec => []BackendTypeOK
<1>1. IInv => DryTypeOK
  BY DEF IInv
<1> QED
  BY <1>1, BackendParts, BatchTypes, Invariance, PTL DEF BackendTypeOK
=============================================================================
