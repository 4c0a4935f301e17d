----------------------------- MODULE EditorProofs -----------------------------
(***************************************************************************)
(* Proofs about EditorRun, for every set of tabs, connections and runs and *)
(* every number of pages: a closed tab stays empty, and a tab on which the *)
(* user does not act during a call shows one result without gaps and       *)
(* leaves no cursor behind.                                                *)
(*                                                                         *)
(* A tab that is not disturbed has at most one call under way: a run that  *)
(* is out, or the next page of the cursor it shows.  Everything else about *)
(* it follows from what that call is at.                                   *)
(*                                                                         *)
(* And about TabStore, which shares no state with it: a tab that stopped   *)
(* being dirty has its text in its row, if no call overtook another.  What *)
(* holds of either side holds of it in MCEditorTab, which runs either.     *)
(*                                                                         *)
(* Whatever the user does, a spinner stands for a call whose answer is     *)
(* still to come, and typed text is on its way to its row.                 *)
(***************************************************************************)
EXTENDS MCEditorTab, TLAPS, SequenceTheorems

----------------------------------------------------------------------------
(* The invariant.                                                          *)

RunState == [status : {"idle", "opening", "streaming", "stopped"}, cursor : Runs \cup {None},
             rows : Seq(Pages), exhausted : BOOLEAN, prefetching : BOOLEAN]

Shown == {q \in RunState : RunStateOK(q)}
Kept  == {q \in Shown : ~q.prefetching}
FetchCall == [cursor : Runs, st : {"sent", "working", "page", "failed"}, page : 0..MaxPages, last : BOOLEAN]
Activation == [pc : {"new", "preflight", "sent", "answered", "over"}, tab : Tabs \cup {None},
               conn : Conns \cup {None}, reply : Seq(Kept)]

Typed ==
    /\ tabs \subseteq Tabs
    /\ conn \in [Tabs -> Conns \cup {None}]
    /\ runStates \in [Tabs -> Shown]
    /\ batches \in [Tabs -> Seq(Kept)]
    /\ runs \in [Runs -> Activation]
    /\ \A r \in Runs : runs[r].pc # "new" => runs[r].tab \in Tabs /\ runs[r].conn \in Conns
    /\ fetching \in [Tabs -> Seq(FetchCall)]
    /\ closing \subseteq Runs
    /\ server \in [Runs -> {"none", "open", "taken", "ended"}]
    /\ fetched \in [Runs -> 0..MaxPages]
    /\ disturbed \subseteq Tabs

\* None is no connection and no run; a reply has an outcome.
LEMMA EditorConstants ==
    /\ None \notin Conns /\ None \notin Runs /\ None \notin Tabs
    /\ MaxPages \in Nat /\ MaxPages >= 2 /\ MaxFetches \in Nat
    /\ Replies \subseteq Seq(Outcomes) /\ <<>> \notin Replies
  BY EditorAssumption DEF EditorAssumption

\* The states that show no rows.
LEMMA PlainShown ==
    ASSUME NEW s \in {"idle", "opening", "streaming", "stopped"}
    PROVE  /\ Plain(s) \in Kept /\ Plain(s).cursor = None /\ Plain(s).rows = <<>>
           /\ Plain(s).status = s /\ Plain(s).exhausted /\ ~Plain(s).prefetching
<1>1. Plain(s) \in RunState
  BY DEF Plain, RunState
<1>2. RunStateOK(Plain(s))
  BY DEF Plain, RunStateOK, Range
<1> QED
  BY <1>1, <1>2 DEF Plain, Shown, Kept

\* What the statements of a batch show.
LEMMA MapShown ==
    ASSUME NEW r \in Runs, NEW kind \in Outcomes
    PROVE  LET q == MapStatement(r, kind) IN
           /\ q \in Kept
           /\ kind = "rows" => q.cursor = None /\ q.rows = <<<<r, 0>>>> /\ q.exhausted
           /\ kind = "cursor" => q.cursor = r /\ q.rows = <<<<r, 1>>>> /\ ~q.exhausted
           /\ kind = "page" => q.cursor = r /\ q.rows = <<<<r, 1>>>> /\ q.exhausted
           /\ kind \in {"dml", "error"} => q.cursor = None /\ q.rows = <<>> /\ q.exhausted
<1>1. <<r, 0>> \in Pages /\ <<r, 1>> \in Pages
  BY EditorConstants DEF Pages
<1>2. ASSUME NEW c \in Runs \cup {None}, NEW rows \in Seq(Pages), NEW ex \in BOOLEAN
      PROVE  LET q == Streaming(c, rows, ex) IN
             q \in Kept /\ q.cursor = c /\ q.rows = rows /\ q.exhausted = ex
  <2> DEFINE q == [status |-> "streaming", cursor |-> c, rows |-> rows, exhausted |-> ex, prefetching |-> FALSE]
  <2>1. Streaming(c, rows, ex) = q
    BY DEF Streaming
  <2>2. q \in RunState
    BY DEF RunState
  <2>3. Range(rows) \subseteq Pages
    BY DEF Range
  <2>4. RunStateOK(q)
    BY <2>3 DEF RunStateOK
  <2> QED
    BY <2>1, <2>2, <2>4 DEF Shown, Kept
<1>3. <<<<r, 0>>>> \in Seq(Pages) /\ <<<<r, 1>>>> \in Seq(Pages) /\ <<>> \in Seq(Pages)
  BY <1>1
<1>4. CASE kind = "rows"
  BY <1>2, <1>3, <1>4 DEF MapStatement
<1>5. CASE kind = "cursor"
  BY <1>2, <1>3, <1>5 DEF MapStatement
<1>6. CASE kind = "page"
  BY <1>2, <1>3, <1>6 DEF MapStatement
<1>7. CASE kind = "dml"
  BY <1>2, <1>3, <1>7 DEF MapStatement
<1>8. CASE kind = "error"
  BY PlainShown, <1>8 DEF MapStatement
<1> QED
  BY <1>4, <1>5, <1>6, <1>7, <1>8 DEF Outcomes

\* What a page or a failure makes of the state shown.
LEMMA AfterFetchShown ==
    ASSUME NEW q \in Shown, q.status = "streaming", NEW k \in FetchCall
    PROVE  /\ AfterFetch(q, k) \in Shown
           /\ k.st = "failed" => AfterFetch(q, k) = Plain("stopped")
           /\ k.st # "failed" =>
                /\ AfterFetch(q, k).rows = Append(q.rows, <<k.cursor, k.page>>)
                /\ AfterFetch(q, k).exhausted = k.last /\ ~AfterFetch(q, k).prefetching
                /\ AfterFetch(q, k).cursor = IF k.last THEN None ELSE q.cursor
<1>1. CASE k.st = "failed"
  BY <1>1, PlainShown DEF AfterFetch, Kept
<1>2. CASE k.st # "failed"
  <2> DEFINE x == [status |-> "streaming", cursor |-> IF k.last THEN None ELSE q.cursor,
                   rows |-> Append(q.rows, <<k.cursor, k.page>>), exhausted |-> k.last, prefetching |-> FALSE]
  <2>1. q \in RunState /\ q = [status |-> q.status, cursor |-> q.cursor, rows |-> q.rows,
                               exhausted |-> q.exhausted, prefetching |-> q.prefetching]
    BY DEF Shown, RunState
  <2>2. AfterFetch(q, k) = x
    BY <1>2, <2>1 DEF AfterFetch
  <2>3. <<k.cursor, k.page>> \in Pages /\ k.last \in BOOLEAN
    BY DEF FetchCall, Pages
  <2>4. x.rows \in Seq(Pages)
    BY <2>1, <2>3 DEF RunState
  <2>5. x \in RunState
    BY <2>1, <2>3, <2>4 DEF RunState
  <2>6. RunStateOK(x)
    BY <2>4, <2>5 DEF RunStateOK, RunState, Range
  <2> QED
    BY <1>2, <2>2, <2>5, <2>6 DEF Shown
<1> QED
  BY <1>1, <1>2

\* A call that is answered leaves the others in their order.
LEMMA RemovedInOrder ==
    ASSUME NEW S, NEW s \in Seq(S), NEW i \in DOMAIN s
    PROVE  /\ RemoveAt(s, i) \in Seq(S) /\ DOMAIN RemoveAt(s, i) = 1..(Len(s) - 1)
           /\ \A j \in 1..(Len(s) - 1) : RemoveAt(s, i)[j] = IF j < i THEN s[j] ELSE s[j + 1]
<1> DEFINE a == SubSeq(s, 1, i - 1)
           z == SubSeq(s, i + 1, Len(s))
<1>1. i \in 1..Len(s) /\ Len(s) \in Nat
  OBVIOUS
<1>2. a \in Seq(S) /\ Len(a) = i - 1 /\ \A j \in 1..(i - 1) : a[j] = s[j]
  <2>1. 1 <= i - 1 + 1 /\ i - 1 <= Len(s)
    BY <1>1
  <2> QED
    BY <1>1, <2>1, SubSeqProperties
<1>3. z \in Seq(S) /\ Len(z) = Len(s) - i /\ \A j \in 1..(Len(s) - i) : z[j] = s[i + j]
  BY <1>1, SubSeqProperties
<1>4. RemoveAt(s, i) = a \o z
  BY DEF RemoveAt
<1> HIDE DEF a, z
<1>5. a \o z \in Seq(S) /\ Len(a \o z) = Len(s) - 1
  <2>1. a \o z \in Seq(S) /\ Len(a \o z) = Len(a) + Len(z)
    BY <1>2, <1>3, ConcatProperties
  <2> QED
    BY <1>1, <1>2, <1>3, <2>1
<1>6. \A j \in 1..(Len(s) - 1) : (a \o z)[j] = IF j < i THEN s[j] ELSE s[j + 1]
  <2> SUFFICES ASSUME NEW j \in 1..(Len(s) - 1)
               PROVE  (a \o z)[j] = IF j < i THEN s[j] ELSE s[j + 1]
    OBVIOUS
  <2>1. (a \o z)[j] = IF j <= Len(a) THEN a[j] ELSE z[j - Len(a)]
    <3>1. j \in 1..(Len(a) + Len(z))
      BY <1>1, <1>2, <1>3
    <3> QED
      BY <1>2, <1>3, <3>1, ConcatProperties
  <2>2. CASE j < i
    BY <1>1, <1>2, <2>1, <2>2
  <2>3. CASE ~(j < i)
    <3>1. j - Len(a) \in 1..(Len(s) - i) /\ ~(j <= Len(a)) /\ i + (j - Len(a)) = j + 1
      BY <1>1, <1>2, <2>3
    <3> QED
      BY <1>3, <2>1, <2>3, <3>1
  <2> QED
    BY <2>2, <2>3
<1>7. DOMAIN (a \o z) = 1..(Len(s) - 1)
  BY <1>5
<1> QED
  BY <1>4, <1>5, <1>6, <1>7

\* A call that is answered leaves the list.
LEMMA Removed ==
    ASSUME NEW S, NEW s \in Seq(S), NEW i \in DOMAIN s
    PROVE  /\ RemoveAt(s, i) \in Seq(S)
           /\ \A j \in DOMAIN RemoveAt(s, i) : \E n \in DOMAIN s : RemoveAt(s, i)[j] = s[n]
           /\ Len(s) = 1 => RemoveAt(s, i) = <<>>
           /\ s # <<>>
<1> DEFINE f == RemoveAt(s, i)
<1>1. i \in 1..Len(s) /\ Len(s) \in Nat /\ DOMAIN s = 1..Len(s)
  OBVIOUS
<1>2. /\ f \in Seq(S) /\ DOMAIN f = 1..(Len(s) - 1)
      /\ \A j \in 1..(Len(s) - 1) : f[j] = IF j < i THEN s[j] ELSE s[j + 1]
  BY RemovedInOrder
<1> HIDE DEF f
<1>3. \A j \in DOMAIN f : \E n \in DOMAIN s : f[j] = s[n]
  <2> SUFFICES ASSUME NEW j \in 1..(Len(s) - 1) PROVE \E n \in DOMAIN s : f[j] = s[n]
    BY <1>2
  <2>1. j \in 1..Len(s) /\ j + 1 \in 1..Len(s)
    BY <1>1
  <2> QED
    BY <1>1, <1>2, <2>1
<1>4. Len(s) = 1 => f = <<>>
  BY <1>2
<1> QED
  BY <1>1, <1>2, <1>3, <1>4 DEF f

\* The cursor of a run that has landed on this tab.
Belongs(c, t) == c # None => runs[c].pc = "over" /\ runs[c].tab = t

----------------------------------------------------------------------------
(* What is true of all tabs, and of a tab that is not disturbed.           *)

\* What refers to what: no cursor before its run was served, and every cursor a
\* tab has in hand is that of a run of the tab.
RefsOk ==
    /\ \A r \in Runs :
         /\ runs[r].pc \in {"new", "preflight", "sent"} =>
                server[r] = "none" /\ fetched[r] = 0 /\ runs[r].reply = <<>>
         /\ \A i \in DOMAIN runs[r].reply : runs[r].reply[i].cursor \in {r, None}
    /\ \A t \in Tabs :
         /\ Belongs(runStates[t].cursor, t)
         /\ \A i \in DOMAIN batches[t] : Belongs(batches[t][i].cursor, t)
         /\ \A i \in DOMAIN fetching[t] : Belongs(fetching[t][i].cursor, t)
    /\ \A r \in Runs : runs[r].pc = "new" => runs[r].tab = None

\* r is a run of t whose answer has not landed.
Waits(r, t) == runs[r].tab = t /\ runs[r].pc \in {"preflight", "sent", "answered"}

\* What an answered run brings with it.
Brings(r) ==
    IF runs[r].reply = <<>> THEN server[r] = "none"
    ELSE \E kind \in Outcomes :
           /\ Last(runs[r].reply) = MapStatement(r, kind)
           /\ IF kind = "cursor" THEN server[r] \in {"open", "ended"} /\ fetched[r] = 1
                                 ELSE server[r] = "none"

\* A run that is out is the only call of its tab, which waits for it.
WaitOk(t) ==
    \A r \in Runs : Waits(r, t) =>
        /\ fetching[t] = <<>> /\ t \in tabs /\ runs[r].conn = conn[t]
        /\ \A q \in Runs : Waits(q, t) => q = r
        /\ runs[r].pc \in {"sent", "answered"} => runStates[t].status = "opening"
        /\ runs[r].pc = "answered" => Brings(r)

\* The pages of c from the first on.
FirstPages(c, rows) == rows = [n \in 1..Len(rows) |-> <<c, n>>]

\* The rows shown are those of one landed run, and its cursor goes on after them.
ShowOk(t) ==
    LET q == runStates[t]
        c == runStates[t].cursor
    IN /\ q.rows # <<>> => \E r \in Runs :
              /\ runs[r].tab = t /\ runs[r].conn = conn[t] /\ runs[r].pc = "over"
              /\ q.rows = <<<<r, 0>>>> \/ FirstPages(r, q.rows)
       /\ c # None =>
              /\ runs[c].conn = conn[t] /\ FirstPages(c, q.rows)
              /\ q.exhausted => server[c] = "none" /\ fetching[t] = <<>>
              /\ ~q.exhausted /\ fetching[t] = <<>> =>
                     fetched[c] = Len(q.rows) /\ server[c] \in {"open", "ended"}

\* The one page on its way is the next one of the cursor shown.
PageOk(k, q) ==
    /\ k.cursor = q.cursor /\ ~q.exhausted
    /\ k.st = "sent" => fetched[k.cursor] = Len(q.rows) /\ server[k.cursor] \in {"open", "ended"}
    /\ k.st = "working" => fetched[k.cursor] = Len(q.rows) /\ server[k.cursor] = "taken"
    /\ k.st = "page" =>
           /\ k.page = Len(q.rows) + 1 /\ fetched[k.cursor] = k.page
           /\ server[k.cursor] \in {"open", "ended"}
           /\ k.last => server[k.cursor] = "ended"
    /\ k.st = "failed" => server[k.cursor] = "ended"

FetchOk(t) ==
    /\ Len(fetching[t]) <= 1
    /\ \A i \in DOMAIN fetching[t] : PageOk(fetching[t][i], runStates[t])

\* A cursor that lives is being closed, on its way, or shown.
LeftOk(t) ==
    \A r \in Runs : runs[r].tab = t /\ server[r] \in {"open", "taken"} =>
        \/ server[r] = "open" /\ (r \in closing \/ runs[r].pc = "answered")
        \/ runStates[t].cursor = r

TabOk(t) == WaitOk(t) /\ ShowOk(t) /\ FetchOk(t) /\ LeftOk(t)

\* What a tab must show after a step, part by part.
LEMMA ShowsNow ==
    ASSUME NEW t \in Tabs,
           runStates'[t].rows # <<>> => \E r \in Runs :
               /\ runs'[r].tab = t /\ runs'[r].conn = conn'[t] /\ runs'[r].pc = "over"
               /\ runStates'[t].rows = <<<<r, 0>>>> \/ FirstPages(r, runStates'[t].rows),
           NEW c, c = runStates'[t].cursor,
           c # None =>
               /\ runs'[c].conn = conn'[t] /\ FirstPages(c, runStates'[t].rows)
               /\ runStates'[t].exhausted => server'[c] = "none" /\ fetching'[t] = <<>>
               /\ ~runStates'[t].exhausted /\ fetching'[t] = <<>> =>
                      fetched'[c] = Len(runStates'[t].rows) /\ server'[c] \in {"open", "ended"}
    PROVE  ShowOk(t)'
  BY Zenon DEF ShowOk, FirstPages

\* The inductive invariant of the editor's memory.
EInv ==
    /\ Typed
    /\ RefsOk
    /\ ClosedTabShowsNothing
    /\ \A t \in Tabs \ disturbed : TabOk(t)

\* A call whose cursor was open may find it ended.
LEMMA TabRests ==
    ASSUME EInv, NEW t \in Tabs \ disturbed, t \in tabs => t \in tabs', conn'[t] = conn[t],
           runStates'[t] = runStates[t], fetching'[t] = fetching[t],
           \A r \in Runs : runs'[r] # runs[r] => runs[r].tab # t /\ runs'[r].tab # t,
           \A r \in Runs : runs[r].tab = t =>
               /\ fetched'[r] = fetched[r]
               /\ server'[r] = server[r] \/ (server[r] = "open" /\ server'[r] = "ended")
               /\ r \in closing /\ server'[r] = "open" => r \in closing'
    PROVE  TabOk(t)'
<1>1. Typed /\ RefsOk /\ TabOk(t)
  BY DEF EInv
<1>2. ASSUME NEW r \in Runs PROVE Waits(r, t)' => Waits(r, t) /\ runs'[r] = runs[r]
  BY DEF Waits
<1>3. ASSUME NEW r \in Runs, runs[r].tab = t PROVE runs'[r] = runs[r]
  BY <1>3
<1>4. WaitOk(t)'
  <2> SUFFICES ASSUME NEW r \in Runs, Waits(r, t)'
               PROVE  /\ fetching'[t] = <<>> /\ t \in tabs' /\ runs'[r].conn = conn'[t]
                      /\ \A q \in Runs : Waits(q, t)' => q = r
                      /\ runs'[r].pc \in {"sent", "answered"} => runStates'[t].status = "opening"
                      /\ runs'[r].pc = "answered" => Brings(r)'
    BY DEF WaitOk, Waits
  <2>1. Waits(r, t) /\ runs'[r] = runs[r] /\ runs[r].tab = t
    BY <1>2 DEF Waits
  <2>2. runs[r].pc = "answered" => Brings(r)
    BY <1>1, <2>1 DEF TabOk, WaitOk
  <2>3. runs[r].pc = "answered" => Brings(r)'
    BY <2>1, <2>2 DEF Brings
  <2> QED
    BY <1>1, <1>2, <2>1, <2>3 DEF TabOk, WaitOk
<1>5. runStates[t].cursor # None => runStates[t].cursor \in Runs /\ runs[runStates[t].cursor].tab = t
  BY <1>1 DEF Typed, Shown, RunState, RefsOk, Belongs
<1>6. ShowOk(t)'
  <2>1. ShowOk(t)
    BY <1>1 DEF TabOk
  <2>2. runStates[t].rows # <<>> => \E r \in Runs :
              /\ runs'[r].tab = t /\ runs'[r].conn = conn'[t] /\ runs'[r].pc = "over"
              /\ runStates[t].rows = <<<<r, 0>>>> \/ FirstPages(r, runStates[t].rows)
    BY <1>3, <2>1 DEF ShowOk
  <2>3. runStates[t].cursor # None =>
              LET c == runStates[t].cursor IN
              /\ runs'[c].conn = conn'[t] /\ FirstPages(c, runStates[t].rows)
              /\ runStates[t].exhausted => server'[c] = "none" /\ fetching'[t] = <<>>
              /\ ~runStates[t].exhausted /\ fetching'[t] = <<>> =>
                     fetched'[c] = Len(runStates[t].rows) /\ server'[c] \in {"open", "ended"}
    BY <1>3, <1>5, <2>1 DEF ShowOk
  <2>4. runStates'[t].rows # <<>> => \E r \in Runs :
              /\ runs'[r].tab = t /\ runs'[r].conn = conn'[t] /\ runs'[r].pc = "over"
              /\ runStates'[t].rows = <<<<r, 0>>>> \/ FirstPages(r, runStates'[t].rows)
    BY <2>2
  <2>5. runStates'[t].cursor # None =>
              LET c == runStates'[t].cursor IN
              /\ runs'[c].conn = conn'[t] /\ FirstPages(c, runStates'[t].rows)
              /\ runStates'[t].exhausted => server'[c] = "none" /\ fetching'[t] = <<>>
              /\ ~runStates'[t].exhausted /\ fetching'[t] = <<>> =>
                     fetched'[c] = Len(runStates'[t].rows) /\ server'[c] \in {"open", "ended"}
    BY <2>3
  <2> QED
    BY <2>4, <2>5, Zenon DEF ShowOk, FirstPages
<1>7. FetchOk(t)'
  <2>1. FetchOk(t)
    BY <1>1 DEF TabOk
  <2>2. ASSUME NEW i \in DOMAIN fetching[t] PROVE PageOk(fetching[t][i], runStates[t])'
    <3>1. fetching[t][i].cursor \in Runs /\ runs[fetching[t][i].cursor].tab = t
      <4>1. fetching[t] \in Seq(FetchCall)
        BY <1>1 DEF Typed
      <4>2. fetching[t][i] \in FetchCall
        BY <4>1
      <4> QED
        BY <1>1, <4>2, EditorConstants DEF FetchCall, RefsOk, Belongs
    <3>2. PageOk(fetching[t][i], runStates[t])
      BY <2>1 DEF FetchOk
    <3> QED
      BY <3>1, <3>2 DEF PageOk
  <2> QED
    BY <2>1, <2>2 DEF FetchOk
<1>8. LeftOk(t)'
  <2> SUFFICES ASSUME NEW r \in Runs, runs'[r].tab = t, server'[r] \in {"open", "taken"}
               PROVE  \/ server'[r] = "open" /\ (r \in closing' \/ runs'[r].pc = "answered")
                      \/ runStates'[t].cursor = r
    BY DEF LeftOk
  <2>1. runs'[r] = runs[r] /\ runs[r].tab = t /\ server'[r] = server[r]
    OBVIOUS
  <2> QED
    BY <1>1, <2>1 DEF TabOk, LeftOk
<1> QED
  BY <1>4, <1>6, <1>7, <1>8 DEF TabOk

\* A step of one tab keeps the invariant when it keeps its parts and that tab.
LEMMA TabStep ==
    ASSUME EInv, NEW t \in Tabs, Typed', RefsOk', ClosedTabShowsNothing',
           disturbed \subseteq disturbed', t \notin disturbed' => TabOk(t)',
           tabs \ {t} \subseteq tabs', closing \subseteq closing',
           \A u \in Tabs \ {t} : /\ conn'[u] = conn[u] /\ runStates'[u] = runStates[u]
                                 /\ fetching'[u] = fetching[u],
           \A r \in Runs : runs'[r] # runs[r] => runs'[r].tab = t /\ runs[r].tab \in {t, None},
           \A r \in Runs : runs[r].tab # t => fetched'[r] = fetched[r] /\ server'[r] = server[r]
    PROVE  EInv'
<1>1. ASSUME NEW u \in Tabs \ disturbed', u # t PROVE TabOk(u)'
  <2>1. u # None
    BY EditorConstants
  <2>2. \A r \in Runs : runs'[r] # runs[r] => runs[r].tab # u /\ runs'[r].tab # u
    BY <1>1, <2>1
  <2> QED
    BY <1>1, <2>2, TabRests
<1> QED
  BY <1>1 DEF EInv

\* A tab with nothing on its way, whose cursor, if it has one, can be closed.
LEMMA AtRest ==
    ASSUME EInv, NEW t \in Tabs \ disturbed, ~Busy(t)
    PROVE  /\ fetching[t] = <<>> /\ \A r \in Runs : ~Waits(r, t)
           /\ runStates[t].cursor # None =>
                /\ CursorOf(t) = {runStates[t].cursor}
                /\ server[runStates[t].cursor] \in {"none", "open", "ended"}
<1>1. fetching[t] = <<>> /\ \A r \in Runs : ~Waits(r, t)
  BY DEF Busy, Waits
<1>2. ShowOk(t) /\ runStates[t] \in Shown
  BY DEF EInv, TabOk, Typed
<1>3. runStates[t].cursor # None => runStates[t].status = "streaming"
  BY <1>2 DEF Shown, RunStateOK, Plain
<1> QED
  BY <1>1, <1>2, <1>3 DEF ShowOk, CursorOf, Shown, RunState

\* A tab at rest gives up what it shows, or its cursor alone, and closes it.
LEMMA GivesUp ==
    ASSUME EInv, NEW t \in Tabs \ disturbed, fetching[t] = <<>>, \A r \in Runs : ~Waits(r, t)',
           runStates[t].cursor # None =>
                /\ CursorOf(t) = {runStates[t].cursor}
                /\ server[runStates[t].cursor] \in {"none", "open", "ended"},
           runStates'[t].cursor = None,
           runStates'[t].rows = <<>> \/ (runStates'[t].rows = runStates[t].rows /\ conn'[t] = conn[t] /\ runs' = runs),
           closing' = closing \cup CursorOf(t) \/ (runStates[t].cursor = None /\ closing' = closing),
           UNCHANGED <<fetching, server, fetched>>,
           \A r \in Runs : runs'[r].tab = t => runs[r].tab = t /\ (runs[r].pc = "answered" => runs'[r].pc = "answered")
    PROVE  TabOk(t)'
<1>1. TabOk(t)
  BY DEF EInv
<1>2. WaitOk(t)'
  BY DEF WaitOk
<1>3. ShowOk(t)'
  <2>1. ShowOk(t)
    BY <1>1 DEF TabOk
  <2>2. runStates'[t].rows # <<>> => \E r \in Runs :
            /\ runs'[r].tab = t /\ runs'[r].conn = conn'[t] /\ runs'[r].pc = "over"
            /\ runStates'[t].rows = <<<<r, 0>>>> \/ FirstPages(r, runStates'[t].rows)
    BY <2>1 DEF ShowOk
  <2> QED
    BY <2>2, ShowsNow
<1>4. FetchOk(t)'
  BY <1>1 DEF TabOk, FetchOk
<1>5. LeftOk(t)'
  BY <1>1 DEF TabOk, LeftOk
<1> QED
  BY <1>2, <1>3, <1>4, <1>5 DEF TabOk

----------------------------------------------------------------------------
(* Store actions up to their first await.                                  *)

\* Run, up to its preflights.
LEMMA RunQueryInv ==
    ASSUME EInv, NEW t \in Tabs, NEW r \in Runs, RunQuery(t, r)
    PROVE  EInv'
<1>1. Typed /\ RefsOk /\ ClosedTabShowsNothing /\ t \in tabs /\ runs[r].pc = "new"
      /\ UNCHANGED <<tabs, conn, batches, fetching, closing, server, fetched>>
  BY DEF EInv, RunQuery, Backend
<1>2. CASE conn[t] = None
  <2>1. runStates' = [runStates EXCEPT ![t] = Plain("stopped")] /\ runs' = runs /\ disturbed' = disturbed
    BY <1>2 DEF RunQuery
  <2>2. runStates'[t] = Plain("stopped") /\ \A u \in Tabs \ {t} : runStates'[u] = runStates[u]
    BY <1>1, <2>1 DEF Typed
  <2>3. Typed'
    BY <1>1, <2>1, PlainShown DEF Typed, Kept
  <2>4. RefsOk' /\ ClosedTabShowsNothing'
    BY <1>1, <2>1, <2>2, PlainShown DEF RefsOk, Belongs, ClosedTabShowsNothing
  <2>5. ASSUME t \notin disturbed PROVE TabOk(t)'
    <3>1. TabOk(t)
      BY <2>5 DEF EInv
    <3>2. \A q \in Runs : ~Waits(q, t)
      BY <1>1, <1>2, <3>1, EditorConstants DEF TabOk, WaitOk, Waits, Typed
    <3>3. runStates[t].cursor = None
      <4>1. runStates[t].cursor # None => runStates[t].cursor \in Runs
        BY <1>1 DEF Typed, Shown, RunState
      <4>2. runStates[t].cursor # None => runs[runStates[t].cursor].conn = None
        BY <1>2, <3>1 DEF TabOk, ShowOk
      <4>3. runStates[t].cursor # None => runs[runStates[t].cursor].pc = "over"
        BY <1>1 DEF RefsOk, Belongs
      <4>4. runStates[t].cursor # None => runs[runStates[t].cursor].conn \in Conns
        BY <1>1, <4>1, <4>3 DEF Typed
      <4> QED
        BY <4>2, <4>4, EditorConstants
    <3>4. fetching[t] = <<>>
      <4>1. fetching[t] \in Seq(FetchCall)
        BY <1>1 DEF Typed
      <4>2. \A i \in DOMAIN fetching[t] : fetching[t][i].cursor \in Runs /\ fetching[t][i].cursor = None
        <5> SUFFICES ASSUME NEW i \in DOMAIN fetching[t]
                     PROVE  fetching[t][i].cursor \in Runs /\ fetching[t][i].cursor = None
          OBVIOUS
        <5>1. fetching[t][i] \in FetchCall
          BY <4>1
        <5>2. PageOk(fetching[t][i], runStates[t])
          BY <3>1 DEF TabOk, FetchOk
        <5> QED
          BY <3>3, <5>1, <5>2 DEF FetchCall, PageOk
      <4> QED
        BY <4>1, <4>2, EditorConstants
    <3>5. \A q \in Runs : ~Waits(q, t)'
      BY <2>1, <3>2 DEF Waits
    <3> QED
      BY <1>1, <2>1, <2>2, <2>5, <3>3, <3>4, <3>5, PlainShown, GivesUp
  <2> QED
    BY <1>1, <2>1, <2>2, <2>3, <2>4, <2>5, TabStep
<1>3. CASE conn[t] # None
  <2> DEFINE a == [runs[r] EXCEPT !.pc = "preflight", !.tab = t, !.conn = conn[t]]
  <2>1. /\ runs' = [runs EXCEPT ![r] = a] /\ runStates' = runStates
        /\ disturbed' = IF Busy(t) THEN disturbed \cup {t} ELSE disturbed
    BY <1>3 DEF RunQuery, Disturb
  <2>2. conn[t] \in Conns /\ runs[r] \in Activation
    BY <1>1, <1>3 DEF Typed
  <2>3. /\ a \in Activation /\ a.pc = "preflight" /\ a.tab = t /\ a.conn = conn[t] /\ a.reply = runs[r].reply
    BY <2>2 DEF Activation
  <2>4. runs'[r] = a /\ \A q \in Runs \ {r} : runs'[q] = runs[q]
    BY <1>1, <2>1 DEF Typed
  <2> HIDE DEF a
  <2>5. Typed'
    BY <1>1, <2>1, <2>2, <2>3, <2>4 DEF Typed
  <2>6. RefsOk' /\ ClosedTabShowsNothing'
    BY <1>1, <2>1, <2>3, <2>4 DEF RefsOk, Belongs, ClosedTabShowsNothing
  <2>7. ASSUME t \notin disturbed' PROVE TabOk(t)'
    <3>1. ~Busy(t) /\ t \notin disturbed
      BY <2>1, <2>7
    <3>2. fetching[t] = <<>> /\ \A q \in Runs : ~Waits(q, t)
      BY <3>1, AtRest
    <3>3. TabOk(t)
      BY <3>1 DEF EInv
    <3>4. \A q \in Runs : Waits(q, t)' => q = r
      BY <2>4, <3>2 DEF Waits
    <3>5. WaitOk(t)'
      BY <1>1, <2>3, <2>4, <3>2, <3>4 DEF WaitOk
    <3>6. \A q \in Runs : runs[q].pc = "over" => runs'[q] = runs[q]
      BY <1>1, <2>4
    <3>7. runStates[t].cursor # None => runStates[t].cursor \in Runs /\ runs[runStates[t].cursor].pc = "over"
      BY <1>1 DEF Typed, Shown, RunState, RefsOk, Belongs
    <3>8. ShowOk(t)
      BY <3>3 DEF TabOk
    <3>9. ShowOk(t)'
      <4>1. runStates'[t].rows # <<>> => \E q \in Runs :
                /\ runs'[q].tab = t /\ runs'[q].conn = conn'[t] /\ runs'[q].pc = "over"
                /\ runStates'[t].rows = <<<<q, 0>>>> \/ FirstPages(q, runStates'[t].rows)
        BY <1>1, <2>1, <3>6, <3>8 DEF ShowOk
      <4> DEFINE k == runStates'[t].cursor
      <4>2. k # None =>
                /\ runs'[k].conn = conn'[t] /\ FirstPages(k, runStates'[t].rows)
                /\ runStates'[t].exhausted => server'[k] = "none" /\ fetching'[t] = <<>>
                /\ ~runStates'[t].exhausted /\ fetching'[t] = <<>> =>
                       fetched'[k] = Len(runStates'[t].rows) /\ server'[k] \in {"open", "ended"}
        BY <1>1, <2>1, <3>6, <3>7, <3>8 DEF ShowOk
      <4> QED
        BY <4>1, <4>2, ShowsNow
    <3>10. FetchOk(t)'
      BY <1>1, <3>2, <3>3 DEF TabOk, FetchOk
    <3>11. LeftOk(t)'
      BY <1>1, <2>1, <2>4, <3>3 DEF TabOk, LeftOk, RefsOk
    <3> QED
      BY <3>5, <3>9, <3>10, <3>11 DEF TabOk
  <2>8. runs[r].tab = None
    BY <1>1 DEF RefsOk
  <2> QED
    BY <1>1, <2>1, <2>3, <2>4, <2>5, <2>6, <2>7, <2>8, TabStep
<1> QED
  BY <1>2, <1>3

\* The grid asks for the next page.
LEMMA FetchMoreInv ==
    ASSUME EInv, NEW t \in Tabs, FetchMore(t)
    PROVE  EInv'
<1> DEFINE q == [runStates[t] EXCEPT !.prefetching = TRUE]
           c == runStates[t].cursor
<1>1. /\ Typed /\ RefsOk /\ ClosedTabShowsNothing /\ t \in tabs
      /\ runStates[t].status = "streaming" /\ ~runStates[t].exhausted /\ c # None
      /\ UNCHANGED <<tabs, conn, batches, runs, closing, server, fetched>>
      /\ disturbed' = IF Busy(t) THEN disturbed \cup {t} ELSE disturbed
  BY DEF EInv, FetchMore, Backend, Disturb
<1>2. /\ runStates' = [runStates EXCEPT ![t] = q]
      /\ fetching' = [fetching EXCEPT ![t] = Append(fetching[t], Sent(c))]
  BY <1>1 DEF FetchMore, Typed
<1>3. runStates[t] \in Shown /\ runStates[t] \in RunState /\ fetching[t] \in Seq(FetchCall) /\ c \in Runs
  BY <1>1 DEF Typed, Shown, RunState
<1>4. /\ q \in RunState /\ q.status = "streaming" /\ q.rows = runStates[t].rows
      /\ q.cursor = c /\ q.exhausted = runStates[t].exhausted
  BY <1>1, <1>3 DEF RunState
<1>5. q \in Shown
  <2> HIDE DEF q
  <2> QED
    BY <1>1, <1>3, <1>4 DEF Shown, RunStateOK
<1>6. Sent(c) \in FetchCall /\ Sent(c).cursor = c /\ Sent(c).st = "sent"
  BY <1>3, EditorConstants DEF Sent, FetchCall
<1>7. /\ Append(fetching[t], Sent(c)) \in Seq(FetchCall)
      /\ \A i \in DOMAIN Append(fetching[t], Sent(c)) :
            \/ Append(fetching[t], Sent(c))[i] = Sent(c)
            \/ i \in DOMAIN fetching[t] /\ Append(fetching[t], Sent(c))[i] = fetching[t][i]
      /\ fetching[t] = <<>> => Len(Append(fetching[t], Sent(c))) = 1 /\ Append(fetching[t], Sent(c)) # <<>>
  BY <1>3, <1>6, AppendProperties
<1> DEFINE f == Append(fetching[t], Sent(c))
<1> HIDE DEF q, f
<1>8. /\ runStates'[t] = q /\ fetching'[t] = f
      /\ \A u \in Tabs \ {t} : runStates'[u] = runStates[u] /\ fetching'[u] = fetching[u]
  BY <1>1, <1>2 DEF Typed, f
<1>9. Typed'
  BY <1>1, <1>2, <1>5, <1>7, <1>8 DEF Typed, f
<1>10. RefsOk' /\ ClosedTabShowsNothing'
  <2>1. Belongs(c, t)
    BY <1>1 DEF RefsOk
  <2>2. \A i \in DOMAIN fetching'[t] : Belongs(fetching'[t][i].cursor, t)
    BY <1>1, <1>6, <1>7, <1>8, <2>1 DEF RefsOk, f
  <2>3. \A u \in Tabs : /\ Belongs(runStates'[u].cursor, u)
                        /\ \A i \in DOMAIN batches[u] : Belongs(batches[u][i].cursor, u)
                        /\ \A i \in DOMAIN fetching'[u] : Belongs(fetching'[u][i].cursor, u)
    BY <1>1, <1>4, <1>8, <2>1, <2>2 DEF RefsOk
  <2> QED
    BY <1>1, <1>8, <2>3 DEF RefsOk, Belongs, ClosedTabShowsNothing
<1>11. ASSUME t \notin disturbed' PROVE TabOk(t)'
  <2>1. ~Busy(t) /\ t \notin disturbed
    BY <1>1, <1>11
  <2>2. fetching[t] = <<>> /\ \A r \in Runs : ~Waits(r, t)
    BY <2>1, AtRest
  <2>3. TabOk(t)
    BY <2>1 DEF EInv
  <2>4. WaitOk(t)'
    BY <1>1, <2>2 DEF WaitOk, Waits
  <2>5. ShowOk(t)'
    BY <1>1, <1>4, <1>7, <1>8, <2>2, <2>3 DEF TabOk, ShowOk, FirstPages, f
  <2>6. fetched[c] = Len(runStates[t].rows) /\ server[c] \in {"open", "ended"}
    BY <1>1, <2>2, <2>3 DEF TabOk, ShowOk
  <2>7. \A i \in DOMAIN fetching'[t] : fetching'[t][i] = Sent(c)
    BY <1>7, <1>8, <2>2 DEF f
  <2>9. FetchOk(t)'
    <3>1. ASSUME NEW i \in DOMAIN fetching'[t] PROVE PageOk(fetching[t][i], runStates[t])'
      BY <1>1, <1>4, <1>6, <1>8, <2>6, <2>7 DEF PageOk
    <3> QED
      BY <1>7, <1>8, <2>2, <3>1 DEF FetchOk, f
  <2>10. LeftOk(t)'
    BY <1>1, <1>4, <1>8, <2>3 DEF TabOk, LeftOk
  <2> QED
    BY <2>4, <2>5, <2>9, <2>10 DEF TabOk
<1> QED
  BY <1>1, <1>8, <1>9, <1>10, <1>11, TabStep

\* Cancel: the result frozen, its cursor given up.
LEMMA CancelRunInv ==
    ASSUME EInv, NEW t \in Tabs, CancelRun(t)
    PROVE  EInv'
<1>1. /\ Typed /\ RefsOk /\ ClosedTabShowsNothing /\ t \in tabs
      /\ UNCHANGED <<tabs, conn, batches, runs, fetching, server, fetched>>
      /\ disturbed' = IF Busy(t) THEN disturbed \cup {t} ELSE disturbed
  BY DEF EInv, CancelRun, Backend, Disturb
<1>2. runStates[t] \in Shown /\ runStates[t] \in RunState
  BY <1>1 DEF Typed, Shown
<1>3. \E q \in Shown : /\ runStates' = [runStates EXCEPT ![t] = q] /\ q.cursor = None
                       /\ q.rows = <<>> \/ q.rows = runStates[t].rows
                       /\ \/ closing' = closing \cup CursorOf(t)
                          \/ runStates[t].cursor = None /\ closing' = closing
  <2>1. CASE /\ runStates[t].status = "opening"
             /\ runStates' = [runStates EXCEPT ![t] = Plain("stopped")]
             /\ UNCHANGED closing
    <3>1. runStates[t].cursor = None
      BY <1>2, <2>1 DEF Shown, RunStateOK, Plain
    <3> QED
      BY <2>1, <3>1, PlainShown DEF Kept
  <2>2. CASE /\ runStates[t].prefetching /\ runStates[t].cursor # None
             /\ closing' = closing \cup CursorOf(t)
             /\ runStates' = [runStates EXCEPT ![t] =
                    [@ EXCEPT !.cursor = None, !.exhausted = TRUE, !.prefetching = FALSE]]
    <3> DEFINE q == [runStates[t] EXCEPT !.cursor = None, !.exhausted = TRUE, !.prefetching = FALSE]
    <3>1. /\ q \in RunState /\ q.cursor = None /\ q.rows = runStates[t].rows /\ ~q.prefetching
          /\ q.status = runStates[t].status
      BY <1>2 DEF RunState
    <3>2. runStates' = [runStates EXCEPT ![t] = q]
      BY <1>1, <2>2 DEF Typed
    <3>3. runStates[t].status = "streaming"
      BY <1>2, <2>2 DEF Shown, RunStateOK, Plain
    <3> HIDE DEF q
    <3>4. q \in Shown
      BY <1>2, <3>1, <3>3 DEF Shown, RunStateOK, RunState
    <3> QED
      BY <2>2, <3>1, <3>2, <3>4
  <2> QED
    BY <2>1, <2>2 DEF CancelRun
<1>4. PICK q \in Shown : /\ runStates' = [runStates EXCEPT ![t] = q] /\ q.cursor = None
                         /\ q.rows = <<>> \/ q.rows = runStates[t].rows
                         /\ \/ closing' = closing \cup CursorOf(t)
                            \/ runStates[t].cursor = None /\ closing' = closing
  BY <1>3
<1>5. runStates'[t] = q /\ \A u \in Tabs \ {t} : runStates'[u] = runStates[u]
  BY <1>1, <1>4 DEF Typed
<1>6. CursorOf(t) \subseteq Runs /\ closing \subseteq closing' /\ closing' \subseteq Runs
  BY <1>1, <1>2, <1>4 DEF CursorOf, RunState, Typed
<1>7. Typed'
  BY <1>1, <1>4, <1>6 DEF Typed
<1>8. RefsOk' /\ ClosedTabShowsNothing'
  BY <1>1, <1>4, <1>5 DEF RefsOk, Belongs, ClosedTabShowsNothing
<1>9. ASSUME t \notin disturbed' PROVE TabOk(t)'
  <2>1. ~Busy(t) /\ t \notin disturbed
    BY <1>1, <1>9
  <2>2. /\ fetching[t] = <<>> /\ \A r \in Runs : ~Waits(r, t)
        /\ runStates[t].cursor # None =>
                /\ CursorOf(t) = {runStates[t].cursor}
                /\ server[runStates[t].cursor] \in {"none", "open", "ended"}
    BY <2>1, AtRest
  <2>3. \A r \in Runs : ~Waits(r, t)'
    BY <1>1, <2>2 DEF Waits
  <2> QED
    BY <1>1, <1>4, <1>5, <2>1, <2>2, <2>3, GivesUp
<1> QED
  BY <1>1, <1>5, <1>6, <1>7, <1>8, <1>9, TabStep

\* Closing a tab and switching its connection give its cursor up.
LEMMA LeaveInv ==
    ASSUME EInv, NEW t \in Tabs, CloseTab(t) \/ \E c \in Conns \cup {None} : SetTabConnection(t, c)
    PROVE  EInv'
<1>1. /\ Typed /\ RefsOk /\ ClosedTabShowsNothing
      /\ UNCHANGED <<batches, runs, fetching, server, fetched>>
      /\ disturbed' = IF Busy(t) THEN disturbed \cup {t} ELSE disturbed
      /\ closing' = closing \cup CursorOf(t)
      /\ runStates' = [runStates EXCEPT ![t] = Plain("idle")]
      /\ tabs \ {t} \subseteq tabs' /\ tabs' \subseteq tabs
      /\ \E c \in Conns \cup {None} : conn' = [conn EXCEPT ![t] = c] \/ conn' = conn
  BY DEF EInv, CloseTab, SetTabConnection, Backend, Disturb
<1>2. runStates[t] \in Shown /\ runStates[t] \in RunState
  BY <1>1 DEF Typed, Shown
<1>3. /\ runStates'[t] = Plain("idle")
      /\ \A u \in Tabs \ {t} : runStates'[u] = runStates[u] /\ conn'[u] = conn[u]
  BY <1>1 DEF Typed
<1>4. CursorOf(t) \subseteq Runs
  BY <1>2 DEF CursorOf, RunState
<1>5. Typed'
  BY <1>1, <1>4, PlainShown DEF Typed, Kept
<1>6. RefsOk' /\ ClosedTabShowsNothing'
  <2>1. \A u \in Tabs : Belongs(runStates'[u].cursor, u)
    BY <1>1, <1>3, PlainShown DEF RefsOk, Belongs
  <2>2. \A u \in Tabs \ tabs' : runStates'[u].status # "streaming"
    BY <1>1, <1>3, PlainShown DEF ClosedTabShowsNothing
  <2> QED
    BY <1>1, <2>1, <2>2 DEF RefsOk, Belongs, ClosedTabShowsNothing
<1>7. ASSUME t \notin disturbed' PROVE TabOk(t)'
  <2>1. ~Busy(t) /\ t \notin disturbed
    BY <1>1, <1>7
  <2>2. /\ fetching[t] = <<>> /\ \A r \in Runs : ~Waits(r, t)
        /\ runStates[t].cursor # None =>
                /\ CursorOf(t) = {runStates[t].cursor}
                /\ server[runStates[t].cursor] \in {"none", "open", "ended"}
    BY <2>1, AtRest
  <2>3. \A r \in Runs : ~Waits(r, t)'
    BY <1>1, <2>2 DEF Waits
  <2> QED
    BY <1>1, <1>3, <2>1, <2>2, <2>3, PlainShown, GivesUp
<1> QED
  BY <1>1, <1>3, <1>5, <1>6, <1>7, TabStep

\* Switching the sub-tab shows a first page again.
LEMMA SetActiveBatchTabInv ==
    ASSUME EInv, NEW t \in Tabs, NEW i \in DOMAIN batches[t], SetActiveBatchTab(t, i)
    PROVE  EInv'
<1>1. /\ Typed /\ RefsOk /\ ClosedTabShowsNothing /\ t \in tabs
      /\ runStates' = [runStates EXCEPT ![t] = batches[t][i]]
      /\ disturbed' = disturbed \cup {t}
      /\ UNCHANGED <<tabs, conn, batches, runs, fetching, closing, server, fetched>>
  BY DEF EInv, SetActiveBatchTab, Disturb, Backend
<1>2. batches[t][i] \in Shown
  <2>1. batches[t] \in Seq(Kept)
    BY <1>1 DEF Typed
  <2> QED
    BY <2>1 DEF Kept
<1>3. runStates'[t] = batches[t][i] /\ \A u \in Tabs \ {t} : runStates'[u] = runStates[u]
  BY <1>1 DEF Typed
<1>4. Typed'
  BY <1>1, <1>2 DEF Typed
<1>5. RefsOk' /\ ClosedTabShowsNothing'
  BY <1>1, <1>3 DEF RefsOk, Belongs, ClosedTabShowsNothing
<1> QED
  BY <1>1, <1>3, <1>4, <1>5, TabStep

----------------------------------------------------------------------------
(* What follows an await, and the backend.                                 *)

\* The preflights end: the previous cursor is closed and the run sent, or the
\* panel says why not.
LEMMA PreflightInv ==
    ASSUME EInv, NEW r \in Runs, PreflightOk(r) \/ PreflightRefused(r)
    PROVE  EInv'
<1>0. PICK t \in Tabs : t = runs[r].tab
  BY DEF EInv, Typed, PreflightOk, PreflightRefused
<1> DEFINE p == IF PreflightOk(r) THEN "sent" ELSE "over"
           s == IF PreflightOk(r) THEN "opening" ELSE "stopped"
           a == [runs[r] EXCEPT !.pc = p]
<1>1. /\ Typed /\ RefsOk /\ ClosedTabShowsNothing /\ runs[r].pc = "preflight" /\ runs[r].tab = t
      /\ UNCHANGED <<tabs, conn, fetching, server, fetched>>
      /\ runs[r] \in Activation
  BY <1>0 DEF EInv, PreflightOk, PreflightRefused, Backend, Typed
<1>2. /\ runStates' = [runStates EXCEPT ![t] = Plain(s)]
      /\ batches' = [batches EXCEPT ![t] = <<>>] \/ batches' = batches
      /\ \/ closing' = closing \cup CursorOf(t) /\ disturbed' = disturbed
         \/ /\ closing' = closing /\ p = "over"
            /\ disturbed' = IF CursorOf(t) # {} THEN disturbed \cup {t} ELSE disturbed
      /\ p \in {"sent", "over"} /\ s \in {"opening", "stopped"} /\ (p = "sent" => s = "opening")
  <2>1. CASE PreflightOk(r)
    BY <1>0, <2>1 DEF PreflightOk
  <2>2. CASE ~PreflightOk(r)
    BY <1>0, <2>2 DEF PreflightRefused, Disturb
  <2> QED
    BY <2>1, <2>2
<1>3. runs' = [runs EXCEPT ![r] = a]
  <2>1. CASE PreflightOk(r)
    BY <1>1, <2>1 DEF PreflightOk, Typed
  <2>2. CASE ~PreflightOk(r)
    BY <1>1, <2>2 DEF PreflightRefused, Typed
  <2> QED
    BY <2>1, <2>2
<1> HIDE DEF p, s
<1>4. a \in Activation /\ a.pc = p /\ a.tab = t /\ a.conn = runs[r].conn /\ a.reply = runs[r].reply
  BY <1>1, <1>2 DEF Activation
<1> HIDE DEF a
<1>5. runs'[r] = a /\ \A q \in Runs \ {r} : runs'[q] = runs[q]
  BY <1>1, <1>3 DEF Typed
<1>6. runStates[t] \in Shown /\ runStates[t] \in RunState
  BY <1>1 DEF Typed, Shown
<1>7. CursorOf(t) \subseteq Runs
  BY <1>6 DEF CursorOf, RunState
<1>8. runStates'[t] = Plain(s) /\ \A u \in Tabs \ {t} : runStates'[u] = runStates[u]
  BY <1>1, <1>2 DEF Typed
<1>9. Plain(s) \in Kept /\ Plain(s).cursor = None /\ Plain(s).rows = <<>> /\ Plain(s).status = s
  BY <1>2, PlainShown
<1>10. Typed'
  <2>1. runStates' \in [Tabs -> Shown] /\ batches' \in [Tabs -> Seq(Kept)]
    <3>1. <<>> \in Seq(Kept) /\ Plain(s) \in Shown
      BY <1>9 DEF Kept
    <3> QED
      BY <1>1, <1>2, <3>1 DEF Typed
  <2>2. runs' \in [Runs -> Activation]
    BY <1>1, <1>3, <1>4 DEF Typed
  <2>3. \A q \in Runs : runs'[q].pc # "new" => runs'[q].tab \in Tabs /\ runs'[q].conn \in Conns
    BY <1>1, <1>4, <1>5 DEF Typed
  <2>4. closing' \subseteq Runs /\ disturbed' \subseteq Tabs
    BY <1>1, <1>2, <1>7 DEF Typed
  <2> QED
    BY <1>1, <2>1, <2>2, <2>3, <2>4 DEF Typed
<1>11. RefsOk'
  <2>1. \A u \in Tabs : \A c \in Runs \cup {None} :
            Belongs(c, u) => (c # None => runs'[c].pc = "over" /\ runs'[c].tab = u)
    BY <1>1, <1>5 DEF Belongs
  <2>2. \A u \in Tabs : /\ \A i \in DOMAIN batches[u] : batches[u][i].cursor \in Runs \cup {None}
                        /\ \A i \in DOMAIN fetching[u] : fetching[u][i].cursor \in Runs \cup {None}
                        /\ runStates[u].cursor \in Runs \cup {None}
    <3>1. \A u \in Tabs : batches[u] \in Seq(Kept) /\ fetching[u] \in Seq(FetchCall)
      BY <1>1 DEF Typed
    <3>2. \A u \in Tabs : /\ \A i \in DOMAIN batches[u] : batches[u][i] \in Kept
                          /\ \A i \in DOMAIN fetching[u] : fetching[u][i] \in FetchCall
      BY <3>1
    <3> QED
      BY <1>1, <3>2 DEF Typed, Kept, Shown, RunState, FetchCall
  <2>3. \A u \in Tabs :
            /\ Belongs(runStates[u].cursor, u)'
            /\ \A i \in DOMAIN batches'[u] : Belongs(batches[u][i].cursor, u)'
            /\ \A i \in DOMAIN fetching'[u] : Belongs(fetching[u][i].cursor, u)'
    <3> SUFFICES ASSUME NEW u \in Tabs
                 PROVE  /\ Belongs(runStates[u].cursor, u)'
                        /\ \A i \in DOMAIN batches'[u] : Belongs(batches[u][i].cursor, u)'
                        /\ \A i \in DOMAIN fetching'[u] : Belongs(fetching[u][i].cursor, u)'
      OBVIOUS
    <3>1. Belongs(runStates[u].cursor, u)'
      <4>1. CASE u = t
        BY <1>8, <1>9, <4>1 DEF Belongs
      <4>2. CASE u # t
        <5>1. Belongs(runStates[u].cursor, u) /\ runStates'[u] = runStates[u]
          BY <1>1, <1>8, <4>2 DEF RefsOk
        <5> QED
          BY <2>1, <2>2, <5>1 DEF Belongs
      <4> QED
        BY <4>1, <4>2
    <3>2. \A i \in DOMAIN fetching'[u] : Belongs(fetching[u][i].cursor, u)'
      <4>1. \A i \in DOMAIN fetching[u] : Belongs(fetching[u][i].cursor, u)
        BY <1>1 DEF RefsOk
      <4> QED
        BY <1>1, <2>1, <2>2, <4>1 DEF Belongs
    <3>3. \A i \in DOMAIN batches'[u] : Belongs(batches[u][i].cursor, u)'
      <4>1. batches'[u] = batches[u] \/ batches'[u] = <<>>
        BY <1>1, <1>2 DEF Typed
      <4>2. \A i \in DOMAIN batches[u] : Belongs(batches[u][i].cursor, u)
        BY <1>1 DEF RefsOk
      <4> QED
        BY <2>1, <2>2, <4>1, <4>2 DEF Belongs
    <3> QED
      BY <3>1, <3>2, <3>3
  <2>4. \A q \in Runs :
         /\ runs'[q].pc \in {"new", "preflight", "sent"} =>
                server'[q] = "none" /\ fetched'[q] = 0 /\ runs'[q].reply = <<>>
         /\ \A i \in DOMAIN runs'[q].reply : runs'[q].reply[i].cursor \in {q, None}
         /\ runs'[q].pc = "new" => runs'[q].tab = None
    BY <1>1, <1>2, <1>4, <1>5 DEF RefsOk
  <2> QED
    BY <2>3, <2>4 DEF RefsOk
<1>12. ClosedTabShowsNothing'
  BY <1>1, <1>2, <1>8, <1>9 DEF ClosedTabShowsNothing
<1>13. ASSUME t \notin disturbed' PROVE TabOk(t)'
  <2>1. TabOk(t) /\ t \notin disturbed
    BY <1>1, <1>2, <1>13 DEF EInv
  <2>2. Waits(r, t)
    BY <1>1 DEF Waits
  <2>3. fetching[t] = <<>> /\ t \in tabs /\ runs[r].conn = conn[t] /\ \A q \in Runs : Waits(q, t) => q = r
    BY <2>1, <2>2 DEF TabOk, WaitOk
  <2>4. runStates[t].cursor # None =>
            /\ CursorOf(t) = {runStates[t].cursor}
            /\ server[runStates[t].cursor] \in {"none", "open", "ended"}
    <3>1. runStates[t].cursor # None => runStates[t].status = "streaming"
      BY <1>6 DEF Shown, RunStateOK, Plain
    <3> QED
      BY <1>6, <2>1, <2>3, <3>1 DEF TabOk, ShowOk, CursorOf, RunState
  <2>5. closing' = closing \cup CursorOf(t) \/ (runStates[t].cursor = None /\ closing' = closing)
    BY <1>2, <1>13, <2>4, <1>1 DEF Typed
  <2>6. \A q \in Runs : Waits(q, t)' => q = r
    BY <1>5, <2>3 DEF Waits
  <2>7. WaitOk(t)'
    BY <1>1, <1>2, <1>4, <1>5, <1>8, <1>9, <2>3, <2>6 DEF WaitOk, Waits
  <2>8. ShowOk(t)'
    BY <1>8, <1>9 DEF ShowOk
  <2>9. FetchOk(t)'
    BY <1>1, <2>1, <2>3 DEF TabOk, FetchOk
  <2>10. LeftOk(t)'
    <3>1. server[r] = "none"
      BY <1>1 DEF RefsOk
    <3>2. ASSUME NEW q \in Runs, runs'[q].tab = t, server[q] \in {"open", "taken"}
          PROVE  server[q] = "open" /\ (q \in closing' \/ runs'[q].pc = "answered")
      <4>1. q # r /\ runs'[q] = runs[q] /\ q # None
        BY <1>5, <3>1, <3>2, EditorConstants
      <4>2. CASE runStates[t].cursor = q
        BY <2>4, <2>5, <3>2, <4>1, <4>2
      <4>3. CASE runStates[t].cursor # q
        BY <2>1, <2>5, <3>2, <4>1, <4>3 DEF TabOk, LeftOk
      <4> QED
        BY <4>2, <4>3
    <3> QED
      BY <1>1, <3>2 DEF LeftOk
  <2> QED
    BY <2>7, <2>8, <2>9, <2>10 DEF TabOk
<1>14. /\ disturbed \subseteq disturbed' /\ closing \subseteq closing'
  BY <1>2
<1>15. \A u \in Tabs \ {t} : conn'[u] = conn[u] /\ runStates'[u] = runStates[u] /\ fetching'[u] = fetching[u]
  BY <1>1, <1>8
<1>16. \A q \in Runs : runs'[q] # runs[q] => runs'[q].tab = t /\ runs[q].tab \in {t, None}
  BY <1>1, <1>4, <1>5
<1> QED
  BY <1>1, <1>10, <1>11, <1>12, <1>13, <1>14, <1>15, <1>16, TabStep

\* The answer of a run fills the panel of its tab.
LEMMA LandRunInv ==
    ASSUME EInv, NEW r \in Runs, LandRun(r)
    PROVE  EInv'
<1>0. PICK t \in Tabs : t = runs[r].tab
  BY DEF EInv, Typed, LandRun
<1> DEFINE a == [runs[r] EXCEPT !.pc = "over", !.reply = <<>>]
           q == IF runs[r].reply = <<>> THEN Plain("stopped") ELSE Last(runs[r].reply)
<1>1. /\ Typed /\ RefsOk /\ ClosedTabShowsNothing /\ runs[r].pc = "answered" /\ runs[r].tab = t
      /\ UNCHANGED <<tabs, conn, fetching, closing, server, fetched, disturbed>>
      /\ runs[r] \in Activation /\ runs[r].reply \in Seq(Kept)
  BY <1>0 DEF EInv, LandRun, Backend, Typed, Activation
<1>2. runs' = [runs EXCEPT ![r] = a]
  BY <1>1 DEF LandRun, Typed
<1>3. a \in Activation /\ a.pc = "over" /\ a.tab = t /\ a.conn = runs[r].conn /\ a.reply = <<>>
  <2>1. <<>> \in Seq(Kept)
    OBVIOUS
  <2> QED
    BY <1>1, <2>1 DEF Activation
<1>4. /\ q \in Kept
      /\ runs[r].reply # <<>> => Len(runs[r].reply) \in DOMAIN runs[r].reply /\ q = runs[r].reply[Len(runs[r].reply)]
      /\ runs[r].reply = <<>> => q = Plain("stopped")
  BY <1>1, PlainShown DEF Last
<1>5. IF t \in tabs THEN /\ runStates' = [runStates EXCEPT ![t] = q]
                         /\ batches' = [batches EXCEPT ![t] = runs[r].reply]
                    ELSE UNCHANGED <<runStates, batches>>
  BY <1>0 DEF LandRun
<1>6. runs[r].reply # <<>> => q = Last(runs[r].reply)
  OBVIOUS
<1> HIDE DEF a, q
<1>7. runs'[r] = a /\ \A x \in Runs \ {r} : runs'[x] = runs[x]
  BY <1>1, <1>2 DEF Typed
<1>8. /\ \A u \in Tabs \ {t} : runStates'[u] = runStates[u] /\ batches'[u] = batches[u]
      /\ t \in tabs => runStates'[t] = q /\ batches'[t] = runs[r].reply
      /\ t \notin tabs => runStates' = runStates /\ batches' = batches
  BY <1>1, <1>5 DEF Typed
<1>9. Typed'
  <2>1. runStates' \in [Tabs -> Shown] /\ batches' \in [Tabs -> Seq(Kept)]
    BY <1>1, <1>4, <1>5 DEF Typed, Kept
  <2>2. runs' \in [Runs -> Activation]
    BY <1>1, <1>2, <1>3 DEF Typed
  <2>3. \A x \in Runs : runs'[x].pc # "new" => runs'[x].tab \in Tabs /\ runs'[x].conn \in Conns
    BY <1>1, <1>3, <1>7 DEF Typed
  <2> QED
    BY <1>1, <2>1, <2>2, <2>3 DEF Typed
<1>10. RefsOk'
  <2>1. \A u \in Tabs : \A c : Belongs(c, u) /\ c \in Runs \cup {None} => Belongs(c, u)'
    BY <1>1, <1>7 DEF Belongs
  <2>2. Belongs(r, t)' /\ Belongs(None, t)'
    BY <1>3, <1>7 DEF Belongs
  <2>3. \A u \in Tabs : /\ runStates[u].cursor \in Runs \cup {None}
                        /\ \A i \in DOMAIN batches[u] : batches[u][i].cursor \in Runs \cup {None}
                        /\ \A i \in DOMAIN fetching[u] : fetching[u][i].cursor \in Runs \cup {None}
    <3>1. \A u \in Tabs : batches[u] \in Seq(Kept) /\ fetching[u] \in Seq(FetchCall)
      BY <1>1 DEF Typed
    <3>2. \A u \in Tabs : /\ \A i \in DOMAIN batches[u] : batches[u][i] \in Kept
                          /\ \A i \in DOMAIN fetching[u] : fetching[u][i] \in FetchCall
      BY <3>1
    <3> QED
      BY <1>1, <3>2 DEF Typed, Kept, Shown, RunState, FetchCall
  <2>4. /\ \A i \in DOMAIN runs[r].reply : runs[r].reply[i].cursor \in {r, None}
        /\ q.cursor \in {r, None}
    BY <1>1, <1>4, PlainShown DEF RefsOk
  <2>5. ASSUME NEW u \in Tabs
        PROVE  /\ Belongs(runStates[u].cursor, u)'
               /\ \A i \in DOMAIN batches'[u] : Belongs(batches[u][i].cursor, u)'
               /\ \A i \in DOMAIN fetching'[u] : Belongs(fetching[u][i].cursor, u)'
    <3>1. \A c : Belongs(c, u) /\ c \in Runs \cup {None} /\ c = c => (c # None => runs'[c].pc = "over" /\ runs'[c].tab = u)
      BY <2>1 DEF Belongs
    <3>2. \A i \in DOMAIN fetching[u] : fetching[u][i].cursor # None =>
              runs'[fetching[u][i].cursor].pc = "over" /\ runs'[fetching[u][i].cursor].tab = u
      BY <1>1, <2>3, <3>1 DEF RefsOk
    <3>3. CASE u = t /\ t \in tabs
      BY <1>1, <1>8, <2>2, <2>4, <3>2, <3>3 DEF Belongs
    <3>4. CASE ~(u = t /\ t \in tabs)
      <4>1. runStates'[u] = runStates[u] /\ batches'[u] = batches[u]
        BY <1>8, <3>4
      <4> QED
        BY <1>1, <2>3, <3>1, <3>2, <4>1 DEF RefsOk, Belongs
    <3> QED
      BY <3>3, <3>4
  <2>6. \A x \in Runs :
         /\ runs'[x].pc \in {"new", "preflight", "sent"} =>
                server'[x] = "none" /\ fetched'[x] = 0 /\ runs'[x].reply = <<>>
         /\ \A i \in DOMAIN runs'[x].reply : runs'[x].reply[i].cursor \in {x, None}
         /\ runs'[x].pc = "new" => runs'[x].tab = None
    BY <1>1, <1>3, <1>7 DEF RefsOk
  <2> QED
    BY <2>5, <2>6 DEF RefsOk
<1>11. ClosedTabShowsNothing'
  BY <1>1, <1>8 DEF ClosedTabShowsNothing
<1>12. ASSUME t \notin disturbed' PROVE TabOk(t)'
  <2>1. TabOk(t) /\ t \notin disturbed
    BY <1>1, <1>12 DEF EInv
  <2>2. Waits(r, t)
    BY <1>1 DEF Waits
  <2>3. /\ fetching[t] = <<>> /\ t \in tabs /\ runs[r].conn = conn[t] /\ \A x \in Runs : Waits(x, t) => x = r
        /\ runStates[t].status = "opening" /\ Brings(r)
    BY <1>1, <2>1, <2>2 DEF TabOk, WaitOk
  <2>4. runStates'[t] = q /\ runs'[r].tab = t /\ runs'[r].conn = conn'[t] /\ runs'[r].pc = "over"
    BY <1>1, <1>3, <1>7, <1>8, <2>3
  <2>5. WaitOk(t)'
    BY <1>3, <1>7, <2>3 DEF WaitOk, Waits
  <2>6. runStates[t].cursor = None
    BY <1>1, <2>3 DEF Typed, Shown, RunStateOK, Plain
  <2>7. CASE runs[r].reply = <<>>
    <3>1. q.rows = <<>> /\ q.cursor = None /\ server[r] = "none"
      BY <1>4, <2>3, <2>7, PlainShown DEF Brings
    <3>2. ShowOk(t)'
      BY <2>4, <3>1 DEF ShowOk
    <3>3. FetchOk(t)'
      BY <1>1, <2>1, <2>3 DEF TabOk, FetchOk
    <3>4. LeftOk(t)'
      BY <1>1, <1>3, <1>7, <2>1, <2>6, <3>1, EditorConstants DEF TabOk, LeftOk
    <3> QED
      BY <2>5, <3>2, <3>3, <3>4 DEF TabOk
  <2>8. CASE runs[r].reply # <<>>
    <3>1. PICK kind \in Outcomes :
            /\ q = MapStatement(r, kind)
            /\ IF kind = "cursor" THEN server[r] \in {"open", "ended"} /\ fetched[r] = 1
                                  ELSE server[r] = "none"
      BY <1>6, <2>3, <2>8 DEF Brings
    <3>2. /\ kind = "rows" => q.cursor = None /\ q.rows = <<<<r, 0>>>> /\ q.exhausted
          /\ kind = "cursor" => q.cursor = r /\ q.rows = <<<<r, 1>>>> /\ ~q.exhausted
          /\ kind = "page" => q.cursor = r /\ q.rows = <<<<r, 1>>>> /\ q.exhausted
          /\ kind \in {"dml", "error"} => q.cursor = None /\ q.rows = <<>> /\ q.exhausted
      BY <3>1, MapShown
    <3>3. Len(<<<<r, 1>>>>) = 1 /\ <<<<r, 1>>>> = [n \in 1..1 |-> <<r, n>>]
      OBVIOUS
    <3>4. FirstPages(r, <<<<r, 1>>>>)
      BY <3>3 DEF FirstPages
    <3>5. ShowOk(t)'
      <4>1. q.rows # <<>> => q.rows = <<<<r, 0>>>> \/ FirstPages(r, q.rows)
        BY <3>2, <3>4 DEF Outcomes
      <4>2. q.cursor # None => /\ q.cursor = r /\ FirstPages(r, q.rows)
                               /\ q.exhausted => server[r] = "none"
                               /\ ~q.exhausted => fetched[r] = Len(q.rows) /\ server[r] \in {"open", "ended"}
        BY <3>1, <3>2, <3>3, <3>4 DEF Outcomes
      <4>3. runStates'[t].rows # <<>> => \E x \in Runs :
                /\ runs'[x].tab = t /\ runs'[x].conn = conn'[t] /\ runs'[x].pc = "over"
                /\ runStates'[t].rows = <<<<x, 0>>>> \/ FirstPages(x, runStates'[t].rows)
        BY <2>4, <4>1
      <4> DEFINE k == runStates'[t].cursor
      <4>4. k # None =>
                /\ runs'[k].conn = conn'[t] /\ FirstPages(k, runStates'[t].rows)
                /\ runStates'[t].exhausted => server'[k] = "none" /\ fetching'[t] = <<>>
                /\ ~runStates'[t].exhausted /\ fetching'[t] = <<>> =>
                       fetched'[k] = Len(runStates'[t].rows) /\ server'[k] \in {"open", "ended"}
        BY <1>1, <2>3, <2>4, <4>2
      <4> QED
        BY <4>3, <4>4, ShowsNow
    <3>6. FetchOk(t)'
      BY <1>1, <2>1, <2>3 DEF TabOk, FetchOk
    <3>7. server[r] \in {"open", "taken"} => q.cursor = r
      BY <3>1, <3>2
    <3>8. LeftOk(t)'
      BY <1>1, <1>3, <1>7, <2>1, <2>4, <2>6, <3>7, EditorConstants DEF TabOk, LeftOk
    <3> QED
      BY <2>5, <3>5, <3>6, <3>8 DEF TabOk
  <2> QED
    BY <2>7, <2>8
<1>13. \A x \in Runs : runs'[x] # runs[x] => runs'[x].tab = t /\ runs[x].tab \in {t, None}
  BY <1>1, <1>3, <1>7
<1> QED
  BY <1>1, <1>8, <1>9, <1>10, <1>11, <1>12, <1>13, TabStep

\* The backend has answered a run.
LEMMA AnswerStep ==
    ASSUME EInv, NEW r \in Runs, runs[r].pc = "sent", NEW x \in Seq(Kept),
           \A i \in DOMAIN x : x[i].cursor \in {r, None},
           NEW a \in Activation, a.pc = "answered", a.tab = runs[r].tab, a.conn = runs[r].conn, a.reply = x,
           runs' = [runs EXCEPT ![r] = a],
           server' \in [Runs -> {"none", "open", "taken", "ended"}], fetched' \in [Runs -> 0..MaxPages],
           \A q \in Runs \ {r} : server'[q] = server[q] /\ fetched'[q] = fetched[q],
           server'[r] \in {"none", "open"}, Brings(r)',
           UNCHANGED <<tabs, conn, runStates, batches, fetching, closing, disturbed>>
    PROVE  EInv'
<1>0. PICK t \in Tabs : t = runs[r].tab
  BY DEF EInv, Typed
<1>1. Typed /\ RefsOk /\ ClosedTabShowsNothing
  BY DEF EInv
<1>2. runs'[r] = a /\ \A q \in Runs \ {r} : runs'[q] = runs[q]
  BY <1>1 DEF Typed
<1>3. Typed'
  BY <1>1, <1>2 DEF Typed
<1>4. RefsOk'
  <2>1. \A q \in Runs :
         /\ runs'[q].pc \in {"new", "preflight", "sent"} =>
                server'[q] = "none" /\ fetched'[q] = 0 /\ runs'[q].reply = <<>>
         /\ \A i \in DOMAIN runs'[q].reply : runs'[q].reply[i].cursor \in {q, None}
         /\ runs'[q].pc = "new" => runs'[q].tab = None
    BY <1>1, <1>2 DEF RefsOk
  <2>2. \A c, u : Belongs(c, u) => Belongs(c, u)'
    BY <1>2 DEF Belongs
  <2>3. \A u \in Tabs : /\ Belongs(runStates[u].cursor, u)'
                        /\ \A i \in DOMAIN batches'[u] : Belongs(batches[u][i].cursor, u)'
                        /\ \A i \in DOMAIN fetching'[u] : Belongs(fetching[u][i].cursor, u)'
    BY <1>1, <2>2 DEF RefsOk
  <2> QED
    BY <2>1, <2>3 DEF RefsOk
<1>5. ClosedTabShowsNothing'
  BY <1>1 DEF ClosedTabShowsNothing
<1>6. ASSUME t \notin disturbed' PROVE TabOk(t)'
  <2>1. TabOk(t) /\ Waits(r, t)
    BY <1>0, <1>6 DEF EInv, Waits
  <2>2. WaitOk(t)'
    BY <1>0, <1>2, <2>1 DEF TabOk, WaitOk, Waits
  <2>3. \A q \in Runs : runs[q].pc = "over" => runs'[q] = runs[q] /\ server'[q] = server[q] /\ fetched'[q] = fetched[q]
    BY <1>2
  <2>4. runStates[t].cursor # None => runStates[t].cursor \in Runs /\ runs[runStates[t].cursor].pc = "over"
    BY <1>1 DEF RefsOk, Belongs, Typed, Shown, RunState
  <2>5. ShowOk(t)
    BY <2>1 DEF TabOk
  <2>6. ShowOk(t)'
    <3>1. runStates[t].rows # <<>> => \E q \in Runs :
              /\ runs'[q].tab = t /\ runs'[q].conn = conn'[t] /\ runs'[q].pc = "over"
              /\ runStates[t].rows = <<<<q, 0>>>> \/ FirstPages(q, runStates[t].rows)
      BY <2>3, <2>5 DEF ShowOk
    <3>2. runStates[t].cursor # None =>
              LET c == runStates[t].cursor IN
              /\ runs'[c].conn = conn'[t] /\ FirstPages(c, runStates[t].rows)
              /\ runStates[t].exhausted => server'[c] = "none" /\ fetching'[t] = <<>>
              /\ ~runStates[t].exhausted /\ fetching'[t] = <<>> =>
                     fetched'[c] = Len(runStates[t].rows) /\ server'[c] \in {"open", "ended"}
      BY <2>3, <2>4, <2>5 DEF ShowOk
    <3> QED
      BY <3>1, <3>2 DEF ShowOk, FirstPages
  <2>7. FetchOk(t)'
    BY <1>0, <2>1 DEF TabOk, WaitOk, FetchOk
  <2>8. LeftOk(t)'
    BY <1>0, <1>2, <2>1 DEF TabOk, LeftOk
  <2> QED
    BY <2>2, <2>6, <2>7, <2>8 DEF TabOk
<1>7. \A q \in Runs : runs'[q] # runs[q] => runs'[q].tab = t /\ runs[q].tab \in {t, None}
  BY <1>0, <1>2
<1>8. \A q \in Runs : runs[q].tab # t => fetched'[q] = fetched[q] /\ server'[q] = server[q]
  BY <1>0
<1> QED
  BY <1>3, <1>4, <1>5, <1>6, <1>7, <1>8, TabStep

\* A batch is served, or its invoke rejects.
LEMMA ServeInv ==
    ASSUME EInv, NEW r \in Runs, ServeRun(r) \/ RejectRun(r)
    PROVE  EInv'
<1>1. /\ Typed /\ RefsOk /\ runs[r].pc = "sent" /\ runs[r] \in Activation
      /\ server[r] = "none" /\ fetched[r] = 0 /\ runs[r].reply = <<>>
      /\ UNCHANGED <<tabs, conn, runStates, batches, fetching, closing, disturbed>>
  BY DEF EInv, ServeRun, RejectRun, Typed, RefsOk
<1>2. CASE RejectRun(r)
  <2> DEFINE a == [runs[r] EXCEPT !.pc = "answered"]
  <2>1. a \in Activation /\ a.pc = "answered" /\ a.tab = runs[r].tab /\ a.conn = runs[r].conn /\ a.reply = <<>>
    BY <1>1 DEF Activation
  <2>2. runs' = [runs EXCEPT ![r] = a] /\ server' = server /\ fetched' = fetched
    BY <1>1, <1>2 DEF RejectRun, Backend, Typed
  <2> HIDE DEF a
  <2>3. runs'[r].reply = <<>>
    BY <1>1, <2>1, <2>2 DEF Typed
  <2>4. Brings(r)'
    BY <1>1, <2>2, <2>3 DEF Brings
  <2>5. <<>> \in Seq(Kept) /\ \A i \in DOMAIN <<>> : <<>>[i].cursor \in {r, None}
    OBVIOUS
  <2>6. server' \in [Runs -> {"none", "open", "taken", "ended"}] /\ fetched' \in [Runs -> 0..MaxPages]
    BY <1>1, <2>2 DEF Typed
  <2> QED
    BY <1>1, <2>1, <2>2, <2>4, <2>5, <2>6, AnswerStep
<1>3. CASE ServeRun(r)
  <2>1. PICK reply \in Replies :
         /\ runs' = [runs EXCEPT ![r] = [@ EXCEPT !.pc = "answered",
                !.reply = [n \in DOMAIN reply |-> MapStatement(r, reply[n])]]]
         /\ server' = [server EXCEPT ![r] = IF Last(reply) = "cursor" THEN "open" ELSE @]
         /\ fetched' = [fetched EXCEPT ![r] = IF Last(reply) = "cursor" THEN 1 ELSE @]
    BY <1>3 DEF ServeRun
  <2> DEFINE x == [n \in DOMAIN reply |-> MapStatement(r, reply[n])]
             a == [runs[r] EXCEPT !.pc = "answered", !.reply = x]
  <2>2. /\ reply \in Seq(Outcomes) /\ Len(reply) \in Nat \ {0} /\ DOMAIN reply = 1..Len(reply)
        /\ \A n \in DOMAIN reply : reply[n] \in Outcomes
    BY EditorConstants
  <2>3. \A n \in DOMAIN reply : MapStatement(r, reply[n]) \in Kept /\ MapStatement(r, reply[n]).cursor \in {r, None}
    BY <2>2, MapShown DEF Outcomes
  <2>4. /\ x \in Seq(Kept) /\ Len(x) = Len(reply) /\ x # <<>>
        /\ \A i \in DOMAIN x : x[i].cursor \in {r, None}
        /\ Last(x) = MapStatement(r, Last(reply)) /\ Last(reply) \in Outcomes
    <3>1. x \in [1..Len(reply) -> Kept] /\ DOMAIN x = 1..Len(reply)
      BY <2>2, <2>3
    <3>2. x \in Seq(Kept) /\ Len(x) = Len(reply)
      BY <2>2, <3>1
    <3>3. Len(reply) \in DOMAIN reply
      BY <2>2
    <3>4. Last(x) = MapStatement(r, Last(reply)) /\ Last(reply) \in Outcomes
      BY <2>2, <3>2, <3>3 DEF Last
    <3>5. x # <<>>
      BY <2>2, <3>2
    <3> QED
      BY <2>3, <3>1, <3>2, <3>4, <3>5
  <2>5. runs' = [runs EXCEPT ![r] = a]
    BY <1>1, <2>1 DEF Typed
  <2> HIDE DEF x
  <2>6. a \in Activation /\ a.pc = "answered" /\ a.tab = runs[r].tab /\ a.conn = runs[r].conn /\ a.reply = x
    BY <1>1, <2>4 DEF Activation
  <2> HIDE DEF a
  <2>7. /\ server' \in [Runs -> {"none", "open", "taken", "ended"}] /\ fetched' \in [Runs -> 0..MaxPages]
        /\ \A q \in Runs \ {r} : server'[q] = server[q] /\ fetched'[q] = fetched[q]
        /\ server'[r] = IF Last(reply) = "cursor" THEN "open" ELSE "none"
        /\ fetched'[r] = IF Last(reply) = "cursor" THEN 1 ELSE 0
    BY <1>1, <2>1, EditorConstants DEF Typed
  <2>8. runs'[r].reply = x
    BY <1>1, <2>5, <2>6 DEF Typed
  <2>9. Brings(r)'
    BY <2>4, <2>7, <2>8 DEF Brings
  <2>10. server'[r] \in {"none", "open"}
    BY <2>7
  <2> QED
    BY <1>1, <2>4, <2>5, <2>6, <2>7, <2>9, <2>10, AnswerStep
<1> QED
  BY <1>2, <1>3

\* A cursor ends on its own or is closed.
LEMMA CursorEndInv ==
    ASSUME EInv, NEW r \in Runs, Close(r) \/ Expire(r)
    PROVE  EInv'
<1>1. /\ Typed /\ RefsOk /\ ClosedTabShowsNothing
      /\ UNCHANGED <<tabs, conn, runStates, batches, runs, fetching, fetched, disturbed>>
      /\ server' = [server EXCEPT ![r] = IF @ = "open" THEN "ended" ELSE @]
      /\ closing \ {r} \subseteq closing' /\ closing' \subseteq closing
  BY DEF EInv, Close, Expire
<1>2. /\ server'[r] = IF server[r] = "open" THEN "ended" ELSE server[r]
      /\ \A q \in Runs \ {r} : server'[q] = server[q]
  BY <1>1 DEF Typed
<1>3. Typed'
  BY <1>1 DEF Typed
<1>4. RefsOk' /\ ClosedTabShowsNothing'
  BY <1>1, <1>2 DEF RefsOk, Belongs, ClosedTabShowsNothing
<1>5. \A t \in Tabs \ disturbed' : TabOk(t)'
  BY <1>1, <1>2, TabRests
<1> QED
  BY <1>3, <1>4, <1>5 DEF EInv

\* One more page after the first ones.
LEMMA NextPage ==
    ASSUME NEW c, NEW S, NEW rows \in Seq(S), FirstPages(c, rows), <<c, Len(rows) + 1>> \in S
    PROVE  /\ FirstPages(c, Append(rows, <<c, Len(rows) + 1>>))
           /\ Len(Append(rows, <<c, Len(rows) + 1>>)) = Len(rows) + 1
<1> DEFINE f == Append(rows, <<c, Len(rows) + 1>>)
           g == [n \in 1..Len(f) |-> <<c, n>>]
<1>1. /\ f \in Seq(S) /\ Len(f) = Len(rows) + 1 /\ Len(rows) \in Nat
      /\ \A n \in 1..Len(rows) : f[n] = rows[n]
      /\ f[Len(rows) + 1] = <<c, Len(rows) + 1>>
  BY AppendProperties
<1>2. DOMAIN f = 1..Len(f) /\ DOMAIN g = 1..Len(f)
  BY <1>1
<1> HIDE DEF f
<1>3. \A n \in 1..Len(rows) : rows[n] = <<c, n>>
  BY DEF FirstPages
<1>4. \A n \in 1..Len(f) : f[n] = g[n]
  <2> SUFFICES ASSUME NEW n \in 1..Len(f) PROVE f[n] = <<c, n>>
    OBVIOUS
  <2>1. n \in 1..Len(rows) \/ n = Len(rows) + 1
    BY <1>1
  <2> QED
    BY <1>1, <1>3, <2>1
<1>5. f = g
  <2>1. f = [n \in DOMAIN f |-> f[n]]
    BY <1>1
  <2> QED
    BY <1>2, <1>4, <2>1
<1> QED
  BY <1>1, <1>5 DEF FirstPages, f

\* The backend's step on a call: what it does to its cursor, whose run has landed.
LEMMA CallStep ==
    ASSUME EInv, NEW t \in Tabs, NEW i \in DOMAIN fetching[t], NEW k \in FetchCall,
           k.cursor = fetching[t][i].cursor,
           fetching' = [fetching EXCEPT ![t] = [@ EXCEPT ![i] = k]],
           server' \in [Runs -> {"none", "open", "taken", "ended"}], fetched' \in [Runs -> 0..MaxPages],
           \A r \in Runs \ {k.cursor} : server'[r] = server[r] /\ fetched'[r] = fetched[r],
           t \notin disturbed /\ PageOk(fetching[t][i], runStates[t]) => PageOk(k, runStates[t])',
           UNCHANGED <<tabs, conn, runStates, batches, runs, closing, disturbed>>
    PROVE  EInv'
<1> DEFINE c == k.cursor
           f == [fetching[t] EXCEPT ![i] = k]
<1>1. Typed /\ RefsOk /\ ClosedTabShowsNothing
  BY DEF EInv
<1>2. fetching[t] \in Seq(FetchCall) /\ fetching[t][i] \in FetchCall /\ c \in Runs /\ c # None
  <2>1. fetching[t] \in Seq(FetchCall)
    BY <1>1 DEF Typed
  <2>2. fetching[t][i] \in FetchCall
    BY <2>1
  <2> QED
    BY <2>1, <2>2, EditorConstants DEF FetchCall
<1>3. /\ f \in Seq(FetchCall) /\ Len(f) = Len(fetching[t]) /\ DOMAIN f = DOMAIN fetching[t] /\ f[i] = k
      /\ \A j \in DOMAIN fetching[t] \ {i} : f[j] = fetching[t][j]
  BY <1>2
<1>4. fetching' = [fetching EXCEPT ![t] = f]
  BY <1>1 DEF Typed
<1> HIDE DEF f
<1>5. fetching'[t] = f /\ \A u \in Tabs \ {t} : fetching'[u] = fetching[u]
  BY <1>1, <1>4 DEF Typed
<1>6. runs[c].pc = "over" /\ runs[c].tab = t
  BY <1>1, <1>2 DEF RefsOk, Belongs
<1>7. Typed'
  BY <1>1, <1>3, <1>4 DEF Typed
<1>8. RefsOk'
  <2>1. \A j \in DOMAIN f : Belongs(f[j].cursor, t)
    BY <1>1, <1>3, <1>6 DEF RefsOk, Belongs
  <2>2. \A u \in Tabs : \A j \in DOMAIN fetching'[u] : Belongs(fetching'[u][j].cursor, u)
    BY <1>1, <1>5, <2>1 DEF RefsOk
  <2>3. \A r \in Runs : runs[r].pc \in {"new", "preflight", "sent"} => r # c
    BY <1>6
  <2>4. \A u \in Tabs : \A j \in DOMAIN fetching'[u] : Belongs(fetching[u][j].cursor, u)'
    BY <2>2 DEF Belongs
  <2>5. \A u \in Tabs : /\ Belongs(runStates[u].cursor, u)'
                        /\ \A j \in DOMAIN batches'[u] : Belongs(batches[u][j].cursor, u)'
    BY <1>1 DEF RefsOk, Belongs
  <2>6. \A r \in Runs :
         /\ runs'[r].pc \in {"new", "preflight", "sent"} =>
                server'[r] = "none" /\ fetched'[r] = 0 /\ runs'[r].reply = <<>>
         /\ \A j \in DOMAIN runs'[r].reply : runs'[r].reply[j].cursor \in {r, None}
         /\ runs'[r].pc = "new" => runs'[r].tab = None
    BY <1>1, <2>3 DEF RefsOk
  <2> QED
    BY <2>4, <2>5, <2>6 DEF RefsOk
<1>9. ClosedTabShowsNothing'
  BY <1>1 DEF ClosedTabShowsNothing
<1>10. ASSUME t \notin disturbed' PROVE TabOk(t)'
  <2>1. TabOk(t) /\ t \notin disturbed
    BY <1>10 DEF EInv
  <2>2. fetching[t] # <<>> /\ Len(fetching[t]) = 1 /\ i = 1 /\ f # <<>>
    <3>0. PICK n \in Nat : n = Len(fetching[t])
      BY <1>2, LenProperties
    <3>1. n <= 1 /\ i \in 1..n
      <4>1. DOMAIN fetching[t] = 1..n
        BY <1>2, <3>0, LenProperties
      <4> QED
        BY <2>1, <3>0, <4>1 DEF TabOk, FetchOk
    <3>2. n = 1 /\ i = 1
      BY <3>1
    <3>3. Len(f) = 1 /\ Len(<<>>) = 0
      BY <1>3, <3>0, <3>2
    <3>4. fetching[t] # <<>> /\ Len(fetching[t]) = 1
      BY <1>2, <3>0, <3>2
    <3>5. f # <<>>
      BY <1>3, <3>3
    <3> QED
      BY <3>2, <3>4, <3>5
  <2>3. PageOk(fetching[t][i], runStates[t])
    BY <2>1 DEF TabOk, FetchOk
  <2>4. PageOk(k, runStates[t])'
    BY <2>1, <2>3
  <2>5. runStates[t].cursor = c /\ ~runStates[t].exhausted
    BY <2>3 DEF PageOk
  <2>6. \A r \in Runs : ~Waits(r, t) /\ ~Waits(r, t)'
    BY <2>1, <2>2 DEF TabOk, WaitOk, Waits
  <2>7. WaitOk(t)'
    BY <2>6 DEF WaitOk
  <2>8. ShowOk(t)'
    <3>1. ShowOk(t)
      BY <2>1 DEF TabOk
    <3> QED
      BY <1>5, <2>2, <2>5, <3>1 DEF ShowOk, FirstPages
  <2>9. FetchOk(t)'
    <3>1. \A j \in DOMAIN f : f[j] = k
      BY <1>2, <1>3, <2>2
    <3>2. ASSUME NEW j \in DOMAIN fetching'[t] PROVE PageOk(fetching[t][j], runStates[t])'
      BY <1>5, <2>4, <3>1, <3>2 DEF PageOk
    <3> QED
      BY <1>3, <1>5, <2>2, <3>2 DEF FetchOk
  <2>10. LeftOk(t)'
    <3>1. LeftOk(t)
      BY <2>1 DEF TabOk
    <3> QED
      BY <2>5, <3>1 DEF LeftOk
  <2> QED
    BY <2>7, <2>8, <2>9, <2>10 DEF TabOk
<1>11. \A r \in Runs : runs[r].tab # t => fetched'[r] = fetched[r] /\ server'[r] = server[r]
  BY <1>6
<1> QED
  BY <1>5, <1>7, <1>8, <1>9, <1>10, <1>11, TabStep

\* A fetch reaches its cursor, or finds it gone.
LEMMA TakeFetchInv ==
    ASSUME EInv, NEW t \in Tabs, NEW i \in DOMAIN fetching[t], TakeFetch(t, i)
    PROVE  EInv'
<1> DEFINE s == IF server[fetching[t][i].cursor] = "open" THEN "working" ELSE "failed"
           c == fetching[t][i].cursor
<1>1. /\ Typed /\ fetching[t][i].st = "sent"
      /\ UNCHANGED <<tabs, conn, runStates, batches, runs, closing, fetched, disturbed>>
  BY DEF EInv, TakeFetch
<1>2. fetching[t] \in Seq(FetchCall) /\ fetching[t][i] \in FetchCall /\ c \in Runs
  <2>1. fetching[t] \in Seq(FetchCall)
    BY <1>1 DEF Typed
  <2>2. fetching[t][i] \in FetchCall
    BY <2>1
  <2> QED
    BY <2>1, <2>2 DEF FetchCall
<1>3. PICK k \in FetchCall : k = [fetching[t][i] EXCEPT !.st = s]
  BY <1>2 DEF FetchCall
<1>9. k.st = s /\ k.cursor = c
  BY <1>2, <1>3 DEF FetchCall
<1>4. server' = IF server[c] = "open" THEN [server EXCEPT ![c] = "taken"] ELSE server
  BY DEF TakeFetch
<1>5. fetching' = [fetching EXCEPT ![t] = [@ EXCEPT ![i] = k]]
  <2>1. fetching' = [fetching EXCEPT ![t][i].st = s]
    BY DEF TakeFetch
  <2> QED
    BY <1>1, <1>3, <2>1 DEF Typed
<1>6. /\ server' \in [Runs -> {"none", "open", "taken", "ended"}] /\ fetched' \in [Runs -> 0..MaxPages]
      /\ \A r \in Runs \ {c} : server'[r] = server[r] /\ fetched'[r] = fetched[r]
      /\ server'[c] = IF server[c] = "open" THEN "taken" ELSE server[c]
  BY <1>1, <1>2, <1>4 DEF Typed
<1>7. PageOk(fetching[t][i], runStates[t]) => PageOk(k, runStates[t])'
  BY <1>1, <1>6, <1>9 DEF PageOk
<1> HIDE DEF s
<1> QED
  BY <1>1, <1>3, <1>5, <1>6, <1>7, <1>9, CallStep

\* The cursor answers with its next page, or ends.
LEMMA AnswerFetchInv ==
    ASSUME EInv, NEW t \in Tabs, NEW i \in DOMAIN fetching[t], AnswerFetch(t, i)
    PROVE  EInv'
<1> DEFINE c == fetching[t][i].cursor
<1>1. /\ Typed /\ fetching[t][i].st = "working"
      /\ UNCHANGED <<tabs, conn, runStates, batches, runs, closing, disturbed>>
  BY DEF EInv, AnswerFetch
<1>2. fetching[t] \in Seq(FetchCall) /\ fetching[t][i] \in FetchCall /\ c \in Runs
  <2>1. fetching[t] \in Seq(FetchCall)
    BY <1>1 DEF Typed
  <2>2. fetching[t][i] \in FetchCall
    BY <2>1
  <2> QED
    BY <2>1, <2>2 DEF FetchCall
<1>3. CASE \E last \in BOOLEAN :
               /\ fetched[c] < MaxPages /\ (fetched[c] + 1 = MaxPages => last)
               /\ fetched' = [fetched EXCEPT ![c] = @ + 1]
               /\ server' = [server EXCEPT ![c] = IF last THEN "ended" ELSE "open"]
               /\ fetching' = [fetching EXCEPT ![t][i] =
                     [@ EXCEPT !.st = "page", !.page = fetched[c] + 1, !.last = last]]
  <2>1. PICK last \in BOOLEAN :
               /\ fetched[c] < MaxPages /\ (fetched[c] + 1 = MaxPages => last)
               /\ fetched' = [fetched EXCEPT ![c] = @ + 1]
               /\ server' = [server EXCEPT ![c] = IF last THEN "ended" ELSE "open"]
               /\ fetching' = [fetching EXCEPT ![t][i] =
                     [@ EXCEPT !.st = "page", !.page = fetched[c] + 1, !.last = last]]
    BY <1>3
  <2>2. fetched[c] \in 0..MaxPages /\ fetched[c] + 1 \in 0..MaxPages
    BY <1>1, <1>2, <2>1, EditorConstants DEF Typed
  <2>3. PICK k \in FetchCall : k = [fetching[t][i] EXCEPT !.st = "page", !.page = fetched[c] + 1, !.last = last]
    BY <1>2, <2>2 DEF FetchCall
  <2>7. k.st = "page" /\ k.cursor = c /\ k.page = fetched[c] + 1 /\ k.last = last
    BY <1>2, <2>3 DEF FetchCall
  <2>4. fetching' = [fetching EXCEPT ![t] = [@ EXCEPT ![i] = k]]
    BY <1>1, <2>1, <2>3 DEF Typed
  <2>5. /\ server' \in [Runs -> {"none", "open", "taken", "ended"}] /\ fetched' \in [Runs -> 0..MaxPages]
        /\ \A r \in Runs \ {c} : server'[r] = server[r] /\ fetched'[r] = fetched[r]
        /\ server'[c] = IF last THEN "ended" ELSE "open"
        /\ fetched'[c] = fetched[c] + 1
    BY <1>1, <1>2, <2>1, <2>2 DEF Typed
  <2>6. PageOk(fetching[t][i], runStates[t]) => PageOk(k, runStates[t])'
    BY <1>1, <2>5, <2>7 DEF PageOk
  <2>8. /\ k.cursor = fetching[t][i].cursor
        /\ \A r \in Runs \ {k.cursor} : server'[r] = server[r] /\ fetched'[r] = fetched[r]
    BY <2>5, <2>7
  <2> QED
    BY <1>1, <2>4, <2>5, <2>6, <2>8, CallStep
<1>4. CASE /\ server' = [server EXCEPT ![c] = "ended"]
           /\ fetching' = [fetching EXCEPT ![t][i].st = "failed"]
           /\ UNCHANGED fetched
  <2>1. PICK k \in FetchCall : k = [fetching[t][i] EXCEPT !.st = "failed"]
    BY <1>2 DEF FetchCall
  <2>5. k.st = "failed" /\ k.cursor = c
    BY <1>2, <2>1 DEF FetchCall
  <2>2. fetching' = [fetching EXCEPT ![t] = [@ EXCEPT ![i] = k]]
    BY <1>1, <1>4, <2>1 DEF Typed
  <2>3. /\ server' \in [Runs -> {"none", "open", "taken", "ended"}] /\ fetched' \in [Runs -> 0..MaxPages]
        /\ \A r \in Runs \ {c} : server'[r] = server[r] /\ fetched'[r] = fetched[r]
        /\ server'[c] = "ended"
    BY <1>1, <1>2, <1>4 DEF Typed
  <2>4. PageOk(fetching[t][i], runStates[t]) => PageOk(k, runStates[t])'
    BY <1>1, <2>3, <2>5 DEF PageOk
  <2>6. /\ k.cursor = fetching[t][i].cursor
        /\ \A r \in Runs \ {k.cursor} : server'[r] = server[r] /\ fetched'[r] = fetched[r]
    BY <2>3, <2>5
  <2> QED
    BY <1>1, <2>2, <2>3, <2>4, <2>6, CallStep
<1> QED
  BY <1>3, <1>4 DEF AnswerFetch

\* A page or a failure lands on what the tab shows.
LEMMA LandFetchInv ==
    ASSUME EInv, NEW t \in Tabs, NEW i \in DOMAIN fetching[t], LandFetch(t, i)
    PROVE  EInv'
<1>1. /\ Typed /\ RefsOk /\ ClosedTabShowsNothing /\ fetching[t][i].st \notin {"sent", "working"}
      /\ UNCHANGED <<tabs, conn, batches, runs, closing, server, fetched, disturbed>>
      /\ fetching' = [fetching EXCEPT ![t] = RemoveAt(@, i)]
  BY DEF EInv, LandFetch, Backend
<1>2. runStates[t] \in Shown /\ runStates[t] \in RunState /\ fetching[t] \in Seq(FetchCall)
  BY <1>1 DEF Typed, Shown
<1>3. PICK k \in FetchCall : k = fetching[t][i]
  BY <1>2
<1>4. k.st \in {"page", "failed"}
  BY <1>1, <1>3 DEF FetchCall
<1>5. PICK q \in Shown : q = IF runStates[t].status = "streaming" THEN AfterFetch(runStates[t], k)
                                                                 ELSE runStates[t]
  BY <1>2, AfterFetchShown
<1>6. runStates' = [runStates EXCEPT ![t] = q]
  <2>1. CASE runStates[t].status = "streaming"
    BY <1>1, <1>3, <1>5, <2>1 DEF LandFetch, Typed
  <2>2. CASE runStates[t].status # "streaming"
    <3>1. runStates' = runStates /\ q = runStates[t]
      BY <1>5, <2>2 DEF LandFetch
    <3> QED
      BY <1>1, <3>1 DEF Typed
  <2> QED
    BY <2>1, <2>2
<1>7. /\ RemoveAt(fetching[t], i) \in Seq(FetchCall)
      /\ \A j \in DOMAIN RemoveAt(fetching[t], i) : \E n \in DOMAIN fetching[t] : RemoveAt(fetching[t], i)[j] = fetching[t][n]
      /\ Len(fetching[t]) = 1 => RemoveAt(fetching[t], i) = <<>>
      /\ fetching[t] # <<>>
  BY <1>2, Removed
<1>8. /\ runStates'[t] = q /\ fetching'[t] = RemoveAt(fetching[t], i)
      /\ \A u \in Tabs \ {t} : runStates'[u] = runStates[u] /\ fetching'[u] = fetching[u]
  BY <1>1, <1>6 DEF Typed
<1>9. /\ q.cursor # None => q.cursor = runStates[t].cursor
      /\ q.status = "streaming" => runStates[t].status = "streaming"
  <2>1. CASE runStates[t].status = "streaming"
    BY <1>2, <1>5, <2>1, AfterFetchShown, PlainShown
  <2>2. CASE runStates[t].status # "streaming"
    BY <1>5, <2>2
  <2> QED
    BY <2>1, <2>2
<1>10. Typed'
  BY <1>1, <1>6, <1>7 DEF Typed
<1>11. RefsOk'
  <2>1. \A j \in DOMAIN fetching'[t] : Belongs(fetching'[t][j].cursor, t)
    BY <1>1, <1>7, <1>8 DEF RefsOk
  <2>2. \A u \in Tabs : /\ Belongs(runStates'[u].cursor, u)
                        /\ \A j \in DOMAIN fetching'[u] : Belongs(fetching'[u][j].cursor, u)
    BY <1>1, <1>8, <1>9, <2>1 DEF RefsOk, Belongs
  <2>3. \A u \in Tabs : /\ Belongs(runStates[u].cursor, u)'
                        /\ \A j \in DOMAIN batches'[u] : Belongs(batches[u][j].cursor, u)'
                        /\ \A j \in DOMAIN fetching'[u] : Belongs(fetching[u][j].cursor, u)'
    BY <1>1, <2>2 DEF RefsOk, Belongs
  <2> QED
    BY <1>1, <2>3 DEF RefsOk
<1>12. ClosedTabShowsNothing'
  BY <1>1, <1>8, <1>9 DEF ClosedTabShowsNothing
<1>13. ASSUME t \notin disturbed' PROVE TabOk(t)'
  <2>1. TabOk(t) /\ t \notin disturbed
    BY <1>1, <1>13 DEF EInv
  <2>2. Len(fetching[t]) = 1 /\ fetching'[t] = <<>>
    <3>0. PICK n \in Nat : n = Len(fetching[t])
      BY <1>2
    <3>1. n <= 1 /\ n # 0
      BY <1>2, <1>7, <2>1, <3>0 DEF TabOk, FetchOk
    <3>3. n = 1
      BY <3>1
    <3>2. Len(fetching[t]) = 1
      BY <3>0, <3>3
    <3> QED
      BY <1>7, <1>8, <3>2
  <2>3. PageOk(k, runStates[t])
    BY <1>3, <2>1 DEF TabOk, FetchOk
  <2> DEFINE c == runStates[t].cursor
             rows == runStates[t].rows
  <2>4. k.cursor = c /\ ~runStates[t].exhausted /\ c \in Runs /\ c # None
    BY <2>3, EditorConstants DEF PageOk, FetchCall
  <2>5. runStates[t].status = "streaming"
    BY <1>2, <2>4 DEF Shown, RunStateOK, Plain
  <2>6. runs[c].pc = "over" /\ runs[c].tab = t
    BY <1>1, <2>4 DEF RefsOk, Belongs
  <2>7. runs[c].conn = conn[t] /\ FirstPages(c, rows)
    BY <2>1, <2>4 DEF TabOk, ShowOk
  <2>8. \A r \in Runs : ~Waits(r, t)
    BY <1>7, <2>1 DEF TabOk, WaitOk
  <2>9. WaitOk(t)'
    BY <1>1, <2>8 DEF WaitOk, Waits
  <2>10. FetchOk(t)'
    BY <2>2 DEF FetchOk
  <2>11. CASE k.st = "failed"
    <3>1. q = Plain("stopped") /\ q.rows = <<>> /\ q.cursor = None /\ server[c] = "ended"
      BY <1>2, <1>5, <2>3, <2>4, <2>5, <2>11, AfterFetchShown, PlainShown DEF PageOk
    <3>2. ShowOk(t)'
      BY <1>8, <3>1 DEF ShowOk
    <3>3. LeftOk(t)'
      BY <1>1, <2>1, <3>1 DEF TabOk, LeftOk
    <3> QED
      BY <2>9, <2>10, <3>2, <3>3 DEF TabOk
  <2>12. CASE k.st = "page"
    <3>1. /\ k.page = Len(rows) + 1 /\ fetched[c] = Len(rows) + 1 /\ server[c] \in {"open", "ended"}
          /\ k.last => server[c] = "ended"
      BY <2>3, <2>4, <2>12 DEF PageOk
    <3>2. /\ q.rows = Append(rows, <<c, Len(rows) + 1>>) /\ q.exhausted = k.last
          /\ q.cursor = IF k.last THEN None ELSE c
      BY <1>2, <1>5, <2>4, <2>5, <2>12, <3>1, AfterFetchShown
    <3>3. rows \in Seq(Pages) /\ <<c, Len(rows) + 1>> \in Pages
      BY <1>2, <2>4, <3>1 DEF RunState, Pages, FetchCall
    <3>4. FirstPages(c, q.rows) /\ Len(q.rows) = Len(rows) + 1
      BY <2>7, <3>2, <3>3, NextPage
    <3>5. ShowOk(t)'
      <4>1. /\ runStates'[t] = q /\ runs'[c] = runs[c] /\ conn'[t] = conn[t] /\ fetching'[t] = <<>>
            /\ server'[c] = server[c] /\ fetched'[c] = fetched[c]
        BY <1>1, <1>8, <2>2
      <4>2. PICK d \in Runs : d = c
        BY <2>4
      <4>3. q.rows # <<>> => \E r \in Runs :
              /\ runs'[r].tab = t /\ runs'[r].conn = conn'[t] /\ runs'[r].pc = "over"
              /\ q.rows = <<<<r, 0>>>> \/ FirstPages(r, q.rows)
        BY <2>4, <2>6, <2>7, <3>4, <4>1
      <4>4. q.cursor # None =>
              /\ q.cursor = d /\ runs'[d].conn = conn'[t] /\ FirstPages(d, q.rows)
              /\ ~q.exhausted /\ fetched'[d] = Len(q.rows) /\ server'[d] \in {"open", "ended"}
        BY <2>7, <3>1, <3>2, <3>4, <4>1, <4>2
      <4> HIDE DEF c
      <4> QED
        BY <4>1, <4>3, <4>4 DEF ShowOk, FirstPages
    <3>6. LeftOk(t)'
      BY <1>1, <1>8, <2>1, <3>1, <3>2 DEF TabOk, LeftOk
    <3> QED
      BY <2>9, <2>10, <3>5, <3>6 DEF TabOk
  <2> QED
    BY <1>4, <2>11, <2>12
<1>14. \A u \in Tabs \ {t} : conn'[u] = conn[u] /\ runStates'[u] = runStates[u] /\ fetching'[u] = fetching[u]
  BY <1>1, <1>8
<1> QED
  BY <1>1, <1>10, <1>11, <1>12, <1>13, <1>14, TabStep

----------------------------------------------------------------------------
(* The theorems.                                                           *)

\* The editor starts with nothing under way.
LEMMA EditorInit == Init => EInv
<1> SUFFICES ASSUME Init PROVE EInv
  OBVIOUS
<1>1. \A r \in Runs : /\ runs[r] = NewRun /\ runs[r].pc = "new" /\ runs[r].tab = None /\ runs[r].reply = <<>>
                      /\ server[r] = "none" /\ fetched[r] = 0
  BY DEF Init, NewRun
<1>2. \A t \in Tabs : runStates[t] = Plain("idle") /\ batches[t] = <<>> /\ fetching[t] = <<>>
  BY DEF Init
<1>3. Typed
  <2>1. <<>> \in Seq(Kept) /\ <<>> \in Seq(FetchCall)
    OBVIOUS
  <2>2. Plain("idle") \in Shown /\ NewRun \in Activation
    BY <2>1, PlainShown DEF Kept, NewRun, Activation
  <2> QED
    BY <1>1, <2>1, <2>2, EditorConstants DEF Init, Typed
<1>4. RefsOk
  BY <1>1, <1>2, PlainShown DEF RefsOk, Belongs
<1>5. ClosedTabShowsNothing
  BY DEF Init, ClosedTabShowsNothing
<1>6. ASSUME NEW t \in Tabs PROVE TabOk(t)
  <2>1. WaitOk(t)
    BY <1>1 DEF WaitOk, Waits
  <2>2. ShowOk(t)
    BY <1>2, PlainShown DEF ShowOk
  <2>3. FetchOk(t)
    BY <1>2 DEF FetchOk
  <2>4. LeftOk(t)
    BY <1>1 DEF LeftOk
  <2> QED
    BY <2>1, <2>2, <2>3, <2>4 DEF TabOk
<1> QED
  BY <1>3, <1>4, <1>5, <1>6 DEF EInv

\* Every step of the editor keeps its invariant.
LEMMA EditorSteps == EInv /\ [Next]_vars => EInv'
<1> SUFFICES ASSUME EInv, [Next]_vars PROVE EInv'
  OBVIOUS
<1>1. ASSUME NEW t \in Tabs, User(t) PROVE EInv'
  BY <1>1, RunQueryInv, FetchMoreInv, CancelRunInv, LeaveInv, SetActiveBatchTabInv DEF User
<1>2. ASSUME NEW t \in Tabs, Answer(t) PROVE EInv'
  BY <1>2, TakeFetchInv, AnswerFetchInv DEF Answer, Calls
<1>3. ASSUME NEW t \in Tabs, Land(t) PROVE EInv'
  BY <1>3, LandFetchInv DEF Land, Calls
<1>4. ASSUME NEW r \in Runs,
             \/ PreflightOk(r) \/ PreflightRefused(r) \/ ServeRun(r) \/ RejectRun(r)
             \/ LandRun(r) \/ Close(r) \/ Expire(r)
      PROVE  EInv'
  BY <1>4, PreflightInv, ServeInv, LandRunInv, CursorEndInv
<1>5. CASE UNCHANGED vars
  <2>1. Typed' /\ RefsOk' /\ ClosedTabShowsNothing'
    BY <1>5 DEF vars, EInv, Typed, RefsOk, Belongs, ClosedTabShowsNothing
  <2>2. \A t \in Tabs \ disturbed' : TabOk(t)'
    BY <1>5, TabRests DEF vars
  <2> QED
    BY <2>1, <2>2 DEF EInv
<1> QED
  BY <1>1, <1>2, <1>3, <1>4, <1>5 DEF Next

\* The inductive invariant holds throughout (store.ts: runQuery, fetchMore,
\* cancelRun, closeTab, setTabConnection, setActiveBatchTab and their awaits).
THEOREM EditorInvariance == Spec => []EInv
<1> QED
  BY EditorInit, EditorSteps, PTL DEF Spec

\* Every variable of the editor keeps its type.
THEOREM EditorTypes == Spec => []TypeOK
<1>1. EInv => TypeOK
  <2> SUFFICES ASSUME EInv PROVE TypeOK
    OBVIOUS
  <2>1. Typed
    BY DEF EInv
  <2>2. ASSUME NEW t \in Tabs
        PROVE  /\ RunStateOK(runStates[t])
               /\ \A q \in Range(batches[t]) : RunStateOK(q) /\ ~q.prefetching
               /\ \A k \in Range(fetching[t]) :
                     k.cursor \in Runs /\ k.st \in {"sent", "working", "page", "failed"} /\ k.page \in 0..MaxPages
    <3>1. batches[t] \in Seq(Kept) /\ fetching[t] \in Seq(FetchCall) /\ runStates[t] \in Shown
      BY <2>1 DEF Typed
    <3>2. Range(batches[t]) \subseteq Kept /\ Range(fetching[t]) \subseteq FetchCall
      BY <3>1 DEF Range
    <3> QED
      BY <3>1, <3>2 DEF Kept, Shown, FetchCall
  <2>3. \A r \in Runs : /\ runs[r].pc \in {"new", "preflight", "sent", "answered", "over"}
                        /\ runs[r].pc # "new" => runs[r].tab \in Tabs /\ runs[r].conn \in Conns
    BY <2>1 DEF Typed, Activation
  <2> QED
    BY <2>1, <2>2, <2>3 DEF TypeOK, Typed
<1> QED
  BY <1>1, EditorInvariance, PTL

\* A closed tab never fills with a result, whatever lands late (store.ts:
\* closeTab against the continuations of runQuery and fetchMore).
THEOREM ClosedTabsStayEmpty == Spec => []ClosedTabShowsNothing
<1>1. EInv => ClosedTabShowsNothing
  BY DEF EInv
<1> QED
  BY <1>1, EditorInvariance, PTL

\* What an undisturbed tab shows is the first pages of one result of its
\* connection, none twice and none skipped (store.ts: fetchMore).
THEOREM GridsArePrefixes == Spec => []GridIsPrefix
<1>1. EInv => GridIsPrefix
  <2> SUFFICES ASSUME EInv, NEW t \in Tabs \ disturbed, runStates[t].rows # <<>>
               PROVE  \E r \in Runs :
                         /\ runs[r].tab = t /\ runs[r].conn = conn[t]
                         /\ \/ runStates[t].rows = <<<<r, 0>>>>
                            \/ runStates[t].rows = [n \in 1..Len(runStates[t].rows) |-> <<r, n>>]
    BY DEF GridIsPrefix
  <2>1. ShowOk(t)
    BY DEF EInv, TabOk
  <2> QED
    BY <2>1 DEF ShowOk, FirstPages
<1> QED
  BY <1>1, EditorInvariance, PTL

\* No cursor of an undisturbed tab is left over in the backend (store.ts:
\* runQuery, closeTab and setTabConnection close the one they drop).
THEOREM NothingLeftOver == Spec => []NoLeftoverUnlessDisturbed
<1>1. EInv => NoLeftoverUnlessDisturbed
  <2> SUFFICES ASSUME EInv, NEW r \in Runs, server[r] \in {"open", "taken"}, runs[r].tab \notin disturbed
               PROVE  \/ r \in closing \/ runs[r].pc = "answered"
                      \/ runStates[runs[r].tab].cursor = r
    BY DEF NoLeftoverUnlessDisturbed
  <2>1. runs[r].tab \in Tabs
    BY DEF EInv, Typed, RefsOk
  <2> QED
    BY <2>1 DEF EInv, TabOk, LeftOk
<1> QED
  BY <1>1, EditorInvariance, PTL

----------------------------------------------------------------------------
(* What the spinner stands for.                                            *)

Out(r, t) == runs[r].tab = t /\ runs[r].pc \in {"sent", "answered"}

Owed(t) ==
    t \in tabs =>
        /\ runStates[t].status = "opening" => \E r \in Runs : Out(r, t)
        /\ runStates[t].prefetching => fetching[t] # <<>>

\* No statement's result opens: what a sub-tab or an answer shows stands still.
SpinInv ==
    /\ \A t \in Tabs : Owed(t)
    /\ \A t \in Tabs : \A i \in DOMAIN batches[t] : batches[t][i].status # "opening"
    /\ \A r \in Runs : \A i \in DOMAIN runs[r].reply : runs[r].reply[i].status # "opening"

\* A tab whose panel and calls are left alone stays owed what it was owed.
LEMMA OwedStill ==
    ASSUME NEW t \in Tabs, Owed(t), tabs' \subseteq tabs,
           runStates'[t] = runStates[t], fetching'[t] = fetching[t],
           \A r \in Runs : Out(r, t) => Out(r, t)'
    PROVE  Owed(t)'
  BY DEF Owed

\* A panel at rest is owed nothing.
LEMMA OwedNothing ==
    ASSUME NEW t \in Tabs, runStates'[t].status # "opening", ~runStates'[t].prefetching
    PROVE  Owed(t)'
  BY DEF Owed

\* The states a panel is set to that have no spinner.
LEMMA AtEase ==
    \A s \in {"idle", "streaming", "stopped"} : Plain(s).status # "opening" /\ ~Plain(s).prefetching
  BY DEF Plain

\* What the user does: only fetchMore starts a spinner, and it asks for a page.
LEMMA UserOwes ==
    ASSUME EInv, EInv', SpinInv, NEW t \in Tabs, User(t)
    PROVE  SpinInv'
<1>1. Typed /\ Typed'
  BY DEF EInv
<1>2. ASSUME NEW r \in Runs, RunQuery(t, r) PROVE SpinInv'
  <2>1. \A u \in Tabs : \A q \in Runs : Out(q, u) => Out(q, u)'
    <3>1. runs' = runs \/ \E a : runs' = [runs EXCEPT ![r] = a]
      BY <1>2 DEF RunQuery
    <3>2. \A q \in Runs \ {r} : runs'[q] = runs[q]
      BY <1>1, <3>1 DEF Typed
    <3>3. runs[r].pc = "new"
      BY <1>2 DEF RunQuery
    <3> QED
      BY <3>2, <3>3 DEF Out
  <2>2. \A q \in Runs : runs'[q].reply = runs[q].reply
    <3>1. \/ runs' = runs
          \/ runs' = [runs EXCEPT ![r] = [@ EXCEPT !.pc = "preflight", !.tab = t, !.conn = conn[t]]]
      BY <1>2 DEF RunQuery
    <3>2. runs[r] \in Activation
      BY <1>1 DEF Typed
    <3>3. [runs[r] EXCEPT !.pc = "preflight", !.tab = t, !.conn = conn[t]].reply = runs[r].reply
      BY <3>2 DEF Activation
    <3> QED
      BY <1>1, <3>1, <3>3 DEF Typed
  <2>3. /\ tabs' = tabs /\ fetching' = fetching /\ batches' = batches
        /\ runStates' = runStates \/ runStates' = [runStates EXCEPT ![t] = Plain("stopped")]
    BY <1>2 DEF RunQuery
  <2>4. \A u \in Tabs : Owed(u)'
    BY <1>1, <2>1, <2>3, OwedStill, OwedNothing, AtEase DEF Typed, SpinInv
  <2> QED
    BY <2>2, <2>3, <2>4 DEF SpinInv
<1>3. CASE FetchMore(t)
  <2>1. /\ tabs' = tabs /\ runs' = runs /\ batches' = batches
        /\ runStates[t].status = "streaming" /\ runStates' = [runStates EXCEPT ![t].prefetching = TRUE]
        /\ fetching' = [fetching EXCEPT ![t] = Append(@, Sent(runStates[t].cursor))]
    BY <1>3 DEF FetchMore
  <2>2. runStates'[t].status = "streaming" /\ fetching'[t] # <<>>
    <3>1. fetching[t] \in Seq(FetchCall) /\ fetching'[t] \in Seq(FetchCall)
      BY <1>1 DEF Typed
    <3>2. fetching'[t] = Append(fetching[t], Sent(runStates[t].cursor))
      BY <1>1, <2>1 DEF Typed
    <3>3. runStates'[t] = [runStates[t] EXCEPT !.prefetching = TRUE] /\ runStates[t] \in RunState
      BY <1>1, <2>1 DEF Typed, Shown
    <3>4. Len(fetching'[t]) = Len(fetching[t]) + 1 /\ Len(fetching[t]) \in Nat
      BY <3>1, <3>2, LenProperties
    <3> QED
      BY <2>1, <3>3, <3>4 DEF RunState
  <2>3. Owed(t)'
    BY <2>2 DEF Owed
  <2>4. \A u \in Tabs \ {t} : Owed(u)'
    BY <1>1, <2>1, OwedStill DEF Typed, SpinInv, Out
  <2> QED
    BY <2>1, <2>3, <2>4 DEF SpinInv
<1>4. ASSUME /\ tabs' \subseteq tabs /\ UNCHANGED <<runs, batches, fetching>>
             /\ \A u \in Tabs \ {t} : runStates'[u] = runStates[u]
             /\ runStates'[t].status # "opening" /\ ~runStates'[t].prefetching
      PROVE  SpinInv'
  <2>1. \A u \in Tabs : Owed(u)'
    BY <1>4, OwedStill, OwedNothing DEF SpinInv, Out
  <2> QED
    BY <1>4, <2>1 DEF SpinInv
<1>5. CASE CancelRun(t)
  <2>1. runStates[t] \in RunState /\ RunStateOK(runStates[t])
    BY <1>1 DEF Typed, Shown
  <2>2. \/ runStates' = [runStates EXCEPT ![t] = Plain("stopped")]
        \/ /\ runStates[t].prefetching
           /\ runStates' = [runStates EXCEPT ![t] =
                 [@ EXCEPT !.cursor = None, !.exhausted = TRUE, !.prefetching = FALSE]]
    BY <1>5 DEF CancelRun
  <2>3. runStates[t].prefetching => runStates[t].status # "opening"
    BY <2>1, AtEase DEF RunStateOK, Plain
  <2>4. runStates'[t].status # "opening" /\ ~runStates'[t].prefetching
    <3>1. CASE runStates' = [runStates EXCEPT ![t] = Plain("stopped")]
      BY <1>1, <3>1, AtEase DEF Typed
    <3>2. CASE /\ runStates[t].prefetching
               /\ runStates' = [runStates EXCEPT ![t] =
                     [@ EXCEPT !.cursor = None, !.exhausted = TRUE, !.prefetching = FALSE]]
      <4> DEFINE q == [runStates[t] EXCEPT !.cursor = None, !.exhausted = TRUE, !.prefetching = FALSE]
      <4>1. q \in RunState /\ ~q.prefetching /\ q.status = runStates[t].status
        BY <2>1 DEF RunState
      <4>2. runStates'[t] = q
        BY <1>1, <3>2 DEF Typed
      <4> HIDE DEF q
      <4> QED
        BY <2>3, <3>2, <4>1, <4>2
    <3> QED
      BY <2>2, <3>1, <3>2
  <2>5. \A u \in Tabs \ {t} : runStates'[u] = runStates[u]
    BY <1>1, <2>2 DEF Typed
  <2> QED
    BY <1>4, <1>5, <2>4, <2>5 DEF CancelRun
<1>6. ASSUME CloseTab(t) \/ \E c \in Conns \cup {None} : SetTabConnection(t, c) PROVE SpinInv'
  <2>1. /\ tabs' \subseteq tabs /\ UNCHANGED <<runs, batches, fetching>>
        /\ runStates' = [runStates EXCEPT ![t] = Plain("idle")]
    BY <1>6 DEF CloseTab, SetTabConnection
  <2>2. runStates'[t] = Plain("idle") /\ \A u \in Tabs \ {t} : runStates'[u] = runStates[u]
    BY <1>1, <2>1 DEF Typed
  <2> QED
    BY <1>4, <2>1, <2>2, AtEase
<1>7. ASSUME NEW i \in DOMAIN batches[t], SetActiveBatchTab(t, i) PROVE SpinInv'
  <2>1. /\ tabs' = tabs /\ UNCHANGED <<runs, batches, fetching>>
        /\ runStates' = [runStates EXCEPT ![t] = batches[t][i]]
    BY <1>7 DEF SetActiveBatchTab
  <2>2. runStates'[t] = batches[t][i] /\ \A u \in Tabs \ {t} : runStates'[u] = runStates[u]
    BY <1>1, <2>1 DEF Typed
  <2>3. batches[t][i] \in Kept
    <3>1. batches[t] \in Seq(Kept)
      BY <1>1 DEF Typed
    <3> QED
      BY <3>1
  <2> QED
    BY <1>4, <2>1, <2>2, <2>3 DEF Kept, SpinInv
<1> QED
  BY <1>2, <1>3, <1>5, <1>6, <1>7 DEF User

\* What a run's await is followed by: opening is shown when the call is sent, and goes
\* when it lands; no other run's landing starts a spinner.
LEMMA RunOwes ==
    ASSUME EInv, EInv', SpinInv, NEW r \in Runs,
           PreflightOk(r) \/ PreflightRefused(r) \/ ServeRun(r) \/ RejectRun(r) \/ LandRun(r)
    PROVE  SpinInv'
<1>1. Typed /\ Typed'
  BY DEF EInv
<1>2. PICK t \in Tabs : t = runs[r].tab
  BY <1>1 DEF PreflightOk, PreflightRefused, ServeRun, RejectRun, LandRun, Typed
<1>3. runs[r] \in Activation
  BY <1>1 DEF Typed
<1>4. CASE PreflightOk(r)
  <2>1. /\ tabs' = tabs /\ fetching' = fetching /\ runs' = [runs EXCEPT ![r].pc = "sent"]
        /\ runStates' = [runStates EXCEPT ![t] = Plain("opening")] /\ batches' = [batches EXCEPT ![t] = <<>>]
    BY <1>2, <1>4 DEF PreflightOk
  <2>2. /\ runs'[r].tab = t /\ runs'[r].pc = "sent" /\ runs'[r].reply = runs[r].reply
        /\ \A q \in Runs \ {r} : runs'[q] = runs[q]
    BY <1>1, <1>2, <1>3, <2>1 DEF Typed, Activation
  <2>3. Owed(t)'
    <3>1. Out(r, t)'
      BY <1>2, <2>2 DEF Out
    <3>2. runStates'[t] = Plain("opening")
      BY <1>1, <1>2, <2>1 DEF Typed
    <3>3. ~runStates'[t].prefetching
      BY <3>2 DEF Plain
    <3> QED
      BY <3>1, <3>3 DEF Owed
  <2>4. ASSUME NEW u \in Tabs \ {t} PROVE Owed(u)'
    <3>1. \A q \in Runs : Out(q, u) => Out(q, u)'
      BY <1>2, <2>2 DEF Out
    <3> QED
      BY <1>1, <2>1, <3>1, OwedStill DEF Typed, SpinInv
  <2>5. batches'[t] = <<>> /\ \A u \in Tabs \ {t} : batches'[u] = batches[u]
    BY <1>1, <1>2, <2>1 DEF Typed
  <2>6. \A u \in Tabs : \A i \in DOMAIN batches'[u] : batches'[u][i].status # "opening"
    BY <2>5 DEF SpinInv
  <2> QED
    BY <2>2, <2>3, <2>4, <2>6 DEF SpinInv
<1>5. CASE PreflightRefused(r)
  <2>1. /\ tabs' = tabs /\ fetching' = fetching /\ runs' = [runs EXCEPT ![r].pc = "over"] /\ batches' = batches
        /\ runStates' = [runStates EXCEPT ![t] = Plain("stopped")] /\ runs[r].pc = "preflight"
    BY <1>2, <1>5 DEF PreflightRefused
  <2>2. runs'[r].reply = runs[r].reply /\ \A q \in Runs \ {r} : runs'[q] = runs[q]
    BY <1>1, <1>2, <1>3, <2>1 DEF Typed, Activation
  <2>3. ASSUME NEW u \in Tabs PROVE Owed(u)'
    <3>1. \A q \in Runs : Out(q, u) => Out(q, u)'
      BY <2>1, <2>2 DEF Out
    <3> QED
      BY <1>1, <2>1, <3>1, OwedStill, OwedNothing, AtEase DEF Typed, SpinInv
  <2> QED
    BY <2>1, <2>2, <2>3 DEF SpinInv
<1>6. CASE ServeRun(r) \/ RejectRun(r)
  <2>1. /\ UNCHANGED <<tabs, fetching, batches, runStates>>
        /\ runs'[r].pc = "answered" /\ runs'[r].tab = runs[r].tab /\ \A q \in Runs \ {r} : runs'[q] = runs[q]
    <3>1. UNCHANGED <<tabs, fetching, batches, runStates>>
      BY <1>6 DEF ServeRun, RejectRun
    <3>2. \E x : runs' = [runs EXCEPT ![r] = [@ EXCEPT !.pc = "answered", !.reply = x]]
      <4>1. CASE ServeRun(r)
        BY <4>1 DEF ServeRun
      <4>2. CASE RejectRun(r)
        <5>1. runs' = [runs EXCEPT ![r] = [@ EXCEPT !.pc = "answered"]]
          BY <4>2 DEF RejectRun
        <5>2. [runs[r] EXCEPT !.pc = "answered"] = [runs[r] EXCEPT !.pc = "answered", !.reply = runs[r].reply]
          BY <1>3 DEF Activation
        <5> QED
          BY <5>1, <5>2
      <4> QED
        BY <1>6, <4>1, <4>2
    <3>3. PICK x : runs' = [runs EXCEPT ![r] = [@ EXCEPT !.pc = "answered", !.reply = x]]
      BY <3>2
    <3> QED
      BY <1>1, <1>2, <1>3, <3>1, <3>3 DEF Typed, Activation
  <2>2. ASSUME NEW u \in Tabs PROVE Owed(u)'
    <3>1. \A q \in Runs : Out(q, u) => Out(q, u)'
      BY <2>1 DEF Out
    <3> QED
      BY <2>1, <3>1, OwedStill DEF SpinInv
  <2>3. \A i \in DOMAIN runs'[r].reply : runs'[r].reply[i].status # "opening"
    <3>1. CASE RejectRun(r)
      <4>1. runs'[r].reply = runs[r].reply
        BY <1>1, <1>3, <3>1 DEF RejectRun, Typed, Activation
      <4> QED
        BY <4>1 DEF SpinInv
    <3>2. CASE ServeRun(r)
      <4>1. PICK reply \in Replies : runs' = [runs EXCEPT ![r] = [@ EXCEPT !.pc = "answered",
                !.reply = [n \in DOMAIN reply |-> MapStatement(r, reply[n])]]]
        BY <3>2 DEF ServeRun
      <4>2. runs'[r].reply = [n \in DOMAIN reply |-> MapStatement(r, reply[n])]
        BY <1>1, <1>3, <4>1 DEF Typed, Activation
      <4>3. ASSUME NEW n \in DOMAIN reply PROVE MapStatement(r, reply[n]).status # "opening"
        <5>1. reply \in Seq(Outcomes)
          BY EditorConstants
        <5>2. PICK kind \in Outcomes : kind = reply[n]
          BY <5>1
        <5>3. MapStatement(r, kind).status # "opening"
          BY DEF MapStatement, Streaming, Plain, Outcomes
        <5> QED
          BY <5>2, <5>3
      <4> QED
        BY <4>2, <4>3
    <3> QED
      BY <1>6, <3>1, <3>2
  <2> QED
    BY <2>1, <2>2, <2>3 DEF SpinInv
<1>7. CASE LandRun(r)
  <2>1. /\ tabs' = tabs /\ fetching' = fetching
        /\ runs' = [runs EXCEPT ![r].pc = "over", ![r].reply = <<>>]
        /\ IF t \in tabs
           THEN /\ runStates' = [runStates EXCEPT ![t] =
                      IF runs[r].reply = <<>> THEN Plain("stopped") ELSE Last(runs[r].reply)]
                /\ batches' = [batches EXCEPT ![t] = runs[r].reply]
           ELSE UNCHANGED <<runStates, batches>>
    BY <1>2, <1>7 DEF LandRun
  <2>2. runs'[r].reply = <<>> /\ \A q \in Runs \ {r} : runs'[q] = runs[q]
    BY <1>1, <1>2, <1>3, <2>1 DEF Typed, Activation
  <2>3. t \in tabs => runStates'[t].status # "opening" /\ ~runStates'[t].prefetching
    <3> SUFFICES ASSUME t \in tabs PROVE runStates'[t].status # "opening" /\ ~runStates'[t].prefetching
      OBVIOUS
    <3>1. runStates'[t] = IF runs[r].reply = <<>> THEN Plain("stopped") ELSE Last(runs[r].reply)
      BY <1>1, <1>2, <2>1 DEF Typed
    <3>2. CASE runs[r].reply = <<>>
      BY <3>1, <3>2, AtEase
    <3>3. CASE runs[r].reply # <<>>
      <4>1. PICK x \in Seq(Kept) : x = runs[r].reply
        BY <1>3 DEF Activation
      <4>2. Len(x) \in DOMAIN x /\ x[Len(x)] \in Kept
        BY <3>3, <4>1
      <4>3. runStates'[t] = x[Len(x)]
        BY <3>1, <3>3, <4>1 DEF Last
      <4> QED
        BY <4>1, <4>2, <4>3 DEF Kept, SpinInv
    <3> QED
      BY <3>2, <3>3
  <2>4. ASSUME NEW u \in Tabs PROVE Owed(u)'
    <3>1. CASE u = t /\ t \in tabs
      BY <2>3, <3>1, OwedNothing
    <3>2. CASE u = t /\ t \notin tabs
      BY <2>1, <3>2 DEF Owed
    <3>3. CASE u # t
      <4>1. \A q \in Runs : Out(q, u) => Out(q, u)'
        BY <1>2, <2>2, <3>3 DEF Out
      <4>2. runStates'[u] = runStates[u]
        BY <1>1, <2>1, <3>3 DEF Typed
      <4> QED
        BY <2>1, <4>1, <4>2, OwedStill DEF SpinInv
    <3> QED
      BY <3>1, <3>2, <3>3
  <2>5. ASSUME NEW u \in Tabs, NEW i \in DOMAIN batches'[u] PROVE batches'[u][i].status # "opening"
    <3>1. CASE batches'[u] = batches[u]
      BY <3>1 DEF SpinInv
    <3>2. CASE batches'[u] = runs[r].reply
      BY <3>2 DEF SpinInv
    <3> QED
      BY <1>1, <2>1, <3>1, <3>2 DEF Typed
  <2> QED
    BY <2>2, <2>4, <2>5 DEF SpinInv
<1> QED
  BY <1>4, <1>5, <1>6, <1>7

\* What becomes of a page that was asked for: its landing ends the spinner, even when
\* another page is still out.
LEMMA FetchOwes ==
    ASSUME EInv, EInv', SpinInv, NEW t \in Tabs, Answer(t) \/ Land(t)
    PROVE  SpinInv'
<1>1. Typed /\ Typed'
  BY DEF EInv
<1>2. ASSUME NEW i \in Calls(t), TakeFetch(t, i) \/ AnswerFetch(t, i) PROVE SpinInv'
  <2>1. /\ UNCHANGED <<tabs, runStates, batches, runs>>
        /\ \E k : fetching' = [fetching EXCEPT ![t] = [@ EXCEPT ![i] = k]]
    <3>1. ASSUME TakeFetch(t, i)
          PROVE  \E k : fetching' = [fetching EXCEPT ![t] = [@ EXCEPT ![i] = k]]
      <4> DEFINE st == IF server[fetching[t][i].cursor] = "open" THEN "working" ELSE "failed"
      <4>1. fetching' = [fetching EXCEPT ![t][i].st = st]
        BY <3>1 DEF TakeFetch
      <4> HIDE DEF st
      <4>2. fetching' = [fetching EXCEPT ![t] = [@ EXCEPT ![i] = [fetching[t][i] EXCEPT !.st = st]]]
        BY <1>1, <4>1 DEF Typed
      <4> QED
        BY <4>2
    <3>2. ASSUME AnswerFetch(t, i)
          PROVE  \E k : fetching' = [fetching EXCEPT ![t] = [@ EXCEPT ![i] = k]]
      BY <3>2 DEF AnswerFetch
    <3> QED
      BY <1>2, <3>1, <3>2 DEF TakeFetch, AnswerFetch
  <2>2. PICK k : fetching' = [fetching EXCEPT ![t] = [@ EXCEPT ![i] = k]]
    BY <2>1
  <2>3. fetching'[t] = [fetching[t] EXCEPT ![i] = k] /\ \A u \in Tabs \ {t} : fetching'[u] = fetching[u]
    BY <1>1, <2>2 DEF Typed
  <2>4. fetching'[t] # <<>>
    BY <1>2, <2>3 DEF Calls
  <2>5. \A u \in Tabs : Owed(u)'
    BY <2>1, <2>3, <2>4 DEF Owed, SpinInv, Out
  <2> QED
    BY <2>1, <2>5 DEF SpinInv
<1>3. ASSUME NEW i \in Calls(t), LandFetch(t, i) PROVE SpinInv'
  <2>1. /\ UNCHANGED <<tabs, batches, runs>> /\ fetching' = [fetching EXCEPT ![t] = RemoveAt(@, i)]
        /\ runStates' = IF runStates[t].status = "streaming"
                        THEN [runStates EXCEPT ![t] = AfterFetch(@, fetching[t][i])]
                        ELSE runStates
    BY <1>3 DEF LandFetch
  <2>2. fetching[t][i] \in FetchCall /\ runStates[t] \in Shown
    <3>1. fetching[t] \in Seq(FetchCall) /\ i \in DOMAIN fetching[t]
      BY <1>1 DEF Typed, Calls
    <3> QED
      BY <1>1, <3>1 DEF Typed
  <2>3. \A u \in Tabs \ {t} : Owed(u)'
    BY <1>1, <2>1, OwedStill DEF Typed, SpinInv, Out
  <2>4. CASE runStates[t].status = "streaming"
    <3>1. PICK q \in Shown, k \in FetchCall : q = runStates[t] /\ k = fetching[t][i]
      BY <2>2
    <3>2. runStates'[t] = AfterFetch(q, k)
      BY <1>1, <2>1, <2>4, <3>1 DEF Typed
    <3>3. q.status = "streaming" /\ q \in RunState
      BY <2>4, <3>1 DEF Shown
    <3>4. AfterFetch(q, k).status # "opening" /\ ~AfterFetch(q, k).prefetching
      BY <3>3 DEF AfterFetch, Plain, RunState
    <3>5. Owed(t)'
      BY <3>2, <3>4, OwedNothing
    <3> QED
      BY <2>1, <2>3, <3>5 DEF SpinInv
  <2>5. CASE runStates[t].status # "streaming"
    <3>1. runStates' = runStates /\ ~runStates[t].prefetching
      BY <2>1, <2>2, <2>5 DEF Shown, RunStateOK, Plain
    <3>2. Owed(t)'
      BY <2>1, <3>1 DEF Owed, SpinInv, Out
    <3> QED
      BY <2>1, <2>3, <3>2 DEF SpinInv
  <2> QED
    BY <2>4, <2>5
<1> QED
  BY <1>2, <1>3 DEF Answer, Land

\* Whatever is cancelled, lost, run again or lands late, a spinner on an open tab stands
\* for a call of the tab that is still to be answered (store.ts: runQuery, fetchMore).
THEOREM SpinnersAreOwed == Spec => []SpinnerIsOwedAnAnswer
<1>1. Init => SpinInv
  <2> SUFFICES ASSUME Init PROVE SpinInv
    OBVIOUS
  <2>1. /\ \A t \in Tabs : runStates[t] = Plain("idle") /\ batches[t] = <<>>
        /\ \A r \in Runs : runs[r].reply = <<>>
    BY DEF Init, NewRun
  <2> QED
    BY <2>1, AtEase DEF SpinInv, Owed
<1>2. EInv /\ EInv' /\ SpinInv /\ [Next]_vars => SpinInv'
  <2> SUFFICES ASSUME EInv, EInv', SpinInv, [Next]_vars PROVE SpinInv'
    OBVIOUS
  <2>1. ASSUME NEW r \in Runs, Close(r) \/ Expire(r) PROVE SpinInv'
    BY <2>1 DEF Close, Expire, SpinInv, Owed, Out
  <2>2. CASE UNCHANGED vars
    BY <2>2 DEF vars, SpinInv, Owed, Out
  <2> QED
    BY <2>1, <2>2, UserOwes, RunOwes, FetchOwes DEF Next
<1>3. EInv /\ SpinInv => SpinnerIsOwedAnAnswer
  BY DEF EInv, Typed, SpinInv, Owed, Out, SpinnerIsOwedAnAnswer
<1> QED
  BY <1>1, <1>2, <1>3, EditorInvariance, PTL DEF Spec

----------------------------------------------------------------------------
(* TabStore.                                                               *)

\* A version of the tab, and what its calls say.
TabCalls == [row : Versions \cup {NoTab}, content : BOOLEAN, done : BOOLEAN]

TabTyped ==
    /\ tab \in Versions \cup {NoTab} /\ row \in Versions \cup {NoTab}
    /\ dirty \in BOOLEAN /\ contentTimer \in BOOLEAN /\ cursorTimer \in BOOLEAN /\ opened \in BOOLEAN
    /\ edited \in BOOLEAN /\ overtaken \in BOOLEAN /\ lost \in BOOLEAN
    /\ tabCalls \in Seq(TabCalls)

\* Calls that reach the row in the order they were sent, for a tab that is open: each says
\* what the tab was when it was sent, the ones that have written come first, and the row is
\* at least as new as they are and as old as the ones to come.
InOrder ==
    /\ \A i \in DOMAIN tabCalls : tabCalls[i].row \in Versions /\ tabCalls[i].row.text <= tab.text
    /\ \A i, j \in DOMAIN tabCalls : i < j =>
          /\ tabCalls[i].row.text <= tabCalls[j].row.text
          /\ tabCalls[j].done => tabCalls[i].done
    /\ row # NoTab => row.text <= tab.text
    /\ \A i \in DOMAIN tabCalls :
          /\ tabCalls[i].done => row # NoTab /\ tabCalls[i].row.text <= row.text
          /\ ~tabCalls[i].done /\ row # NoTab => row.text <= tabCalls[i].row.text
    /\ edited /\ ~dirty => row # NoTab /\ row.text = tab.text

TabInv ==
    /\ TabTyped
    /\ contentTimer \/ cursorTimer => tab # NoTab
    /\ ~opened => tab = NoTab /\ row = NoTab /\ tabCalls = <<>> /\ ~edited
    /\ tab # NoTab /\ ~overtaken => InOrder

\* A version is told from no tab, and its text is a number.
LEMMA VersionShape ==
    /\ NoTab \notin Versions
    /\ \A v \in Versions : v.text \in Nat
  BY TabAssumption DEF TabAssumption, Versions

\* A call is sent with the tab as it is then.
LEMMA CallSent ==
    ASSUME TabInv, TabTyped', opened', tab' # NoTab, overtaken' = overtaken, UNCHANGED row,
           \E content \in BOOLEAN :
              tabCalls' = Append(tabCalls, [row |-> tab', content |-> content, done |-> FALSE]),
           tab # NoTab => tab'.text = tab.text /\ edited' = edited /\ dirty' = dirty,
           tab = NoTab => ~opened /\ ~edited'
    PROVE  TabInv'
<1>1. TabTyped /\ tabCalls \in Seq(TabCalls)
  BY DEF TabInv, TabTyped
<1>2. PICK c \in TabCalls : tabCalls' = Append(tabCalls, c) /\ c.row = tab' /\ ~c.done
  <2>1. PICK content \in BOOLEAN :
           tabCalls' = Append(tabCalls, [row |-> tab', content |-> content, done |-> FALSE])
    OBVIOUS
  <2>2. [row |-> tab', content |-> content, done |-> FALSE] \in TabCalls
    BY DEF TabTyped, TabCalls
  <2> QED
    BY <2>1, <2>2
<1>3. /\ Len(tabCalls) \in Nat /\ DOMAIN tabCalls' = 1..(Len(tabCalls) + 1) /\ DOMAIN tabCalls = 1..Len(tabCalls)
      /\ \A i \in 1..Len(tabCalls) : tabCalls'[i] = tabCalls[i]
      /\ tabCalls'[Len(tabCalls) + 1] = c
  BY <1>1, <1>2, AppendProperties
<1>4. \A i \in 1..(Len(tabCalls) + 1) : i \in 1..Len(tabCalls) \/ i = Len(tabCalls) + 1
  BY <1>3
<1>5. ASSUME ~overtaken' PROVE InOrder'
  <2>1. CASE tab = NoTab
    <3>1. tabCalls = <<>> /\ row = NoTab /\ ~edited'
      BY <2>1 DEF TabInv
    <3>2. DOMAIN tabCalls' = {1} /\ tabCalls'[1] = c
      BY <1>3, <3>1
    <3>3. tab' \in Versions /\ tab'.text \in Nat
      BY VersionShape DEF TabTyped
    <3> QED
      BY <1>2, <3>1, <3>2, <3>3 DEF InOrder
  <2>2. CASE tab # NoTab
    <3>1. InOrder
      BY <1>5, <2>2 DEF TabInv
    <3>2. tab' \in Versions /\ tab'.text \in Nat /\ tab'.text = tab.text /\ edited' = edited /\ dirty' = dirty
      BY <2>2, VersionShape DEF TabTyped
    <3>3. \A i \in DOMAIN tabCalls' : tabCalls'[i].row \in Versions /\ tabCalls'[i].row.text <= tab'.text
      BY <1>2, <1>3, <1>4, <3>1, <3>2 DEF InOrder
    <3>4. \A i, j \in DOMAIN tabCalls' : i < j =>
          /\ tabCalls'[i].row.text <= tabCalls'[j].row.text
          /\ tabCalls'[j].done => tabCalls'[i].done
      <4> SUFFICES ASSUME NEW i \in DOMAIN tabCalls', NEW j \in DOMAIN tabCalls', i < j
                   PROVE  /\ tabCalls'[i].row.text <= tabCalls'[j].row.text
                          /\ tabCalls'[j].done => tabCalls'[i].done
        OBVIOUS
      <4>1. i \in 1..Len(tabCalls)
        BY <1>3
      <4>2. CASE j \in 1..Len(tabCalls)
        BY <1>3, <3>1, <4>1, <4>2 DEF InOrder
      <4>3. CASE j = Len(tabCalls) + 1
        BY <1>2, <1>3, <3>3, <4>3
      <4> QED
        BY <1>3, <1>4, <4>2, <4>3
    <3>5. \A i \in DOMAIN tabCalls' :
          /\ tabCalls'[i].done => row # NoTab /\ tabCalls'[i].row.text <= row.text
          /\ ~tabCalls'[i].done /\ row # NoTab => row.text <= tabCalls'[i].row.text
      BY <1>2, <1>3, <1>4, <3>1, <3>2 DEF InOrder
    <3> QED
      BY <3>1, <3>2, <3>3, <3>4, <3>5 DEF InOrder
  <2> QED
    BY <2>1, <2>2
<1> QED
  BY <1>5 DEF TabInv, TabTyped

\* Opening, renaming and the two timers send the tab as it is.
LEMMA SendStep ==
    ASSUME TabInv, OpenEditorTab \/ RenameEditorTab \/ ContentTimerFires \/ CursorTimerFires
    PROVE  TabInv'
<1>1. /\ \E content \in BOOLEAN :
            tabCalls' = Append(tabCalls, [row |-> tab', content |-> content, done |-> FALSE])
      /\ UNCHANGED <<row, dirty, edited, overtaken, lost>>
      /\ (contentTimer' => contentTimer) /\ (cursorTimer' => cursorTimer)
  <2>1. CASE OpenEditorTab
    BY <2>1 DEF OpenEditorTab, Call, histories
  <2>2. CASE RenameEditorTab
    BY <2>2 DEF RenameEditorTab, Call, histories
  <2>3. CASE ContentTimerFires
    <3>1. tab' = tab /\ tabCalls' = Append(tabCalls, [row |-> tab, content |-> TRUE, done |-> FALSE])
      BY <2>3 DEF ContentTimerFires, Call
    <3> QED
      BY <2>3, <3>1 DEF ContentTimerFires, histories
  <2>4. CASE CursorTimerFires
    <3>1. tab' = tab /\ tabCalls' = Append(tabCalls, [row |-> tab, content |-> FALSE, done |-> FALSE])
      BY <2>4 DEF CursorTimerFires, Call
    <3> QED
      BY <2>4, <3>1 DEF CursorTimerFires, histories
  <2> QED
    BY <2>1, <2>2, <2>3, <2>4
<1>2. contentTimer' \in BOOLEAN /\ cursorTimer' \in BOOLEAN
  BY DEF OpenEditorTab, RenameEditorTab, ContentTimerFires, CursorTimerFires, TabInv, TabTyped
<1>3. opened' = TRUE /\ tab' \in Versions /\ tab' # NoTab /\ (tab # NoTab => tab'.text = tab.text)
      /\ (tab = NoTab => ~opened)
  <2>1. CASE OpenEditorTab
    BY <2>1, VersionShape, TabAssumption DEF OpenEditorTab, TabInv, Versions, TabAssumption
  <2>2. CASE RenameEditorTab
    <3>1. tab \in Versions /\ opened = TRUE
      BY <2>2 DEF RenameEditorTab, TabInv, TabTyped
    <3> QED
      BY <2>2, <3>1, VersionShape, TabAssumption DEF RenameEditorTab, Versions, TabAssumption
  <2>3. CASE ContentTimerFires \/ CursorTimerFires
    <3>1. tab \in Versions /\ opened = TRUE
      BY <2>3 DEF ContentTimerFires, CursorTimerFires, TabInv, TabTyped
    <3> QED
      BY <2>3, <3>1, VersionShape DEF ContentTimerFires, CursorTimerFires
  <2> QED
    BY <2>1, <2>2, <2>3
<1>4. TabTyped'
  <2>1. tabCalls' \in Seq(TabCalls)
    BY <1>1, <1>3, AppendProperties DEF TabInv, TabTyped, TabCalls
  <2> QED
    BY <1>1, <1>2, <1>3, <2>1 DEF TabInv, TabTyped
<1>5. tab = NoTab => ~opened /\ ~edited'
  BY <1>1, <1>3 DEF TabInv
<1> QED
  BY <1>1, <1>3, <1>4, <1>5, CallSent

\* A keystroke: the calls that are out are of older texts, and the tab is dirty.
LEMMA SetContentStep ==
    ASSUME TabInv, SetContent
    PROVE  TabInv'
<1>1. /\ tab \in Versions /\ tab' = [tab EXCEPT !.text = @ + 1] /\ tab.text < MaxEdits
      /\ dirty' = TRUE /\ contentTimer' = TRUE /\ edited' = TRUE
      /\ UNCHANGED <<row, cursorTimer, tabCalls, opened, overtaken, lost>>
  BY DEF SetContent, TabInv, TabTyped
<1>2. tab' \in Versions /\ tab'.text = tab.text + 1 /\ tab.text \in Nat /\ tab' # NoTab /\ tab # NoTab
  BY <1>1, VersionShape, TabAssumption DEF Versions, TabAssumption
<1>3. TabTyped'
  BY <1>1, <1>2 DEF TabInv, TabTyped
<1>4. ASSUME ~overtaken PROVE InOrder'
  <2>1. InOrder
    BY <1>2, <1>4 DEF TabInv
  <2>2. \A i \in DOMAIN tabCalls : tabCalls[i].row \in Versions /\ tabCalls[i].row.text <= tab'.text
    BY <1>2, <2>1, VersionShape DEF InOrder
  <2>3. row # NoTab => row.text <= tab'.text
    BY <1>2, <2>1, VersionShape DEF InOrder, TabInv, TabTyped
  <2> QED
    BY <1>1, <2>1, <2>2, <2>3 DEF InOrder
<1> QED
  BY <1>1, <1>2, <1>3, <1>4 DEF TabInv

\* A call writes: with none overtaken, the ones before it have written.
LEMMA WriteStep ==
    ASSUME TabInv, NEW n \in DOMAIN tabCalls, CallWrites(n)
    PROVE  TabInv'
<1> DEFINE c == [tabCalls[n] EXCEPT !.done = TRUE]
<1>1. /\ ~tabCalls[n].done /\ row' = tabCalls[n].row
      /\ overtaken' = (overtaken \/ \E j \in 1..(n - 1) : ~tabCalls[j].done)
      /\ UNCHANGED <<tab, dirty, contentTimer, cursorTimer, opened, edited, lost>>
  BY DEF CallWrites
<1>2. tabCalls \in Seq(TabCalls) /\ tabCalls[n] \in TabCalls
  <2>1. tabCalls \in Seq(TabCalls)
    BY DEF TabInv, TabTyped
  <2> QED
    BY <2>1
<1>3. c \in TabCalls /\ c.done /\ c.row = tabCalls[n].row
  BY <1>2 DEF TabCalls
<1>4. tabCalls' = [tabCalls EXCEPT ![n] = c]
  BY <1>2 DEF CallWrites
<1> HIDE DEF c
<1>5. /\ tabCalls' \in Seq(TabCalls) /\ DOMAIN tabCalls' = DOMAIN tabCalls /\ tabCalls'[n] = c
      /\ \A i \in DOMAIN tabCalls \ {n} : tabCalls'[i] = tabCalls[i]
  BY <1>2, <1>3, <1>4
<1>6. tabCalls # <<>> /\ row' \in Versions \cup {NoTab}
  BY <1>1, <1>2 DEF TabCalls
<1>7. TabTyped'
  <2>1. overtaken' \in BOOLEAN
    BY <1>1
  <2> QED
    BY <1>1, <1>5, <1>6, <2>1 DEF TabInv, TabTyped
<1>8. ASSUME tab # NoTab, ~overtaken' PROVE InOrder'
  <2>1. InOrder /\ \A j \in 1..(n - 1) : tabCalls[j].done
    BY <1>1, <1>8 DEF TabInv
  <2>2. n \in Nat /\ \A i \in DOMAIN tabCalls : i \in Nat /\ (i < n => i \in 1..(n - 1))
    BY <1>2
  <2>3. \A i \in DOMAIN tabCalls : tabCalls'[i].row = tabCalls[i].row /\ (tabCalls'[i].done <=> tabCalls[i].done \/ i = n)
    BY <1>3, <1>5
  <2>4. row' \in Versions /\ row' # NoTab /\ row'.text \in Nat /\ row'.text <= tab'.text
    BY <1>1, <2>1, VersionShape DEF InOrder
  <2>5. \A i \in DOMAIN tabCalls' : tabCalls'[i].row \in Versions /\ tabCalls'[i].row.text <= tab'.text
    BY <1>1, <1>5, <2>1, <2>3 DEF InOrder
  <2>6. \A i, j \in DOMAIN tabCalls' : i < j =>
          /\ tabCalls'[i].row.text <= tabCalls'[j].row.text
          /\ tabCalls'[j].done => tabCalls'[i].done
    BY <1>5, <2>1, <2>2, <2>3 DEF InOrder
  <2>7. ASSUME NEW i \in DOMAIN tabCalls'
        PROVE  /\ tabCalls'[i].done => tabCalls'[i].row.text <= row'.text
               /\ ~tabCalls'[i].done => row'.text <= tabCalls'[i].row.text
    <3>1. i < n => tabCalls'[i].done
      BY <1>5, <2>1, <2>2, <2>3
    <3>2. n < i => ~tabCalls[i].done
      BY <1>1, <1>5, <2>1 DEF InOrder
    <3>3. i < n \/ i = n \/ n < i
      BY <1>5, <2>2
    <3>4. /\ i < n => tabCalls[i].row.text <= tabCalls[n].row.text
          /\ n < i => tabCalls[n].row.text <= tabCalls[i].row.text
      BY <1>5, <2>1 DEF InOrder
    <3> QED
      BY <1>1, <1>5, <2>2, <2>3, <2>4, <3>1, <3>2, <3>3, <3>4
  <2>8. edited' /\ ~dirty' => row'.text = tab'.text
    <3> SUFFICES ASSUME edited, ~dirty PROVE row'.text = tab.text
      BY <1>1
    <3>1. row # NoTab /\ row.text = tab.text /\ row.text <= tabCalls[n].row.text /\ tabCalls[n].row.text <= tab.text
      BY <1>1, <2>1 DEF InOrder
    <3>2. row.text \in Nat /\ tabCalls[n].row.text \in Nat
      BY <2>1, <3>1, VersionShape DEF TabInv, TabTyped, InOrder
    <3> QED
      BY <1>1, <3>1, <3>2
  <2> QED
    BY <1>1, <2>4, <2>5, <2>6, <2>7, <2>8 DEF InOrder
<1> QED
  BY <1>1, <1>5, <1>6, <1>7, <1>8 DEF TabInv

\* An answer, or a failure, leaves the other calls in order; an answer cleans the tab only
\* when the row has what it shows.
LEMMA AnsweredStep ==
    ASSUME TabInv, NEW n \in DOMAIN tabCalls, CallAnswered(n) \/ CallFails(n)
    PROVE  TabInv'
<1>1. /\ tabCalls' = RemoveAt(tabCalls, n)
      /\ dirty' = dirty \/ (tabCalls[n].done /\ dirty' = (dirty /\ ~(tabCalls[n].content /\ tab = tabCalls[n].row)))
      /\ lost' = lost \/ lost' = TRUE
      /\ UNCHANGED <<tab, row, contentTimer, cursorTimer, opened, edited, overtaken>>
  BY DEF CallAnswered, CallFails, histories
<1>2. tabCalls \in Seq(TabCalls)
  BY DEF TabInv, TabTyped
<1>3. /\ tabCalls' \in Seq(TabCalls) /\ DOMAIN tabCalls' = 1..(Len(tabCalls) - 1)
      /\ \A j \in 1..(Len(tabCalls) - 1) : tabCalls'[j] = IF j < n THEN tabCalls[j] ELSE tabCalls[j + 1]
  BY <1>1, <1>2, RemovedInOrder
<1>4. tabCalls # <<>> /\ DOMAIN tabCalls = 1..Len(tabCalls) /\ Len(tabCalls) \in Nat /\ n \in 1..Len(tabCalls)
  BY <1>2
<1>5. dirty' \in BOOLEAN
  BY <1>1 DEF TabInv, TabTyped
<1>6. TabTyped'
  BY <1>1, <1>3, <1>5 DEF TabInv, TabTyped
<1>7. ASSUME tab # NoTab, ~overtaken PROVE InOrder'
  <2>1. InOrder
    BY <1>7 DEF TabInv
  <2> DEFINE old(j) == IF j < n THEN j ELSE j + 1
  <2>2. \A j \in DOMAIN tabCalls' : old(j) \in DOMAIN tabCalls /\ tabCalls'[j] = tabCalls[old(j)]
    BY <1>3, <1>4
  <2>3. \A i, j \in DOMAIN tabCalls' : i < j => old(i) < old(j)
    BY <1>3, <1>4
  <2> HIDE DEF old
  <2>4. \A i \in DOMAIN tabCalls' : tabCalls'[i].row \in Versions /\ tabCalls'[i].row.text <= tab.text
    BY <2>1, <2>2 DEF InOrder
  <2>5. \A i, j \in DOMAIN tabCalls' : i < j =>
          /\ tabCalls'[i].row.text <= tabCalls'[j].row.text
          /\ tabCalls'[j].done => tabCalls'[i].done
    BY <2>1, <2>2, <2>3 DEF InOrder
  <2>6. \A i \in DOMAIN tabCalls' :
          /\ tabCalls'[i].done => row # NoTab /\ tabCalls'[i].row.text <= row.text
          /\ ~tabCalls'[i].done /\ row # NoTab => row.text <= tabCalls'[i].row.text
    BY <2>1, <2>2 DEF InOrder
  <2>7. edited /\ ~dirty' => row # NoTab /\ row.text = tab.text
    <3>1. CASE tabCalls[n].done /\ tab = tabCalls[n].row
      <4>1. row # NoTab /\ tab.text <= row.text /\ row.text <= tab.text
        BY <2>1, <3>1 DEF InOrder
      <4>2. row.text \in Nat /\ tab.text \in Nat
        BY <1>7, <4>1, VersionShape DEF TabInv, TabTyped
      <4> QED
        BY <4>1, <4>2
    <3>2. CASE dirty' = dirty
      BY <2>1, <3>2 DEF InOrder
    <3>3. CASE ~(tabCalls[n].done /\ tab = tabCalls[n].row) /\ dirty' # dirty
      BY <1>1, <3>3 DEF TabInv, TabTyped
    <3> QED
      BY <3>1, <3>2, <3>3
  <2> QED
    BY <1>1, <2>1, <2>4, <2>5, <2>6, <2>7 DEF InOrder
<1> QED
  BY <1>1, <1>4, <1>6, <1>7 DEF TabInv

\* Closing and restarting leave nothing that could disagree.
LEMMA EndStep ==
    ASSUME TabInv, CloseEditorTab \/ TabRestart \/ SetCursor
    PROVE  TabInv'
<1>1. CASE CloseEditorTab
  <2>1. /\ tab' = NoTab /\ dirty' = FALSE /\ contentTimer' = FALSE /\ cursorTimer' = FALSE /\ tab # NoTab
        /\ tabCalls' = Append(tabCalls, [row |-> NoTab, content |-> FALSE, done |-> FALSE])
        /\ UNCHANGED <<row, opened, edited, overtaken, lost>>
    BY <1>1 DEF CloseEditorTab, Call, histories
  <2>2. [row |-> NoTab, content |-> FALSE, done |-> FALSE] \in TabCalls
    BY DEF TabCalls
  <2>3. TabTyped'
    BY <2>1, <2>2, AppendProperties DEF TabInv, TabTyped
  <2> QED
    BY <2>1, <2>3 DEF TabInv
<1>2. CASE TabRestart
  <2>1. /\ tab' = row /\ dirty' = FALSE /\ contentTimer' = FALSE /\ cursorTimer' = FALSE /\ tabCalls' = <<>>
        /\ edited' = FALSE /\ overtaken' = FALSE /\ lost' = TRUE /\ UNCHANGED <<row, opened>>
    BY <1>2 DEF TabRestart
  <2>2. TabTyped'
    <3>1. <<>> \in Seq(TabCalls)
      OBVIOUS
    <3> QED
      BY <2>1, <3>1 DEF TabInv, TabTyped
  <2>3. ASSUME tab' # NoTab PROVE InOrder'
    <3>1. row.text \in Nat
      BY <2>1, <2>3, VersionShape DEF TabInv, TabTyped
    <3> QED
      BY <2>1, <3>1 DEF InOrder
  <2> QED
    BY <2>1, <2>2, <2>3 DEF TabInv
<1>3. CASE SetCursor
  <2>1. /\ tab # NoTab /\ cursorTimer' = TRUE
        /\ UNCHANGED <<tab, dirty, row, contentTimer, tabCalls, opened, edited, overtaken, lost>>
    BY <1>3 DEF SetCursor, histories
  <2> QED
    BY <2>1 DEF TabInv, TabTyped, InOrder
<1> QED
  BY <1>1, <1>2, <1>3

\* The invariant of a tab and its row holds throughout (store.ts: setContent, renameEditorTab,
\* setCursor, closeTab, hydrateFromSqlite and the answers to their saves).
THEOREM TabInvariance == TabSpec => []TabInv
<1>1. TabInit => TabInv
  <2>1. <<>> \in Seq(TabCalls)
    OBVIOUS
  <2> QED
    BY <2>1 DEF TabInit, TabInv, TabTyped
<1>2. TabInv /\ [TabNext]_tabVars => TabInv'
  <2> SUFFICES ASSUME TabInv, [TabNext]_tabVars PROVE TabInv'
    OBVIOUS
  <2>1. CASE UNCHANGED tabVars
    BY <2>1 DEF tabVars, TabInv, TabTyped, InOrder
  <2>2. CASE TabNext
    BY <2>2, SendStep, SetContentStep, WriteStep, AnsweredStep, EndStep DEF TabNext
  <2> QED
    BY <2>1, <2>2
<1> QED
  BY <1>1, <1>2, PTL DEF TabSpec

\* A tab that stopped being dirty has its text in its row, unless calls were overtaken
\* (store.ts: the answer of setContent's save).
THEOREM CleanTabsAreSaved == TabSpec => []CleanMeansSaved
<1>1. TabInv => CleanMeansSaved
  BY DEF TabInv, InOrder, CleanMeansSaved
<1> QED
  BY <1>1, TabInvariance, PTL

\* While nothing is lost, what is typed waits for its timer, is on its way or has arrived:
\* a timer hands the text to a call, a call to the row, and no older call can put an older
\* text there any more (store.ts: setContent, renameEditorTab and the answers to their saves).
THEOREM TextIsNeverDropped == TabSpec => []TextIsOnItsWay
<1> DEFINE Carried == \/ row # NoTab /\ row.text = tab.text
                      \/ \E i \in DOMAIN tabCalls : ~tabCalls[i].done /\ tabCalls[i].row.text = tab.text
<1>1. TabInit => TextIsOnItsWay
  BY DEF TabInit, TextIsOnItsWay
<1>2. TabInv /\ TabInv' /\ TextIsOnItsWay /\ [TabNext]_tabVars => TextIsOnItsWay'
  <2> SUFFICES ASSUME TabInv, TabInv', TextIsOnItsWay, [TabNext]_tabVars, tab' # NoTab, ~lost', ~overtaken'
               PROVE  contentTimer' \/ Carried'
    BY DEF TextIsOnItsWay
  <2>1. tabCalls \in Seq(TabCalls) /\ TabTyped /\ InOrder'
    BY DEF TabInv, TabTyped
  <2>2. ASSUME tab # NoTab, ~lost, ~overtaken PROVE (contentTimer \/ Carried) /\ InOrder
    BY <2>2 DEF TextIsOnItsWay, TabInv
  <2>3. ASSUME NEW c \in TabCalls, tabCalls' = Append(tabCalls, c), c.row = tab', ~c.done
        PROVE  Carried'
    <3>1. Len(tabCalls) + 1 \in DOMAIN tabCalls' /\ tabCalls'[Len(tabCalls) + 1] = c
      BY <2>1, <2>3, AppendProperties
    <3> QED
      BY <2>3, <3>1
  <2>4. CASE OpenEditorTab \/ RenameEditorTab \/ ContentTimerFires \/ CursorTimerFires
    <3>1. \E content \in BOOLEAN :
             tabCalls' = Append(tabCalls, [row |-> tab', content |-> content, done |-> FALSE])
      <4>1. CASE OpenEditorTab \/ RenameEditorTab
        BY <4>1 DEF OpenEditorTab, RenameEditorTab, Call
      <4>2. CASE ContentTimerFires \/ CursorTimerFires
        <5>1. tab' = tab /\ \/ tabCalls' = Append(tabCalls, [row |-> tab, content |-> TRUE, done |-> FALSE])
                            \/ tabCalls' = Append(tabCalls, [row |-> tab, content |-> FALSE, done |-> FALSE])
          BY <4>2 DEF ContentTimerFires, CursorTimerFires, Call
        <5> QED
          BY <5>1
      <4> QED
        BY <2>4, <4>1, <4>2
    <3>2. PICK content \in BOOLEAN :
             tabCalls' = Append(tabCalls, [row |-> tab', content |-> content, done |-> FALSE])
      BY <3>1
    <3>3. [row |-> tab', content |-> content, done |-> FALSE] \in TabCalls
      BY DEF TabInv, TabTyped, TabCalls
    <3> HIDE DEF Carried
    <3> QED
      BY <2>3, <3>2, <3>3
  <2>5. CASE SetContent
    BY <2>5 DEF SetContent
  <2>6. CASE SetCursor \/ UNCHANGED tabVars
    <3>1. UNCHANGED <<tab, row, contentTimer, tabCalls, lost, overtaken>>
      BY <2>6 DEF SetCursor, tabVars, histories
    <3> QED
      BY <2>2, <3>1
  <2>7. CASE CloseEditorTab \/ TabRestart
    BY <2>7 DEF CloseEditorTab, TabRestart
  <2>8. ASSUME NEW n \in DOMAIN tabCalls, CallWrites(n) PROVE contentTimer' \/ Carried'
    <3>1. /\ ~tabCalls[n].done /\ row' = tabCalls[n].row /\ (overtaken => overtaken')
          /\ tabCalls' = [tabCalls EXCEPT ![n].done = TRUE]
          /\ UNCHANGED <<tab, contentTimer, lost>>
      BY <2>8 DEF CallWrites
    <3>2. contentTimer \/ Carried
      BY <2>2, <3>1
    <3>3. InOrder
      BY <2>2, <3>1
    <3>4. CASE row # NoTab /\ row.text = tab.text
      <4>1. /\ row.text <= tabCalls[n].row.text /\ tabCalls[n].row.text <= tab.text
            /\ tabCalls[n].row \in Versions /\ row \in Versions
        BY <2>1, <3>1, <3>3, <3>4 DEF InOrder, TabTyped
      <4>2. tabCalls[n].row.text = tab.text /\ tabCalls[n].row # NoTab
        BY <3>4, <4>1, VersionShape
      <4> QED
        BY <3>1, <4>2
    <3>5. ASSUME NEW i \in DOMAIN tabCalls, ~tabCalls[i].done, tabCalls[i].row.text = tab.text
          PROVE  Carried'
      <4>1. CASE i = n
        <5>1. row' \in Versions
          BY <3>1, <3>3 DEF InOrder
        <5> QED
          BY <3>1, <3>5, <4>1, <5>1, VersionShape
      <4>2. CASE i # n
        <5>1. i \in DOMAIN tabCalls' /\ tabCalls'[i] = tabCalls[i]
          BY <2>1, <3>1, <4>2
        <5> QED
          BY <3>1, <3>5, <5>1
      <4> QED
        BY <4>1, <4>2
    <3> QED
      BY <3>1, <3>2, <3>4, <3>5
  <2>9. ASSUME NEW n \in DOMAIN tabCalls, CallAnswered(n) PROVE contentTimer' \/ Carried'
    <3>1. /\ tabCalls[n].done /\ tabCalls' = RemoveAt(tabCalls, n)
          /\ UNCHANGED <<tab, row, contentTimer, lost, overtaken>>
      BY <2>9 DEF CallAnswered, histories
    <3>2. contentTimer \/ Carried
      BY <2>2, <3>1
    <3>3. ASSUME NEW i \in DOMAIN tabCalls, ~tabCalls[i].done, tabCalls[i].row.text = tab.text
          PROVE  Carried'
      <4>1. /\ DOMAIN tabCalls' = 1..(Len(tabCalls) - 1) /\ Len(tabCalls) \in Nat
            /\ DOMAIN tabCalls = 1..Len(tabCalls)
            /\ \A j \in 1..(Len(tabCalls) - 1) : tabCalls'[j] = IF j < n THEN tabCalls[j] ELSE tabCalls[j + 1]
        BY <2>1, <3>1, RemovedInOrder
      <4>2. i # n
        BY <3>1, <3>3
      <4>3. CASE i < n
        <5>1. i \in DOMAIN tabCalls' /\ tabCalls'[i] = tabCalls[i]
          BY <4>1, <4>3
        <5> QED
          BY <3>1, <3>3, <5>1
      <4>4. CASE n < i
        <5>1. i - 1 \in DOMAIN tabCalls' /\ ~(i - 1 < n) /\ (i - 1) + 1 = i
          BY <4>1, <4>4
        <5>2. tabCalls'[i - 1] = tabCalls[i]
          BY <4>1, <5>1
        <5> QED
          BY <3>1, <3>3, <5>1, <5>2
      <4> QED
        BY <4>1, <4>2, <4>3, <4>4
    <3> QED
      BY <3>1, <3>2, <3>3
  <2>10. ASSUME NEW n \in DOMAIN tabCalls, CallFails(n) PROVE FALSE
    BY <2>10 DEF CallFails
  <2> HIDE DEF Carried
  <2> QED
    BY <2>4, <2>5, <2>6, <2>7, <2>8, <2>9, <2>10 DEF TabNext
<1> QED
  BY <1>1, <1>2, TabInvariance, PTL DEF TabSpec

----------------------------------------------------------------------------
(* Both sides.                                                             *)

\* Whatever happens to a tab happens in memory or to its row: what is proved of either
\* side holds of both together (store.ts: the run state and the tab record).
THEOREM SideParts == SideSpec => Spec /\ TabSpec
<1>1. SideInit => Init /\ TabInit
  BY DEF SideInit
<1>2. [SideNext]_<<side, vars, tabVars>> => [Next]_vars /\ [TabNext]_tabVars
  BY DEF SideNext
<1> QED
  BY <1>1, <1>2, PTL DEF SideSpec, Spec, TabSpec

\* Every variable of a tab keeps its type, on either side (store.ts: EditorState).
THEOREM SideTypesCorrect == SideSpec => []SideTypeOK
<1>1. TabInv => TabTypeOK
  BY DEF TabInv, TabTyped, TabTypeOK, TabCalls
<1> QED
  BY <1>1, SideParts, EditorTypes, TabInvariance, PTL DEF SideTypeOK
=============================================================================
