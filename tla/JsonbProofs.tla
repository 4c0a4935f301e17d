----------------------------- MODULE JsonbProofs -----------------------------
(***************************************************************************)
(* Proofs about the JSONB panel.  Of JsonbEdit, for every set of cells and *)
(* connections: a prod row changes without the name of its table only when *)
(* both guards gave way, and in an opening nothing raced with the row that *)
(* is written is the row the editor showed.  Of JsonbDiff, for every set   *)
(* of documents, keys and values and whatever the parsers round: a save    *)
(* over a row of the original's shape leaves the draft as serde_json reads *)
(* it, and a save by paths keeps what is there at keys the user did not    *)
(* edit.                                                                   *)
(***************************************************************************)
EXTENDS JsonbEdit, JsonbDiff, TLAPS, SequenceTheorems, FiniteSetTheorems, WellFoundedInduction

\* While nothing raced with the opening, what is known and what is asked about the row and
\* its environment concerns the row shown, on the connection of the tab.
KeyIsOfShown ==
    shown # Nothing /\ ~raced =>
        /\ shown.conn = tabConn
        /\ \A t \in resolving : t = shown
        /\ rowKey.kind = "row" => rowKey.row = shown /\ envIsProd = (shown.conn \in Prod)

\* A save sent in such an opening is for the row it was opened for, and has the name of
\* its table when that is on prod.
SavesNameTarget ==
    \A s \in saving :
        ~s.raced => /\ s.key.row = s.target /\ s.conn = s.target.conn
                    /\ s.conn \in Prod => s.token = KeyTable(s.key)

\* A prod row was written without a name only where the store did not tell.
FoundIsNamed == \A s \in Writes : s.found /\ s.conn \in Prod => s.token = KeyTable(s.key)

\* Each of the two guards, and what they rest on.
JsonbInv == JsonbTypeOK /\ KeyIsOfShown /\ SavesNameTarget /\ FoundIsNamed

\* The row of a key with a row, and what stands for no target at all.
LEMMA KeyShape ==
    /\ \A key \in RowKeys : key.kind = "row" => key.row \in Targets
    /\ NoKey \in RowKeys /\ ReadOnly \in RowKeys
    /\ \A t \in Targets : [kind |-> "row", row |-> t] \in RowKeys
    /\ NoKey.kind # "row" /\ ReadOnly.kind # "row"
    /\ Nothing \notin Targets
  BY JsonbAssumption DEF RowKeys, NoKey, ReadOnly, Targets

\* Nothing is open and nothing is under way.
LEMMA JsonbInitInv == JsonbInit => JsonbInv
<1> SUFFICES ASSUME JsonbInit PROVE JsonbInv
  OBVIOUS
<1>1. JsonbTypeOK
  BY KeyShape DEF JsonbInit, JsonbTypeOK
<1>2. KeyIsOfShown /\ SavesNameTarget /\ FoundIsNamed
  BY DEF JsonbInit, KeyIsOfShown, SavesNameTarget, FoundIsNamed, Writes
<1> QED
  BY <1>1, <1>2 DEF JsonbInv

----------------------------------------------------------------------------
(* Steps that leave the saves alone.                                       *)

\* What they leave alone.
LEMMA SavesKept ==
    ASSUME JsonbInv, UNCHANGED saving
    PROVE  SavesNameTarget' /\ FoundIsNamed'
  BY DEF JsonbInv, SavesNameTarget, FoundIsNamed, Writes

\* A rebind marks the opening; a rerun changes no row.
LEMMA PanelStep ==
    ASSUME JsonbInv, (\E c \in DbConns : RebindTab(c)) \/ Rerun
    PROVE  JsonbInv'
<1>1. JsonbTypeOK' /\ KeyIsOfShown'
  BY DEF JsonbInv, JsonbTypeOK, KeyIsOfShown, RebindTab, Rerun
<1>2. UNCHANGED saving
  BY DEF RebindTab, Rerun
<1> QED
  BY <1>1, <1>2, SavesKept DEF JsonbInv

\* An opening with no answer outstanding asks for its own row alone.
LEMMA OpenStep ==
    ASSUME JsonbInv, NEW c \in Cells, OpenEditor(c)
    PROVE  JsonbInv'
<1>1. /\ shown' = [cell |-> c, conn |-> tabConn] /\ shown' \in Targets
      /\ resolving' = resolving \cup {shown'}
      /\ rowKey' = NoKey /\ raced' = (resolving # {})
  BY DEF JsonbInv, JsonbTypeOK, OpenEditor, Targets
<1>2. JsonbTypeOK'
  BY <1>1, KeyShape DEF JsonbInv, JsonbTypeOK, OpenEditor
<1>3. KeyIsOfShown'
  <2>1. shown'.conn = tabConn /\ tabConn' = tabConn
    BY <1>1 DEF OpenEditor
  <2>2. raced' \/ resolving = {}
    BY <1>1
  <2>3. ~raced' => \A t \in resolving' : t = shown'
    BY <1>1, <2>2
  <2>4. rowKey'.kind # "row"
    BY <1>1, KeyShape
  <2> QED
    BY <2>1, <2>3, <2>4 DEF KeyIsOfShown
<1>4. UNCHANGED saving
  BY DEF OpenEditor
<1> QED
  BY <1>2, <1>3, <1>4, SavesKept DEF JsonbInv

\* An answer stores the key of a row that was asked for.
LEMMA ResolveStep ==
    ASSUME JsonbInv, NEW t \in resolving, ResolveAnswers(t) \/ ResolveFails(t)
    PROVE  JsonbInv'
<1>1. /\ t \in Targets /\ resolving' \subseteq resolving
      /\ rowKey' = [kind |-> "row", row |-> t] \/ rowKey' = ReadOnly
      /\ UNCHANGED <<shown, raced, tabConn, saving>>
  BY DEF JsonbInv, JsonbTypeOK, ResolveAnswers, ResolveFails
<1>2. rowKey' \in RowKeys
  BY <1>1, KeyShape
<1>3. JsonbTypeOK'
  <2>1. envIsProd' \in BOOLEAN
    <3>1. envIsProd' = (t.conn \in Prod)
      BY DEF ResolveAnswers, ResolveFails
    <3>2. CASE t.conn \in Prod
      BY <3>1, <3>2
    <3>3. CASE t.conn \notin Prod
      BY <3>1, <3>3
    <3> QED
      BY <3>2, <3>3
  <2>2. status' \in {"idle", "saving", "saved", "error"}
    BY DEF JsonbInv, JsonbTypeOK, ResolveAnswers, ResolveFails
  <2>3. UNCHANGED <<streaming, drafted, confirming, closers>>
    BY DEF ResolveAnswers, ResolveFails
  <2> QED
    BY <1>1, <1>2, <2>1, <2>2, <2>3 DEF JsonbInv, JsonbTypeOK
<1>4. rowKey'.kind = "row" => rowKey'.row = t
  BY <1>1, KeyShape
<1>5. KeyIsOfShown'
  BY <1>1, <1>4 DEF JsonbInv, KeyIsOfShown, ResolveAnswers, ResolveFails
<1> QED
  BY <1>1, <1>3, <1>5, SavesKept DEF JsonbInv

\* Editing, closing and giving up a confirmation name no other row.
LEMMA ModalStep ==
    ASSUME JsonbInv, EditDraft \/ CloseEditor \/ CancelConfirm \/ AutoClose
    PROVE  JsonbInv'
<1>1. JsonbTypeOK'
  BY KeyShape DEF JsonbInv, JsonbTypeOK, EditDraft, CloseEditor, CancelConfirm, AutoClose, Closed
<1>2. KeyIsOfShown'
  BY DEF JsonbInv, KeyIsOfShown, EditDraft, CloseEditor, CancelConfirm, AutoClose, Closed
<1>3. UNCHANGED saving
  BY DEF EditDraft, CloseEditor, CancelConfirm, AutoClose
<1> QED
  BY <1>1, <1>2, <1>3, SavesKept DEF JsonbInv

----------------------------------------------------------------------------
(* Saves.                                                                  *)

\* A save takes the key of the row shown.
LEMMA SendInv ==
    ASSUME JsonbInv, shown # Nothing,
           NEW token \in {TableOf[c] : c \in Cells} \cup {Nothing}, SendSave(token),
           envIsProd => token = KeyTable(rowKey)
    PROVE  /\ saving' \subseteq SaveCalls /\ status' = "saving"
           /\ SavesNameTarget' /\ FoundIsNamed'
<1> DEFINE call == [target |-> shown, key |-> rowKey, conn |-> tabConn, token |-> token,
                    raced |-> raced, found |-> TRUE, st |-> IF streaming THEN "sent" ELSE "unnamed"]
<1>1. /\ shown \in Targets /\ rowKey \in RowKeys /\ tabConn \in DbConns /\ raced \in BOOLEAN
      /\ rowKey.kind = "row"
  BY DEF JsonbInv, JsonbTypeOK, SendSave
<1>2. call \in SaveCalls
  BY <1>1 DEF SaveCalls
<1>3. saving' = saving \cup {call} /\ status' = "saving"
  BY DEF SendSave
<1>4. ~raced => /\ rowKey.row = shown /\ tabConn = shown.conn
                /\ tabConn \in Prod => token = KeyTable(rowKey)
  BY <1>1 DEF JsonbInv, KeyIsOfShown, SaveAccepted, SaveRefused
<1>5. SavesNameTarget'
  BY <1>3, <1>4 DEF JsonbInv, SavesNameTarget, KeyTable
<1>6. call.st # "done"
  OBVIOUS
<1>7. FoundIsNamed'
  <2> HIDE DEF call
  <2> QED
    BY <1>3, <1>6 DEF JsonbInv, FoundIsNamed, Writes
<1> QED
  BY <1>2, <1>3, <1>5, <1>7 DEF JsonbInv, JsonbTypeOK

\* The button, and the confirmation on prod.
LEMMA SaveStep ==
    ASSUME JsonbInv, BeginSave \/ ConfirmSave
    PROVE  JsonbInv'
<1>1. CASE BeginSave /\ envIsProd /\ rowKey.kind = "row"
  <2>1. JsonbTypeOK' /\ KeyIsOfShown' /\ UNCHANGED saving
    BY <1>1 DEF JsonbInv, JsonbTypeOK, KeyIsOfShown, BeginSave
  <2> QED
    BY <2>1, SavesKept DEF JsonbInv
<1>2. CASE BeginSave /\ ~(envIsProd /\ rowKey.kind = "row")
  <2>1. SendSave(Nothing) /\ shown # Nothing /\ ~envIsProd
    BY <1>2 DEF BeginSave, SendSave
  <2>2. /\ saving' \subseteq SaveCalls /\ status' = "saving"
        /\ SavesNameTarget' /\ FoundIsNamed'
    BY <2>1, SendInv
  <2>3. JsonbTypeOK' /\ KeyIsOfShown'
    BY <1>2, <2>2 DEF JsonbInv, JsonbTypeOK, KeyIsOfShown, BeginSave
  <2> QED
    BY <2>2, <2>3 DEF JsonbInv
<1>3. CASE ConfirmSave
  <2>1. rowKey \in RowKeys /\ rowKey.kind = "row" /\ shown # Nothing /\ SendSave(KeyTable(rowKey))
    BY <1>3 DEF ConfirmSave, AsksForName, JsonbInv, JsonbTypeOK
  <2>2. rowKey.row.cell \in Cells
    BY <2>1, KeyShape DEF Targets
  <2>3. KeyTable(rowKey) \in {TableOf[c] : c \in Cells} \cup {Nothing}
    BY <2>2 DEF KeyTable
  <2>4. /\ saving' \subseteq SaveCalls /\ status' = "saving"
        /\ SavesNameTarget' /\ FoundIsNamed'
    BY <2>1, <2>3, SendInv
  <2>5. JsonbTypeOK' /\ KeyIsOfShown'
    BY <1>3, <2>4 DEF JsonbInv, JsonbTypeOK, KeyIsOfShown, ConfirmSave
  <2> QED
    BY <2>4, <2>5 DEF JsonbInv
<1> QED
  BY <1>1, <1>2, <1>3

\* The backend writes a row it knows to be prod only when the name is that of the key's table.
LEMMA WriteStep ==
    ASSUME JsonbInv, NEW s \in saving, JsonbSave(s)
    PROVE  JsonbInv'
<1>1. PICK st \in {"done", "refused"}, found \in BOOLEAN :
         /\ Answered(s, st, found)
         /\ st = "done" => (found /\ s.conn \in Prod => s.token = KeyTable(s.key))
  BY DEF JsonbSave, ApplyWrite
<1> DEFINE a == [s EXCEPT !.st = st, !.found = found]
<1>2. s \in SaveCalls
  BY DEF JsonbInv, JsonbTypeOK
<1>3. /\ a \in SaveCalls /\ a.st = st /\ a.found = found
      /\ a.raced = s.raced /\ a.key = s.key /\ a.conn = s.conn
      /\ a.token = s.token /\ a.target = s.target
  BY <1>2 DEF SaveCalls
<1>4. saving' = (saving \ {s}) \cup {a}
  BY <1>1 DEF Answered
<1> HIDE DEF a
<1>5. JsonbTypeOK' /\ KeyIsOfShown'
  BY <1>3, <1>4 DEF JsonbInv, JsonbTypeOK, KeyIsOfShown, JsonbSave
<1>6. SavesNameTarget'
  BY <1>3, <1>4 DEF JsonbInv, SavesNameTarget, KeyTable
<1>7. FoundIsNamed'
  BY <1>1, <1>3, <1>4 DEF JsonbInv, FoundIsNamed, Writes, KeyTable
<1> QED
  BY <1>5, <1>6, <1>7 DEF JsonbInv

\* An answer drops its call.
LEMMA SaveAnswerStep ==
    ASSUME JsonbInv, NEW s \in saving, SaveAccepted(s) \/ SaveRefused(s)
    PROVE  JsonbInv'
<1>1. saving' = saving \ {s} /\ UNCHANGED <<shown, raced, tabConn, resolving, rowKey>>
  BY DEF SaveAccepted, SaveRefused
<1>2. JsonbTypeOK'
  BY <1>1 DEF JsonbInv, JsonbTypeOK, SaveAccepted, SaveRefused
<1>3. KeyIsOfShown'
  BY <1>1 DEF JsonbInv, KeyIsOfShown, SaveAccepted, SaveRefused
<1>4. SavesNameTarget'
  BY <1>1 DEF JsonbInv, SavesNameTarget, KeyTable
<1>5. FoundIsNamed'
  BY <1>1 DEF JsonbInv, FoundIsNamed, Writes, KeyTable
<1> QED
  BY <1>2, <1>3, <1>4, <1>5 DEF JsonbInv

----------------------------------------------------------------------------
(* The theorems.                                                           *)

\* The invariant holds in every reachable state.
THEOREM JsonbInvariance == JsonbSpec => []JsonbInv
<1>1. JsonbInv /\ [JsonbNext]_jsonbVars => JsonbInv'
  <2> SUFFICES ASSUME JsonbInv, [JsonbNext]_jsonbVars PROVE JsonbInv'
    OBVIOUS
  <2>1. CASE UNCHANGED jsonbVars
    BY <2>1 DEF jsonbVars, JsonbInv, JsonbTypeOK, KeyIsOfShown, SavesNameTarget,
                FoundIsNamed, Writes
  <2>2. CASE JsonbNext
    BY <2>2, PanelStep, OpenStep, ResolveStep, ModalStep, SaveStep, WriteStep, SaveAnswerStep
    DEF JsonbNext
  <2> QED
    BY <2>1, <2>2
<1> QED
  BY JsonbInitInv, <1>1, PTL DEF JsonbSpec

\* A prod row changes without the name of its table only if the opening was raced and the
\* store did not have the connection's environment (store.ts save, write.rs apply).
THEOREM UnnamedSlipsTwice == JsonbSpec => []UnnamedSlippedTwice
<1>1. JsonbInv => UnnamedSlippedTwice
  <2> SUFFICES ASSUME JsonbInv, NEW s \in Writes, s.conn \in Prod, s.token # KeyTable(s.key)
               PROVE  s.raced /\ ~s.found
    BY DEF UnnamedSlippedTwice
  <2>1. s \in saving /\ s.raced \in BOOLEAN /\ s.found \in BOOLEAN
    BY DEF JsonbInv, JsonbTypeOK, SaveCalls, Writes
  <2> QED
    BY <2>1 DEF JsonbInv, SavesNameTarget, FoundIsNamed
<1> QED
  BY JsonbInvariance, <1>1, PTL

\* The row written is the row shown when nothing raced with the opening: no answer of an
\* earlier opening was out and the tab kept its connection.
THEOREM ShownRowIsWritten == JsonbSpec => []WritesShownRow
<1>1. JsonbInv => WritesShownRow
  <2> SUFFICES ASSUME JsonbInv, NEW s \in Writes, ~s.raced
               PROVE  RowWritten(s) = s.target
    BY DEF WritesShownRow
  <2>1. s \in SaveCalls /\ s.key.row = s.target /\ s.conn = s.target.conn
    BY DEF JsonbInv, JsonbTypeOK, SavesNameTarget, Writes
  <2>2. s.target \in Targets
    BY <2>1 DEF SaveCalls
  <2>3. s.target = [cell |-> s.target.cell, conn |-> s.target.conn]
    BY <2>2 DEF Targets
  <2> QED
    BY <2>1, <2>3 DEF RowWritten
<1> QED
  BY JsonbInvariance, <1>1, PTL

----------------------------------------------------------------------------
(* Paths.                                                                  *)

Paths == Seq(Keys)

\* One of the two paths leads to the other.
Related(p, q) == IsPrefix(p, q) \/ IsPrefix(q, p)

\* Two paths of the same steps are one.
LEMMA PathsEqual ==
    ASSUME NEW p \in Paths, NEW q \in Paths, Len(p) = Len(q), \A i \in 1..Len(p) : p[i] = q[i]
    PROVE  p = q
  BY DEF Paths

\* The first steps of a path, step by step.
LEMMA FirstIs ==
    ASSUME NEW p \in Paths, NEW n \in 0..Len(p)
    PROVE  /\ First(p, n) \in Paths /\ Len(First(p, n)) = n
           /\ \A i \in 1..n : First(p, n)[i] = p[i]
  BY DEF Paths, First

LEMMA FirstAll ==
    ASSUME NEW p \in Paths
    PROVE  First(p, Len(p)) = p /\ First(p, 0) = <<>> /\ Len(p) \in Nat
<1>1. Len(p) \in Nat
  BY DEF Paths
<1>2. First(p, Len(p)) \in Paths /\ Len(First(p, Len(p))) = Len(p)
      /\ \A i \in 1..Len(p) : First(p, Len(p))[i] = p[i]
  BY <1>1, FirstIs
<1>3. First(p, 0) \in Paths /\ Len(First(p, 0)) = 0
  BY <1>1, FirstIs
<1>4. First(p, 0) = <<>>
  BY <1>3 DEF Paths
<1> QED
  BY <1>1, <1>2, <1>4, PathsEqual

LEMMA FirstOfFirst ==
    ASSUME NEW p \in Paths, NEW m \in 0..Len(p), NEW n \in 0..m
    PROVE  First(First(p, m), n) = First(p, n)
<1>1. Len(p) \in Nat /\ n \in 0..Len(p)
  BY FirstAll
<1>2. First(p, m) \in Paths /\ Len(First(p, m)) = m /\ \A i \in 1..m : First(p, m)[i] = p[i]
  BY FirstIs
<1>3. First(p, n) \in Paths /\ Len(First(p, n)) = n /\ \A i \in 1..n : First(p, n)[i] = p[i]
  BY <1>1, FirstIs
<1> DEFINE t == First(p, m)
<1>4. t \in Paths /\ n \in 0..Len(t)
  BY <1>2
<1>5. First(t, n) \in Paths /\ Len(First(t, n)) = n /\ \A i \in 1..n : First(t, n)[i] = t[i]
  <2> HIDE DEF t
  <2> QED
    BY <1>4, FirstIs
<1>6. \A i \in 1..n : i \in 1..m
  BY <1>1
<1> QED
  BY <1>2, <1>3, <1>5, <1>6, PathsEqual

\* What a path begins with are its first steps.
LEMMA PrefixIs ==
    ASSUME NEW p \in Paths, NEW q \in Paths
    PROVE  IsPrefix(p, q) <=> Len(p) <= Len(q) /\ First(q, Len(p)) = p
<1>1. SubSeq(p, 1, Len(p)) = p
  BY FirstAll DEF First
<1> QED
  BY <1>1 DEF IsPrefix, First

LEMMA PrefixOrder ==
    ASSUME NEW p \in Paths, NEW q \in Paths, NEW r \in Paths
    PROVE  /\ IsPrefix(p, p)
           /\ IsPrefix(p, q) /\ IsPrefix(q, r) => IsPrefix(p, r)
           /\ IsPrefix(p, r) /\ IsPrefix(q, r) => Related(p, q)
           /\ IsPrefix(p, q) /\ p # q => Len(p) < Len(q)
<1>1. Len(p) \in Nat /\ Len(q) \in Nat /\ Len(r) \in Nat
  BY FirstAll
<1>2. IsPrefix(p, p)
  BY <1>1, FirstAll, PrefixIs
<1>3. ASSUME IsPrefix(p, q), IsPrefix(q, r)
      PROVE  IsPrefix(p, r)
  <2>1. Len(p) <= Len(q) /\ First(q, Len(p)) = p /\ Len(q) <= Len(r) /\ First(r, Len(q)) = q
    BY <1>3, PrefixIs
  <2>2. Len(q) \in 0..Len(r) /\ Len(p) \in 0..Len(q) /\ Len(p) <= Len(r)
    BY <1>1, <2>1
  <2>3. First(First(r, Len(q)), Len(p)) = First(r, Len(p))
    BY <2>2, FirstOfFirst
  <2> QED
    BY <2>1, <2>2, <2>3, PrefixIs
<1>4. ASSUME NEW a \in Paths, NEW b \in Paths, IsPrefix(a, r), IsPrefix(b, r), Len(a) <= Len(b)
      PROVE  IsPrefix(a, b)
  <2>1. First(r, Len(a)) = a /\ First(r, Len(b)) = b /\ Len(b) <= Len(r) /\ Len(a) \in Nat /\ Len(b) \in Nat
    BY <1>4, PrefixIs, FirstAll
  <2>2. Len(b) \in 0..Len(r) /\ Len(a) \in 0..Len(b)
    BY <1>1, <1>4, <2>1
  <2>3. First(First(r, Len(b)), Len(a)) = First(r, Len(a))
    BY <2>2, FirstOfFirst
  <2> QED
    BY <1>4, <2>1, <2>3, PrefixIs
<1>5. IsPrefix(p, r) /\ IsPrefix(q, r) => Related(p, q)
  <2>1. Len(p) <= Len(q) \/ Len(q) <= Len(p)
    BY <1>1
  <2> QED
    BY <2>1, <1>4 DEF Related
<1>6. ASSUME IsPrefix(p, q), p # q
      PROVE  Len(p) < Len(q)
  <2>1. Len(p) <= Len(q) /\ First(q, Len(p)) = p
    BY <1>6, PrefixIs
  <2>2. Len(p) # Len(q)
    BY <2>1, <1>6, FirstAll
  <2> QED
    BY <1>1, <2>1, <2>2
<1> QED
  BY <1>2, <1>3, <1>5, <1>6

\* The first steps of a path are the paths it begins with.
LEMMA FirstIsPrefix ==
    ASSUME NEW p \in Paths, NEW n \in 0..Len(p)
    PROVE  IsPrefix(First(p, n), p)
<1>1. First(p, n) \in Paths /\ Len(First(p, n)) = n /\ Len(p) \in Nat
  BY FirstIs, FirstAll
<1> QED
  BY <1>1, PrefixIs

\* What goes on from one of two paths that are apart is apart from the other.
LEMMA ApartBelow ==
    ASSUME NEW p \in Paths, NEW q \in Paths, NEW x \in Paths, ~Related(p, q), IsPrefix(p, x)
    PROVE  ~Related(x, q)
  BY PrefixOrder DEF Related

\* The last step of a path.
LEMMA LastStep ==
    ASSUME NEW p \in Paths, p # <<>>
    PROVE  /\ Len(p) \in Nat \ {0} /\ Front(p) = First(p, Len(p) - 1)
           /\ Front(p) \in Paths /\ Len(Front(p)) = Len(p) - 1 /\ IsPrefix(Front(p), p)
           /\ Last(p) \in Keys /\ Append(Front(p), Last(p)) = p
<1>1. Len(p) \in Nat \ {0}
  BY DEF Paths
<1>2. Front(p) = First(p, Len(p) - 1)
  BY DEF Front, First
<1>3. Len(p) - 1 \in 0..Len(p)
  BY <1>1
<1>4. Front(p) \in Paths /\ Len(Front(p)) = Len(p) - 1 /\ IsPrefix(Front(p), p)
      /\ \A i \in 1..(Len(p) - 1) : Front(p)[i] = p[i]
  BY <1>2, <1>3, FirstIs, FirstIsPrefix
<1>5. Last(p) \in Keys
  BY <1>1 DEF Last, Paths
<1>6. Append(Front(p), Last(p)) = p
  <2> DEFINE f == Front(p)
             k == Last(p)
  <2>1. f \in Paths /\ Len(f) = Len(p) - 1 /\ k \in Keys /\ k = p[Len(p)] /\ \A i \in 1..(Len(p) - 1) : f[i] = p[i]
    BY <1>4, <1>5 DEF Last
  <2> HIDE DEF f, k
  <2>2. Append(f, k) \in Paths /\ Len(Append(f, k)) = Len(p)
        /\ \A i \in 1..Len(p) : Append(f, k)[i] = IF i = Len(p) THEN k ELSE f[i]
    BY <1>1, <2>1 DEF Paths
  <2>3. \A i \in 1..Len(p) : Append(f, k)[i] = p[i]
    BY <1>1, <2>1, <2>2
  <2> QED
    BY <2>2, <2>3, PathsEqual DEF f, k
<1> QED
  BY <1>1, <1>2, <1>4, <1>5, <1>6

\* A path and one more step.
LEMMA NextStepOf ==
    ASSUME NEW p \in Paths, NEW k \in Keys
    PROVE  /\ Append(p, k) \in Paths /\ Len(Append(p, k)) = Len(p) + 1 /\ Append(p, k) # <<>>
           /\ Front(Append(p, k)) = p /\ Last(Append(p, k)) = k
           /\ First(Append(p, k), Len(p)) = p /\ IsPrefix(p, Append(p, k))
           /\ \A q \in Paths : IsPrefix(q, Append(p, k)) => q = Append(p, k) \/ IsPrefix(q, p)
<1> DEFINE a == Append(p, k)
<1>1. a \in Paths /\ Len(a) = Len(p) + 1 /\ a[Len(p) + 1] = k /\ Len(p) \in Nat
      /\ \A i \in 1..Len(p) : a[i] = p[i]
  BY DEF Paths
<1> HIDE DEF a
<1>2. Len(p) \in 0..Len(a) /\ a # <<>>
  BY <1>1
<1>3. First(a, Len(p)) \in Paths /\ Len(First(a, Len(p))) = Len(p) /\ \A i \in 1..Len(p) : First(a, Len(p))[i] = a[i]
  BY <1>1, <1>2, FirstIs
<1>4. First(a, Len(p)) = p
  BY <1>1, <1>3, PathsEqual
<1>5. Front(a) = p /\ Last(a) = k
  BY <1>1, <1>4 DEF Front, Last, First
<1>6. IsPrefix(p, a)
  BY <1>1, <1>2, <1>4, PrefixIs
<1>7. ASSUME NEW q \in Paths, IsPrefix(q, a), q # a
      PROVE  IsPrefix(q, p)
  <2>1. Len(q) < Len(a) /\ First(a, Len(q)) = q /\ Len(q) \in Nat
    BY <1>1, <1>7, PrefixOrder, PrefixIs, FirstAll
  <2>2. Len(q) \in 0..Len(p)
    BY <1>1, <2>1
  <2>3. First(First(a, Len(p)), Len(q)) = First(a, Len(q))
    BY <1>1, <1>2, <2>2, FirstOfFirst
  <2> QED
    BY <1>1, <1>4, <2>1, <2>2, <2>3, PrefixIs
<1> QED
  BY <1>1, <1>2, <1>4, <1>5, <1>6, <1>7 DEF a

\* A path leads to itself with one more step.
LEMMA StepsOn ==
    ASSUME NEW p \in Paths, NEW k \in Keys
    PROVE  IsStrictPrefix(p, Append(p, k))
<1>1. Len(p) \in Nat /\ Len(Append(p, k)) = Len(p) + 1 /\ IsPrefix(p, Append(p, k))
  BY FirstAll, NextStepOf
<1>2. Len(p) # Len(Append(p, k))
  BY <1>1
<1>3. p # Append(p, k)
  BY <1>2
<1> QED
  BY <1>1, <1>3 DEF IsStrictPrefix

----------------------------------------------------------------------------
(* Indices and documents.                                                  *)

\* The place of an index is its number in PathIndices.
LEMMA IndicesAre ==
    /\ Len(PathIndices) \in Nat /\ DOMAIN PathIndices = 1..Len(PathIndices)
    /\ \A i \in DOMAIN PathIndices : PathIndices[i] \in Keys /\ PathIndices[i] \in ToSet(PathIndices)
    /\ \A i, j \in DOMAIN PathIndices : PathIndices[i] = PathIndices[j] => i = j
    /\ \A i \in DOMAIN PathIndices : Place(PathIndices[i]) = i
<1>1. Len(PathIndices) \in Nat /\ DOMAIN PathIndices = 1..Len(PathIndices)
  BY DiffAssumption
<1>2. \A i \in DOMAIN PathIndices : PathIndices[i] \in Keys /\ PathIndices[i] \in ToSet(PathIndices)
  BY DEF ToSet, Keys
<1>3. \A i, j \in DOMAIN PathIndices : PathIndices[i] = PathIndices[j] => i = j
  BY DiffAssumption DEF IsInjective
<1>4. \A i \in DOMAIN PathIndices : Place(PathIndices[i]) = i
  BY <1>3, Zenon DEF Place
<1> QED
  BY <1>1, <1>2, <1>3, <1>4

\* What leads to a path of a document is in it, an object or an array.
LEMMA DocClosed ==
    ASSUME NEW d, IsDoc(d), NEW p \in DOMAIN d
    PROVE  /\ p \in Paths
           /\ \A q \in Paths : IsPrefix(q, p) => q \in DOMAIN d /\ (q # p => d[q] \in Containers)
<1>1. p \in Paths
  BY DEF IsDoc, Paths
<1>2. ASSUME NEW q \in Paths, IsPrefix(q, p), q # p
      PROVE  q \in DOMAIN d /\ d[q] \in Containers
  <2>1. Len(q) < Len(p) /\ First(p, Len(q)) = q /\ Len(q) \in Nat /\ Len(p) \in Nat
    BY <1>1, <1>2, PrefixOrder, PrefixIs, FirstAll
  <2>2. Len(q) \in 0..(Len(p) - 1)
    BY <2>1
  <2> QED
    BY <2>1, <2>2 DEF IsDoc
<1> QED
  BY <1>1, <1>2

\* The key or index a path ends with is one of those that follow its parent.
LEMMA ParentOf ==
    ASSUME NEW d, IsDoc(d), NEW p \in DOMAIN d, p # <<>>
    PROVE  /\ Front(p) \in DOMAIN d /\ d[Front(p)] \in Containers
           /\ Last(p) \in Children(d, Front(p))
<1>1. p \in Paths
  BY DocClosed
<1>2. Front(p) \in Paths /\ IsPrefix(Front(p), p) /\ Front(p) # p /\ Last(p) \in Keys
      /\ Append(Front(p), Last(p)) = p
  <2>1. Len(Front(p)) = Len(p) - 1 /\ Len(p) \in Nat
    BY <1>1, LastStep
  <2> QED
    BY <2>1, <1>1, LastStep
<1> QED
  BY <1>2, DocClosed DEF Children

\* The elements of an array have the first indices.
LEMMA ArrayHas ==
    ASSUME NEW d, IsDoc(d), NEW p \in DOMAIN d, d[p] = "array"
    PROVE  /\ Length(d, p) \in 0..Len(PathIndices) /\ Children(d, p) = Indices(Length(d, p))
           /\ Children(d, p) \subseteq ToSet(PathIndices)
<1>1. \E n \in 0..Len(PathIndices) : Children(d, p) = Indices(n)
  BY DEF IsDoc
<1>2. Length(d, p) \in 0..Len(PathIndices) /\ Children(d, p) = Indices(Length(d, p))
  BY <1>1 DEF Length
<1>3. \A n \in 0..Len(PathIndices) : Indices(n) \subseteq ToSet(PathIndices)
  BY IndicesAre DEF Indices
<1> QED
  BY <1>2, <1>3

\* JSON.parse and JSON.stringify keep a document one.
LEMMA ParsedDoc ==
    ASSUME NEW d, IsDoc(d)
    PROVE  IsDoc(Parsed(d)) /\ DOMAIN Parsed(d) = DOMAIN d
<1> DEFINE e == Parsed(d)
<1>1. DOMAIN e = DOMAIN d
  BY DEF Parsed
<1>2. \A p \in DOMAIN d : e[p] = IF d[p] \in LeafValues THEN AsNumber[d[p]] ELSE d[p]
  BY DEF Parsed
<1>3. \A p \in DOMAIN d : d[p] \in LeafValues \cup Containers
  BY DEF IsDoc
<1>4. \A p \in DOMAIN d : /\ e[p] \in LeafValues \cup Containers
                          /\ d[p] \in Containers => e[p] = d[p]
                          /\ e[p] = "array" => d[p] = "array"
  BY <1>2, <1>3, DiffAssumption DEF Containers
<1>5. e \in [DOMAIN d -> LeafValues \cup Containers]
  BY <1>4 DEF Parsed
<1>6. \A p : Children(e, p) = Children(d, p)
  BY <1>1 DEF Children
<1> HIDE DEF e
<1>7. \A p \in DOMAIN d :
          /\ p \in Seq(Keys)
          /\ \A n \in 0..(Len(p) - 1) : First(p, n) \in DOMAIN e /\ e[First(p, n)] \in Containers
          /\ e[p] = "array" => \E n \in 0..Len(PathIndices) : Children(e, p) = Indices(n)
  BY <1>1, <1>4, <1>6 DEF IsDoc
<1>8. IsFiniteSet(DOMAIN e) /\ <<>> \in DOMAIN e
  BY <1>1 DEF IsDoc
<1> QED
  BY <1>1, <1>5, <1>7, <1>8 DEF IsDoc, e

\* So does serde_json, and the objects and arrays stay where they are.
LEMMA ReadDoc ==
    ASSUME NEW d, IsDoc(d)
    PROVE  /\ IsDoc(Read(d)) /\ DOMAIN Read(d) = DOMAIN d /\ SameShape(Read(d), d)
           /\ \A p \in DOMAIN d : Read(d)[p] = IF d[p] \in LeafValues THEN AsSerde[d[p]] ELSE d[p]
<1> DEFINE e == Read(d)
<1>1. DOMAIN e = DOMAIN d
  BY DEF Read
<1>2. \A p \in DOMAIN d : e[p] = IF d[p] \in LeafValues THEN AsSerde[d[p]] ELSE d[p]
  BY DEF Read
<1>3. \A p \in DOMAIN d : d[p] \in LeafValues \cup Containers
  BY DEF IsDoc
<1>4. \A p \in DOMAIN d : /\ e[p] \in LeafValues \cup Containers
                          /\ {e[p], d[p]} \cap Containers # {} => e[p] = d[p]
                          /\ d[p] \in Containers => e[p] = d[p]
                          /\ e[p] = "array" => d[p] = "array"
  BY <1>2, <1>3, DiffAssumption DEF Containers
<1>5. e \in [DOMAIN d -> LeafValues \cup Containers]
  BY <1>4 DEF Read
<1>6. \A p : Children(e, p) = Children(d, p)
  BY <1>1 DEF Children
<1> HIDE DEF e
<1>7. \A p \in DOMAIN d :
          /\ p \in Seq(Keys)
          /\ \A n \in 0..(Len(p) - 1) : First(p, n) \in DOMAIN e /\ e[First(p, n)] \in Containers
          /\ e[p] = "array" => \E n \in 0..Len(PathIndices) : Children(e, p) = Indices(n)
  BY <1>1, <1>4, <1>6 DEF IsDoc
<1>8. IsFiniteSet(DOMAIN e) /\ <<>> \in DOMAIN e
  BY <1>1 DEF IsDoc
<1>9. SameShape(e, d)
  BY <1>1, <1>4 DEF SameShape
<1> QED
  BY <1>1, <1>2, <1>5, <1>7, <1>8, <1>9 DEF IsDoc, e

\* A part of a document at a path.
IsPart(part, p) ==
    /\ IsFiniteSet(DOMAIN part) /\ part \in [DOMAIN part -> LeafValues \cup Containers]
    /\ p \in DOMAIN part
    /\ \A x \in DOMAIN part :
          /\ x \in Paths /\ IsPrefix(p, x)
          /\ \A n \in Len(p)..(Len(x) - 1) : First(x, n) \in DOMAIN part /\ part[First(x, n)] \in Containers
          /\ part[x] = "array" => \E n \in 0..Len(PathIndices) : Children(part, x) = Indices(n)

LEMMA LeafIsPart ==
    ASSUME NEW p \in Paths, NEW v \in LeafValues
    PROVE  IsPart(LeafAt(p, v), p)
<1> DEFINE part == LeafAt(p, v)
<1>1. DOMAIN part = {p} /\ part[p] = v /\ v \notin Containers /\ v # "array"
  BY DiffAssumption DEF Containers, LeafAt
<1>2. IsFiniteSet({p}) /\ IsPrefix(p, p) /\ Len(p) \in Nat
  BY FS_Singleton, PrefixOrder, FirstAll
<1>3. part \in [DOMAIN part -> LeafValues \cup Containers]
  BY DEF LeafAt
<1> HIDE DEF part
<1>4. \A n \in Len(p)..(Len(p) - 1) : FALSE
  BY <1>2
<1> QED
  BY <1>1, <1>2, <1>3, <1>4 DEF IsPart, part

LEMMA BelowIsPart ==
    ASSUME NEW d, IsDoc(d), NEW p \in DOMAIN d
    PROVE  IsPart(Below(d, p), p)
<1> DEFINE part == Below(d, p)
<1>1. DOMAIN part = {x \in DOMAIN d : IsPrefix(p, x)} /\ \A x \in DOMAIN part : part[x] = d[x]
  BY DEF Below
<1> HIDE DEF part
<1>2. IsFiniteSet(DOMAIN part) /\ p \in DOMAIN part /\ p \in Paths
  <2>1. IsFiniteSet(DOMAIN d) /\ DOMAIN part \in SUBSET DOMAIN d
    BY <1>1 DEF IsDoc
  <2>2. IsFiniteSet(DOMAIN part)
    BY <2>1, FS_Subset
  <2>3. p \in Paths /\ IsPrefix(p, p)
    BY DocClosed, PrefixOrder
  <2>4. p \in DOMAIN part
    BY <1>1, <2>3
  <2> QED
    BY <2>2, <2>3, <2>4
<1>3. part \in [DOMAIN part -> LeafValues \cup Containers]
  <2>1. \A x \in DOMAIN d : d[x] \in LeafValues \cup Containers
    BY DEF IsDoc
  <2>2. Below(d, p) \in [{x \in DOMAIN d : IsPrefix(p, x)} -> LeafValues \cup Containers]
    BY <2>1 DEF Below
  <2>3. part \in [{x \in DOMAIN d : IsPrefix(p, x)} -> LeafValues \cup Containers]
    BY <2>2 DEF part
  <2> QED
    BY <1>1, <2>3
<1>4. ASSUME NEW x \in DOMAIN part
      PROVE  /\ x \in Paths /\ IsPrefix(p, x)
             /\ \A n \in Len(p)..(Len(x) - 1) : First(x, n) \in DOMAIN part /\ part[First(x, n)] \in Containers
             /\ part[x] = "array" => \E n \in 0..Len(PathIndices) : Children(part, x) = Indices(n)
  <2>1. x \in DOMAIN d /\ x \in Paths /\ IsPrefix(p, x) /\ Len(p) \in Nat /\ Len(x) \in Nat
        /\ Len(p) <= Len(x) /\ First(x, Len(p)) = p
    BY <1>1, <1>2, DocClosed, FirstAll, PrefixIs
  <2>2. ASSUME NEW n \in Len(p)..(Len(x) - 1)
        PROVE  First(x, n) \in DOMAIN part /\ part[First(x, n)] \in Containers
    <3>1. n \in 0..(Len(x) - 1) /\ n \in 0..Len(x) /\ Len(p) \in 0..n /\ Len(p) <= n
      BY <2>1
    <3>2. First(x, n) \in DOMAIN d /\ d[First(x, n)] \in Containers
      BY <2>1, <3>1 DEF IsDoc
    <3>3. First(x, n) \in Paths /\ Len(First(x, n)) = n /\ First(First(x, n), Len(p)) = p
      BY <2>1, <3>1, FirstIs, FirstOfFirst
    <3>4. IsPrefix(p, First(x, n))
      BY <1>2, <3>1, <3>3, PrefixIs
    <3> QED
      BY <1>1, <3>2, <3>4
  <2>3. Children(part, x) = Children(d, x)
    <3>1. \A k \in Keys : Append(x, k) \in Paths /\ IsPrefix(x, Append(x, k))
      BY <2>1, NextStepOf
    <3>2. \A k \in Keys : IsPrefix(p, Append(x, k))
      BY <1>2, <2>1, <3>1, PrefixOrder
    <3> QED
      BY <1>1, <3>2 DEF Children
  <2>4. part[x] = "array" => \E n \in 0..Len(PathIndices) : Children(part, x) = Indices(n)
    BY <1>1, <2>1, <2>3 DEF IsDoc
  <2> QED
    BY <2>1, <2>2, <2>4
<1> QED
  BY <1>2, <1>3, <1>4 DEF IsPart, part

----------------------------------------------------------------------------
(* jsonb_set.                                                              *)

\* A path with another key at one of its places.
LEMMA ThroughIs ==
    ASSUME NEW x \in Paths, NEW n \in 1..Len(x), NEW k \in Keys
    PROVE  /\ Through(x, n, k) \in Paths /\ Len(Through(x, n, k)) = Len(x)
           /\ \A i \in 1..Len(x) : Through(x, n, k)[i] = IF i = n THEN k ELSE x[i]
           /\ Through(Through(x, n, k), n, x[n]) = x
<1> DEFINE m == Through(x, n, k)
<1>1. Len(x) \in Nat /\ x[n] \in Keys
  BY DEF Paths
<1>2. m \in Paths /\ Len(m) = Len(x) /\ \A i \in 1..Len(x) : m[i] = IF i = n THEN k ELSE x[i]
  BY DEF Paths, Through
<1> HIDE DEF m
<1>3. Through(m, n, x[n]) \in Paths /\ Len(Through(m, n, x[n])) = Len(x)
      /\ \A i \in 1..Len(x) : Through(m, n, x[n])[i] = IF i = n THEN x[n] ELSE m[i]
  BY <1>1, <1>2 DEF Paths, Through
<1>4. \A i \in 1..Len(x) : Through(m, n, x[n])[i] = x[i]
  BY <1>2, <1>3
<1>5. Through(m, n, x[n]) = x
  BY <1>3, <1>4, PathsEqual
<1> QED
  BY <1>2, <1>5 DEF m

\* The first steps of such a path, and the path with one more step.
LEMMA ThroughFirst ==
    ASSUME NEW x \in Paths, NEW n \in 1..Len(x), NEW k \in Keys, NEW j \in 0..Len(x)
    PROVE  First(Through(x, n, k), j) = IF n <= j THEN Through(First(x, j), n, k) ELSE First(x, j)
<1> DEFINE m == Through(x, n, k)
           t == First(x, j)
<1>1. m \in Paths /\ Len(m) = Len(x) /\ \A i \in 1..Len(x) : m[i] = IF i = n THEN k ELSE x[i]
  BY ThroughIs
<1>2. t \in Paths /\ Len(t) = j /\ \A i \in 1..j : t[i] = x[i]
  BY FirstIs
<1>3. Len(x) \in Nat /\ j \in Nat /\ n \in Nat /\ \A i \in 1..j : i \in 1..Len(x)
  BY FirstAll
<1> HIDE DEF m, t
<1>4. First(m, j) \in Paths /\ Len(First(m, j)) = j /\ \A i \in 1..j : First(m, j)[i] = m[i]
  BY <1>1, FirstIs
<1>5. CASE n <= j
  <2>1. n \in 1..Len(t)
    BY <1>2, <1>3, <1>5
  <2>2. Through(t, n, k) \in Paths /\ Len(Through(t, n, k)) = j
        /\ \A i \in 1..j : Through(t, n, k)[i] = IF i = n THEN k ELSE t[i]
    BY <1>2, <2>1, ThroughIs
  <2>3. \A i \in 1..j : Through(t, n, k)[i] = First(m, j)[i]
    BY <1>1, <1>2, <1>3, <1>4, <2>2
  <2> QED
    BY <1>4, <1>5, <2>2, <2>3, PathsEqual DEF m, t
<1>6. CASE ~(n <= j)
  <2>1. \A i \in 1..j : t[i] = First(m, j)[i]
    BY <1>1, <1>2, <1>3, <1>4, <1>6
  <2> QED
    BY <1>2, <1>4, <1>6, <2>1, PathsEqual DEF m, t
<1> QED
  BY <1>5, <1>6

LEMMA ThroughAppend ==
    ASSUME NEW x \in Paths, NEW n \in 1..Len(x), NEW k \in Keys, NEW c \in Keys
    PROVE  Through(Append(x, c), n, k) = Append(Through(x, n, k), c)
<1> DEFINE m == Through(x, n, k)
           a == Append(x, c)
<1>1. m \in Paths /\ Len(m) = Len(x) /\ Len(x) \in Nat /\ \A i \in 1..Len(x) : m[i] = IF i = n THEN k ELSE x[i]
  BY ThroughIs, FirstAll
<1>2. a \in Paths /\ Len(a) = Len(x) + 1 /\ \A i \in 1..Len(a) : a[i] = IF i <= Len(x) THEN x[i] ELSE c
  BY <1>1 DEF Paths
<1> HIDE DEF m, a
<1>3. Append(m, c) \in Paths /\ Len(Append(m, c)) = Len(a)
      /\ \A i \in 1..Len(a) : Append(m, c)[i] = IF i <= Len(x) THEN m[i] ELSE c
  BY <1>1, <1>2 DEF Paths
<1>4. n \in 1..Len(a)
  BY <1>1, <1>2
<1>5. Through(a, n, k) \in Paths /\ Len(Through(a, n, k)) = Len(a)
      /\ \A i \in 1..Len(a) : Through(a, n, k)[i] = IF i = n THEN k ELSE a[i]
  BY <1>2, <1>4, ThroughIs
<1>6. \A i \in 1..Len(a) : Through(a, n, k)[i] = Append(m, c)[i]
  BY <1>1, <1>2, <1>3, <1>5
<1> QED
  BY <1>3, <1>5, <1>6, PathsEqual DEF m, a

\* Another key that is the same one changes nothing.
LEMMA ThroughSame ==
    ASSUME NEW x \in Paths, NEW n \in 1..Len(x)
    PROVE  Through(x, n, x[n]) = x
<1> DEFINE k == x[n]
<1>1. k \in Keys
  BY DEF Paths
<1>2. Through(x, n, k) \in Paths /\ Len(Through(x, n, k)) = Len(x)
      /\ \A i \in 1..Len(x) : Through(x, n, k)[i] = IF i = n THEN k ELSE x[i]
  BY <1>1, ThroughIs
<1>3. \A i \in 1..Len(x) : Through(x, n, k)[i] = x[i]
  BY <1>2
<1> QED
  BY <1>2, <1>3, PathsEqual

\* Moving what is under a path to under a path beside it.
LEMMA Moving ==
    ASSUME NEW p \in Paths, p # <<>>, NEW k \in Keys, NEW x \in Paths, IsPrefix(p, x)
    PROVE  /\ Len(p) \in 1..Len(x) /\ x[Len(p)] = Last(p)
           /\ Through(x, Len(p), k) \in Paths /\ Len(Through(x, Len(p), k)) = Len(x)
           /\ IsPrefix(Append(Front(p), k), Through(x, Len(p), k))
           /\ Through(Through(x, Len(p), k), Len(p), Last(p)) = x
<1>1. Len(p) \in Nat \ {0} /\ Len(x) \in Nat /\ Len(p) <= Len(x) /\ First(x, Len(p)) = p
  BY LastStep, FirstAll, PrefixIs
<1>2. Len(p) \in 1..Len(x) /\ Len(p) \in 0..Len(x) /\ Len(p) - 1 \in 0..Len(p)
  BY <1>1
<1>3. x[Len(p)] = Last(p)
  <2>1. First(x, Len(p))[Len(p)] = x[Len(p)]
    BY <1>1, <1>2, FirstIs
  <2> QED
    BY <1>1, <2>1 DEF Last
<1> DEFINE n == Len(p)
           m == Through(x, n, k)
<1>4. m \in Paths /\ Len(m) = Len(x) /\ Through(m, n, Last(p)) = x
  BY <1>2, <1>3, ThroughIs
<1>5. IsPrefix(Append(Front(p), k), m)
  <2>1. First(m, n) = Through(p, n, k)
    BY <1>1, <1>2, ThroughFirst
  <2>2. Front(p) \in Paths /\ Len(Front(p)) = n - 1 /\ \A i \in 1..(n - 1) : Front(p)[i] = p[i]
    <3>1. \A i \in 1..(Len(p) - 1) : First(p, Len(p) - 1)[i] = p[i]
      BY <1>2, FirstIs
    <3> QED
      BY <3>1, LastStep
  <2> DEFINE a == Append(Front(p), k)
  <2>3. a \in Paths /\ Len(a) = n /\ \A i \in 1..n : a[i] = IF i = n THEN k ELSE Front(p)[i]
    BY <1>1, <2>2 DEF Paths
  <2>4. Through(p, n, k) \in Paths /\ Len(Through(p, n, k)) = n
        /\ \A i \in 1..n : Through(p, n, k)[i] = IF i = n THEN k ELSE p[i]
    BY <1>1, ThroughIs
  <2> HIDE DEF a
  <2>5. \A i \in 1..n : a[i] = Through(p, n, k)[i]
    BY <1>1, <2>2, <2>3, <2>4
  <2>6. a = Through(p, n, k)
    BY <2>3, <2>4, <2>5, PathsEqual
  <2> HIDE DEF m, n
  <2>7. Len(a) <= Len(m) /\ First(m, Len(a)) = a
    BY <1>1, <1>4, <2>1, <2>3, <2>6 DEF n
  <2>8. IsPrefix(a, m)
    BY <1>4, <2>3, <2>7, PrefixIs
  <2> QED
    BY <2>8 DEF a
<1> QED
  BY <1>2, <1>3, <1>4, <1>5

\* Where jsonb_set puts what it is given: at the path, or past the end of an array.
Target(d, path) ==
    Append(Front(path), IF d[Front(path)] = "array" /\ path \notin DOMAIN d
                          THEN PathIndices[Length(d, Front(path)) + 1] ELSE Last(path))

\* The target is a place of the same object or array; past the end of an array it is the next.
LEMMA TargetIs ==
    ASSUME NEW d, IsDoc(d), NEW p \in Paths, p # <<>>, Front(p) \in DOMAIN d, ~BadIndex(d, p)
    PROVE  /\ Target(d, p) \in Paths /\ Target(d, p) # <<>> /\ Len(Target(d, p)) = Len(p)
           /\ Last(Target(d, p)) \in Keys
           /\ Front(Target(d, p)) = Front(p) /\ Target(d, p) = Append(Front(p), Last(Target(d, p)))
           /\ Target(d, p) # p => d[Front(p)] = "array" /\ p \notin DOMAIN d
           /\ d[Front(p)] = "array" /\ p \notin DOMAIN d =>
                /\ Length(d, Front(p)) < Len(PathIndices)
                /\ Last(Target(d, p)) = PathIndices[Length(d, Front(p)) + 1]
<1> DEFINE f == Front(p)
           key == IF d[f] = "array" /\ p \notin DOMAIN d THEN PathIndices[Length(d, f) + 1] ELSE Last(p)
<1>1. /\ Len(p) \in Nat \ {0} /\ f = First(p, Len(p) - 1) /\ f \in Paths /\ Len(f) = Len(p) - 1
      /\ Last(p) \in Keys /\ Append(f, Last(p)) = p
  BY LastStep
<1>2. ASSUME d[f] = "array", p \notin DOMAIN d
      PROVE  /\ Length(d, f) \in Nat /\ Length(d, f) < Len(PathIndices)
             /\ PathIndices[Length(d, f) + 1] \in Keys
  <2>1. Length(d, f) \in 0..Len(PathIndices) /\ Children(d, f) = Indices(Length(d, f))
    BY <1>2, ArrayHas
  <2>2. Len(p) \in DOMAIN p /\ Last(p) = p[Len(p)]
    BY <1>1 DEF Paths, Last
  <2>3. Last(p) \in ToSet(PathIndices)
    BY <1>1, <1>2, <2>2 DEF BadIndex
  <2>4. Last(p) \notin Children(d, f)
    BY <1>1, <1>2 DEF Children
  <2>5. PICK i \in 1..Len(PathIndices) : Last(p) = PathIndices[i]
    BY <2>3, IndicesAre DEF ToSet
  <2>6. i \notin 1..Length(d, f)
    BY <2>1, <2>4, <2>5 DEF Indices
  <2>7. Length(d, f) < Len(PathIndices) /\ Length(d, f) + 1 \in 1..Len(PathIndices)
    BY <2>1, <2>6, IndicesAre
  <2> QED
    BY <2>1, <2>7, IndicesAre
<1>3. key \in Keys
  BY <1>1, <1>2
<1>4. Target(d, p) = Append(f, key)
  BY DEF Target
<1>5. key # Last(p) => d[f] = "array" /\ p \notin DOMAIN d
  OBVIOUS
<1>6. d[f] = "array" /\ p \notin DOMAIN d => key = PathIndices[Length(d, f) + 1]
  OBVIOUS
<1> HIDE DEF f, key
<1>7. Append(f, key) \in Paths /\ Len(Append(f, key)) = Len(f) + 1 /\ Append(f, key) # <<>>
      /\ Front(Append(f, key)) = f /\ Last(Append(f, key)) = key
  BY <1>1, <1>3, NextStepOf
<1>8. /\ Target(d, p) \in Paths /\ Target(d, p) # <<>> /\ Last(Target(d, p)) = key
      /\ Front(Target(d, p)) = f /\ Target(d, p) = Append(f, Last(Target(d, p)))
      /\ Target(d, p) # p => d[f] = "array" /\ p \notin DOMAIN d
  BY <1>1, <1>4, <1>5, <1>7
<1>9. Len(Target(d, p)) = Len(p)
  BY <1>1, <1>4, <1>7
<1> QED
  BY <1>2, <1>3, <1>6, <1>8, <1>9 DEF f

\* What is under the target comes from the part, the rest from the document.
LEMMA SetIs ==
    ASSUME NEW d, IsDoc(d), NEW p \in Paths, p # <<>>, NEW part, IsPart(part, p),
           Front(p) \in DOMAIN d, d[Front(p)] \in Containers, ~BadIndex(d, p)
    PROVE  /\ DOMAIN JsonbSet(d, p, part) \subseteq Paths
           /\ \A q \in Paths : IsPrefix(Target(d, p), q) =>
                 /\ q \in DOMAIN JsonbSet(d, p, part) <=> Through(q, Len(p), Last(p)) \in DOMAIN part
                 /\ q \in DOMAIN JsonbSet(d, p, part) =>
                       JsonbSet(d, p, part)[q] = part[Through(q, Len(p), Last(p))]
           /\ \A q \in Paths : ~IsPrefix(Target(d, p), q) =>
                 /\ q \in DOMAIN JsonbSet(d, p, part) <=> q \in DOMAIN d
                 /\ q \in DOMAIN JsonbSet(d, p, part) => JsonbSet(d, p, part)[q] = d[q]
           /\ IsFiniteSet(DOMAIN JsonbSet(d, p, part))
<1> DEFINE t   == Target(d, p)
           key == Last(t)
           n   == Len(p)
           old == Beside(d, t)
           in  == {Through(x, n, key) : x \in DOMAIN part}
           new == JsonbSet(d, p, part)
<1>1. /\ t \in Paths /\ t # <<>> /\ Len(t) = n /\ key \in Keys
      /\ Front(t) = Front(p) /\ t = Append(Front(p), key)
      /\ key = IF d[Front(p)] = "array" /\ p \notin DOMAIN d
                 THEN PathIndices[Length(d, Front(p)) + 1] ELSE Last(p)
  <2>1. t = Append(Front(p), IF d[Front(p)] = "array" /\ p \notin DOMAIN d
                               THEN PathIndices[Length(d, Front(p)) + 1] ELSE Last(p))
    BY DEF Target
  <2>2. (p \notin DOMAIN d /\ d[Front(p)] = "array") \/ t = p
    BY TargetIs
  <2> QED
    BY <2>2, TargetIs
<1>2. new = [q \in DOMAIN old \cup in |-> IF q \in DOMAIN old THEN old[q] ELSE part[Through(q, n, Last(p))]]
  <2> DEFINE k == IF d[Front(p)] = "array" /\ p \notin DOMAIN d
                    THEN PathIndices[Length(d, Front(p)) + 1] ELSE Last(p)
  <2>1. new = [q \in DOMAIN Beside(d, Append(Front(p), k)) \cup {Through(x, n, k) : x \in DOMAIN part} |->
                 IF q \in DOMAIN Beside(d, Append(Front(p), k))
                   THEN Beside(d, Append(Front(p), k))[q] ELSE part[Through(q, n, Last(p))]]
    BY DEF JsonbSet
  <2>2. k = key /\ Append(Front(p), k) = t
    BY <1>1
  <2> HIDE DEF k, t, key, n, new
  <2> QED
    BY <2>1, <2>2
<1>3. DOMAIN old = {x \in DOMAIN d : ~IsPrefix(t, x)} /\ \A q \in DOMAIN old : old[q] = d[q]
  BY DEF Beside
<1>4. Last(p) \in Keys /\ Append(Front(t), Last(p)) = p
  BY <1>1, LastStep
<1>5. \A x \in DOMAIN part : x \in Paths /\ IsPrefix(p, x)
  BY DEF IsPart
<1>6. \A x \in DOMAIN d : x \in Paths
  BY DocClosed
<1> HIDE DEF new, old, key, t
<1>7. ASSUME NEW x \in DOMAIN part
      PROVE  /\ Through(x, n, key) \in Paths /\ IsPrefix(t, Through(x, n, key))
             /\ Through(Through(x, n, key), n, Last(p)) = x
  <2>1. x \in Paths /\ IsPrefix(p, x)
    BY <1>5
  <2> QED
    BY <1>1, <2>1, Moving
<1>8. ASSUME NEW q \in Paths, IsPrefix(t, q)
      PROVE  Through(Through(q, n, Last(p)), n, key) = q
  BY <1>1, <1>4, <1>8, Moving DEF key
<1>9. DOMAIN new = DOMAIN old \cup in
  BY <1>2
<1>10. in \subseteq Paths /\ \A q \in in : IsPrefix(t, q)
  BY <1>7
<1>11. ASSUME NEW q \in Paths, IsPrefix(t, q)
       PROVE  /\ q \in DOMAIN new <=> Through(q, n, Last(p)) \in DOMAIN part
              /\ q \in DOMAIN new => new[q] = part[Through(q, n, Last(p))]
  <2>1. q \notin DOMAIN old
    BY <1>3, <1>11
  <2>2. q \in in <=> Through(q, n, Last(p)) \in DOMAIN part
    <3>1. ASSUME q \in in
          PROVE  Through(q, n, Last(p)) \in DOMAIN part
      <4>1. PICK x \in DOMAIN part : q = Through(x, n, key)
        BY <3>1
      <4> QED
        BY <4>1, <1>7
    <3>2. ASSUME Through(q, n, Last(p)) \in DOMAIN part
          PROVE  q \in in
      <4>1. q = Through(Through(q, n, Last(p)), n, key)
        BY <1>8, <1>11
      <4> QED
        BY <3>2, <4>1
    <3> QED
      BY <3>1, <3>2
  <2>3. q \in DOMAIN new <=> q \in in
    BY <1>9, <2>1
  <2>4. q \in DOMAIN new => new[q] = part[Through(q, n, Last(p))]
    BY <1>2, <1>9, <2>1
  <2> QED
    BY <2>2, <2>3, <2>4
<1>12. ASSUME NEW q \in Paths, ~IsPrefix(t, q)
       PROVE  /\ q \in DOMAIN new <=> q \in DOMAIN d
              /\ q \in DOMAIN new => new[q] = d[q]
  <2>1. q \notin in
    BY <1>10, <1>12
  <2>2. q \in DOMAIN new <=> q \in DOMAIN old
    BY <1>9, <2>1
  <2>3. q \in DOMAIN old => new[q] = old[q]
    BY <1>2, <1>9
  <2> QED
    BY <1>3, <1>12, <2>2, <2>3
<1>13. IsFiniteSet(DOMAIN new)
  <2> DEFINE move == [x \in DOMAIN part |-> Through(x, n, key)]
  <2>1. move \in Surjection(DOMAIN part, in)
    BY DEF Surjection
  <2>2. IsFiniteSet(in)
    <3>1. IsFiniteSet(DOMAIN part)
      BY DEF IsPart
    <3> HIDE DEF move, in
    <3> QED
      BY <2>1, <3>1, FS_Surjection
  <2>3. IsFiniteSet(DOMAIN old)
    <3>1. IsFiniteSet(DOMAIN d) /\ DOMAIN old \in SUBSET DOMAIN d
      BY <1>3 DEF IsDoc
    <3> QED
      BY <3>1, FS_Subset
  <2> HIDE DEF in
  <2> QED
    BY <1>9, <2>2, <2>3, FS_Union
<1>14. DOMAIN new \subseteq Paths
  BY <1>3, <1>6, <1>9, <1>10
<1> QED
  BY <1>11, <1>12, <1>13, <1>14 DEF new, t, n

\* jsonb_set keeps a document one.
LEMMA SetDoc ==
    ASSUME NEW d, IsDoc(d), NEW p \in Paths, p # <<>>, NEW part, IsPart(part, p), ~BadIndex(d, p)
    PROVE  IsDoc(JsonbSet(d, p, part))
<1>1. CASE Front(p) \notin DOMAIN d \/ d[Front(p)] \notin Containers
  <2>1. JsonbSet(d, p, part) = d
    BY <1>1 DEF JsonbSet
  <2> QED
    BY <2>1
<1>2. CASE Front(p) \in DOMAIN d /\ d[Front(p)] \in Containers
  <2> DEFINE e == JsonbSet(d, p, part)
             t == Target(d, p)
             n == Len(p)
             f == Front(p)
             Back(q) == Through(q, n, Last(p))
  <2>1. /\ t \in Paths /\ t # <<>> /\ Len(t) = n /\ Last(t) \in Keys /\ Front(t) = f
        /\ t = Append(f, Last(t))
        /\ t # p => d[f] = "array" /\ p \notin DOMAIN d
        /\ d[f] = "array" /\ p \notin DOMAIN d =>
              Length(d, f) < Len(PathIndices) /\ Last(t) = PathIndices[Length(d, f) + 1]
    BY <1>2, TargetIs
  <2>2. /\ DOMAIN e \subseteq Paths /\ IsFiniteSet(DOMAIN e)
        /\ \A q \in Paths : IsPrefix(t, q) =>
              /\ q \in DOMAIN e <=> Back(q) \in DOMAIN part
              /\ q \in DOMAIN e => e[q] = part[Back(q)]
        /\ \A q \in Paths : ~IsPrefix(t, q) =>
              /\ q \in DOMAIN e <=> q \in DOMAIN d
              /\ q \in DOMAIN e => e[q] = d[q]
    BY <1>2, SetIs
  <2>3. /\ n \in Nat \ {0} /\ f \in Paths /\ Last(p) \in Keys /\ Append(f, Last(p)) = p
        /\ f = First(t, n - 1)
    BY <2>1, LastStep
  <2>4. ASSUME NEW q \in Paths, IsPrefix(t, q)
        PROVE  /\ n \in 1..Len(q) /\ Back(q) \in Paths /\ Len(Back(q)) = Len(q)
               /\ \A j \in n..Len(q) : Back(First(q, j)) = First(Back(q), j) /\ IsPrefix(t, First(q, j))
               /\ \A k \in Keys : Back(Append(q, k)) = Append(Back(q), k) /\ IsPrefix(t, Append(q, k))
    <3>1. n \in 1..Len(q) /\ Len(q) \in Nat /\ First(q, n) = t
      BY <2>1, <2>3, <2>4, PrefixIs, FirstAll
    <3>2. Back(q) \in Paths /\ Len(Back(q)) = Len(q)
      BY <2>3, <3>1, ThroughIs
    <3>3. ASSUME NEW j \in n..Len(q)
          PROVE  Back(First(q, j)) = First(Back(q), j) /\ IsPrefix(t, First(q, j))
      <4>1. j \in 0..Len(q) /\ n <= j /\ n \in 0..j
        BY <2>3, <3>1
      <4>2. Back(First(q, j)) = First(Back(q), j)
        BY <2>3, <3>1, <4>1, ThroughFirst
      <4>3. First(q, j) \in Paths /\ Len(First(q, j)) = j /\ First(First(q, j), n) = First(q, n)
        BY <4>1, FirstIs, FirstOfFirst
      <4>4. IsPrefix(t, First(q, j))
        BY <2>1, <3>1, <4>1, <4>3, PrefixIs
      <4> QED
        BY <4>2, <4>4
    <3>4. ASSUME NEW k \in Keys
          PROVE  Back(Append(q, k)) = Append(Back(q), k) /\ IsPrefix(t, Append(q, k))
      <4>1. Back(Append(q, k)) = Append(Back(q), k)
        BY <2>3, <3>1, ThroughAppend
      <4>2. Append(q, k) \in Paths /\ IsPrefix(q, Append(q, k))
        BY NextStepOf
      <4>3. IsPrefix(t, Append(q, k))
        BY <2>1, <2>4, <4>2, PrefixOrder
      <4> QED
        BY <4>1, <4>3
    <3> QED
      BY <3>1, <3>2, <3>3, <3>4
  <2>5. /\ \A x \in DOMAIN d : d[x] \in LeafValues \cup Containers
        /\ \A x \in DOMAIN part : part[x] \in LeafValues \cup Containers
        /\ <<>> \in DOMAIN d /\ <<>> \in Paths
    BY DocClosed DEF IsDoc, IsPart
  <2> HIDE DEF e, t, n, f, Back
  <2>6. ASSUME NEW q \in DOMAIN e
        PROVE  e[q] \in LeafValues \cup Containers
    <3>1. CASE IsPrefix(t, q)
      BY <2>2, <2>5, <3>1
    <3>2. CASE ~IsPrefix(t, q)
      BY <2>2, <2>5, <3>2
    <3> QED
      BY <3>1, <3>2
  <2>7. <<>> \in DOMAIN e
    <3>1. ~IsPrefix(t, <<>>)
      <4>1. Len(t) \in Nat \ {0} /\ Len(<<>>) = 0
        BY <2>1, <2>3
      <4> QED
        BY <2>1, <2>5, <4>1, PrefixIs
    <3> QED
      BY <2>2, <2>5, <3>1
  <2>8. ASSUME NEW q \in DOMAIN e, NEW j \in 0..(Len(q) - 1)
        PROVE  First(q, j) \in DOMAIN e /\ e[First(q, j)] \in Containers
    <3> DEFINE s == First(q, j)
    <3>1. q \in Paths /\ Len(q) \in Nat /\ j \in 0..Len(q)
      BY <2>2, FirstAll
    <3>2. s \in Paths /\ Len(s) = j /\ IsPrefix(s, q) /\ s # q
      BY <3>1, FirstIs, FirstIsPrefix
    <3>3. CASE IsPrefix(t, s)
      <4>1. IsPrefix(t, q)
        BY <2>1, <3>1, <3>2, <3>3, PrefixOrder
      <4>2. n <= j
        BY <2>1, <3>2, <3>3, PrefixIs
      <4>3. j \in n..Len(q) /\ j \in n..(Len(q) - 1)
        BY <2>3, <3>1, <4>2
      <4>4. Back(s) = First(Back(q), j) /\ Len(Back(q)) = Len(q) /\ Back(q) \in DOMAIN part
        BY <2>2, <2>4, <3>1, <4>1, <4>3
      <4>5. First(Back(q), j) \in DOMAIN part /\ part[First(Back(q), j)] \in Containers
        <5>1. j \in n..(Len(Back(q)) - 1)
          BY <4>3, <4>4
        <5> QED
          BY <4>4, <5>1 DEF IsPart, n
      <4> HIDE DEF s
      <4>6. s \in DOMAIN e /\ e[s] = part[Back(s)]
        BY <2>2, <3>2, <3>3, <4>4, <4>5
      <4> QED
        BY <4>4, <4>5, <4>6 DEF s
    <3>4. CASE ~IsPrefix(t, s) /\ IsPrefix(t, q)
      <4>1. IsPrefix(s, t) /\ s # t
        BY <2>1, <3>1, <3>2, <3>4, PrefixOrder DEF Related
      <4>2. IsPrefix(s, f)
        <5>1. IsPrefix(s, Append(f, Last(t)))
          BY <2>1, <4>1
        <5> QED
          BY <2>1, <2>3, <3>2, <4>1, <5>1, NextStepOf
      <4>3. s \in DOMAIN d /\ d[s] \in Containers
        BY <1>2, <3>2, <4>2, DocClosed DEF f
      <4> HIDE DEF s
      <4> QED
        BY <2>2, <3>2, <3>4, <4>3 DEF s
    <3>5. CASE ~IsPrefix(t, s) /\ ~IsPrefix(t, q)
      <4>1. q \in DOMAIN d
        BY <2>2, <3>1, <3>5
      <4>2. s \in DOMAIN d /\ d[s] \in Containers
        BY <3>2, <4>1, DocClosed
      <4> HIDE DEF s
      <4> QED
        BY <2>2, <3>2, <3>5, <4>2 DEF s
    <3> QED
      BY <3>3, <3>4, <3>5
  <2>9. ASSUME NEW q \in DOMAIN e, e[q] = "array"
        PROVE  \E m \in 0..Len(PathIndices) : Children(e, q) = Indices(m)
    <3>1. q \in Paths
      BY <2>2
    <3>2. CASE IsPrefix(t, q)
      <4>1. Back(q) \in DOMAIN part /\ part[Back(q)] = "array"
        BY <2>2, <2>9, <3>1, <3>2
      <4>2. Children(e, q) = Children(part, Back(q))
        <5>1. ASSUME NEW k \in Keys
              PROVE  Append(q, k) \in DOMAIN e <=> Append(Back(q), k) \in DOMAIN part
          <6>1. Back(Append(q, k)) = Append(Back(q), k) /\ IsPrefix(t, Append(q, k)) /\ Append(q, k) \in Paths
            BY <2>4, <3>1, <3>2, NextStepOf
          <6> QED
            BY <2>2, <6>1
        <5> QED
          BY <5>1 DEF Children
      <4> QED
        BY <4>1, <4>2 DEF IsPart
    <3>3. CASE ~IsPrefix(t, q)
      <4>1. q \in DOMAIN d /\ d[q] = "array"
        BY <2>2, <2>9, <3>1, <3>3
      <4>2. ASSUME NEW k \in Keys, Append(q, k) # t
            PROVE  Append(q, k) \in DOMAIN e <=> Append(q, k) \in DOMAIN d
        <5>1. Append(q, k) \in Paths /\ ~IsPrefix(t, Append(q, k))
          BY <2>1, <3>1, <3>3, <4>2, NextStepOf
        <5> QED
          BY <2>2, <5>1
      <4>3. CASE q # f
        <5>1. \A k \in Keys : Append(q, k) # t
          BY <2>1, <3>1, <4>3, NextStepOf
        <5>2. Children(e, q) = Children(d, q)
          BY <4>2, <5>1 DEF Children
        <5> QED
          BY <4>1, <5>2 DEF IsDoc
      <4>4. CASE q = f
        <5>1. t \in DOMAIN e
          <6>1. IsPrefix(t, t) /\ t = First(t, n)
            BY <2>1, PrefixOrder, FirstAll
          <6>2. Back(t) = p
            <7>1. Through(Through(p, n, Last(t)), n, Last(p)) = p
              <8>1. IsPrefix(p, p)
                BY PrefixOrder
              <8> QED
                BY <2>1, <8>1, Moving DEF n
            <7>2. Through(p, n, Last(t)) = t
              <8>1. Through(p, n, Last(t)) \in Paths /\ Len(Through(p, n, Last(t))) = n
                    /\ IsPrefix(Append(f, Last(t)), Through(p, n, Last(t)))
                <9>1. IsPrefix(p, p)
                  BY PrefixOrder
                <9> QED
                  BY <2>1, <9>1, Moving DEF n, f
              <8>2. First(Through(p, n, Last(t)), n) = t
                BY <2>1, <8>1, PrefixIs
              <8> QED
                BY <8>1, <8>2, FirstAll
            <7> QED
              BY <7>1, <7>2 DEF Back
          <6>3. p \in DOMAIN part
            BY DEF IsPart
          <6> QED
            BY <2>1, <2>2, <6>1, <6>2, <6>3
        <5>2. Last(t) \in Children(e, q)
          BY <2>1, <4>4, <5>1 DEF Children
        <5>3. \A k \in Keys : k # Last(t) => Append(q, k) # t
          BY <3>1, NextStepOf
        <5>4. Children(e, q) = Children(d, q) \cup {Last(t)}
          <6>1. \A k \in Keys : k # Last(t) => (Append(q, k) \in DOMAIN e <=> Append(q, k) \in DOMAIN d)
            BY <4>2, <5>3
          <6> QED
            BY <2>1, <5>2, <6>1 DEF Children
        <5>5. Length(d, q) \in 0..Len(PathIndices) /\ Children(d, q) = Indices(Length(d, q))
          BY <4>1, ArrayHas
        <5>6. CASE p \in DOMAIN d
          <6>1. t = p
            BY <2>1, <5>6
          <6>2. Last(t) \in Children(d, q)
            BY <2>1, <2>3, <4>4, <5>6, <6>1 DEF Children
          <6>3. Children(e, q) = Children(d, q)
            BY <5>4, <6>2
          <6> QED
            BY <5>5, <6>3
        <5>7. CASE p \notin DOMAIN d
          <6> DEFINE m == Length(d, q)
          <6>1. m < Len(PathIndices) /\ Last(t) = PathIndices[m + 1]
            BY <2>1, <4>1, <4>4, <5>7
          <6>2. m \in Nat /\ m + 1 \in 0..Len(PathIndices) /\ 1..(m + 1) = 1..m \cup {m + 1}
            BY <5>5, <6>1, IndicesAre
          <6>3. Indices(m + 1) = Indices(m) \cup {PathIndices[m + 1]}
            BY <6>2 DEF Indices
          <6> HIDE DEF m
          <6>4. Children(e, q) = Indices(m + 1)
            BY <5>4, <5>5, <6>1, <6>3 DEF m
          <6> QED
            BY <6>2, <6>4
        <5> QED
          BY <5>6, <5>7
      <4> QED
        BY <4>3, <4>4
    <3> QED
      BY <3>2, <3>3
  <2>10. e \in [DOMAIN e -> LeafValues \cup Containers]
    <3>1. e = [q \in DOMAIN e |-> e[q]]
      BY <1>2 DEF e, JsonbSet
    <3> QED
      BY <2>6, <3>1
  <2>11. IsDoc(e)
    BY <2>2, <2>7, <2>8, <2>9, <2>10 DEF IsDoc, Paths
  <2> QED
    BY <2>11 DEF e
<1> QED
  BY <1>1, <1>2

----------------------------------------------------------------------------
(* #- and what the tree takes out.                                         *)

\* What leads through an array takes one of its indices.
LEMMA ElementOf ==
    ASSUME NEW d, IsDoc(d), NEW f \in DOMAIN d, d[f] = "array",
           NEW x \in DOMAIN d, IsStrictPrefix(f, x)
    PROVE  /\ x \in Paths /\ f \in Paths /\ Len(f) \in Nat /\ Len(f) + 1 \in 1..Len(x)
           /\ First(x, Len(f) + 1) = Append(f, x[Len(f) + 1])
           /\ \E a \in 1..Length(d, f) : x[Len(f) + 1] = PathIndices[a]
<1>1. x \in Paths /\ f \in Paths /\ Len(f) \in Nat /\ Len(x) \in Nat /\ IsPrefix(f, x) /\ f # x
  BY DocClosed, FirstAll DEF IsStrictPrefix
<1>2. Len(f) < Len(x) /\ First(x, Len(f)) = f
  BY <1>1, PrefixOrder, PrefixIs
<1> DEFINE n == Len(f) + 1
           t == First(x, n)
<1>3. n \in 1..Len(x) /\ n \in 0..Len(x) /\ Len(f) \in 0..n
  BY <1>1, <1>2
<1>4. t \in Paths /\ Len(t) = n /\ \A i \in 1..n : t[i] = x[i]
  BY <1>1, <1>3, FirstIs
<1>5. First(t, Len(f)) = f /\ IsPrefix(t, x)
  BY <1>1, <1>2, <1>3, FirstOfFirst, FirstIsPrefix
<1> HIDE DEF t
<1>6. t # <<>> /\ Last(t) = x[n] /\ Front(t) = f
  BY <1>1, <1>4, <1>5 DEF Last, Front, First, Paths
<1>7. t = Append(f, x[n]) /\ x[n] \in Keys
  BY <1>4, <1>6, LastStep
<1>8. t \in DOMAIN d
  BY <1>4, <1>5, DocClosed
<1>9. x[n] \in Children(d, f)
  BY <1>7, <1>8 DEF Children
<1>10. x[n] \in Indices(Length(d, f))
  BY <1>9, ArrayHas
<1> QED
  BY <1>1, <1>3, <1>7, <1>10 DEF Indices, t

\* Only the place in the array is another.
LEMMA UpIs ==
    ASSUME NEW p \in Paths, p # <<>>, NEW x \in Paths
    PROVE  /\ ~IsStrictPrefix(Front(p), x) => Up(x, p) = x
           /\ \A a \in DOMAIN PathIndices :
                 IsStrictPrefix(Front(p), x) /\ x[Len(p)] = PathIndices[a] =>
                    Up(x, p) = IF a > Place(Last(p)) THEN Through(x, Len(p), PathIndices[a - 1]) ELSE x
<1>1. ASSUME NEW a \in DOMAIN PathIndices, x[Len(p)] = PathIndices[a]
      PROVE  Place(x[Len(p)]) = a
  BY <1>1, IndicesAre
<1> QED
  BY <1>1 DEF Up

\* The first steps of the path move up with it.
LEMMA UpFirst ==
    ASSUME NEW d, IsDoc(d), NEW p \in DOMAIN d, p # <<>>, d[Front(p)] = "array",
           NEW x \in DOMAIN d, NEW m \in 0..Len(x)
    PROVE  Up(First(x, m), p) = First(Up(x, p), m)
<1> DEFINE f == Front(p)
           t == First(x, m)
           n == Len(p)
<1>1. /\ p \in Paths /\ x \in Paths /\ Len(x) \in Nat /\ f \in DOMAIN d /\ f \in Paths
      /\ n \in Nat \ {0} /\ Len(f) = n - 1
  BY DocClosed, FirstAll, ParentOf, LastStep
<1>2. t \in Paths /\ Len(t) = m /\ IsPrefix(t, x) /\ \A i \in 1..m : t[i] = x[i]
  BY <1>1, FirstIs, FirstIsPrefix
<1> HIDE DEF t
<1>3. t \in DOMAIN d
  BY <1>1, <1>2, DocClosed
<1>4. CASE ~IsStrictPrefix(f, x)
  <2>1. ~IsStrictPrefix(f, t)
    <3>1. ASSUME IsPrefix(f, t), f # t
          PROVE  IsPrefix(f, x) /\ f # x
      <4>1. IsPrefix(f, x)
        BY <1>1, <1>2, <3>1, PrefixOrder
      <4>2. Len(f) < Len(t) /\ Len(t) <= Len(x) /\ Len(f) \in Nat /\ Len(t) \in Nat
        BY <1>1, <1>2, <3>1, PrefixOrder
      <4> QED
        BY <1>1, <4>1, <4>2
    <3> QED
      BY <1>4, <3>1 DEF IsStrictPrefix
  <2> QED
    BY <1>1, <1>2, <1>4, <2>1, UpIs DEF t
<1>5. CASE IsStrictPrefix(f, x)
  <2>1. Len(f) + 1 \in 1..Len(x) /\ \E a \in 1..Length(d, f) : x[Len(f) + 1] = PathIndices[a]
    BY <1>1, <1>5, ElementOf
  <2>2. n \in 1..Len(x) /\ Len(f) + 1 = n
    BY <1>1, <2>1
  <2>3. PICK a \in DOMAIN PathIndices : x[n] = PathIndices[a]
    <3>1. Length(d, f) \in 0..Len(PathIndices)
      BY <1>1, ArrayHas
    <3>2. 1..Length(d, f) \subseteq DOMAIN PathIndices
      BY <3>1, IndicesAre
    <3> QED
      BY <2>1, <2>2, <3>2
  <2> DEFINE i == Place(Last(p))
  <2>4. Up(x, p) = IF a > i THEN Through(x, n, PathIndices[a - 1]) ELSE x
    BY <1>1, <1>5, <2>3, UpIs
  <2>5. CASE n <= m
    <3>1. IsStrictPrefix(f, t)
      <4>1. IsPrefix(f, x)
        BY <1>5 DEF IsStrictPrefix
      <4>2. Related(f, t)
        BY <1>1, <1>2, <4>1, PrefixOrder
      <4>3. Len(f) < Len(t) /\ Len(t) \in Nat /\ Len(f) \in Nat
        BY <1>1, <1>2, <2>5
      <4>4. ~(Len(t) <= Len(f)) /\ f # t
        BY <4>3
      <4>5. IsPrefix(f, t)
        BY <1>1, <1>2, <4>2, <4>4, PrefixIs DEF Related
      <4> QED
        BY <4>4, <4>5 DEF IsStrictPrefix
    <3>2. t[n] = PathIndices[a]
      BY <1>1, <1>2, <2>3, <2>5
    <3>3. Up(t, p) = IF a > i THEN Through(t, n, PathIndices[a - 1]) ELSE t
      BY <1>1, <1>2, <3>1, <3>2, UpIs
    <3>4. CASE a > i
      <4>1. a - 1 \in DOMAIN PathIndices \/ a - 1 = 0
        BY IndicesAre
      <4>2. i \in DOMAIN PathIndices
        <5>1. Last(p) \in ToSet(PathIndices)
          BY <1>1, ParentOf, ArrayHas
        <5> QED
          BY <5>1, IndicesAre DEF ToSet
      <4>3. PathIndices[a - 1] \in Keys
        BY <3>4, <4>2, IndicesAre
      <4>4. First(Through(x, n, PathIndices[a - 1]), m) = Through(First(x, m), n, PathIndices[a - 1])
        BY <1>1, <2>2, <2>5, <4>3, ThroughFirst
      <4> QED
        BY <2>4, <3>3, <3>4, <4>4 DEF t
    <3>5. CASE ~(a > i)
      BY <2>4, <3>3, <3>5 DEF t
    <3> QED
      BY <3>4, <3>5
  <2>6. CASE ~(n <= m)
    <3>1. ~IsStrictPrefix(f, t)
      <4>1. ~(Len(f) < Len(t))
        BY <1>1, <1>2, <2>6
      <4> QED
        BY <1>1, <1>2, <4>1, PrefixOrder DEF IsStrictPrefix
    <3>2. Up(t, p) = t
      BY <1>1, <1>2, <3>1, UpIs
    <3>3. CASE a > i
      <4>1. i \in DOMAIN PathIndices
        <5>1. Last(p) \in ToSet(PathIndices)
          BY <1>1, ParentOf, ArrayHas
        <5> QED
          BY <5>1, IndicesAre DEF ToSet
      <4>2. PathIndices[a - 1] \in Keys
        BY <3>3, <4>1, IndicesAre
      <4>3. First(Through(x, n, PathIndices[a - 1]), m) = First(x, m)
        BY <1>1, <2>2, <2>6, <4>2, ThroughFirst
      <4> QED
        BY <2>4, <3>2, <3>3, <4>3 DEF t
    <3>4. CASE ~(a > i)
      BY <2>4, <3>2, <3>4 DEF t
    <3> QED
      BY <3>3, <3>4
  <2> QED
    BY <2>5, <2>6
<1> QED
  BY <1>4, <1>5

\* Where an element that stays is afterwards.
LEMMA UpMoved ==
    ASSUME NEW d, IsDoc(d), NEW p \in DOMAIN d, p # <<>>, d[Front(p)] = "array",
           NEW x \in DOMAIN d, IsStrictPrefix(Front(p), x), ~IsPrefix(p, x)
    PROVE  LET n == Length(d, Front(p))
               i == Place(Last(p))
           IN  /\ i \in 1..n /\ n \in 0..Len(PathIndices)
               /\ Up(x, p) \in Paths /\ IsStrictPrefix(Front(p), Up(x, p)) /\ Len(Up(x, p)) = Len(x)
               /\ \E a \in (1..n) \ {i} :
                     LET b == IF a > i THEN a - 1 ELSE a
                     IN  /\ x[Len(p)] = PathIndices[a] /\ Up(x, p)[Len(p)] = PathIndices[b]
                         /\ Up(x, p) = Through(x, Len(p), PathIndices[b])
                         /\ Through(Up(x, p), Len(p), PathIndices[a]) = x
<1> DEFINE f == Front(p)
           n == Length(d, f)
           i == Place(Last(p))
           l == Len(p)
           u == Up(x, p)
<1>1. /\ p \in Paths /\ x \in Paths /\ Len(x) \in Nat /\ f \in DOMAIN d /\ f \in Paths
      /\ l \in Nat \ {0} /\ Len(f) = l - 1 /\ Append(f, Last(p)) = p
      /\ IsPrefix(f, x) /\ f # x /\ Len(f) < Len(x) /\ First(x, l - 1) = f
  BY DocClosed, FirstAll, ParentOf, LastStep, PrefixOrder, PrefixIs DEF IsStrictPrefix
<1>2. n \in 0..Len(PathIndices) /\ Children(d, f) = Indices(n)
  BY <1>1, ArrayHas
<1>3. i \in 1..n /\ Last(p) = PathIndices[i]
  <2>1. Last(p) \in Indices(n)
    BY <1>2, ParentOf
  <2>2. PICK j \in 1..n : Last(p) = PathIndices[j]
    BY <2>1 DEF Indices
  <2>3. j \in DOMAIN PathIndices
    BY <1>2, IndicesAre
  <2> QED
    BY <2>2, <2>3, IndicesAre
<1>4. PICK a \in 1..n : x[l] = PathIndices[a] /\ l \in 1..Len(x) /\ First(x, l) = Append(f, x[l])
  <2>1. /\ Len(f) + 1 \in 1..Len(x) /\ First(x, Len(f) + 1) = Append(f, x[Len(f) + 1])
        /\ \E a \in 1..n : x[Len(f) + 1] = PathIndices[a]
    BY <1>1, ElementOf
  <2>2. Len(f) + 1 = l
    BY <1>1
  <2> QED
    BY <2>1, <2>2
<1>5. a # i
  <2>1. a # i \/ First(x, l) = p
    BY <1>1, <1>3, <1>4
  <2>2. First(x, l) = p => IsPrefix(p, x)
    <3>1. l <= Len(x)
      BY <1>4
    <3> QED
      BY <1>1, <3>1, PrefixIs
  <2> QED
    BY <2>1, <2>2
<1> DEFINE b == IF a > i THEN a - 1 ELSE a
<1>6. b \in 1..n /\ a \in DOMAIN PathIndices /\ b \in DOMAIN PathIndices
  BY <1>2, <1>3, <1>4, <1>5, IndicesAre
<1>7. PathIndices[a] \in Keys /\ PathIndices[b] \in Keys
  BY <1>6, IndicesAre
<1>8. u = Through(x, l, PathIndices[b])
  <2>1. u = IF a > i THEN Through(x, l, PathIndices[a - 1]) ELSE x
    BY <1>1, <1>4, <1>6, UpIs
  <2>2. Through(x, l, x[l]) = x
    <3>1. Through(x, l, x[l]) \in Paths /\ Len(Through(x, l, x[l])) = Len(x)
          /\ \A j \in 1..Len(x) : Through(x, l, x[l])[j] = IF j = l THEN x[l] ELSE x[j]
      BY <1>1, <1>4, <1>7, ThroughIs
    <3>2. \A j \in 1..Len(x) : Through(x, l, x[l])[j] = x[j]
      BY <3>1
    <3> QED
      BY <1>1, <3>1, <3>2, PathsEqual
  <2> HIDE DEF u
  <2> QED
    BY <1>4, <2>1, <2>2
<1>9. u \in Paths /\ Len(u) = Len(x) /\ u[l] = PathIndices[b] /\ Through(u, l, PathIndices[a]) = x
      /\ First(u, l - 1) = f
  <2>1. l - 1 \in 0..Len(x) /\ ~(l <= l - 1)
    BY <1>1, <1>4
  <2>2. First(u, l - 1) = f
    BY <1>1, <1>4, <1>7, <1>8, <2>1, ThroughFirst
  <2> QED
    BY <1>1, <1>4, <1>7, <1>8, <2>2, ThroughIs
<1> HIDE DEF u, b, n, i, l, f
<1>10. IsPrefix(f, u) /\ f # u
  BY <1>1, <1>9, PrefixIs
<1>11. a \in (1..n) \ {i}
  BY <1>4, <1>5
<1>12. \E aa \in (1..n) \ {i} :
          LET bb == IF aa > i THEN aa - 1 ELSE aa
          IN  /\ x[l] = PathIndices[aa] /\ u[l] = PathIndices[bb]
              /\ u = Through(x, l, PathIndices[bb])
              /\ Through(u, l, PathIndices[aa]) = x
  BY <1>4, <1>8, <1>9, <1>11, Zenon DEF b
<1> QED
  BY <1>2, <1>3, <1>9, <1>10, <1>12, Zenon DEF u, n, i, l, f, IsStrictPrefix

\* No two elements move to one place.
LEMMA UpInjective ==
    ASSUME NEW d, IsDoc(d), NEW p \in DOMAIN d, p # <<>>, d[Front(p)] = "array",
           NEW x \in DOMAIN d, NEW y \in DOMAIN d, ~IsPrefix(p, x), ~IsPrefix(p, y), Up(x, p) = Up(y, p)
    PROVE  x = y
<1> DEFINE f == Front(p)
           n == Length(d, f)
           i == Place(Last(p))
<1>1. p \in Paths /\ x \in Paths /\ y \in Paths
  BY DocClosed
<1>2. CASE ~IsStrictPrefix(f, x) /\ ~IsStrictPrefix(f, y)
  BY <1>1, <1>2, UpIs
<1>3. CASE IsStrictPrefix(f, x) /\ ~IsStrictPrefix(f, y)
  BY <1>1, <1>3, UpIs, UpMoved
<1>4. CASE ~IsStrictPrefix(f, x) /\ IsStrictPrefix(f, y)
  BY <1>1, <1>4, UpIs, UpMoved
<1>5. CASE IsStrictPrefix(f, x) /\ IsStrictPrefix(f, y)
  <2>1. PICK a \in (1..n) \ {i} :
            Up(x, p)[Len(p)] = PathIndices[IF a > i THEN a - 1 ELSE a] /\ Through(Up(x, p), Len(p), PathIndices[a]) = x
    BY <1>5, UpMoved
  <2>2. PICK c \in (1..n) \ {i} :
            Up(y, p)[Len(p)] = PathIndices[IF c > i THEN c - 1 ELSE c] /\ Through(Up(y, p), Len(p), PathIndices[c]) = y
    BY <1>5, UpMoved
  <2>3. i \in 1..n /\ n \in 0..Len(PathIndices)
    BY <1>5, UpMoved
  <2> DEFINE b == IF a > i THEN a - 1 ELSE a
             e == IF c > i THEN c - 1 ELSE c
  <2>4. b \in DOMAIN PathIndices /\ e \in DOMAIN PathIndices
    BY <2>1, <2>2, <2>3, IndicesAre
  <2>5. PathIndices[b] = PathIndices[e]
    BY <2>1, <2>2
  <2>6. b = e
    <3> HIDE DEF b, e
    <3> QED
      BY <2>4, <2>5, IndicesAre
  <2>7. a = c
    BY <2>1, <2>2, <2>3, <2>6
  <2> QED
    BY <2>1, <2>2, <2>7
<1> QED
  BY <1>2, <1>3, <1>4, <1>5

\* What stays is where it moves to, and nothing else is there.
LEMMA WithoutIs ==
    ASSUME NEW d, IsDoc(d), NEW p \in DOMAIN d, p # <<>>, d[Front(p)] = "array"
    PROVE  /\ \A x \in DOMAIN d : ~IsPrefix(p, x) =>
                 Up(x, p) \in DOMAIN Without(d, p) /\ Without(d, p)[Up(x, p)] = d[x]
           /\ \A q \in DOMAIN Without(d, p) : \E x \in DOMAIN d : ~IsPrefix(p, x) /\ q = Up(x, p)
           /\ Without(d, p) \in [DOMAIN Without(d, p) -> LeafValues \cup Containers]
           /\ IsFiniteSet(DOMAIN Without(d, p))
<1> DEFINE left == Beside(d, p)
           to   == {Up(x, p) : x \in DOMAIN left}
           new  == Without(d, p)
           From(q) == CHOOSE x \in DOMAIN left : Up(x, p) = q
<1>1. DOMAIN left = {x \in DOMAIN d : ~IsPrefix(p, x)} /\ \A x \in DOMAIN left : left[x] = d[x]
  BY DEF Beside
<1>2. new = [q \in to |-> left[From(q)]]
  BY DEF Without
<1> HIDE DEF left, new
<1>3. \A x \in DOMAIN left : From(Up(x, p)) = x
  <2> TAKE x \in DOMAIN left
  <2>1. From(Up(x, p)) \in DOMAIN left /\ Up(From(Up(x, p)), p) = Up(x, p)
    BY Zenon
  <2> HIDE DEF From
  <2> QED
    BY <1>1, <2>1, UpInjective
<1> HIDE DEF From
<1>4. DOMAIN new = to
  BY <1>2
<1>5. \A x \in DOMAIN left : Up(x, p) \in DOMAIN new /\ new[Up(x, p)] = d[x]
  BY <1>1, <1>2, <1>3
<1>6. \A q \in DOMAIN new : \E x \in DOMAIN left : q = Up(x, p)
  BY <1>4
<1>7. \A q \in DOMAIN new : new[q] \in LeafValues \cup Containers
  <2> TAKE q \in DOMAIN new
  <2>1. PICK x \in DOMAIN left : q = Up(x, p)
    BY <1>6
  <2>2. d[x] \in LeafValues \cup Containers
    BY <1>1 DEF IsDoc
  <2> QED
    BY <1>5, <2>1, <2>2
<1>8. new \in [DOMAIN new -> LeafValues \cup Containers]
  <2> HIDE DEF to
  <2> QED
    BY <1>2, <1>4, <1>7
<1>9. IsFiniteSet(DOMAIN new)
  <2> DEFINE move == [x \in DOMAIN left |-> Up(x, p)]
  <2>1. move \in Surjection(DOMAIN left, to)
    BY DEF Surjection
  <2>2. IsFiniteSet(DOMAIN left)
    <3>1. IsFiniteSet(DOMAIN d) /\ DOMAIN left \in SUBSET DOMAIN d
      BY <1>1 DEF IsDoc
    <3> QED
      BY <3>1, FS_Subset
  <2> HIDE DEF move, to
  <2> QED
    BY <1>4, <2>1, <2>2, FS_Surjection
<1> QED
  BY <1>1, <1>5, <1>6, <1>8, <1>9 DEF new

\* Moving up changes neither the number of steps nor, beyond the array, the last one.
LEMMA UpAppend ==
    ASSUME NEW d, IsDoc(d), NEW p \in DOMAIN d, p # <<>>, d[Front(p)] = "array",
           NEW x \in DOMAIN d, x # Front(p), NEW k \in Keys, Append(x, k) \in DOMAIN d,
           ~IsPrefix(p, Append(x, k))
    PROVE  Up(Append(x, k), p) = Append(Up(x, p), k)
<1> DEFINE y == Append(x, k)
           u == Up(y, p)
           f == Front(p)
<1>1. /\ p \in Paths /\ x \in Paths /\ y \in Paths /\ Len(x) \in Nat /\ f \in Paths
      /\ Len(p) \in Nat \ {0} /\ Len(f) = Len(p) - 1
  BY DocClosed, FirstAll, LastStep
<1>2. Len(y) = Len(x) + 1 /\ First(y, Len(x)) = x /\ Last(y) = k /\ y # <<>>
  BY <1>1, NextStepOf
<1>3. u \in Paths /\ Len(u) = Len(y) /\ Last(u) = k
  <2>1. CASE ~IsStrictPrefix(f, y)
    <3>1. u = y
      BY <1>1, <2>1, UpIs
    <3> QED
      BY <1>1, <1>2, <3>1
  <2>2. CASE IsStrictPrefix(f, y)
    <3>1. PICK a \in (1..Length(d, f)) \ {Place(Last(p))} :
              u = Through(y, Len(p), PathIndices[IF a > Place(Last(p)) THEN a - 1 ELSE a])
      <4>1. y \in DOMAIN d /\ ~IsPrefix(p, y)
        OBVIOUS
      <4> HIDE DEF y
      <4> QED
        BY <2>2, <4>1, UpMoved
    <3>2. u \in Paths /\ Len(u) = Len(y)
      <4>1. y \in DOMAIN d /\ ~IsPrefix(p, y)
        OBVIOUS
      <4> HIDE DEF y
      <4> QED
        BY <2>2, <4>1, UpMoved
    <3>3. Len(p) # Len(y)
      <4>1. ASSUME Len(p) = Len(y)
            PROVE  FALSE
        <5>1. IsPrefix(f, y) /\ Len(f) = Len(x)
          BY <1>1, <1>2, <2>2, <4>1 DEF IsStrictPrefix
        <5>2. f = x
          BY <1>1, <1>2, <5>1, PrefixIs
        <5> QED
          BY <5>2
      <4> QED
        BY <4>1
    <3>4. u[Len(y)] = y[Len(y)]
      <4> HIDE DEF y, u
      <4>1. Len(y) \in DOMAIN y
        BY <1>1, <1>2 DEF Paths
      <4> QED
        BY <3>1, <3>3, <4>1 DEF Through
    <3> QED
      BY <1>2, <3>2, <3>4 DEF Last
  <2> QED
    BY <2>1, <2>2
<1>4. First(u, Len(x)) = Up(x, p)
  <2>1. Len(x) \in 0..Len(y)
    BY <1>1, <1>2
  <2>2. Up(First(y, Len(x)), p) = First(u, Len(x))
    BY <2>1, UpFirst
  <2> QED
    BY <1>2, <2>2
<1> HIDE DEF y, u, f
<1>5. u # <<>> /\ Front(u) = Up(x, p)
  <2>1. Len(u) - 1 = Len(x) /\ Len(u) # 0
    BY <1>1, <1>2, <1>3
  <2> QED
    BY <1>4, <2>1 DEF Front, First
<1>6. u = Append(Up(x, p), k)
  BY <1>3, <1>5, LastStep
<1> QED
  BY <1>6 DEF u, y

\* Without an element of an array a document is one.
LEMMA WithoutElement ==
    ASSUME NEW d, IsDoc(d), NEW p \in DOMAIN d, p # <<>>, d[Front(p)] = "array"
    PROVE  IsDoc(Without(d, p))
<1> DEFINE e == Without(d, p)
           f == Front(p)
           l == Len(p)
           Stays(x) == x \in DOMAIN d /\ ~IsPrefix(p, x)
<1>1. /\ \A x : Stays(x) => Up(x, p) \in DOMAIN e /\ e[Up(x, p)] = d[x]
      /\ \A q \in DOMAIN e : \E x : Stays(x) /\ q = Up(x, p)
      /\ e \in [DOMAIN e -> LeafValues \cup Containers]
      /\ IsFiniteSet(DOMAIN e)
  BY WithoutIs
<1>2. /\ p \in Paths /\ f \in DOMAIN d /\ f \in Paths /\ l \in Nat \ {0} /\ Len(f) = l - 1
      /\ Last(p) \in Keys /\ Append(f, Last(p)) = p /\ IsPrefix(f, p)
      /\ \A x \in DOMAIN d : x \in Paths /\ Len(x) \in Nat
  BY DocClosed, ParentOf, LastStep, FirstAll
<1>3. ASSUME NEW x, Stays(x)
      PROVE  /\ Up(x, p) \in Paths /\ Len(Up(x, p)) = Len(x)
             /\ \A j \in 0..Len(x) : Stays(First(x, j)) /\ First(Up(x, p), j) = Up(First(x, j), p)
             /\ IsStrictPrefix(f, x) <=> IsStrictPrefix(f, Up(x, p))
  <2>1. x \in Paths /\ x \in DOMAIN d
    BY <1>2, <1>3
  <2>2. Up(x, p) \in Paths /\ Len(Up(x, p)) = Len(x) /\ (IsStrictPrefix(f, x) <=> IsStrictPrefix(f, Up(x, p)))
    <3>1. CASE IsStrictPrefix(f, x)
      BY <1>3, <3>1, UpMoved
    <3>2. CASE ~IsStrictPrefix(f, x)
      BY <1>2, <2>1, <3>2, UpIs
    <3> QED
      BY <3>1, <3>2
  <2>3. ASSUME NEW j \in 0..Len(x)
        PROVE  Stays(First(x, j)) /\ First(Up(x, p), j) = Up(First(x, j), p)
    <3>1. First(x, j) \in Paths /\ IsPrefix(First(x, j), x)
      BY <2>1, FirstIs, FirstIsPrefix
    <3>2. First(x, j) \in DOMAIN d
      BY <2>1, <3>1, DocClosed
    <3>3. ~IsPrefix(p, First(x, j))
      BY <1>2, <1>3, <2>1, <3>1, PrefixOrder
    <3> QED
      BY <2>1, <3>2, <3>3, UpFirst
  <2> QED
    BY <2>2, <2>3
<1>4. ASSUME NEW x, NEW y, Stays(x), Stays(y), Up(x, p) = Up(y, p)
      PROVE  x = y
  BY <1>4, UpInjective
<1>5. ~IsPrefix(p, f)
  <2>1. ~(Len(p) <= Len(f))
    BY <1>2
  <2> QED
    BY <1>2, <2>1, PrefixIs
<1>6. Up(f, p) = f
  BY <1>2, UpIs DEF IsStrictPrefix
<1>7. <<>> \in DOMAIN e
  <2>1. <<>> \in DOMAIN d
    BY DEF IsDoc
  <2>2. Stays(<<>>) /\ ~IsStrictPrefix(f, <<>>)
    <3>1. Len(<<>>) = 0 /\ ~(Len(p) <= 0) /\ ~(Len(f) < 0) /\ <<>> \in Paths
      BY <1>2, <2>1
    <3> QED
      BY <1>2, <2>1, <3>1, PrefixIs, PrefixOrder DEF IsStrictPrefix
  <2>3. Up(<<>>, p) = <<>>
    BY <1>2, <2>1, <2>2, UpIs
  <2> QED
    BY <1>1, <2>2, <2>3
<1> HIDE DEF e
<1>8. \A q \in DOMAIN e : q \in Paths
  BY <1>1, <1>3
<1>9. ASSUME NEW q \in DOMAIN e, NEW j \in 0..(Len(q) - 1)
      PROVE  First(q, j) \in DOMAIN e /\ e[First(q, j)] \in Containers
  <2>1. PICK x : Stays(x) /\ q = Up(x, p)
    BY <1>1
  <2>2. j \in 0..(Len(x) - 1) /\ j \in 0..Len(x)
    BY <1>2, <1>3, <2>1
  <2>3. Stays(First(x, j)) /\ First(q, j) = Up(First(x, j), p)
    BY <1>3, <2>1, <2>2
  <2>4. d[First(x, j)] \in Containers
    BY <2>1, <2>2 DEF IsDoc
  <2> QED
    BY <1>1, <2>3, <2>4
<1>10. ASSUME NEW x, Stays(x), x # f
       PROVE  Children(e, Up(x, p)) = Children(d, x)
  <2> DEFINE u == Up(x, p)
  <2>1. x \in Paths /\ u \in Paths /\ Len(u) = Len(x) /\ Len(x) \in Nat
    BY <1>2, <1>3, <1>10
  <2>2. ASSUME NEW k \in Keys, Append(x, k) \in DOMAIN d
        PROVE  Stays(Append(x, k)) /\ Up(Append(x, k), p) = Append(u, k)
    <3>1. ~IsPrefix(p, Append(x, k))
      BY <1>2, <1>10, <2>1, NextStepOf
    <3> QED
      BY <1>10, <2>2, <3>1, UpAppend
  <2>3. ASSUME NEW k \in Keys, Append(u, k) \in DOMAIN e
        PROVE  Append(x, k) \in DOMAIN d
    <3>1. PICK y : Stays(y) /\ Append(u, k) = Up(y, p)
      <4> DEFINE z == Append(u, k)
      <4>1. z \in DOMAIN e
        BY <2>3
      <4> HIDE DEF z, u
      <4>2. \E y : Stays(y) /\ z = Up(y, p)
        BY <1>1, <4>1
      <4> QED
        BY <4>2 DEF z
    <3>2. y \in Paths /\ Len(y) = Len(x) + 1 /\ Len(x) \in 0..Len(y)
      <4>1. Len(Append(u, k)) = Len(x) + 1
        BY <2>1, NextStepOf
      <4>2. y \in Paths /\ Len(y) = Len(Up(y, p))
        BY <1>2, <1>3, <3>1
      <4>3. Len(y) = Len(x) + 1
        BY <3>1, <4>1, <4>2
      <4> QED
        BY <2>1, <4>2, <4>3
    <3>3. Stays(First(y, Len(x))) /\ Up(First(y, Len(x)), p) = u
      <4>1. First(Append(u, k), Len(x)) = u
        BY <2>1, NextStepOf
      <4> QED
        BY <1>3, <3>1, <3>2, <4>1
    <3>4. First(y, Len(x)) = x
      BY <1>4, <1>10, <3>3
    <3>5. y # <<>> /\ Len(y) - 1 = Len(x)
      BY <2>1, <3>2
    <3>6. Last(y) \in Keys /\ Append(x, Last(y)) = y
      BY <3>2, <3>4, <3>5, LastStep
    <3>7. Append(u, k) = Append(u, Last(y))
      BY <2>2, <3>1, <3>6
    <3>8. k = Last(y)
      BY <2>1, <3>6, <3>7, NextStepOf
    <3> QED
      BY <3>1, <3>6, <3>8
  <2> HIDE DEF u
  <2>4. \A k \in Keys : Append(u, k) \in DOMAIN e <=> Append(x, k) \in DOMAIN d
    <3>1. ASSUME NEW k \in Keys, Append(x, k) \in DOMAIN d
          PROVE  Append(u, k) \in DOMAIN e
      BY <1>1, <2>2, <3>1
    <3> QED
      BY <2>3, <3>1
  <2> QED
    BY <2>4 DEF Children, u
<1>11. \E m \in 0..Len(PathIndices) : Children(e, f) = Indices(m)
  <2> DEFINE n == Length(d, f)
             i == Place(Last(p))
  <2>1. n \in 0..Len(PathIndices) /\ Children(d, f) = Indices(n) /\ Last(p) \in Indices(n)
    BY <1>2, ArrayHas, ParentOf
  <2>2. i \in 1..n /\ Last(p) = PathIndices[i]
    <3>1. PICK j \in 1..n : Last(p) = PathIndices[j]
      BY <2>1 DEF Indices
    <3>2. j \in DOMAIN PathIndices
      BY <2>1, IndicesAre
    <3> QED
      BY <3>1, <3>2, IndicesAre
  <2>3. ASSUME NEW k \in Keys, Append(f, k) \in DOMAIN e
        PROVE  k \in Indices(n - 1)
    <3>1. PICK y : Stays(y) /\ Append(f, k) = Up(y, p)
      BY <1>1, <2>3
    <3>2. Append(f, k) \in Paths /\ IsStrictPrefix(f, Append(f, k)) /\ Len(Append(f, k)) = l /\ Last(Append(f, k)) = k
      <4> HIDE DEF f, l
      <4> QED
        BY <1>2, NextStepOf, StepsOn
    <3>3. IsStrictPrefix(f, y)
      BY <1>3, <3>1, <3>2
    <3>4. PICK a \in (1..n) \ {i} : Up(y, p)[l] = PathIndices[IF a > i THEN a - 1 ELSE a]
      BY <3>1, <3>3, UpMoved
    <3>5. k = PathIndices[IF a > i THEN a - 1 ELSE a]
      BY <3>1, <3>2, <3>4 DEF Last
    <3>6. (IF a > i THEN a - 1 ELSE a) \in 1..(n - 1)
      BY <2>1, <2>2, <3>4
    <3> QED
      BY <3>5, <3>6 DEF Indices
  <2>4. ASSUME NEW b \in 1..(n - 1)
        PROVE  PathIndices[b] \in Keys /\ Append(f, PathIndices[b]) \in DOMAIN e
    <3> DEFINE a == IF b < i THEN b ELSE b + 1
               y == Append(f, PathIndices[a])
    <3>1. a \in 1..n /\ a # i /\ b = (IF a > i THEN a - 1 ELSE a) /\ a \in DOMAIN PathIndices /\ b \in DOMAIN PathIndices
      BY <2>1, <2>2, IndicesAre
    <3>2. PathIndices[a] \in Keys /\ PathIndices[b] \in Keys /\ PathIndices[a] # Last(p)
      <4> HIDE DEF a
      <4>1. i \in DOMAIN PathIndices
        BY <2>1, <2>2, IndicesAre
      <4> QED
        BY <2>2, <3>1, <4>1, IndicesAre
    <3>3. y \in DOMAIN d
      <4> HIDE DEF a
      <4>1. PathIndices[a] \in Children(d, f)
        BY <2>1, <3>1 DEF Indices
      <4> QED
        BY <4>1 DEF Children
    <3>4. y \in Paths /\ IsStrictPrefix(f, y) /\ Len(y) = l /\ Last(y) = PathIndices[a] /\ y # p
      <4> DEFINE k == PathIndices[a]
      <4> HIDE DEF a, f, l, k
      <4>1. y \in Paths /\ IsStrictPrefix(f, y) /\ Len(y) = l /\ Last(y) = PathIndices[a]
        <5>1. k \in Keys /\ y = Append(f, k)
          BY <3>2 DEF k
        <5>2. Append(f, k) \in Paths /\ IsStrictPrefix(f, Append(f, k)) /\ Len(Append(f, k)) = Len(f) + 1
              /\ Last(Append(f, k)) = k
          BY <1>2, <5>1, NextStepOf, StepsOn
        <5>3. Len(f) + 1 = l
          BY <1>2
        <5> HIDE DEF y
        <5> QED
          BY <5>1, <5>2, <5>3 DEF k
      <4>2. Last(y) # Last(p)
        BY <3>2, <4>1
      <4> QED
        BY <4>1, <4>2
    <3> HIDE DEF y
    <3>5. ~IsPrefix(p, y)
      BY <1>2, <3>4, PrefixOrder
    <3>6. PICK c \in (1..n) \ {i} :
              y[l] = PathIndices[c] /\ Up(y, p)[l] = PathIndices[IF c > i THEN c - 1 ELSE c]
      BY <3>3, <3>4, <3>5, UpMoved
    <3>7. c = a
      <4> HIDE DEF a
      <4>1. y[l] = PathIndices[a] /\ c \in DOMAIN PathIndices
        BY <2>1, <3>4, <3>6, IndicesAre DEF Last
      <4> QED
        BY <3>1, <3>6, <4>1, IndicesAre
    <3> DEFINE u == Up(y, p)
    <3>8. u \in DOMAIN e /\ u \in Paths /\ Len(u) = l /\ IsPrefix(f, u) /\ u[l] = PathIndices[b]
      <4>1. u \in DOMAIN e /\ u \in Paths /\ Len(u) = l /\ IsStrictPrefix(f, u)
        BY <1>1, <1>3, <3>3, <3>4, <3>5
      <4>2. u[l] = PathIndices[b]
        <5> HIDE DEF a
        <5> QED
          BY <3>1, <3>6, <3>7
      <4> QED
        BY <4>1, <4>2 DEF IsStrictPrefix
    <3> HIDE DEF u, a
    <3>9. u # <<>> /\ Front(u) = f /\ Last(u) = PathIndices[b]
      <4>1. First(u, l - 1) = f /\ Len(u) # 0
        BY <1>2, <3>8, PrefixIs
      <4> QED
        BY <3>8, <4>1 DEF Front, First, Last
    <3>10. Append(f, PathIndices[b]) = u
      BY <3>8, <3>9, LastStep
    <3> QED
      BY <3>2, <3>8, <3>10
  <2>5. Children(e, f) = Indices(n - 1)
    <3> HIDE DEF n, f
    <3>1. Children(e, f) \subseteq Indices(n - 1)
      BY <2>3 DEF Children
    <3>2. Indices(n - 1) \subseteq Children(e, f)
      BY <2>4 DEF Children, Indices
    <3> QED
      BY <3>1, <3>2
  <2>6. n - 1 \in 0..Len(PathIndices)
    BY <2>1, <2>2, IndicesAre
  <2> QED
    BY <2>5, <2>6
<1>12. ASSUME NEW q \in DOMAIN e, e[q] = "array"
       PROVE  \E m \in 0..Len(PathIndices) : Children(e, q) = Indices(m)
  <2>1. PICK x : Stays(x) /\ q = Up(x, p)
    BY <1>1
  <2>2. CASE x = f
    BY <1>6, <1>11, <2>1, <2>2
  <2>3. CASE x # f
    <3>1. Children(e, q) = Children(d, x) /\ d[x] = "array"
      BY <1>1, <1>10, <1>12, <2>1, <2>3
    <3> QED
      BY <2>1, <3>1 DEF IsDoc
  <2> QED
    BY <2>2, <2>3
<1>13. IsDoc(e)
  BY <1>1, <1>7, <1>8, <1>9, <1>12 DEF IsDoc, Paths
<1> QED
  BY <1>13 DEF e

\* Without a key a document is one.
LEMMA WithoutKey ==
    ASSUME NEW d, IsDoc(d), NEW p \in DOMAIN d, p # <<>>, d[Front(p)] # "array"
    PROVE  IsDoc(Beside(d, p)) /\ Without(d, p) = Beside(d, p)
<1> DEFINE e == Beside(d, p)
<1>1. DOMAIN e = {x \in DOMAIN d : ~IsPrefix(p, x)} /\ \A x \in DOMAIN e : e[x] = d[x]
  BY DEF Beside
<1>2. /\ p \in Paths /\ Front(p) \in Paths /\ Len(p) \in Nat \ {0}
      /\ \A x \in DOMAIN d : x \in Paths /\ Len(x) \in Nat
  BY DocClosed, LastStep, FirstAll
<1>3. e \in [DOMAIN e -> LeafValues \cup Containers]
  <2>1. \A x \in DOMAIN d : d[x] \in LeafValues \cup Containers
    BY DEF IsDoc
  <2>2. Beside(d, p) \in [{x \in DOMAIN d : ~IsPrefix(p, x)} -> LeafValues \cup Containers]
    BY <2>1 DEF Beside
  <2>3. e \in [{x \in DOMAIN d : ~IsPrefix(p, x)} -> LeafValues \cup Containers]
    BY <2>2
  <2> QED
    BY <1>1, <2>3
<1> HIDE DEF e
<1>4. IsFiniteSet(DOMAIN e)
  <2>1. IsFiniteSet(DOMAIN d) /\ DOMAIN e \in SUBSET DOMAIN d
    BY <1>1 DEF IsDoc
  <2> QED
    BY <2>1, FS_Subset
<1>5. <<>> \in DOMAIN e
  <2>1. <<>> \in DOMAIN d
    BY DEF IsDoc
  <2>2. <<>> \in Paths /\ Len(<<>>) = 0 /\ ~(Len(p) <= 0)
    BY <1>2, <2>1
  <2>3. ~IsPrefix(p, <<>>)
    BY <1>2, <2>2, PrefixIs
  <2> QED
    BY <1>1, <2>1, <2>3
<1>6. ASSUME NEW x \in DOMAIN e, NEW j \in 0..(Len(x) - 1)
      PROVE  First(x, j) \in DOMAIN e /\ e[First(x, j)] \in Containers
  <2>1. x \in DOMAIN d /\ x \in Paths /\ ~IsPrefix(p, x) /\ j \in 0..Len(x)
    BY <1>1, <1>2
  <2>2. First(x, j) \in DOMAIN d /\ d[First(x, j)] \in Containers
    BY <2>1 DEF IsDoc
  <2>3. First(x, j) \in Paths /\ IsPrefix(First(x, j), x)
    BY <2>1, FirstIs, FirstIsPrefix
  <2>4. ~IsPrefix(p, First(x, j))
    BY <1>2, <2>1, <2>3, PrefixOrder
  <2> QED
    BY <1>1, <2>2, <2>4
<1>7. ASSUME NEW x \in DOMAIN e, e[x] = "array"
      PROVE  \E m \in 0..Len(PathIndices) : Children(e, x) = Indices(m)
  <2>1. x \in DOMAIN d /\ x \in Paths /\ ~IsPrefix(p, x) /\ d[x] = "array" /\ x # Front(p)
    BY <1>1, <1>2, <1>7
  <2>2. \A k \in Keys : ~IsPrefix(p, Append(x, k))
    BY <1>2, <2>1, NextStepOf
  <2>3. Children(e, x) = Children(d, x)
    BY <1>1, <2>2 DEF Children
  <2> QED
    BY <2>1, <2>3 DEF IsDoc
<1>8. IsDoc(e)
  BY <1>1, <1>2, <1>3, <1>4, <1>5, <1>6, <1>7 DEF IsDoc, Paths
<1> QED
  BY <1>8 DEF e, Without

\* Taking out what is there keeps a document one.
LEMMA WithoutDoc ==
    ASSUME NEW d, IsDoc(d), NEW p \in DOMAIN d, p # <<>>
    PROVE  IsDoc(Without(d, p))
  BY WithoutElement, WithoutKey

----------------------------------------------------------------------------
(* What a step leaves alone.                                               *)

\* A path is as it was if every path it leads to, and every path that leads to it, is.
LEMMA UnderSame ==
    ASSUME NEW d, NEW e, NEW path \in Paths, DOMAIN d \subseteq Paths, DOMAIN e \subseteq Paths,
           \A q \in Paths : Related(q, path) =>
               /\ q \in DOMAIN e <=> q \in DOMAIN d
               /\ q \in DOMAIN d => e[q] = d[q]
    PROVE  Under(e, path) = Under(d, path)
<1>1. InObjects(e, path) <=> InObjects(d, path)
  <2>1. ASSUME NEW n \in 0..(Len(path) - 1)
        PROVE  First(path, n) \in DOMAIN e /\ e[First(path, n)] = "object"
               <=> First(path, n) \in DOMAIN d /\ d[First(path, n)] = "object"
    <3>1. n \in 0..Len(path)
      BY FirstAll
    <3>2. First(path, n) \in Paths /\ Related(First(path, n), path)
      BY <3>1, FirstIs, FirstIsPrefix DEF Related
    <3> QED
      BY <3>2
  <2> QED
    BY <2>1 DEF InObjects
<1>2. Below(e, path) = Below(d, path)
  <2>1. {x \in DOMAIN e : IsPrefix(path, x)} = {x \in DOMAIN d : IsPrefix(path, x)}
    BY DEF Related
  <2>2. \A x \in {y \in DOMAIN d : IsPrefix(path, y)} : e[x] = d[x]
    BY DEF Related
  <2> DEFINE S == {x \in DOMAIN d : IsPrefix(path, x)}
  <2>3. Below(e, path) = [x \in S |-> e[x]] /\ Below(d, path) = [x \in S |-> d[x]]
    BY <2>1 DEF Below
  <2> HIDE DEF S
  <2>4. [x \in S |-> e[x]] = [x \in S |-> d[x]]
    BY <2>2 DEF S
  <2> QED
    BY <2>3, <2>4
<1> QED
  BY <1>1, <1>2 DEF Under

\* Nothing is under a path of keys that leads through an array.
LEMMA ArrayHides ==
    ASSUME NEW d, NEW f \in DOMAIN d, d[f] = "array", f \in Paths,
           NEW path \in Paths, IsStrictPrefix(f, path)
    PROVE  Under(d, path) = NoDoc
<1>1. Len(f) < Len(path) /\ First(path, Len(f)) = f /\ Len(f) \in Nat /\ Len(path) \in Nat
  BY PrefixOrder, PrefixIs, FirstAll DEF IsStrictPrefix
<1>2. Len(f) \in 0..(Len(path) - 1) /\ d[First(path, Len(f))] # "object"
  BY <1>1
<1>3. ~InObjects(d, path)
  BY <1>2 DEF InObjects
<1> QED
  BY <1>3 DEF Under

\* jsonb_set leaves alone what its path does not lead to, but by an array.
LEMMA SetLeaves ==
    ASSUME NEW d, IsDoc(d), NEW p \in Paths, p # <<>>, NEW part, IsPart(part, p), ~BadIndex(d, p),
           NEW path \in Paths, ~Related(p, path)
    PROVE  Under(JsonbSet(d, p, part), path) = Under(d, path)
<1>1. CASE Front(p) \notin DOMAIN d \/ d[Front(p)] \notin Containers
  <2>1. JsonbSet(d, p, part) = d
    BY <1>1 DEF JsonbSet
  <2> QED
    BY <2>1
<1>2. CASE Front(p) \in DOMAIN d /\ d[Front(p)] \in Containers
  <2> DEFINE e == JsonbSet(d, p, part)
             t == Target(d, p)
             f == Front(p)
  <2>1. /\ t \in Paths /\ t # <<>> /\ Front(t) = f /\ t = Append(f, Last(t)) /\ Last(t) \in Keys
        /\ t # p => d[f] = "array"
    BY <1>2, TargetIs
  <2>2. /\ DOMAIN e \subseteq Paths
        /\ \A q \in Paths : ~IsPrefix(t, q) =>
              /\ q \in DOMAIN e <=> q \in DOMAIN d
              /\ q \in DOMAIN e => e[q] = d[q]
    BY <1>2, SetIs
  <2>3. f \in Paths /\ IsPrefix(f, p) /\ DOMAIN d \subseteq Paths
    BY LastStep, DocClosed
  <2> HIDE DEF e, t, f
  <2>4. CASE ~Related(t, path)
    <3>1. \A q \in Paths : Related(q, path) => ~IsPrefix(t, q)
      BY <2>1, <2>4, ApartBelow
    <3>2. Under(e, path) = Under(d, path)
      BY <2>2, <2>3, <3>1, UnderSame
    <3> QED
      BY <3>2 DEF e
  <2>5. CASE Related(t, path)
    <3>1. d[f] = "array" /\ f \in DOMAIN d
      BY <1>2, <2>1, <2>5 DEF f
    <3>2. IsPrefix(t, path)
      <4>1. ASSUME IsPrefix(path, t), path # t
            PROVE  FALSE
        <5>1. IsPrefix(path, f)
          <6>1. IsPrefix(path, Append(f, Last(t))) /\ path # Append(f, Last(t))
            BY <2>1, <4>1
          <6> QED
            BY <2>1, <2>3, <6>1, NextStepOf
        <5> QED
          BY <2>3, <5>1, PrefixOrder DEF Related
      <4>2. IsPrefix(t, t)
        BY <2>1, PrefixOrder
      <4> QED
        BY <2>5, <4>1, <4>2 DEF Related
    <3>3. IsStrictPrefix(f, t)
      <4>1. IsStrictPrefix(f, Append(f, Last(t)))
        BY <2>1, <2>3, StepsOn
      <4> QED
        BY <2>1, <4>1
    <3>4. IsStrictPrefix(f, path)
      <4>1. IsPrefix(f, t) /\ f # t
        BY <3>3 DEF IsStrictPrefix
      <4>2. IsPrefix(f, path)
        BY <2>1, <2>3, <3>2, <4>1, PrefixOrder
      <4>3. f # path
        <5>1. f # path \/ IsPrefix(path, p)
          BY <2>3
        <5> QED
          BY <5>1 DEF Related
      <4> QED
        BY <4>2, <4>3 DEF IsStrictPrefix
    <3>5. f \in DOMAIN e /\ e[f] = "array"
      <4>1. ~IsPrefix(t, f)
        <5>1. Len(f) < Len(t) /\ Len(f) \in Nat /\ Len(t) \in Nat
          BY <2>1, <2>3, <3>3, PrefixOrder, FirstAll DEF IsStrictPrefix
        <5>2. ~(Len(t) <= Len(f))
          BY <5>1
        <5> QED
          BY <2>1, <2>3, <5>2, PrefixIs
      <4> QED
        BY <2>2, <2>3, <3>1, <4>1
    <3>6. Under(d, path) = NoDoc
      BY <2>3, <3>1, <3>4, ArrayHides
    <3>7. Under(e, path) = NoDoc
      BY <2>3, <3>4, <3>5, ArrayHides
    <3> QED
      BY <3>6, <3>7 DEF e
  <2> QED
    BY <2>4, <2>5
<1> QED
  BY <1>1, <1>2

\* Neither does #-.
LEMMA DeleteLeaves ==
    ASSUME NEW d, IsDoc(d), NEW p \in Paths, p # <<>>, NEW path \in Paths, ~Related(p, path)
    PROVE  Under(JsonbDelete(d, p), path) = Under(d, path)
<1>1. CASE p \notin DOMAIN d
  BY <1>1 DEF JsonbDelete
<1>2. CASE p \in DOMAIN d /\ d[Front(p)] # "array"
  <2> DEFINE e == Beside(d, p)
  <2>1. JsonbDelete(d, p) = e
    BY <1>2, WithoutKey DEF JsonbDelete
  <2>2. DOMAIN e = {x \in DOMAIN d : ~IsPrefix(p, x)} /\ \A x \in DOMAIN e : e[x] = d[x]
    BY DEF Beside
  <2>3. DOMAIN d \subseteq Paths
    BY DocClosed
  <2> HIDE DEF e
  <2>4. \A q \in Paths : Related(q, path) => ~IsPrefix(p, q)
    BY ApartBelow
  <2>5. DOMAIN e \subseteq Paths /\ \A q \in Paths : Related(q, path) =>
            (q \in DOMAIN e <=> q \in DOMAIN d) /\ (q \in DOMAIN d => e[q] = d[q])
    BY <2>2, <2>3, <2>4
  <2>6. Under(e, path) = Under(d, path)
    BY <2>3, <2>5, UnderSame
  <2> QED
    BY <2>1, <2>6
<1>3. CASE p \in DOMAIN d /\ d[Front(p)] = "array"
  <2> DEFINE e == Without(d, p)
             f == Front(p)
  <2>1. JsonbDelete(d, p) = e
    BY <1>3 DEF JsonbDelete
  <2>2. /\ \A x \in DOMAIN d : ~IsPrefix(p, x) => Up(x, p) \in DOMAIN e /\ e[Up(x, p)] = d[x]
        /\ \A q \in DOMAIN e : \E x \in DOMAIN d : ~IsPrefix(p, x) /\ q = Up(x, p)
    BY <1>3, WithoutIs
  <2>3. f \in DOMAIN d /\ d[f] = "array" /\ f \in Paths /\ IsPrefix(f, p) /\ f # p /\ DOMAIN d \subseteq Paths
    <3>1. Len(f) = Len(p) - 1 /\ Len(p) \in Nat
      BY LastStep
    <3>2. f # p
      BY <3>1
    <3> QED
      BY <1>3, <3>2, LastStep, ParentOf, DocClosed
  <2>4. DOMAIN e \subseteq Paths
    <3>1. IsDoc(e)
      BY <1>3, WithoutDoc
    <3> HIDE DEF e
    <3> QED
      BY <3>1, DocClosed
  <2> HIDE DEF e, f
  <2>5. \A x \in Paths : ~IsStrictPrefix(f, x) => Up(x, p) = x
    BY UpIs DEF f
  <2>6. ~IsPrefix(p, f)
    <3>1. ASSUME IsPrefix(p, f)
          PROVE  FALSE
      <4>1. Len(p) <= Len(f) /\ Len(f) < Len(p) /\ Len(p) \in Nat /\ Len(f) \in Nat
        BY <2>3, <3>1, PrefixOrder, PrefixIs, FirstAll
      <4> QED
        BY <4>1
    <3> QED
      BY <3>1
  <2>7. CASE IsStrictPrefix(f, path)
    <3>1. f \in DOMAIN e /\ e[f] = "array"
      <4>1. Up(f, p) = f
        BY <2>3, <2>5 DEF IsStrictPrefix
      <4> QED
        BY <2>2, <2>3, <2>6, <4>1
    <3>2. Under(d, path) = NoDoc
      BY <2>3, <2>7, ArrayHides
    <3>3. Under(e, path) = NoDoc
      BY <2>3, <2>7, <3>1, ArrayHides
    <3> QED
      BY <2>1, <3>2, <3>3
  <2>8. CASE ~IsStrictPrefix(f, path)
    <3>1. ASSUME NEW q \in Paths, Related(q, path)
          PROVE  ~IsStrictPrefix(f, q) /\ ~IsPrefix(p, q)
      <4>1. ~IsPrefix(p, q)
        BY <3>1, ApartBelow
      <4>2. ASSUME IsPrefix(f, q), f # q
            PROVE  FALSE
        <5>1. ~IsPrefix(path, f)
          <6>1. IsPrefix(path, f) => IsPrefix(path, p)
            BY <2>3, PrefixOrder
          <6> QED
            BY <6>1 DEF Related
        <5>2. IsPrefix(path, path)
          BY PrefixOrder
        <5>3. ~IsPrefix(f, path)
          BY <2>8, <5>1, <5>2 DEF IsStrictPrefix
        <5>4. CASE IsPrefix(q, path)
          BY <2>3, <4>2, <5>3, <5>4, PrefixOrder
        <5>5. CASE IsPrefix(path, q)
          <6>1. Related(f, path)
            BY <2>3, <4>2, <5>5, PrefixOrder
          <6> QED
            BY <5>1, <5>3, <6>1 DEF Related
        <5> QED
          BY <3>1, <5>4, <5>5 DEF Related
      <4> QED
        BY <4>1, <4>2 DEF IsStrictPrefix
    <3>2. ASSUME NEW q \in Paths, Related(q, path)
          PROVE  (q \in DOMAIN e <=> q \in DOMAIN d) /\ (q \in DOMAIN d => e[q] = d[q])
      <4>1. ~IsStrictPrefix(f, q) /\ ~IsPrefix(p, q) /\ Up(q, p) = q
        BY <2>5, <3>1, <3>2
      <4>2. q \in DOMAIN d => q \in DOMAIN e /\ e[q] = d[q]
        BY <2>2, <4>1
      <4>3. ASSUME q \in DOMAIN e
            PROVE  q \in DOMAIN d
        <5>1. PICK x \in DOMAIN d : ~IsPrefix(p, x) /\ q = Up(x, p)
          BY <2>2, <4>3
        <5>2. ~IsStrictPrefix(f, x)
          BY <1>3, <4>1, <5>1, UpMoved DEF f
        <5>3. q = x
          BY <2>3, <2>5, <5>1, <5>2
        <5> QED
          BY <5>3
      <4> QED
        BY <4>2, <4>3
    <3>3. Under(e, path) = Under(d, path)
      BY <2>3, <2>4, <3>2, UnderSame
    <3> QED
      BY <2>1, <3>3
  <2> QED
    BY <2>7, <2>8
<1> QED
  BY <1>1, <1>2, <1>3

----------------------------------------------------------------------------
(* The operations of a difference.                                         *)

\* Both documents are objects or both arrays: their parts are compared.
Compared(old, new) == IsDoc(old) /\ IsDoc(new) /\ SameContainer(old, new, <<>>)

\* An operation is at a path that leads through both documents, and not further.
LEMMA OperationIs ==
    ASSUME NEW old, NEW new, Compared(old, new), NEW op \in Operations(old, new)
    PROVE  /\ op.path \in Paths /\ op.path # <<>>
           /\ Walked(old, new, op.path) /\ ~SameContainer(old, new, op.path)
           /\ \/ /\ op.op = "delete" /\ op = Delete(op.path)
                 /\ op.path \in DOMAIN old /\ op.path \notin DOMAIN new
              \/ /\ op.op = "set" /\ op.path \in DOMAIN new /\ op = Set(op.path, op.value)
                 /\ op.value = Below(new, op.path) /\ Below(old, op.path) # Below(new, op.path)
<1>1. DOMAIN old \subseteq Paths /\ DOMAIN new \subseteq Paths /\ SameContainer(old, new, <<>>)
  BY DocClosed DEF Compared
<1>2. CASE \E p \in DOMAIN old \ DOMAIN new : Walked(old, new, p) /\ op = Delete(p)
  <2>1. PICK p \in DOMAIN old \ DOMAIN new : Walked(old, new, p) /\ op = Delete(p)
    BY <1>2
  <2>2. op.path = p /\ op.op = "delete"
    BY <2>1 DEF Delete
  <2>3. ~SameContainer(old, new, p)
    BY <2>1 DEF SameContainer
  <2> QED
    BY <1>1, <2>1, <2>2, <2>3
<1>3. CASE \E p \in DOMAIN new : /\ Walked(old, new, p) /\ ~SameContainer(old, new, p)
                                 /\ Below(old, p) # Below(new, p) /\ op = Set(p, Below(new, p))
  <2>1. PICK p \in DOMAIN new : /\ Walked(old, new, p) /\ ~SameContainer(old, new, p)
                                /\ Below(old, p) # Below(new, p) /\ op = Set(p, Below(new, p))
    BY <1>3
  <2>2. op.path = p /\ op.op = "set" /\ op.value = Below(new, p)
    BY <2>1 DEF Set
  <2> QED
    BY <1>1, <2>1, <2>2
<1> QED
  BY <1>2, <1>3 DEF Operations

\* No operation is at a path that leads to another's.
LEMMA OperationsApart ==
    ASSUME NEW old, NEW new, Compared(old, new), NEW a \in Operations(old, new),
           NEW b \in Operations(old, new), a # b
    PROVE  ~Related(a.path, b.path)
<1>1. ASSUME NEW c \in Operations(old, new), NEW e \in Operations(old, new),
             IsPrefix(c.path, e.path), c.path # e.path
      PROVE  FALSE
  <2>1. /\ c.path \in Paths /\ e.path \in Paths
        /\ ~SameContainer(old, new, c.path) /\ Walked(old, new, e.path)
    BY OperationIs
  <2>2. Len(c.path) < Len(e.path) /\ First(e.path, Len(c.path)) = c.path
        /\ Len(c.path) \in Nat /\ Len(e.path) \in Nat
    BY <1>1, <2>1, PrefixOrder, PrefixIs, FirstAll
  <2>3. Len(c.path) \in 0..(Len(e.path) - 1)
    BY <2>2
  <2> QED
    BY <2>1, <2>2, <2>3 DEF Walked
<1>2. a.path # b.path
  <2>1. \/ a = Delete(a.path) /\ a.path \notin DOMAIN new
        \/ a = Set(a.path, a.value) /\ a.path \in DOMAIN new /\ a.value = Below(new, a.path)
    BY OperationIs
  <2>2. \/ b = Delete(b.path) /\ b.path \notin DOMAIN new
        \/ b = Set(b.path, b.value) /\ b.path \in DOMAIN new /\ b.value = Below(new, b.path)
    BY OperationIs
  <2> QED
    BY <2>1, <2>2
<1> QED
  BY <1>1, <1>2 DEF Related

\* There are finitely many.
LEMMA OperationsFinite ==
    ASSUME NEW old, NEW new, IsDoc(old), IsDoc(new)
    PROVE  IsFiniteSet(Operations(old, new))
<1> DEFINE gone == {x \in DOMAIN old \ DOMAIN new : Walked(old, new, x)}
           come == {x \in DOMAIN new : /\ Walked(old, new, x) /\ ~SameContainer(old, new, x)
                                       /\ Below(old, x) # Below(new, x)}
           deletes == {Delete(p) : p \in gone}
           sets    == {Set(p, Below(new, p)) : p \in come}
<1>1. IsFiniteSet(gone) /\ IsFiniteSet(come)
  <2>1. IsFiniteSet(DOMAIN old) /\ IsFiniteSet(DOMAIN new)
    BY DEF IsDoc
  <2>2. gone \in SUBSET DOMAIN old /\ come \in SUBSET DOMAIN new
    OBVIOUS
  <2> HIDE DEF gone, come
  <2> QED
    BY <2>1, <2>2, FS_Subset
<1>2. Operations(old, new) = deletes \cup sets
  BY DEF Operations
<1> HIDE DEF gone, come
<1>3. IsFiniteSet(deletes)
  <2> DEFINE at == [p \in gone |-> Delete(p)]
  <2>1. at \in Surjection(gone, deletes)
    BY DEF Surjection
  <2> HIDE DEF at, deletes
  <2> QED
    BY <1>1, <2>1, FS_Surjection
<1>4. IsFiniteSet(sets)
  <2> DEFINE at == [p \in come |-> Set(p, Below(new, p))]
  <2>1. at \in Surjection(come, sets)
    BY DEF Surjection
  <2> HIDE DEF at, sets
  <2> QED
    BY <1>1, <2>1, FS_Surjection
<1> HIDE DEF deletes, sets
<1> QED
  BY <1>2, <1>3, <1>4, FS_Union

\* A walk has every operation once.
LEMMA WalkIs ==
    ASSUME NEW ops, IsFiniteSet(ops), NEW walk \in Walks(ops)
    PROVE  /\ Len(walk) \in Nat /\ DOMAIN walk = 1..Len(walk)
           /\ \A i \in 1..Len(walk) : walk[i] \in ops
           /\ \A i, j \in 1..Len(walk) : walk[i] = walk[j] => i = j
           /\ \A op \in ops : \E i \in 1..Len(walk) : walk[i] = op
           /\ ops = {} => Len(walk) = 0
<1> DEFINE n == Cardinality(ops)
<1>1. n \in Nat /\ (ops = {} => n = 0)
  BY FS_CardinalityType, FS_EmptySet
<1>2. walk \in [1..n -> ops] /\ \A i, j \in 1..n : i # j => walk[i] # walk[j]
  BY DEF Walks, SetToSeqs
<1> HIDE DEF n
<1>3. Len(walk) = n /\ DOMAIN walk = 1..n
  BY <1>1, <1>2
<1>4. walk \in Injection(1..n, ops)
  BY <1>2 DEF Injection, IsInjective
<1>5. walk \in Surjection(1..n, ops)
  <2>1. Cardinality(1..n) = n
    BY <1>1, FS_Interval
  <2>2. Cardinality(1..n) = Cardinality(ops)
    BY <2>1 DEF n
  <2> QED
    BY <1>4, <2>2, FS_Injection
<1>6. \A op \in ops : \E i \in 1..n : walk[i] = op
  BY <1>5 DEF Surjection
<1> QED
  BY <1>1, <1>2, <1>3, <1>6

----------------------------------------------------------------------------
(* The statements of a save, one after the other.                          *)

\* Every set of numbers that is not empty has a first one.
LEMMA FirstNumber ==
    ASSUME NEW S \in SUBSET Nat, S # {}
    PROVE  \E m \in S : \A n \in S : m <= n
<1>1. ASSUME NEW R, IsWellFoundedOn(R, Nat), \A m, n \in Nat : n < m => <<n, m>> \in R
      PROVE  \E m \in S : \A n \in S : m <= n
  <2>1. PICK m \in S : \A n \in S : ~ (<<n, m>> \in R)
    BY <1>1, WFMin
  <2>2. \A n \in S : ~ (n < m)
    BY <1>1, <2>1
  <2> QED
    BY <2>2
<1>2. \A m, n \in Nat : n < m => <<n, m>> \in OpToRel(<, Nat)
  BY DEF OpToRel
<1> QED
  BY <1>1, <1>2, NatLessThanWellFounded, Zenon

\* What holds at the start and after every operation holds at the end.
LEMMA EveryStep ==
    ASSUME NEW last \in Nat, NEW S, 0 \in S, \A n \in 0..(last - 1) : n \in S => n + 1 \in S
    PROVE  \A n \in 0..last : n \in S
<1> DEFINE T == {n \in 0..last : n \notin S}
<1>1. SUFFICES ASSUME T # {} PROVE FALSE
  OBVIOUS
<1>2. PICK m \in T : \A n \in T : m <= n
  <2>1. T \in SUBSET Nat
    OBVIOUS
  <2> HIDE DEF T
  <2> QED
    BY <1>1, <2>1, FirstNumber
<1>3. m \in 1..last /\ m \notin S /\ m - 1 \in 0..last /\ ~(m <= m - 1)
  BY <1>2
<1>4. m - 1 \in S
  BY <1>2, <1>3
<1>5. m - 1 \in 0..(last - 1) /\ (m - 1) + 1 = m
  BY <1>3
<1> QED
  BY <1>3, <1>4, <1>5

\* The nested expression is its operations, one after the other.
LEMMA SteppedIs ==
    ASSUME NEW d, NEW walk, Len(walk) \in Nat
    PROVE  /\ Stepped(d, walk)[0] = [ok |-> TRUE, doc |-> d]
           /\ \A n \in 1..Len(walk) : Stepped(d, walk)[n] = Step(Stepped(d, walk)[n - 1], walk[n])
<1> DEFINE start == [ok |-> TRUE, doc |-> d]
           Upto(f, m) == f = [n \in 0..m |-> IF n = 0 THEN start ELSE Step(f[n - 1], walk[n])]
           S == {m \in 0..Len(walk) : \E f : Upto(f, m)}
           w == Stepped(d, walk)
<1> HIDE DEF start
<1>1. 0 \in S
  <2> DEFINE f == [n \in 0..0 |-> start]
  <2>1. Upto(f, 0)
    OBVIOUS
  <2>2. \E h : Upto(h, 0)
    BY <2>1
  <2> QED
    BY <2>2
<1>2. ASSUME NEW k \in 0..(Len(walk) - 1), k \in S
      PROVE  k + 1 \in S
  <2>1. PICK f : Upto(f, k)
    BY <1>2
  <2> DEFINE m == k + 1
             g == [n \in 0..m |-> IF n = m THEN Step(f[k], walk[m]) ELSE f[n]]
  <2>2. m \in 1..Len(walk) /\ m - 1 = k /\ \A n \in 0..k : g[n] = f[n]
    OBVIOUS
  <2>3. \A n \in 0..m : g[n] = IF n = 0 THEN start ELSE Step(g[n - 1], walk[n])
    <3> TAKE n \in 0..m
    <3>1. CASE n = m
      BY <3>1, <2>2
    <3>2. CASE n # m
      <4>1. g[n] = f[n] /\ n \in 0..k /\ (n # 0 => g[n - 1] = f[n - 1])
        BY <3>2, <2>2
      <4> QED
        BY <4>1, <2>1
    <3> QED
      BY <3>1, <3>2
  <2>4. Upto(g, m)
    BY <2>3
  <2>5. \E h : Upto(h, m)
    BY <2>4
  <2> HIDE DEF Upto, m, g
  <2> QED
    BY <2>2, <2>5 DEF m
<1> HIDE DEF S
<1>3. Len(walk) \in S
  <2>1. \A k \in 0..(Len(walk) - 1) : k \in S => k + 1 \in S
    BY <1>2
  <2>2. \A m \in 0..Len(walk) : m \in S
    BY <1>1, <2>1, EveryStep
  <2> QED
    BY <2>2
<1>4. \E f : Upto(f, Len(walk))
  BY <1>3 DEF S
<1>5. Upto(w, Len(walk))
  BY <1>4 DEF Stepped, start
<1> HIDE DEF w
<1>6. w[0] = start /\ \A n \in 1..Len(walk) : w[n] = Step(w[n - 1], walk[n])
  <2>1. 0 \in 0..Len(walk) /\ \A n \in 1..Len(walk) : n \in 0..Len(walk) /\ n # 0
    OBVIOUS
  <2> QED
    BY <1>5, <2>1
<1> QED
  BY <1>6 DEF w, start

\* What one statement does: it keeps a document, and leaves alone what its path does not lead to.
LEMMA StepKeeps ==
    ASSUME NEW old, NEW new, Compared(old, new), NEW op \in Operations(old, new),
           NEW r, r.ok \in BOOLEAN, IsDoc(r.doc)
    PROVE  /\ Step(r, op).ok \in BOOLEAN /\ IsDoc(Step(r, op).doc)
           /\ \A path \in Paths : ~Related(op.path, path) =>
                 Under(Step(r, op).doc, path) = Under(r.doc, path)
<1> DEFINE d == r.doc
           p == op.path
           fails == \/ d[<<>>] \notin Containers
                    \/ BadIndex(d, p) /\ ~(op.op = "delete" /\ DOMAIN d = {<<>>})
<1>1. p \in Paths /\ p # <<>> /\ (op.op = "set" => p \in DOMAIN new /\ op.value = Below(new, p))
      /\ op.op \in {"set", "delete"}
  BY OperationIs
<1>2. Step(r, op) = IF ~r.ok \/ fails THEN [ok |-> FALSE, doc |-> d]
                    ELSE [ok |-> TRUE, doc |-> IF op.op = "set" THEN JsonbSet(d, p, op.value)
                                               ELSE JsonbDelete(d, p)]
  BY DEF Step
<1>3. CASE ~r.ok \/ fails
  <2>1. Step(r, op).ok = FALSE /\ Step(r, op).doc = d
    BY <1>2, <1>3
  <2> QED
    BY <2>1
<1>4. CASE r.ok /\ ~fails /\ op.op = "set"
  <2>1. Step(r, op).ok = TRUE /\ Step(r, op).doc = JsonbSet(d, p, op.value)
    BY <1>2, <1>4
  <2>2. ~BadIndex(d, p)
    BY <1>4
  <2>3. IsPart(op.value, p)
    BY <1>1, <1>4, BelowIsPart DEF Compared
  <2> HIDE DEF d, p
  <2>4. IsDoc(d)
    BY DEF d
  <2>5. IsDoc(JsonbSet(d, p, op.value))
    BY <1>1, <2>2, <2>3, <2>4, SetDoc
  <2>6. \A path \in Paths : ~Related(p, path) => Under(JsonbSet(d, p, op.value), path) = Under(d, path)
    BY <1>1, <2>2, <2>3, <2>4, SetLeaves
  <2> QED
    BY <2>1, <2>5, <2>6 DEF d, p
<1>5. CASE r.ok /\ ~fails /\ op.op = "delete"
  <2>1. Step(r, op).ok = TRUE /\ Step(r, op).doc = JsonbDelete(d, p)
    BY <1>2, <1>5
  <2> HIDE DEF d, p
  <2>2. IsDoc(d)
    BY DEF d
  <2>3. IsDoc(JsonbDelete(d, p))
    BY <1>1, <2>2, WithoutDoc DEF JsonbDelete
  <2>4. \A path \in Paths : ~Related(p, path) => Under(JsonbDelete(d, p), path) = Under(d, path)
    BY <1>1, <2>2, DeleteLeaves
  <2> QED
    BY <2>1, <2>3, <2>4 DEF d, p
<1> QED
  BY <1>1, <1>3, <1>4, <1>5

\* So do the statements of a save.
LEMMA WalkKeeps ==
    ASSUME NEW old, NEW new, Compared(old, new), NEW walk \in Walks(Operations(old, new)),
           NEW d, IsDoc(d)
    PROVE  /\ Stepped(d, walk)[Len(walk)].ok \in BOOLEAN /\ IsDoc(Stepped(d, walk)[Len(walk)].doc)
           /\ \A path \in Paths :
                 (\A op \in Operations(old, new) : ~Related(op.path, path)) =>
                    Under(Stepped(d, walk)[Len(walk)].doc, path) = Under(d, path)
<1> DEFINE w == Stepped(d, walk)
           Alone(path) == \A op \in Operations(old, new) : ~Related(op.path, path)
           S == {n \in 0..Len(walk) : /\ w[n].ok \in BOOLEAN /\ IsDoc(w[n].doc)
                                      /\ \A path \in Paths : Alone(path) => Under(w[n].doc, path) = Under(d, path)}
<1>1. Len(walk) \in Nat /\ \A i \in 1..Len(walk) : walk[i] \in Operations(old, new)
  <2>1. IsFiniteSet(Operations(old, new))
    BY OperationsFinite DEF Compared
  <2> QED
    BY <2>1, WalkIs
<1>2. w[0] = [ok |-> TRUE, doc |-> d] /\ \A n \in 1..Len(walk) : w[n] = Step(w[n - 1], walk[n])
  BY <1>1, SteppedIs
<1> HIDE DEF w
<1>3. 0 \in S
  <2>1. w[0].ok = TRUE /\ w[0].doc = d /\ 0 \in 0..Len(walk)
    BY <1>1, <1>2
  <2> QED
    BY <2>1
<1>4. ASSUME NEW n \in 0..(Len(walk) - 1), n \in S
      PROVE  n + 1 \in S
  <2> DEFINE r == w[n]
             op == walk[n + 1]
  <2>1. n + 1 \in 1..Len(walk) /\ n + 1 \in 0..Len(walk) /\ (n + 1) - 1 = n
    BY <1>1
  <2>2. op \in Operations(old, new) /\ w[n + 1] = Step(r, op)
    BY <1>1, <1>2, <2>1
  <2>3. r.ok \in BOOLEAN /\ IsDoc(r.doc) /\ \A path \in Paths : Alone(path) => Under(r.doc, path) = Under(d, path)
    BY <1>4
  <2> HIDE DEF r, op
  <2>4. /\ Step(r, op).ok \in BOOLEAN /\ IsDoc(Step(r, op).doc)
        /\ \A path \in Paths : ~Related(op.path, path) => Under(Step(r, op).doc, path) = Under(r.doc, path)
    BY <2>2, <2>3, StepKeeps
  <2>5. \A path \in Paths : Alone(path) => Under(Step(r, op).doc, path) = Under(d, path)
    BY <2>2, <2>3, <2>4
  <2> QED
    BY <2>1, <2>2, <2>4, <2>5
<1>5. Len(walk) \in S
  <2> HIDE DEF S
  <2>1. \A n \in 0..Len(walk) : n \in S
    BY <1>1, <1>3, <1>4, EveryStep
  <2> QED
    BY <1>1, <2>1
<1> QED
  BY <1>5 DEF w

----------------------------------------------------------------------------
(* A save over the original.                                               *)

\* One of the paths leads there.
Reached(q, places) == \E p \in places : IsPrefix(p, q)

\* The original with the parts of the draft at some paths.
Merged(old, new, places) ==
    [q \in {x \in DOMAIN new : Reached(x, places)} \cup {x \in DOMAIN old : ~Reached(x, places)} |->
        IF Reached(q, places) THEN new[q] ELSE old[q]]

\* Documents that have the same at every path are one.
LEMMA DocsEqual ==
    ASSUME NEW d, NEW e, DOMAIN d \subseteq Paths, DOMAIN e \subseteq Paths,
           d \in [DOMAIN d -> LeafValues \cup Containers], e \in [DOMAIN e -> LeafValues \cup Containers],
           \A q \in Paths : q \in DOMAIN d <=> q \in DOMAIN e,
           \A q \in DOMAIN d : d[q] = e[q]
    PROVE  d = e
<1>1. DOMAIN d = DOMAIN e
  OBVIOUS
<1> QED
  BY <1>1

LEMMA MergedIs ==
    ASSUME NEW old, NEW new, IsDoc(old), IsDoc(new), NEW places
    PROVE  LET d == Merged(old, new, places)
           IN  /\ \A q : q \in DOMAIN d <=> IF Reached(q, places) THEN q \in DOMAIN new ELSE q \in DOMAIN old
               /\ \A q \in DOMAIN d : d[q] = IF Reached(q, places) THEN new[q] ELSE old[q]
               /\ DOMAIN d \subseteq Paths /\ d \in [DOMAIN d -> LeafValues \cup Containers]
<1> DEFINE S == {x \in DOMAIN new : Reached(x, places)} \cup {x \in DOMAIN old : ~Reached(x, places)}
           d == Merged(old, new, places)
<1>1. d = [q \in S |-> IF Reached(q, places) THEN new[q] ELSE old[q]]
  BY DEF Merged
<1>2. \A q : q \in S <=> IF Reached(q, places) THEN q \in DOMAIN new ELSE q \in DOMAIN old
  OBVIOUS
<1>3. /\ \A q \in DOMAIN old : old[q] \in LeafValues \cup Containers /\ q \in Paths
      /\ \A q \in DOMAIN new : new[q] \in LeafValues \cup Containers /\ q \in Paths
  BY DocClosed DEF IsDoc
<1> HIDE DEF S, d
<1>4. \A q \in S : (IF Reached(q, places) THEN new[q] ELSE old[q]) \in LeafValues \cup Containers /\ q \in Paths
  BY <1>2, <1>3
<1>5. d \in [S -> LeafValues \cup Containers] /\ DOMAIN d = S
  BY <1>1, <1>4
<1>6. \A q \in S : d[q] = IF Reached(q, places) THEN new[q] ELSE old[q]
  BY <1>1
<1> QED
  BY <1>2, <1>4, <1>5, <1>6 DEF d

\* Nothing merged is the row.
LEMMA MergedNone ==
    ASSUME NEW base, NEW new, IsDoc(base)
    PROVE  Merged(base, new, {}) = base
<1>1. \A q : ~Reached(q, {})
  BY DEF Reached
<1>2. Merged(base, new, {}) = [q \in DOMAIN base |-> base[q]]
  BY <1>1 DEF Merged
<1>3. base \in [DOMAIN base -> LeafValues \cup Containers]
  BY DEF IsDoc
<1> QED
  BY <1>2, <1>3

\* Where no operation leads, original and draft are the same.
LEMMA Untouched ==
    ASSUME NEW old, NEW new, Compared(old, new)
    PROVE  /\ \A q \in Paths :
                 /\ q \in DOMAIN old \/ q \in DOMAIN new
                 /\ ~Reached(q, {op.path : op \in Operations(old, new)})
                 => q \in DOMAIN old /\ q \in DOMAIN new /\ old[q] = new[q]
           /\ Operations(old, new) = {} => old = new
<1> DEFINE places == {op.path : op \in Operations(old, new)}
<1>1. IsDoc(old) /\ IsDoc(new) /\ DOMAIN old \subseteq Paths /\ DOMAIN new \subseteq Paths
  BY DocClosed DEF Compared
<1>3. ASSUME NEW q \in Paths, q \in DOMAIN old \/ q \in DOMAIN new, ~Reached(q, places)
      PROVE  q \in DOMAIN old /\ q \in DOMAIN new /\ old[q] = new[q]
  <2> DEFINE parts == {n \in 0..Len(q) : ~SameContainer(old, new, First(q, n))}
  <2>1. Len(q) \in Nat
    BY FirstAll
  <2>2. CASE parts = {}
    <3>1. Len(q) \in 0..Len(q)
      BY <2>1
    <3>2. SameContainer(old, new, First(q, Len(q)))
      BY <2>2, <3>1
    <3> QED
      BY <3>2, FirstAll DEF SameContainer
  <2>3. CASE parts # {}
    <3>1. parts \in SUBSET Nat
      BY <2>1
    <3>2. PICK m \in parts : \A n \in parts : m <= n
      <4> HIDE DEF parts
      <4> QED
        BY <2>3, <3>1, FirstNumber
    <3> DEFINE p == First(q, m)
    <3>3. m \in 0..Len(q) /\ ~SameContainer(old, new, p)
      BY <3>2
    <3>4. p \in Paths /\ Len(p) = m /\ IsPrefix(p, q)
      BY <3>3, FirstIs, FirstIsPrefix
    <3>5. Walked(old, new, p)
      <4>1. ASSUME NEW n \in 0..(Len(p) - 1)
            PROVE  SameContainer(old, new, First(p, n))
        <5>1. n \in 0..Len(q) /\ n \in 0..m /\ ~(m <= n)
          BY <2>1, <3>3, <3>4
        <5>2. n \notin parts
          BY <3>2, <5>1
        <5>3. First(p, n) = First(q, n)
          BY <3>3, <5>1, FirstOfFirst
        <5> QED
          BY <5>1, <5>2, <5>3
      <4> QED
        BY <4>1 DEF Walked
    <3> HIDE DEF p, parts
    <3>6. p \in DOMAIN old \/ p \in DOMAIN new
      BY <1>1, <1>3, <3>4, DocClosed
    <3>7. \A op \in Operations(old, new) : op.path # p
      BY <1>3, <3>4 DEF Reached
    <3>8. p \in DOMAIN new
      <4>1. ASSUME p \notin DOMAIN new
            PROVE  FALSE
        <5>1. Delete(p) \in Operations(old, new)
          BY <3>5, <3>6, <4>1 DEF Operations
        <5>2. Delete(p).path = p
          BY DEF Delete
        <5> QED
          BY <3>7, <5>1, <5>2
      <4> QED
        BY <4>1
    <3>9. Below(old, p) = Below(new, p)
      <4>1. ASSUME Below(old, p) # Below(new, p)
            PROVE  FALSE
        <5>1. Set(p, Below(new, p)) \in Operations(old, new)
          BY <3>3, <3>5, <3>8, <4>1 DEF Operations
        <5>2. Set(p, Below(new, p)).path = p
          BY DEF Set
        <5> QED
          BY <3>7, <5>1, <5>2
      <4> QED
        BY <4>1
    <3>10. \A d : DOMAIN Below(d, p) = {x \in DOMAIN d : IsPrefix(p, x)}
                  /\ \A x \in DOMAIN Below(d, p) : Below(d, p)[x] = d[x]
      BY DEF Below
    <3>11. q \in DOMAIN Below(old, p) /\ q \in DOMAIN Below(new, p)
      BY <1>3, <3>4, <3>9, <3>10
    <3> QED
      BY <3>9, <3>10, <3>11
  <2> QED
    BY <2>2, <2>3
<1> HIDE DEF places
<1>5. ASSUME Operations(old, new) = {}
      PROVE  old = new
  <2>1. \A q : ~Reached(q, places)
    BY <1>5 DEF Reached, places
  <2>2. \A q \in Paths : q \in DOMAIN old <=> q \in DOMAIN new
    BY <1>3, <2>1
  <2>3. \A q \in DOMAIN old : old[q] = new[q]
    BY <1>1, <1>3, <2>1
  <2>4. old \in [DOMAIN old -> LeafValues \cup Containers] /\ new \in [DOMAIN new -> LeafValues \cup Containers]
    BY <1>1 DEF IsDoc
  <2> QED
    BY <1>1, <2>2, <2>3, <2>4, DocsEqual
<1> QED
  BY <1>3, <1>5 DEF places

\* Where an operation leads, the original is as it was, and no array has another length.
LEMMA WayIs ==
    ASSUME NEW old, NEW new, Compared(old, new), ~Resized(old, new), NEW op \in Operations(old, new),
           NEW n \in 0..(Len(op.path) - 1)
    PROVE  LET at == First(op.path, n)
           IN  /\ at \in Paths /\ at \in DOMAIN old /\ old[at] \in Containers /\ IsPrefix(at, op.path)
               /\ First(op.path, n + 1) = Append(at, op.path[n + 1])
               /\ First(op.path, n + 1) \in DOMAIN old \cup DOMAIN new
               /\ old[at] = "array" => /\ op.path[n + 1] \in ToSet(PathIndices)
                                       /\ First(op.path, n + 1) \in DOMAIN old \cap DOMAIN new
<1> DEFINE p  == op.path
           at == First(p, n)
           t  == First(p, n + 1)
<1>1. p \in Paths /\ p # <<>> /\ Walked(old, new, p) /\ (p \in DOMAIN old \/ p \in DOMAIN new)
  BY OperationIs
<1>2. Len(p) \in Nat /\ n \in 0..Len(p) /\ n + 1 \in 0..Len(p) /\ n \in 0..(n + 1) /\ n + 1 \in 1..(n + 1)
  BY <1>1, FirstAll
<1>3. at \in Paths /\ Len(at) = n /\ IsPrefix(at, p)
  BY <1>1, <1>2, FirstIs, FirstIsPrefix
<1>4. SameContainer(old, new, at)
  BY <1>1 DEF Walked
<1>5. at \in DOMAIN old /\ old[at] \in Containers /\ at \in DOMAIN new /\ new[at] = old[at]
  BY <1>4 DEF SameContainer
<1>6. t \in Paths /\ Len(t) = n + 1 /\ t[n + 1] = p[n + 1] /\ First(t, n) = at /\ IsPrefix(t, p)
  BY <1>1, <1>2, FirstIs, FirstOfFirst, FirstIsPrefix
<1>7. t = Append(at, p[n + 1]) /\ p[n + 1] \in Keys
  <2> HIDE DEF t, at
  <2>1. t # <<>> /\ Front(t) = at /\ Last(t) = p[n + 1]
    BY <1>2, <1>6 DEF Front, Last, First
  <2> QED
    BY <1>6, <2>1, LastStep
<1>8. IsDoc(old) /\ IsDoc(new)
  BY DEF Compared
<1> HIDE DEF t, at
<1>9. t \in DOMAIN old \/ t \in DOMAIN new
  BY <1>1, <1>6, <1>8, DocClosed
<1>10. ASSUME old[at] = "array"
       PROVE  p[n + 1] \in ToSet(PathIndices) /\ t \in DOMAIN old /\ t \in DOMAIN new
  <2>1. Walked(old, new, at)
    <3>1. ASSUME NEW m \in 0..(Len(at) - 1)
          PROVE  SameContainer(old, new, First(at, m))
      <4>1. m \in 0..n /\ m \in 0..(Len(p) - 1)
        BY <1>2, <1>3, <3>1
      <4>2. First(at, m) = First(p, m)
        BY <1>1, <1>2, <4>1, FirstOfFirst DEF at
      <4> QED
        BY <1>1, <4>1, <4>2 DEF Walked
    <3> QED
      BY <3>1 DEF Walked
  <2>2. Children(old, at) = Children(new, at)
    BY <1>4, <1>5, <1>10, <2>1 DEF Resized
  <2>3. p[n + 1] \in Children(old, at) /\ p[n + 1] \in Children(new, at)
    BY <1>7, <1>9, <2>2 DEF Children
  <2>4. Children(old, at) \subseteq ToSet(PathIndices)
    BY <1>5, <1>8, <1>10, ArrayHas
  <2> QED
    BY <1>7, <2>3, <2>4 DEF Children
<1> QED
  BY <1>3, <1>5, <1>7, <1>9, <1>10 DEF t, at

\* A statement merges its part.
LEMMA MergeStep ==
    ASSUME NEW old, NEW new, Compared(old, new), ~Resized(old, new), NEW op \in Operations(old, new),
           NEW base, IsDoc(base), SameShape(base, old), NEW places \in SUBSET Paths, \A q \in places : ~Related(q, op.path),
           IsDoc(Merged(base, new, places))
    PROVE  Step([ok |-> TRUE, doc |-> Merged(base, new, places)], op)
             = [ok |-> TRUE, doc |-> Merged(base, new, places \cup {op.path})]
<1> DEFINE d    == Merged(base, new, places)
           all  == places \cup {op.path}
           next == Merged(base, new, all)
           p    == op.path
           f    == Front(p)
<1>1. /\ p \in Paths /\ p # <<>>
      /\ \/ op.op = "delete" /\ p \in DOMAIN old /\ p \notin DOMAIN new
         \/ op.op = "set" /\ p \in DOMAIN new /\ op.value = Below(new, p)
  BY OperationIs
<1>2. IsDoc(base) /\ IsDoc(new) /\ IsDoc(d) /\ IsDoc(old) /\ DOMAIN base = DOMAIN old
  BY DEF Compared, SameShape
<1>3. /\ \A q : q \in DOMAIN d <=> IF Reached(q, places) THEN q \in DOMAIN new ELSE q \in DOMAIN base
      /\ \A q \in DOMAIN d : d[q] = IF Reached(q, places) THEN new[q] ELSE base[q]
      /\ DOMAIN d \subseteq Paths /\ d \in [DOMAIN d -> LeafValues \cup Containers]
  BY <1>2, MergedIs
<1>4. /\ \A q : q \in DOMAIN next <=> IF Reached(q, all) THEN q \in DOMAIN new ELSE q \in DOMAIN base
      /\ \A q \in DOMAIN next : next[q] = IF Reached(q, all) THEN new[q] ELSE base[q]
      /\ DOMAIN next \subseteq Paths /\ next \in [DOMAIN next -> LeafValues \cup Containers]
  BY <1>2, MergedIs
<1>5. \A q : Reached(q, all) <=> Reached(q, places) \/ IsPrefix(p, q)
  BY DEF Reached
<1> HIDE DEF d, next, all, f
<1>6. ASSUME NEW q \in Paths, IsPrefix(q, p)
      PROVE  (q \in DOMAIN d <=> q \in DOMAIN old) /\ (q \in DOMAIN d => d[q] = base[q])
  <2>1. ~Reached(q, places)
    <3>1. ASSUME NEW c \in places, IsPrefix(c, q)
          PROVE  FALSE
      <4>1. IsPrefix(c, p)
        BY <1>1, <1>6, <3>1, PrefixOrder
      <4> QED
        BY <4>1 DEF Related
    <3> QED
      BY <3>1 DEF Reached
  <2> QED
    BY <1>2, <1>3, <2>1
<1>7. Len(p) \in Nat \ {0} /\ f = First(p, Len(p) - 1) /\ IsPrefix(p, p) /\ f \in Paths /\ IsPrefix(f, p)
  BY <1>1, LastStep, PrefixOrder DEF f
<1>8. ASSUME NEW n \in 0..(Len(p) - 1)
      PROVE  /\ First(p, n) \in DOMAIN d /\ d[First(p, n)] \in Containers
             /\ d[First(p, n)] = "array" => /\ p[n + 1] \in ToSet(PathIndices)
                                          /\ First(p, n + 1) \in DOMAIN old \cap DOMAIN new
  <2> DEFINE at == First(p, n)
  <2>1. /\ at \in Paths /\ at \in DOMAIN old /\ old[at] \in Containers /\ IsPrefix(at, p)
        /\ old[at] = "array" => /\ p[n + 1] \in ToSet(PathIndices)
                                /\ First(p, n + 1) \in DOMAIN old \cap DOMAIN new
    BY WayIs
  <2> HIDE DEF at
  <2>2. base[at] = old[at]
    BY <1>2, <2>1 DEF SameShape
  <2>3. at \in DOMAIN d /\ d[at] = old[at]
    BY <1>6, <2>1, <2>2
  <2> QED
    BY <2>1, <2>3 DEF at
<1>9. d[<<>>] \in Containers
  <2>1. 0 \in 0..(Len(p) - 1) /\ First(p, 0) = <<>>
    BY <1>1, <1>7, FirstAll
  <2> QED
    BY <1>8, <2>1
<1>10. ~BadIndex(d, p)
  <2>1. ASSUME NEW n \in DOMAIN p, d[First(p, n - 1)] = "array"
        PROVE  p[n] \in ToSet(PathIndices)
    <3>1. n \in 1..Len(p)
      BY <1>1 DEF Paths
    <3>2. n - 1 \in 0..(Len(p) - 1) /\ (n - 1) + 1 = n
      BY <1>7, <3>1
    <3>3. p[(n - 1) + 1] \in ToSet(PathIndices)
      BY <1>8, <2>1, <3>2
    <3> QED
      BY <3>2, <3>3
  <2> QED
    BY <2>1 DEF BadIndex
<1>11. f \in DOMAIN d /\ d[f] \in Containers /\ (d[f] = "array" => p \in DOMAIN old /\ p \in DOMAIN new)
  <2>1. Len(p) - 1 \in 0..(Len(p) - 1) /\ (Len(p) - 1) + 1 = Len(p) /\ First(p, Len(p)) = p
    BY <1>1, <1>7, FirstAll
  <2>2. d[f] = "array" => First(p, (Len(p) - 1) + 1) \in DOMAIN old \cap DOMAIN new
    BY <1>7, <1>8, <2>1
  <2> QED
    BY <1>7, <1>8, <2>1, <2>2
<1>12. Step([ok |-> TRUE, doc |-> d], op)
         = [ok |-> TRUE, doc |-> IF op.op = "set" THEN JsonbSet(d, p, op.value) ELSE JsonbDelete(d, p)]
  BY <1>9, <1>10 DEF Step
<1>13. CASE op.op = "delete"
  <2>1. p \in DOMAIN old /\ p \notin DOMAIN new
    BY <1>1, <1>13
  <2>2. d[f] # "array" /\ p \in DOMAIN d
    BY <1>1, <1>6, <1>7, <1>11, <2>1
  <2> DEFINE e == Beside(d, p)
  <2>3. JsonbDelete(d, p) = e /\ IsDoc(e)
    BY <1>1, <1>2, <2>2, WithoutKey DEF JsonbDelete, f
  <2>4. DOMAIN e = {x \in DOMAIN d : ~IsPrefix(p, x)} /\ \A x \in DOMAIN e : e[x] = d[x]
    BY DEF Beside
  <2> HIDE DEF e
  <2>5. \A q \in DOMAIN new : ~IsPrefix(p, q)
    BY <1>1, <1>2, <2>1, DocClosed
  <2>6. \A q \in Paths : q \in DOMAIN e <=> q \in DOMAIN next
    BY <1>3, <1>4, <1>5, <2>4, <2>5
  <2>7. \A q \in DOMAIN e : e[q] = next[q]
    BY <1>3, <1>4, <1>5, <2>4, <2>6
  <2>8. e \in [DOMAIN e -> LeafValues \cup Containers] /\ DOMAIN e \subseteq Paths
    BY <1>3, <2>3, <2>4 DEF IsDoc
  <2>9. e = next
    BY <1>4, <2>6, <2>7, <2>8, DocsEqual
  <2> QED
    BY <1>12, <1>13, <2>3, <2>9 DEF d, next, all
<1>14. CASE op.op = "set"
  <2> DEFINE part == Below(new, p)
             e    == JsonbSet(d, p, part)
  <2>1. p \in DOMAIN new /\ op.value = part
    BY <1>1, <1>14
  <2>2. IsPart(part, p) /\ DOMAIN part = {x \in DOMAIN new : IsPrefix(p, x)} /\ \A x \in DOMAIN part : part[x] = new[x]
    BY <1>2, <2>1, BelowIsPart DEF Below
  <2> HIDE DEF part
  <2>3. Target(d, p) = p
    <3>1. Target(d, p) # p => d[f] = "array" /\ p \notin DOMAIN d
      BY <1>1, <1>2, <1>10, <1>11, TargetIs DEF f
    <3> QED
      BY <1>1, <1>6, <1>7, <1>11, <3>1
  <2>4. /\ DOMAIN e \subseteq Paths
        /\ \A q \in Paths : IsPrefix(p, q) =>
              /\ q \in DOMAIN e <=> Through(q, Len(p), Last(p)) \in DOMAIN part
              /\ q \in DOMAIN e => e[q] = part[Through(q, Len(p), Last(p))]
        /\ \A q \in Paths : ~IsPrefix(p, q) =>
              /\ q \in DOMAIN e <=> q \in DOMAIN d
              /\ q \in DOMAIN e => e[q] = d[q]
    BY <1>1, <1>2, <1>10, <1>11, <2>2, <2>3, SetIs DEF f
  <2>5. IsDoc(e)
    BY <1>1, <1>2, <1>10, <2>2, SetDoc
  <2> HIDE DEF e
  <2>6. ASSUME NEW q \in Paths, IsPrefix(p, q)
        PROVE  Through(q, Len(p), Last(p)) = q
    <3>1. Len(p) \in 1..Len(q) /\ q[Len(p)] = Last(p)
      <4>1. Last(p) \in Keys
        BY <1>1, LastStep
      <4> QED
        BY <1>1, <2>6, <4>1, Moving
    <3>2. Through(q, Len(p), q[Len(p)]) = q
      BY <3>1, ThroughSame
    <3> QED
      BY <3>1, <3>2
  <2>7. ASSUME NEW q \in Paths
        PROVE  (q \in DOMAIN e <=> q \in DOMAIN next) /\ (q \in DOMAIN e => e[q] = next[q])
    <3>1. CASE IsPrefix(p, q)
      <4>1. Reached(q, all) /\ Through(q, Len(p), Last(p)) = q
        BY <1>5, <2>6, <3>1
      <4>2. q \in DOMAIN e <=> q \in DOMAIN new
        BY <2>2, <2>4, <3>1, <4>1
      <4>3. q \in DOMAIN e => e[q] = new[q]
        BY <2>2, <2>4, <3>1, <4>1, <4>2
      <4> QED
        BY <1>4, <4>1, <4>2, <4>3
    <3>2. CASE ~IsPrefix(p, q)
      <4>1. Reached(q, all) <=> Reached(q, places)
        BY <1>5, <3>2
      <4> QED
        BY <1>3, <1>4, <2>4, <3>2, <4>1
    <3> QED
      BY <3>1, <3>2
  <2>8. e \in [DOMAIN e -> LeafValues \cup Containers]
    BY <2>5 DEF IsDoc
  <2>9. e = next
    BY <1>4, <2>4, <2>7, <2>8, DocsEqual
  <2> QED
    BY <1>12, <1>14, <2>1, <2>9 DEF d, next, all, e
<1> QED
  BY <1>1, <1>13, <1>14

\* A save over a row of the original's shape is not refused and leaves the draft.
LEMMA MergeWalk ==
    ASSUME NEW old, NEW new, Compared(old, new), ~Resized(old, new), NEW walk \in Walks(Operations(old, new)),
           NEW base, IsDoc(base), SameShape(base, old)
    PROVE  /\ Stepped(base, walk)[Len(walk)].ok = TRUE
           /\ LeavesDraft(old, new, base, Stepped(base, walk)[Len(walk)].doc)
<1> DEFINE ops    == Operations(old, new)
           w      == Stepped(base, walk)
           seen(n) == {walk[i].path : i \in 1..n}
           mid(n)  == Merged(base, new, seen(n))
           Done(n) == w[n] = [ok |-> TRUE, doc |-> mid(n)] /\ IsDoc(mid(n))
           S == {n \in 0..Len(walk) : Done(n)}
<1>1. /\ Len(walk) \in Nat /\ \A i \in 1..Len(walk) : walk[i] \in ops
      /\ \A i, j \in 1..Len(walk) : walk[i] = walk[j] => i = j
      /\ \A op \in ops : \E i \in 1..Len(walk) : walk[i] = op
  <2>1. IsFiniteSet(ops)
    BY OperationsFinite DEF Compared
  <2> HIDE DEF ops
  <2> QED
    BY <2>1, WalkIs DEF ops
<1>2. w[0] = [ok |-> TRUE, doc |-> base] /\ \A n \in 1..Len(walk) : w[n] = Step(w[n - 1], walk[n])
  BY <1>1, SteppedIs
<1> HIDE DEF w
<1>3. 0 \in S
  <2>1. seen(0) = {}
    OBVIOUS
  <2> HIDE DEF seen
  <2>2. mid(0) = base /\ IsDoc(base)
    BY <2>1, MergedNone
  <2> HIDE DEF mid
  <2>3. Done(0)
    BY <1>2, <2>2
  <2> HIDE DEF Done
  <2> QED
    BY <1>1, <2>3
<1>4. ASSUME NEW n \in 0..(Len(walk) - 1), n \in S
      PROVE  n + 1 \in S
  <2> DEFINE op     == walk[n + 1]
             places == seen(n)
             m      == Merged(base, new, places)
             next   == Merged(base, new, places \cup {op.path})
             r      == [ok |-> TRUE, doc |-> m]
  <2>1. n + 1 \in 1..Len(walk) /\ n + 1 \in 0..Len(walk) /\ (n + 1) - 1 = n
        /\ \A i \in 1..n : i \in 1..Len(walk) /\ i # n + 1
    BY <1>1
  <2>2. op \in ops /\ w[n + 1] = Step(w[n], op)
    BY <1>1, <1>2, <2>1
  <2>3. seen(n + 1) = places \cup {op.path}
    <3>1. 1..(n + 1) = (1..n) \cup {n + 1}
      OBVIOUS
    <3> QED
      BY <3>1
  <2>4. w[n] = r /\ IsDoc(m)
    BY <1>4
  <2>5. places \in SUBSET Paths /\ \A q \in places : ~Related(q, op.path)
    <3>1. ASSUME NEW i \in 1..n
          PROVE  walk[i].path \in Paths /\ ~Related(walk[i].path, op.path)
      <4> DEFINE a == walk[i]
      <4>1. a \in ops /\ a # op
        BY <1>1, <2>1
      <4> HIDE DEF a, op
      <4>2. a.path \in Paths /\ ~Related(a.path, op.path)
        BY <2>2, <4>1, OperationIs, OperationsApart
      <4> QED
        BY <4>2 DEF a
    <3> QED
      BY <3>1
  <2> HIDE DEF op, places, ops
  <2>6. Step(r, op) = [ok |-> TRUE, doc |-> next]
    BY <2>2, <2>4, <2>5, MergeStep DEF ops
  <2>7. IsDoc(next)
    <3>1. r.ok \in BOOLEAN /\ IsDoc(r.doc)
      BY <2>4
    <3> HIDE DEF r, m, next
    <3>2. IsDoc(Step(r, op).doc)
      BY <2>2, <3>1, StepKeeps DEF ops
    <3> QED
      BY <2>6, <3>2
  <2>8. w[n + 1] = [ok |-> TRUE, doc |-> Merged(base, new, seen(n + 1))] /\ IsDoc(Merged(base, new, seen(n + 1)))
    BY <2>2, <2>3, <2>4, <2>6, <2>7
  <2> QED
    BY <2>1, <2>8
<1>5. Len(walk) \in S
  <2> HIDE DEF S
  <2>1. \A n \in 0..Len(walk) : n \in S
    BY <1>1, <1>3, <1>4, EveryStep
  <2> QED
    BY <1>1, <2>1
<1>6. seen(Len(walk)) = {op.path : op \in ops}
  BY <1>1
<1>7. w[Len(walk)] = [ok |-> TRUE, doc |-> Merged(base, new, seen(Len(walk)))]
  BY <1>5
<1> DEFINE places == seen(Len(walk))
           last   == Merged(base, new, places)
<1> HIDE DEF seen, places
<1>8. /\ DOMAIN base = DOMAIN old /\ DOMAIN new \subseteq Paths /\ DOMAIN old \subseteq Paths
      /\ IsDoc(new)
  BY DocClosed DEF Compared, SameShape
<1>9. \A q \in Paths : /\ q \in DOMAIN old \/ q \in DOMAIN new
                       /\ ~Reached(q, places)
                       => q \in DOMAIN old /\ q \in DOMAIN new /\ old[q] = new[q]
  <2>1. places = {op.path : op \in Operations(old, new)}
    BY <1>6 DEF places
  <2> QED
    BY <2>1, Untouched, Zenon
<1>10. /\ \A q : q \in DOMAIN last <=> IF Reached(q, places) THEN q \in DOMAIN new ELSE q \in DOMAIN base
       /\ \A q \in DOMAIN last : last[q] = IF Reached(q, places) THEN new[q] ELSE base[q]
  BY <1>8, MergedIs
<1> HIDE DEF last
<1>11. DOMAIN last = DOMAIN new
  <2>1. \A q : q \in DOMAIN last <=> q \in DOMAIN new
    BY <1>8, <1>9, <1>10
  <2> QED
    BY <2>1
<1>12. LeavesDraft(old, new, base, last)
  BY <1>8, <1>9, <1>10, <1>11 DEF LeavesDraft
<1>13. w[Len(walk)] = [ok |-> TRUE, doc |-> last]
  BY <1>7 DEF places, last
<1> QED
  BY <1>12, <1>13 DEF w

----------------------------------------------------------------------------
(* A save over what others wrote.                                          *)

\* What is the same in both, in objects of both, no operation touches.
LEMMA SameApart ==
    ASSUME NEW old, NEW new, Compared(old, new), NEW op \in Operations(old, new), NEW path \in Paths,
           InObjects(old, path), InObjects(new, path), Below(old, path) = Below(new, path)
    PROVE  ~Related(op.path, path)
<1> DEFINE p == op.path
<1>1. /\ p \in Paths /\ p # <<>> /\ Walked(old, new, p) /\ ~SameContainer(old, new, p)
      /\ \/ p \in DOMAIN old /\ p \notin DOMAIN new
         \/ p \in DOMAIN new /\ Below(old, p) # Below(new, p)
  BY OperationIs
<1>2. IsDoc(old) /\ IsDoc(new) /\ DOMAIN old \subseteq Paths /\ DOMAIN new \subseteq Paths
  BY DocClosed DEF Compared
<1> HIDE DEF p
<1>3. /\ \A q \in Paths : IsPrefix(path, q) => (q \in DOMAIN old <=> q \in DOMAIN new)
      /\ \A q \in DOMAIN old : IsPrefix(path, q) => old[q] = new[q]
  <2>1. DOMAIN Below(old, path) = {x \in DOMAIN old : IsPrefix(path, x)}
        /\ DOMAIN Below(new, path) = {x \in DOMAIN new : IsPrefix(path, x)}
        /\ (\A x \in DOMAIN old : IsPrefix(path, x) => Below(old, path)[x] = old[x])
        /\ (\A x \in DOMAIN new : IsPrefix(path, x) => Below(new, path)[x] = new[x])
    BY DEF Below
  <2>2. {x \in DOMAIN old : IsPrefix(path, x)} = {x \in DOMAIN new : IsPrefix(path, x)}
    BY <2>1
  <2> QED
    BY <2>1, <2>2
<1>4. ASSUME IsPrefix(path, p)
      PROVE  FALSE
  <2>1. \A q \in Paths : IsPrefix(p, q) => IsPrefix(path, q)
    BY <1>1, <1>4, PrefixOrder
  <2>2. {x \in DOMAIN old : IsPrefix(p, x)} = {x \in DOMAIN new : IsPrefix(p, x)}
    BY <1>2, <1>3, <2>1
  <2>3. \A x \in {y \in DOMAIN old : IsPrefix(p, y)} : old[x] = new[x]
    BY <1>2, <1>3, <2>1
  <2> DEFINE S == {y \in DOMAIN old : IsPrefix(p, y)}
  <2>4. Below(old, p) = [x \in S |-> old[x]] /\ Below(new, p) = [x \in S |-> new[x]]
    BY <2>2 DEF Below
  <2>5. \A x \in S : old[x] = new[x]
    BY <2>3
  <2> HIDE DEF S
  <2>6. [x \in S |-> old[x]] = [x \in S |-> new[x]]
    BY <2>5
  <2>7. Below(old, p) = Below(new, p)
    BY <2>4, <2>6
  <2>8. p \in DOMAIN old <=> p \in DOMAIN new
    BY <1>1, <1>3, <1>4
  <2> QED
    BY <1>1, <2>7, <2>8
<1>5. ASSUME IsPrefix(p, path), p # path
      PROVE  FALSE
  <2>1. Len(p) < Len(path) /\ First(path, Len(p)) = p /\ Len(p) \in Nat /\ Len(path) \in Nat
    BY <1>1, <1>5, PrefixOrder, PrefixIs, FirstAll
  <2>2. Len(p) \in 0..(Len(path) - 1)
    BY <2>1
  <2>3. p \in DOMAIN old /\ old[p] = "object" /\ p \in DOMAIN new /\ new[p] = "object"
    BY <2>1, <2>2 DEF InObjects
  <2> QED
    BY <1>1, <2>3 DEF SameContainer, Containers
<1> QED
  BY <1>4, <1>5 DEF Related, p

\* Paths of keys are paths.
LEMMA KeyPathsArePaths == KeyPaths \subseteq Paths
<1>1. \A k \in ObjectKeys : k \in Keys
  BY DEF Keys
<1>2. \A k, j \in Keys : <<k>> \in Seq(Keys) /\ <<k, j>> \in Seq(Keys)
  OBVIOUS
<1>3. SUFFICES ASSUME NEW p \in KeyPaths PROVE p \in Paths
  OBVIOUS
<1>4. \/ \E k \in ObjectKeys : p = <<k>>
      \/ \E k, j \in ObjectKeys : p = <<k, j>>
  BY DEF KeyPaths
<1> QED
  BY <1>1, <1>2, <1>4 DEF Paths

\* A difference is the whole draft, nothing, or the operations.
LEMMA DiffIs ==
    ASSUME NEW old, NEW new, IsDoc(old), IsDoc(new)
    PROVE  /\ Diff(old, new).value = new /\ Diff(old, new).full \in BOOLEAN
           /\ IsFiniteSet(Diff(old, new).ops)
           /\ Diff(old, new).full => Diff(old, new).ops = {}
           /\ ~Diff(old, new).full /\ Diff(old, new).ops = {} => old = new
           /\ ~Diff(old, new).full /\ Diff(old, new).ops # {} =>
                 Compared(old, new) /\ ~Resized(old, new) /\ Diff(old, new).ops = Operations(old, new)
<1> DEFINE walked == SameContainer(old, new, <<>>)
           full   == IF walked
                     THEN Resized(old, new) \/ Cardinality(Operations(old, new)) > DIFF_OPS_THRESHOLD
                     ELSE old # new
           ops    == IF full \/ ~walked THEN {} ELSE Operations(old, new)
<1>1. Diff(old, new) = [full |-> full, value |-> new, ops |-> ops]
  BY DEF Diff
<1>2. IsFiniteSet(ops)
  BY FS_EmptySet, OperationsFinite
<1>3. full => ops = {}
  OBVIOUS
<1>4. ~full /\ ops = {} => old = new
  <2>1. CASE walked
    BY <2>1, Untouched DEF Compared
  <2>2. CASE ~walked
    BY <2>2
  <2> QED
    BY <2>1, <2>2
<1>5. ~full /\ ops # {} => Compared(old, new) /\ ~Resized(old, new) /\ ops = Operations(old, new)
  BY DEF Compared
<1>6. full \in BOOLEAN
  <2>1. Resized(old, new) \in BOOLEAN
    BY DEF Resized
  <2> QED
    BY <2>1
<1> HIDE DEF walked, full, ops
<1> QED
  BY <1>1, <1>2, <1>3, <1>4, <1>5, <1>6

----------------------------------------------------------------------------
(* The invariant.                                                          *)

\* An opening, and a save that was sent.
Opened(e) ==
    \E o, w : \E n \in 0..MaxDraftEdits :
        /\ e = [original |-> o, draft |-> w, edits |-> n]
        /\ IsDoc(o) /\ IsDoc(w)

Sent(r) ==
    \E o, w : \E st \in {"sent", "done", "refused"} :
        /\ r = [old |-> o, new |-> w, st |-> st]
        /\ IsDoc(o) /\ IsDoc(w)

\* Documents everywhere, and a save not yet applied is not beyond the last.
DiffInv ==
    /\ cell = NoDoc \/ IsDoc(cell)
    /\ grid = NoDoc \/ IsDoc(grid)
    /\ editing = NoDoc \/ Opened(editing)
    /\ request = NoDoc \/ (Sent(request) /\ (request.st = "sent" => saves < MaxDiffSaves))
    /\ saveStatus \in {"idle", "saving", "saved", "error"} /\ closeTimer \in BOOLEAN
    /\ saves \in 0..MaxDiffSaves

\* What an opening holds; nothing is neither an opening nor a document.
LEMMA OpenedIs ==
    ASSUME NEW e, Opened(e)
    PROVE  /\ e # NoDoc /\ IsDoc(e.original) /\ IsDoc(e.draft) /\ e.edits \in 0..MaxDraftEdits
           /\ e = [original |-> e.original, draft |-> e.draft, edits |-> e.edits]
<1>1. PICK o, w : \E n \in 0..MaxDraftEdits :
         e = [original |-> o, draft |-> w, edits |-> n] /\ IsDoc(o) /\ IsDoc(w)
  BY DEF Opened
<1>2. PICK n \in 0..MaxDraftEdits : e = [original |-> o, draft |-> w, edits |-> n]
  BY <1>1
<1>3. e.original = o /\ e.draft = w /\ e.edits = n
  BY <1>2
<1>4. e # NoDoc
  <2>1. "edits" \in DOMAIN e
    BY <1>2
  <2>2. DOMAIN NoDoc = {}
    BY DEF NoDoc
  <2> QED
    BY <2>1, <2>2
<1> QED
  BY <1>1, <1>2, <1>3, <1>4

\* What a save holds.
LEMMA SentIs ==
    ASSUME NEW r, Sent(r)
    PROVE  /\ r # NoDoc /\ IsDoc(r.old) /\ IsDoc(r.new) /\ r.st \in {"sent", "done", "refused"}
           /\ r = [old |-> r.old, new |-> r.new, st |-> r.st]
<1>1. PICK o, w : \E st \in {"sent", "done", "refused"} :
         r = [old |-> o, new |-> w, st |-> st] /\ IsDoc(o) /\ IsDoc(w)
  BY DEF Sent
<1>2. PICK st \in {"sent", "done", "refused"} : r = [old |-> o, new |-> w, st |-> st]
  BY <1>1
<1>3. r.old = o /\ r.new = w /\ r.st = st
  BY <1>2
<1>4. r # NoDoc
  <2>1. "st" \in DOMAIN r
    BY <1>2
  <2>2. DOMAIN NoDoc = {}
    BY DEF NoDoc
  <2> QED
    BY <2>1, <2>2
<1> QED
  BY <1>1, <1>2, <1>3, <1>4

LEMMA NoDocIsNone == ~IsDoc(NoDoc)
<1>1. DOMAIN NoDoc = {}
  BY DEF NoDoc
<1> QED
  BY <1>1 DEF IsDoc

\* A draft that is revised stays an opening.
LEMMA Revised ==
    ASSUME Opened(editing), NEW d, IsDoc(d), ReviseDraft(d)
    PROVE  Opened(editing')
<1> DEFINE o == editing.original
           n == editing.edits
<1>1. IsDoc(o) /\ n \in 0..MaxDraftEdits /\ n < MaxDraftEdits
      /\ editing = [original |-> o, draft |-> editing.draft, edits |-> n]
  BY OpenedIs DEF ReviseDraft
<1>2. editing' = [editing EXCEPT !.draft = d, !.edits = @ + 1]
  BY DEF ReviseDraft
<1>3. editing' = [original |-> o, draft |-> d, edits |-> n + 1]
  BY <1>1, <1>2
<1>4. n + 1 \in 0..MaxDraftEdits
  BY <1>1, DiffAssumption
<1> HIDE DEF o, n
<1> QED
  BY <1>1, <1>3, <1>4 DEF Opened

\* A tree edit keeps a document one.
LEMMA EditKeeps ==
    ASSUME NEW d, IsDoc(d), NEW p,
           \/ p \in DOMAIN d \ {<<>>}
           \/ \E x \in DOMAIN d, k \in ObjectKeys : d[x] = "object" /\ p = Append(x, k)
    PROVE  /\ \A v \in LeafValues : IsDoc(JsonbSet(d, p, LeafAt(p, v)))
           /\ p \in DOMAIN d => IsDoc(Without(d, p))
<1>1. p \in Paths /\ p # <<>>
  <2>1. CASE p \in DOMAIN d \ {<<>>}
    BY <2>1, DocClosed
  <2>2. CASE \E x \in DOMAIN d, k \in ObjectKeys : d[x] = "object" /\ p = Append(x, k)
    <3>1. PICK x \in DOMAIN d, k \in ObjectKeys : p = Append(x, k)
      BY <2>2
    <3>2. x \in Seq(Keys) /\ k \in Keys
      BY DocClosed DEF Paths, Keys
    <3> QED
      BY <3>1, <3>2 DEF Paths
  <2> QED
    BY <2>1, <2>2
<1>2. ~BadIndex(d, p)
  <2>1. ASSUME NEW y \in DOMAIN d, NEW n \in 1..Len(y), d[First(y, n - 1)] = "array"
        PROVE  y[n] \in ToSet(PathIndices)
    <3> DEFINE at == First(y, n - 1)
               t  == First(y, n)
    <3>1. y \in Paths /\ Len(y) \in Nat
      BY DocClosed, FirstAll
    <3>2. n \in 0..Len(y) /\ n - 1 \in 0..Len(y) /\ n - 1 \in 0..n /\ n \in 1..n
      BY <3>1
    <3>3. /\ t \in Paths /\ at \in Paths /\ Len(t) = n /\ t[n] = y[n] /\ First(t, n - 1) = at
          /\ IsPrefix(t, y) /\ IsPrefix(at, y)
      BY <3>1, <3>2, FirstIs, FirstOfFirst, FirstIsPrefix
    <3> HIDE DEF t
    <3>4. t # <<>> /\ Front(t) = at /\ Last(t) = y[n] /\ t \in DOMAIN d
      <4>1. t \in DOMAIN d
        BY <3>1, <3>3, DocClosed
      <4>2. t # <<>> /\ Last(t) = y[n]
        BY <3>2, <3>3 DEF Last
      <4>3. Front(t) = First(t, Len(t) - 1)
        BY <3>3, <4>2, LastStep
      <4> QED
        BY <3>3, <4>1, <4>2, <4>3
    <3>5. at \in DOMAIN d /\ y[n] \in Children(d, at)
      BY <3>4, ParentOf
    <3> HIDE DEF at
    <3>6. d[at] = "array"
      BY <2>1 DEF at
    <3> QED
      BY <3>5, <3>6, ArrayHas
  <2>2. CASE p \in DOMAIN d
    <3>1. DOMAIN p = 1..Len(p)
      BY <1>1 DEF Paths
    <3> QED
      BY <2>1, <2>2, <3>1 DEF BadIndex
  <2>3. CASE \E x \in DOMAIN d, k \in ObjectKeys : d[x] = "object" /\ p = Append(x, k)
    <3>1. PICK x \in DOMAIN d, k \in ObjectKeys : d[x] = "object" /\ p = Append(x, k)
      BY <2>3
    <3>2. x \in Paths /\ k \in Keys /\ Len(x) \in Nat
      BY DocClosed, FirstAll DEF Keys
    <3>3. DOMAIN p = 1..(Len(x) + 1) /\ \A n \in 1..Len(x) : p[n] = x[n]
      BY <3>1, <3>2 DEF Paths
    <3>4. \A n \in 1..(Len(x) + 1) : First(p, n - 1) = First(x, n - 1)
      BY <3>1, <3>2 DEF Paths, First
    <3>5. First(x, Len(x)) = x
      BY <3>2, FirstAll
    <3>6. ASSUME NEW n \in DOMAIN p, d[First(p, n - 1)] = "array"
          PROVE  p[n] \in ToSet(PathIndices)
      <4>1. n \in 1..Len(x) \/ n = Len(x) + 1
        BY <3>2, <3>3
      <4>2. CASE n \in 1..Len(x)
        <5>1. First(p, n - 1) = First(x, n - 1) /\ p[n] = x[n]
          BY <3>3, <3>4, <4>2
        <5> QED
          BY <2>1, <3>6, <4>2, <5>1
      <4>3. CASE n = Len(x) + 1
        <5>1. n - 1 = Len(x)
          BY <3>2, <4>3
        <5>2. First(p, n - 1) = x
          BY <3>3, <3>4, <3>5, <5>1
        <5>3. d[x] = "array"
          BY <3>6, <5>2
        <5> QED
          BY <3>1, <5>3
      <4> QED
        BY <4>1, <4>2, <4>3
    <3> QED
      BY <3>6 DEF BadIndex
  <2> QED
    BY <2>2, <2>3
<1>3. \A v \in LeafValues : IsPart(LeafAt(p, v), p)
  BY <1>1, LeafIsPart
<1> QED
  BY <1>1, <1>2, <1>3, SetDoc, WithoutDoc

\* What a save does to the row: it keeps a document, and what the user did not edit.
LEMMA UpdateKeeps ==
    ASSUME NEW old, NEW new, IsDoc(old), IsDoc(new), NEW walk \in Walks(Diff(old, new).ops), NEW d, IsDoc(d)
    PROVE  LET result == Update(d, Diff(old, new), walk)
           IN  /\ result.ok \in BOOLEAN /\ IsDoc(result.doc)
               /\ (Diff(old, new).full \/ Diff(old, new).ops # {}) /\ SameShape(d, old) =>
                     result.ok = TRUE /\ LeavesDraft(old, new, d, result.doc)
               /\ ~Diff(old, new).full =>
                     \A path \in KeyPaths :
                        /\ InObjects(old, path) /\ InObjects(new, path) /\ Below(old, path) = Below(new, path)
                        => Under(result.doc, path) = Under(d, path)
<1> DEFINE diff   == Diff(old, new)
           result == Update(d, diff, walk)
<1>1. d # NoDoc
  BY NoDocIsNone
<1>2. /\ diff.value = new /\ diff.full \in BOOLEAN /\ IsFiniteSet(diff.ops)
      /\ ~diff.full /\ diff.ops # {} => Compared(old, new) /\ ~Resized(old, new) /\ diff.ops = Operations(old, new)
  BY DiffIs
<1> HIDE DEF diff
<1>3. CASE diff.full
  <2>1. result = [ok |-> TRUE, doc |-> new]
    BY <1>1, <1>2, <1>3 DEF Update
  <2> HIDE DEF result
  <2>2. result.ok = TRUE /\ result.doc = new
    BY <2>1
  <2>3. LeavesDraft(old, new, d, new)
    BY DEF LeavesDraft
  <2> QED
    BY <1>3, <2>2, <2>3 DEF diff, result
<1>4. CASE ~diff.full
  <2>1. result = Stepped(d, walk)[Len(walk)]
    BY <1>1, <1>4 DEF Update
  <2>2. CASE diff.ops = {}
    <3>1. Len(walk) = 0
      BY <1>2, <2>2, WalkIs DEF diff
    <3>2. Stepped(d, walk)[0] = [ok |-> TRUE, doc |-> d]
      BY <3>1, SteppedIs
    <3>3. result = [ok |-> TRUE, doc |-> d]
      BY <2>1, <3>1, <3>2
    <3> HIDE DEF result
    <3>4. result.ok = TRUE /\ result.doc = d
      BY <3>3
    <3> QED
      BY <1>4, <2>2, <3>4 DEF diff, result
  <2>3. CASE diff.ops # {}
    <3>1. Compared(old, new) /\ ~Resized(old, new) /\ diff.ops = Operations(old, new)
      BY <1>2, <1>4, <2>3
    <3>2. walk \in Walks(Operations(old, new))
      BY <3>1 DEF diff
    <3>3. /\ result.ok \in BOOLEAN /\ IsDoc(result.doc)
          /\ \A path \in Paths :
                (\A op \in Operations(old, new) : ~Related(op.path, path)) => Under(result.doc, path) = Under(d, path)
      <4> HIDE DEF result
      <4> QED
        BY <2>1, <3>1, <3>2, WalkKeeps
    <3>4. SameShape(d, old) => result.ok = TRUE /\ LeavesDraft(old, new, d, result.doc)
      <4> HIDE DEF result
      <4> QED
        BY <2>1, <3>1, <3>2, MergeWalk
    <3>5. \A path \in KeyPaths :
             /\ InObjects(old, path) /\ InObjects(new, path) /\ Below(old, path) = Below(new, path)
             => Under(result.doc, path) = Under(d, path)
      <4> HIDE DEF result
      <4> QED
        BY <3>1, <3>3, SameApart, KeyPathsArePaths
    <3> QED
      BY <3>3, <3>4, <3>5 DEF diff, result
  <2> QED
    BY <2>2, <2>3
<1> QED
  BY <1>2, <1>3, <1>4

\* What is the same in two texts is the same in what serde_json reads.
LEMMA ReadSame ==
    ASSUME NEW d, NEW e, IsDoc(d), IsDoc(e), NEW path,
           InObjects(d, path), InObjects(e, path), Below(d, path) = Below(e, path)
    PROVE  InObjects(Read(d), path) /\ InObjects(Read(e), path) /\ Below(Read(d), path) = Below(Read(e), path)
<1>1. /\ DOMAIN Read(d) = DOMAIN d /\ DOMAIN Read(e) = DOMAIN e
      /\ \A p \in DOMAIN d : Read(d)[p] = IF d[p] \in LeafValues THEN AsSerde[d[p]] ELSE d[p]
      /\ \A p \in DOMAIN e : Read(e)[p] = IF e[p] \in LeafValues THEN AsSerde[e[p]] ELSE e[p]
  BY ReadDoc
<1>2. "object" \notin LeafValues
  BY DiffAssumption DEF Containers
<1>3. InObjects(Read(d), path) /\ InObjects(Read(e), path)
  BY <1>1, <1>2 DEF InObjects
<1> DEFINE D == {x \in DOMAIN d : IsPrefix(path, x)}
           E == {x \in DOMAIN e : IsPrefix(path, x)}
<1>4. /\ DOMAIN Below(d, path) = D /\ DOMAIN Below(e, path) = E
      /\ \A x \in D : Below(d, path)[x] = d[x]
      /\ \A x \in E : Below(e, path)[x] = e[x]
  BY DEF Below
<1>5. D = E /\ \A x \in D : d[x] = e[x]
  BY <1>4
<1>6. \A x \in D : Read(d)[x] = Read(e)[x]
  BY <1>1, <1>5
<1>7. Below(Read(d), path) = [x \in D |-> Read(d)[x]] /\ Below(Read(e), path) = [x \in D |-> Read(e)[x]]
  BY <1>1, <1>5 DEF Below
<1> HIDE DEF D, E
<1> QED
  BY <1>3, <1>6, <1>7

\* The result of a save: what it answers, and what it leaves in the row.
LEMMA ApplyKeeps ==
    ASSUME DiffInv, request # NoDoc, NEW walk \in Walks(SaveDiff.ops), BothRead
    PROVE  LET idle   == ~SaveDiff.full /\ SaveDiff.ops = {}
               result == IF idle THEN [ok |-> TRUE, doc |-> cell] ELSE Update(cell, SaveDiff, walk)
           IN  /\ result.ok \in BOOLEAN /\ (result.ok => result.doc = NoDoc \/ IsDoc(result.doc))
               /\ SameShape(cell, request.old) =>
                     result.ok = TRUE /\ LeavesDraft(Read(request.old), Read(request.new), cell, result.doc)
               /\ ~SaveDiff.full /\ cell # NoDoc =>
                     \A path \in KeyPaths : NotEdited(path) => Under(result.doc, path) = Under(cell, path)
<1> DEFINE old  == Read(request.old)
           new  == Read(request.new)
           diff == SaveDiff
           idle == ~diff.full /\ diff.ops = {}
           r    == IF idle THEN [ok |-> TRUE, doc |-> cell] ELSE Update(cell, diff, walk)
<1>1. IsDoc(request.old) /\ IsDoc(request.new) /\ (cell = NoDoc \/ IsDoc(cell))
  BY SentIs DEF DiffInv
<1>2. /\ IsDoc(old) /\ IsDoc(new) /\ DOMAIN old = DOMAIN request.old
      /\ SameShape(cell, request.old) => SameShape(cell, old)
  <2>1. IsDoc(old) /\ IsDoc(new) /\ DOMAIN old = DOMAIN request.old /\ SameShape(old, request.old)
    BY <1>1, ReadDoc
  <2> QED
    BY <2>1 DEF SameShape
<1>3. diff = Diff(old, new)
  BY DEF SaveDiff
<1>4. \A path \in KeyPaths : NotEdited(path) =>
         InObjects(old, path) /\ InObjects(new, path) /\ Below(old, path) = Below(new, path)
  BY <1>1, ReadSame DEF NotEdited
<1>5. (idle => r = [ok |-> TRUE, doc |-> cell] /\ old = new) /\ (~idle => r = Update(cell, diff, walk))
  BY <1>2, <1>3, DiffIs
<1>6. CASE idle
  <2>1. r.ok = TRUE /\ r.doc = cell
    BY <1>5, <1>6
  <2>2. SameShape(cell, old) => LeavesDraft(old, new, cell, cell)
    BY <1>5, <1>6 DEF LeavesDraft, SameShape
  <2> HIDE DEF r
  <2> QED
    BY <1>1, <1>2, <2>1, <2>2 DEF r
<1>7. CASE ~idle /\ cell = NoDoc
  <2>1. r = [ok |-> FALSE, doc |-> cell]
    BY <1>5, <1>7 DEF Update
  <2>2. ~SameShape(cell, request.old)
    <3>1. DOMAIN NoDoc = {} /\ <<>> \in DOMAIN request.old
      BY <1>1 DEF NoDoc, IsDoc
    <3> QED
      BY <1>7, <3>1 DEF SameShape
  <2> HIDE DEF r
  <2>3. r.ok = FALSE
    BY <2>1
  <2> QED
    BY <1>7, <2>2, <2>3 DEF r
<1>8. CASE ~idle /\ cell # NoDoc
  <2>1. r = Update(cell, Diff(old, new), walk) /\ IsDoc(cell) /\ walk \in Walks(Diff(old, new).ops)
    BY <1>1, <1>3, <1>5, <1>8
  <2>2. Diff(old, new).full \/ Diff(old, new).ops # {}
    <3>1. Diff(old, new).full \in BOOLEAN
      BY <1>2, DiffIs
    <3> QED
      BY <1>3, <1>8, <3>1
  <2>3. /\ r.ok \in BOOLEAN /\ IsDoc(r.doc)
        /\ SameShape(cell, old) => r.ok = TRUE /\ LeavesDraft(old, new, cell, r.doc)
        /\ ~Diff(old, new).full =>
              \A path \in KeyPaths :
                 /\ InObjects(old, path) /\ InObjects(new, path) /\ Below(old, path) = Below(new, path)
                 => Under(r.doc, path) = Under(cell, path)
    <3> HIDE DEF r, old, new
    <3> QED
      BY <1>2, <2>1, <2>2, UpdateKeeps
  <2> HIDE DEF r, diff
  <2> QED
    BY <1>2, <1>3, <1>4, <2>3 DEF r, diff
<1> QED
  BY <1>6, <1>7, <1>8

LEMMA DiffInitInv == DiffInit => DiffInv
<1> SUFFICES ASSUME DiffInit PROVE DiffInv
  OBVIOUS
<1>1. IsDoc(cell) /\ 0 \in 0..MaxDiffSaves
  BY DiffAssumption DEF DiffInit
<1>2. grid = NoDoc \/ IsDoc(grid)
  BY <1>1, ReadDoc DEF DiffInit, GridText
<1> QED
  BY <1>1, <1>2 DEF DiffInit, DiffInv

\* A save keeps documents in the row, and what SaveMerges says.
LEMMA ApplyStep ==
    ASSUME DiffInv, ApplySave
    PROVE  /\ DiffInv'
           /\ BothRead =>
                 /\ SameShape(cell, request.old) =>
                       request'.st = "done" /\ LeavesDraft(Read(request.old), Read(request.new), cell, cell')
                 /\ ~SaveDiff.full /\ cell # NoDoc =>
                       \A path \in KeyPaths : NotEdited(path) => Under(cell', path) = Under(cell, path)
<1> DEFINE diff == SaveDiff
           idle == ~diff.full /\ diff.ops = {}
           made(walk) == IF idle THEN [ok |-> TRUE, doc |-> cell] ELSE Update(cell, diff, walk)
           answer(walk) == IF ~BothRead THEN [ok |-> FALSE, doc |-> cell] ELSE made(walk)
<1>1. /\ request # NoDoc /\ Sent(request) /\ request.st = "sent" /\ saves < MaxDiffSaves
      /\ saves \in 0..MaxDiffSaves /\ (cell = NoDoc \/ IsDoc(cell))
      /\ UNCHANGED <<grid, editing, saveStatus, closeTimer>>
  BY DEF DiffInv, ApplySave
<1>2. saves + 1 \in 0..MaxDiffSaves
  BY <1>1, DiffAssumption
<1>3. PICK walk \in Walks(diff.ops) :
         IF answer(walk).ok
         THEN cell' = answer(walk).doc /\ saves' = saves + 1 /\ request' = [request EXCEPT !.st = "done"]
         ELSE UNCHANGED <<cell, saves>> /\ request' = [request EXCEPT !.st = "refused"]
  BY DEF ApplySave
<1> DEFINE r == answer(walk)
           m == made(walk)
<1>4. /\ request = [old |-> request.old, new |-> request.new, st |-> request.st]
      /\ IsDoc(request.old) /\ IsDoc(request.new)
  BY <1>1, SentIs
<1>5. (~BothRead => r.ok = FALSE) /\ (BothRead => r = m)
  OBVIOUS
<1>6. BothRead =>
         /\ m.ok \in BOOLEAN /\ (m.ok => m.doc = NoDoc \/ IsDoc(m.doc))
         /\ SameShape(cell, request.old) =>
               m.ok = TRUE /\ LeavesDraft(Read(request.old), Read(request.new), cell, m.doc)
         /\ ~diff.full /\ cell # NoDoc =>
               \A path \in KeyPaths : NotEdited(path) => Under(m.doc, path) = Under(cell, path)
  BY <1>1, <1>3, ApplyKeeps
<1>7. /\ r.ok \in BOOLEAN
      /\ r.ok => cell' = r.doc /\ saves' = saves + 1 /\ request' = [request EXCEPT !.st = "done"]
      /\ ~r.ok => UNCHANGED <<cell, saves>> /\ request' = [request EXCEPT !.st = "refused"]
  <2>1. r.ok \in BOOLEAN
    <3> HIDE DEF m, r
    <3> QED
      BY <1>5, <1>6
  <2>2. IF r.ok
        THEN cell' = r.doc /\ saves' = saves + 1 /\ request' = [request EXCEPT !.st = "done"]
        ELSE UNCHANGED <<cell, saves>> /\ request' = [request EXCEPT !.st = "refused"]
    BY <1>3
  <2> HIDE DEF r
  <2> QED
    BY <2>1, <2>2
<1> HIDE DEF r, m, diff
<1>8. CASE r.ok
  <2>1. request' = [old |-> request.old, new |-> request.new, st |-> "done"]
    BY <1>4, <1>7, <1>8
  <2>2. Sent(request') /\ request'.st = "done"
    BY <1>4, <2>1 DEF Sent
  <2>3. BothRead /\ r = m /\ cell' = m.doc /\ m.ok
    BY <1>5, <1>7, <1>8
  <2>4. DiffInv'
    BY <1>1, <1>2, <1>6, <1>7, <1>8, <2>2, <2>3 DEF DiffInv, Opened
  <2> QED
    BY <1>6, <2>2, <2>3, <2>4 DEF diff
<1>9. CASE ~r.ok
  <2>1. request' = [old |-> request.old, new |-> request.new, st |-> "refused"]
    BY <1>4, <1>7, <1>9
  <2>2. Sent(request') /\ request'.st = "refused"
    BY <1>4, <2>1 DEF Sent
  <2>3. BothRead => ~SameShape(cell, request.old)
    BY <1>5, <1>6, <1>9
  <2>4. DiffInv'
    BY <1>1, <1>7, <1>9, <2>2 DEF DiffInv, Opened
  <2> QED
    BY <1>7, <1>9, <2>3, <2>4
<1> QED
  BY <1>7, <1>8, <1>9

\* Sending a save and answering it.
LEMMA CallStep == DiffInv /\ (Save \/ SaveAnswered) => DiffInv'
<1> SUFFICES ASSUME DiffInv, Save \/ SaveAnswered PROVE DiffInv'
  OBVIOUS
<1>1. CASE Save
  <2>1. IsDoc(editing.original) /\ IsDoc(editing.draft) /\ saves < MaxDiffSaves
    BY <1>1, OpenedIs DEF DiffInv, Save
  <2>2. request' = [old |-> editing.original, new |-> editing.draft, st |-> "sent"]
    BY <1>1 DEF Save
  <2>3. Sent(request') /\ request'.st = "sent"
    BY <2>1, <2>2 DEF Sent
  <2> QED
    BY <1>1, <2>1, <2>3 DEF DiffInv, Save, Opened
<1>2. CASE SaveAnswered
  <2>1. IsDoc(request.new) /\ request' = NoDoc
    BY <1>2, SentIs DEF DiffInv, SaveAnswered
  <2>2. /\ grid' = NoDoc \/ IsDoc(grid')
        /\ saveStatus' \in {"idle", "saving", "saved", "error"} /\ closeTimer' \in BOOLEAN
    BY <1>2, <2>1 DEF DiffInv, SaveAnswered
  <2> QED
    BY <1>2, <2>1, <2>2 DEF DiffInv, SaveAnswered, Opened
<1> QED
  BY <1>1, <1>2

LEMMA TreeEditStep == DiffInv /\ TreeEdit => DiffInv'
<1> SUFFICES ASSUME DiffInv, TreeEdit PROVE DiffInv'
  OBVIOUS
<1> DEFINE parsed == Parsed(editing.draft)
           places == DOMAIN parsed \ {<<>>}
           added  == {Append(p, k) : p \in {x \in DOMAIN parsed : parsed[x] = "object"}, k \in ObjectKeys}
<1>1. Opened(editing) /\ IsDoc(editing.draft)
  BY OpenedIs DEF DiffInv, TreeEdit
<1>2. IsDoc(parsed)
  BY <1>1, ParsedDoc
<1>3. \/ \E p \in places \cup added, v \in LeafValues :
            ReviseDraft(JsonbSet(parsed, p, LeafAt(p, AsNumber[v])))
      \/ \E p \in places : ReviseDraft(Without(parsed, p))
  BY DEF TreeEdit
<1> HIDE DEF parsed
<1>4. \A p \in added : \E x \in DOMAIN parsed, k \in ObjectKeys : parsed[x] = "object" /\ p = Append(x, k)
  OBVIOUS
<1> HIDE DEF added
<1>5. \E d : IsDoc(d) /\ ReviseDraft(d)
  <2>1. CASE \E p \in places \cup added, v \in LeafValues :
               ReviseDraft(JsonbSet(parsed, p, LeafAt(p, AsNumber[v])))
    <3>1. PICK p \in places \cup added, v \in LeafValues :
             ReviseDraft(JsonbSet(parsed, p, LeafAt(p, AsNumber[v])))
      BY <2>1
    <3>2. \/ p \in DOMAIN parsed \ {<<>>}
          \/ \E x \in DOMAIN parsed, k \in ObjectKeys : parsed[x] = "object" /\ p = Append(x, k)
      BY <1>4
    <3>3. AsNumber[v] \in LeafValues
      BY DiffAssumption
    <3>4. IsDoc(JsonbSet(parsed, p, LeafAt(p, AsNumber[v])))
      BY <1>2, <3>2, <3>3, EditKeeps
    <3> QED
      BY <3>1, <3>4
  <2>2. CASE \E p \in places : ReviseDraft(Without(parsed, p))
    <3>1. PICK p \in places : ReviseDraft(Without(parsed, p))
      BY <2>2
    <3>2. p \in DOMAIN parsed /\ p # <<>>
      OBVIOUS
    <3> QED
      BY <1>2, <3>1, <3>2, WithoutDoc
  <2> QED
    BY <1>3, <2>1, <2>2
<1>6. PICK d : IsDoc(d) /\ ReviseDraft(d)
  BY <1>5
<1>7. Opened(editing')
  BY <1>1, <1>6, Revised
<1>8. UNCHANGED <<cell, grid, request, saveStatus, closeTimer, saves>>
  BY <1>6 DEF ReviseDraft
<1> QED
  BY <1>1, <1>7, <1>8, OpenedIs DEF DiffInv, Sent

LEMMA DiffNextInv == DiffInv /\ [DiffNext]_diffVars => DiffInv'
<1> SUFFICES ASSUME DiffInv, [DiffNext]_diffVars PROVE DiffInv'
  OBVIOUS
<1>1. CASE \E d \in Docs \cup {NoDoc} : OtherWrites(d)
  <2>1. PICK d \in Docs \cup {NoDoc} : OtherWrites(d)
    BY <1>1
  <2>2. d = NoDoc \/ IsDoc(d)
    BY DiffAssumption
  <2> QED
    BY <2>1, <2>2 DEF DiffInv, Opened, Sent, OtherWrites
<1>2. CASE RerunQuery
  <2>1. grid' = NoDoc \/ IsDoc(grid')
    BY <1>2, ReadDoc DEF DiffInv, RerunQuery, GridText
  <2> QED
    BY <1>2, <2>1 DEF DiffInv, Opened, Sent, RerunQuery
<1>3. CASE OpenDocument
  <2>1. 0 \in 0..MaxDraftEdits
    BY DiffAssumption
  <2>2. Opened(editing')
    BY <1>3, <2>1 DEF OpenDocument, DiffInv, Opened
  <2>3. UNCHANGED <<cell, grid, request, closeTimer, saves>> /\ saveStatus' = "idle" /\ request = NoDoc
    BY <1>3 DEF OpenDocument
  <2> QED
    BY <2>2, <2>3 DEF DiffInv
<1>4. CASE \E d \in Docs : TypeDraft(d)
  <2>1. PICK d \in Docs : ReviseDraft(d)
    BY <1>4 DEF TypeDraft
  <2>2. IsDoc(d) /\ Opened(editing)
    BY <2>1, DiffAssumption DEF ReviseDraft, DiffInv
  <2>3. Opened(editing')
    BY <2>1, <2>2, Revised
  <2> QED
    BY <2>1, <2>3 DEF DiffInv, ReviseDraft, Sent
<1>5. CASE TreeEdit
  BY <1>5, TreeEditStep
<1>6. CASE Save \/ SaveAnswered
  BY <1>6, CallStep
<1>7. CASE ApplySave
  BY <1>7, ApplyStep
<1>8. CASE CloseDocument
  BY <1>8 DEF DiffInv, Sent, CloseDocument
<1>9. CASE TimedClose
  BY <1>9 DEF DiffInv, Opened, Sent, TimedClose
<1>10. CASE UNCHANGED diffVars
  BY <1>10 DEF DiffInv, Opened, Sent, diffVars
<1> QED
  BY <1>1, <1>2, <1>3, <1>4, <1>5, <1>6, <1>7, <1>8, <1>9, <1>10 DEF DiffNext

\* The row and the grid hold documents, and an opening documents that were compared or typed.
THEOREM DiffInvariance == DiffSpec => []DiffInv
<1>1. DiffInit => DiffInv
  BY DiffInitInv
<1>2. DiffInv /\ [DiffNext]_diffVars => DiffInv'
  BY DiffNextInv
<1> QED
  BY <1>1, <1>2, PTL DEF DiffSpec

\* Every variable has its type, and the row, the grid, the original and the draft are documents,
\* whatever was set, deleted or typed.
THEOREM DiffTypesCorrect == DiffSpec => []DiffTypeOK
<1>1. DiffInv => DiffTypeOK
  BY OpenedIs, SentIs DEF DiffInv, DiffTypeOK
<1> QED
  BY <1>1, DiffInvariance, PTL

\* A save of readable texts over a row of the original's shape is not refused and leaves the draft as
\* serde_json reads it, by paths or whole, in any order of the operations, whatever that reading does
\* to the leaves; a save by paths keeps what is there, unread, at keys the user did not edit.
THEOREM SavesMerge == DiffSpec => SaveMerges
<1> DEFINE Merges ==
        ApplySave /\ BothRead =>
          /\ SameShape(cell, request.old) =>
                /\ request'.st = "done"
                /\ LeavesDraft(Read(request.old), Read(request.new), cell, cell')
          /\ ~SaveDiff.full /\ cell # NoDoc =>
                \A path \in KeyPaths : NotEdited(path) => Under(cell', path) = Under(cell, path)
<1>1. DiffInv /\ [DiffNext]_diffVars => [Merges]_diffVars
  BY ApplyStep
<1>2. SaveMerges <=> [][Merges]_diffVars
  BY DEF SaveMerges
<1> HIDE DEF Merges
<1> QED
  BY <1>1, <1>2, DiffInvariance, PTL DEF DiffSpec
=============================================================================
