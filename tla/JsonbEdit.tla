----------------------------- MODULE JsonbEdit -----------------------------
(***************************************************************************)
(* The JSONB cell editor over one result: openEditor asks the backend for  *)
(* the key of the cell's row, save sends that key with the draft, and the  *)
(* modal closes by itself a moment after an accepted save.  There is one   *)
(* editor state for all cells, so every late answer lands on whichever     *)
(* cell is open by then.                                                   *)
(*                                                                         *)
(* A cell stands for its row; a target is a cell of the result of one      *)
(* connection.  JSON parsing, diffs and view modes are left out: a draft   *)
(* is dirty, and then differs as JSON, or not.                             *)
(*                                                                         *)
(* Source: src/features/jsonb/state/store.ts, JsonbEditorModal.tsx and     *)
(* src-tauri/src/query/jsonb/write.rs.                                     *)
(***************************************************************************)
EXTENDS Naturals, FiniteSets

CONSTANTS
    Cells,
    TableOf,    \* table the row of a cell belongs to
    DbConns,    \* connections
    Prod,       \* the ones tagged prod
    MaxResolves, MaxSaves,  \* bounds: calls of each kind under way at once
    Nothing

ASSUME JsonbAssumption ==
    /\ Prod \subseteq DbConns
    /\ MaxResolves \in Nat /\ MaxSaves \in Nat
    /\ Nothing \notin [cell : Cells, conn : DbConns]

VARIABLES
    tabConn,    \* connectionId of the tab
    streaming,  \* its result panel shows rows of tabConn
    shown,      \* the target being edited, Nothing when the modal is closed
    rowKey,     \* key the store holds: "none", "readOnly" or "row" of a target
    envIsProd,  \* environment as it was looked up for that key
    drafted,    \* the draft differs from the original
    status,     \* "idle", "saving", "saved" or "error"
    confirming, \* the production confirmation is open
    resolving,  \* jsonb_resolve_row_key calls not yet answered
    saving,     \* jsonb_save calls not yet answered
    closers,    \* auto-close timers are running
    raced       \* history: a call of an earlier opening was out, or the tab moved

jsonbVars == <<tabConn, streaming, shown, rowKey, envIsProd, drafted, status, confirming,
               resolving, saving, closers, raced>>

Targets == [cell : Cells, conn : DbConns]
NoKey    == [kind |-> "none",     row |-> Nothing]
ReadOnly == [kind |-> "readOnly", row |-> Nothing]
RowKeys  == {NoKey, ReadOnly} \cup [kind : {"row"}, row : Targets]

\* The table a key names, and the token the user types for it.
KeyTable(key) == TableOf[key.row.cell]

SaveCalls ==
    [target : Targets, key : RowKeys, conn : DbConns, token : {TableOf[c] : c \in Cells} \cup {Nothing},
     raced : BOOLEAN, found : BOOLEAN, st : {"sent", "unnamed", "done", "refused"}]

JsonbTypeOK ==
    /\ tabConn \in DbConns /\ streaming \in BOOLEAN
    /\ shown \in Targets \cup {Nothing}
    /\ rowKey \in RowKeys /\ envIsProd \in BOOLEAN
    /\ drafted \in BOOLEAN /\ status \in {"idle", "saving", "saved", "error"}
    /\ confirming \in BOOLEAN /\ closers \in BOOLEAN /\ raced \in BOOLEAN
    /\ resolving \subseteq Targets
    /\ saving \subseteq SaveCalls

JsonbInit ==
    /\ tabConn \in DbConns /\ streaming = TRUE
    /\ shown = Nothing /\ rowKey = NoKey /\ envIsProd = FALSE
    /\ drafted = FALSE /\ status = "idle" /\ confirming = FALSE
    /\ resolving = {} /\ saving = {} /\ closers = FALSE
    /\ raced = FALSE

----------------------------------------------------------------------------
(* The result panel under the editor.                                      *)

\* A connect that lands rebinds the tab and drops its result, whatever is open.
RebindTab(c) ==
    /\ c # tabConn
    /\ tabConn' = c /\ streaming' = FALSE
    /\ raced' = TRUE
    /\ UNCHANGED <<shown, rowKey, envIsProd, drafted, status, confirming, resolving, saving,
                   closers>>

\* The query is run again on the new connection.
Rerun ==
    /\ ~streaming /\ streaming' = TRUE
    /\ UNCHANGED <<tabConn, shown, rowKey, envIsProd, drafted, status, confirming, resolving,
                   saving, closers, raced>>

----------------------------------------------------------------------------
(* Opening.                                                                *)

\* MUTANT of OpenEditor: the key and the environment of the last cell stay.
OpenEditorKeepsKey(c) ==
    /\ shown = Nothing /\ streaming
    /\ Cardinality(resolving) < MaxResolves
    /\ shown' = [cell |-> c, conn |-> tabConn]
    /\ resolving' = resolving \cup {shown'}
    /\ drafted' = FALSE /\ status' = "idle"
    /\ raced' = (resolving # {})
    /\ UNCHANGED <<tabConn, streaming, rowKey, envIsProd, confirming, saving, closers>>

\* The grid is behind the modal, so a cell is opened when none is.
OpenEditor(c) ==
    /\ shown = Nothing /\ streaming
    /\ Cardinality(resolving) < MaxResolves
    /\ shown' = [cell |-> c, conn |-> tabConn]
    /\ resolving' = resolving \cup {shown'}
    /\ rowKey' = NoKey /\ envIsProd' = FALSE
    /\ drafted' = FALSE /\ status' = "idle"
    /\ raced' = (resolving # {})
    /\ UNCHANGED <<tabConn, streaming, confirming, saving, closers>>

\* MUTANT of ResolveAnswers: the environment is not stored with the key.
ResolveAnswersKeyOnly(t) ==
    /\ t \in resolving
    /\ resolving' = resolving \ {t}
    /\ rowKey' \in {[kind |-> "row", row |-> t], ReadOnly}
    /\ UNCHANGED <<tabConn, streaming, shown, envIsProd, drafted, status, confirming, saving, closers,
                   raced>>

\* The answer is stored without a look at the cell that is open now, or at whether
\* one is.  A table without a usable key answers read-only.
ResolveAnswers(t) ==
    /\ t \in resolving
    /\ resolving' = resolving \ {t}
    /\ rowKey' \in {[kind |-> "row", row |-> t], ReadOnly}
    /\ envIsProd' = (t.conn \in Prod)
    /\ UNCHANGED <<tabConn, streaming, shown, drafted, status, confirming, saving, closers,
                   raced>>

ResolveFails(t) ==
    /\ t \in resolving
    /\ resolving' = resolving \ {t}
    /\ rowKey' = ReadOnly
    /\ envIsProd' = (t.conn \in Prod)
    /\ status' = "error"
    /\ UNCHANGED <<tabConn, streaming, shown, drafted, confirming, saving, closers, raced>>

----------------------------------------------------------------------------
(* Editing and saving.                                                     *)

\* The production dialog is drawn only over an open editor that has a key; the flag
\* outlives an auto-close, and the dialog comes back over the next cell.
AsksForName == confirming /\ shown # Nothing /\ rowKey.kind = "row"

EditDraft ==
    /\ shown # Nothing /\ ~AsksForName
    /\ rowKey # ReadOnly
    /\ drafted' = TRUE
    /\ UNCHANGED <<tabConn, streaming, shown, rowKey, envIsProd, status, confirming, resolving,
                   saving, closers, raced>>

\* What the store falls back to: close, and the auto-close.
Closed ==
    /\ shown' = Nothing /\ rowKey' = NoKey /\ envIsProd' = FALSE
    /\ drafted' = FALSE /\ status' = "idle"

CloseEditor ==
    /\ shown # Nothing /\ ~AsksForName
    /\ Closed
    /\ UNCHANGED <<tabConn, streaming, confirming, resolving, saving, closers, raced>>

\* save(token): it goes to the tab's connection of this moment; the column is looked
\* up in the result of this moment.
SendSave(token) ==
    /\ rowKey.kind = "row"
    /\ Cardinality(saving) < MaxSaves
    /\ status' = "saving"
    /\ saving' = saving \cup
         {[target |-> shown, key |-> rowKey, conn |-> tabConn, token |-> token,
           raced |-> raced, found |-> TRUE, st |-> IF streaming THEN "sent" ELSE "unnamed"]}

\* beginSave: the button or Cmd+S.
BeginSave ==
    /\ shown # Nothing /\ ~AsksForName
    /\ drafted /\ rowKey # ReadOnly
    /\ IF envIsProd /\ rowKey.kind = "row"
         THEN confirming' = TRUE /\ UNCHANGED <<status, saving>>
         ELSE SendSave(Nothing) /\ UNCHANGED confirming
    /\ UNCHANGED <<tabConn, streaming, shown, rowKey, envIsProd, drafted, resolving, closers,
                   raced>>

\* The user types the name of the table of the key.
ConfirmSave ==
    /\ AsksForName
    /\ confirming' = FALSE
    /\ SendSave(KeyTable(rowKey))
    /\ UNCHANGED <<tabConn, streaming, shown, rowKey, envIsProd, drafted, resolving, closers,
                   raced>>

CancelConfirm ==
    /\ AsksForName
    /\ confirming' = FALSE
    /\ UNCHANGED <<tabConn, streaming, shown, rowKey, envIsProd, drafted, status, resolving,
                   saving, closers, raced>>

----------------------------------------------------------------------------
(* The backend: jsonb_save and apply.                                      *)

Answered(s, st, found) == saving' = (saving \ {s}) \cup {[s EXCEPT !.st = st, !.found = found]}

\* MUTANT of ApplyWrite: the name is not compared.
ApplyWriteUnguarded(s) ==
    \/ s.st = "sent" /\ Answered(s, "done", TRUE)
    \/ s.st \in {"sent", "unnamed"} /\ Answered(s, "refused", TRUE)

\* On a prod connection the typed name must be that of the table to be written.  A
\* connection whose row is not found in the store, or cannot be read, counts as local.
\* An empty column name, a vanished row or a lost connection refuses the write as well.
ApplyWrite(s) ==
    \/ \E found \in BOOLEAN :
          /\ s.st = "sent"
          /\ found /\ s.conn \in Prod => s.token = KeyTable(s.key)
          /\ Answered(s, "done", found)
    \/ s.st \in {"sent", "unnamed"} /\ Answered(s, "refused", TRUE)

JsonbSave(s) ==
    /\ s \in saving
    /\ ApplyWrite(s)
    /\ UNCHANGED <<tabConn, streaming, shown, rowKey, envIsProd, drafted, status, confirming,
                   resolving, closers, raced>>

\* The answer sets the status of the editor as it is now, and starts the timer.
SaveAccepted(s) ==
    /\ s \in saving /\ s.st = "done"
    /\ saving' = saving \ {s}
    /\ status' = "saved" /\ closers' = TRUE
    /\ UNCHANGED <<tabConn, streaming, shown, rowKey, envIsProd, drafted, confirming, resolving,
                   raced>>

SaveRefused(s) ==
    /\ s \in saving /\ s.st = "refused"
    /\ saving' = saving \ {s}
    /\ status' = "error"
    /\ UNCHANGED <<tabConn, streaming, shown, rowKey, envIsProd, drafted, confirming, resolving,
                   closers, raced>>

\* The timer closes the modal if the status still says saved.
AutoClose ==
    /\ closers /\ closers' = FALSE
    /\ IF status = "saved" THEN Closed ELSE UNCHANGED <<shown, rowKey, envIsProd, drafted, status>>
    /\ UNCHANGED <<tabConn, streaming, confirming, resolving, saving, raced>>

----------------------------------------------------------------------------
JsonbNext ==
    \/ \E c \in DbConns : RebindTab(c)
    \/ Rerun
    \/ \E c \in Cells : OpenEditor(c)
    \/ \E t \in resolving : ResolveAnswers(t)
    \/ \E t \in resolving : ResolveFails(t)
    \/ EditDraft
    \/ CloseEditor
    \/ BeginSave
    \/ ConfirmSave
    \/ CancelConfirm
    \/ \E s \in saving : JsonbSave(s)
    \/ \E s \in saving : SaveAccepted(s)
    \/ \E s \in saving : SaveRefused(s)
    \/ AutoClose

JsonbSpec == JsonbInit /\ [][JsonbNext]_jsonbVars

----------------------------------------------------------------------------
(* Properties.                                                             *)

\* The calls that changed a row, and the row: the key's, on the connection it went to.
Writes == {s \in saving : s.st = "done"}
RowWritten(s) == [cell |-> s.key.row.cell, conn |-> s.conn]

\* Two guards stand before a prod row, the editor's and the backend's, and a row changes
\* without the name of its table only when both gave way: something raced with the
\* opening, so that the editor asked for another connection or not at all, and the store
\* could not tell the backend that the connection is prod.
UnnamedSlippedTwice ==
    \A s \in Writes : s.conn \in Prod /\ s.token # KeyTable(s.key) => s.raced /\ ~s.found

\* When no answer of an earlier opening was out and the tab kept its connection, the
\* row that is written is the row the editor showed.
WritesShownRow == \A s \in Writes : s.raced \/ RowWritten(s) = s.target

\* jsonb/state/store.ts:31-32: openEditor "opens the modal for the given cell. Loads
\* the original value, resolves the row key", so what is saved goes to that cell.
WritesGivenCell == \A s \in Writes : RowWritten(s) = s.target
=============================================================================
