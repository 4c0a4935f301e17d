------------------------------ MODULE ErdEdit ------------------------------
(***************************************************************************)
(* Edit mode of one ERD tab: canvas operations with undo and redo, the DDL *)
(* panel whose text is parsed back into operations, and Apply.             *)
(*                                                                         *)
(* The panel's text reaches the store late: a 200 ms debounce, then a      *)
(* parse whose answer lands on whatever the store holds by then.  A script *)
(* is named; Script[t] is the list of operations deriveOpsFromAst makes of *)
(* it and a name in Broken does not parse.  Warnings, markers and layout   *)
(* are left out.                                                           *)
(*                                                                         *)
(* Source: src/features/erd/edit/store.ts, edit/DdlPreviewPanel.tsx and    *)
(* ErdPane.tsx.                                                            *)
(***************************************************************************)
EXTENDS Naturals, Sequences, FiniteSets

CONSTANTS
    Ops,        \* canvas operations: records with a kind and a table
    Texts,      \* scripts the user types in the DDL panel
    Broken,     \* the ones that do not parse
    Script,     \* operations of each script
    MaxPast,    \* bound: snapshots in the undo stack
    MaxApplies, \* bound: applies under way
    NoText

ASSUME ErdAssumption ==
    /\ \A op \in Ops : op.kind \in {"moveTable", "addColumn"}
    /\ Broken \subseteq Texts
    /\ Script \in [Texts -> Seq(Ops)]
    /\ NoText \notin Texts
    /\ MaxPast \in Nat /\ MaxApplies \in Nat

VARIABLES
    ops, past, future,  \* the tab's operations and its two snapshot stacks
    lastChangeBy,       \* "visual", "text" or "none"
    lastReverseText,    \* the script of the last successful reverse parse
    astParseError,
    mode,               \* "read" or "edit"
    typed,              \* text waiting for the debounce
    parsing,            \* texts handed to parseDdl, not yet answered
    dialog,             \* which confirmation is open
    applying,           \* scripts handed to schemaApplyDdl, as operations
    travelled           \* history: undo or redo since the script was taken over

storeVars == <<ops, past, future, lastChangeBy, lastReverseText, astParseError, travelled>>
paneVars  == <<mode, typed, parsing, dialog, applying>>
erdVars   == <<ops, past, future, lastChangeBy, lastReverseText, astParseError, travelled,
               mode, typed, parsing, dialog, applying>>

ErdTypeOK ==
    /\ ops \in Seq(Ops)
    /\ past \in Seq(Seq(Ops)) /\ future \in Seq(Seq(Ops))
    /\ lastChangeBy \in {"visual", "text", "none"}
    /\ lastReverseText \in (Texts \ Broken) \cup {NoText}
    /\ astParseError \in BOOLEAN /\ travelled \in BOOLEAN
    /\ mode \in {"read", "edit"}
    /\ typed \in Texts \cup {NoText}
    /\ parsing \subseteq Texts
    /\ dialog \in {"none", "apply", "discard"}
    /\ applying \subseteq Seq(Ops)

ErdInit ==
    /\ ops = <<>> /\ past = <<>> /\ future = <<>>
    /\ lastChangeBy = "none" /\ lastReverseText = NoText
    /\ astParseError = FALSE /\ travelled = FALSE
    /\ mode = "read" /\ typed = NoText /\ parsing = {}
    /\ dialog = "none" /\ applying = {}

----------------------------------------------------------------------------
(* The canvas.                                                             *)

\* Dragging a table again right after dragging it is one undo step.
Coalesces(op) ==
    /\ ops # <<>>
    /\ op.kind = "moveTable" /\ ops[Len(ops)].kind = "moveTable"
    /\ op.table = ops[Len(ops)].table

\* pushOp; what it does to the two stacks.
PushOp(op) ==
    /\ mode = "edit" /\ dialog = "none"
    /\ \/ /\ Coalesces(op)
          /\ ops' = [ops EXCEPT ![Len(ops)] = op]
          /\ past' = past
       \/ /\ ~Coalesces(op)
          /\ Len(past) < MaxPast
          /\ ops' = Append(ops, op)
          /\ past' = Append(past, ops)
    /\ future' = <<>>
    /\ lastChangeBy' = "visual" /\ lastReverseText' = NoText
    /\ travelled' = FALSE
    /\ UNCHANGED <<astParseError, paneVars>>

Pop(stack) == SubSeq(stack, 1, Len(stack) - 1)

\* MUTANT of Undo: the snapshot stays in past.
UndoKeepsSnapshot ==
    /\ mode = "edit" /\ dialog = "none"
    /\ past # <<>>
    /\ ops' = past[Len(past)]
    /\ past' = past
    /\ future' = Append(future, ops)
    /\ travelled' = TRUE
    /\ UNCHANGED <<lastChangeBy, lastReverseText, astParseError, paneVars>>

Undo ==
    /\ mode = "edit" /\ dialog = "none"
    /\ past # <<>>
    /\ ops' = past[Len(past)]
    /\ past' = Pop(past)
    /\ future' = Append(future, ops)
    /\ travelled' = TRUE
    /\ UNCHANGED <<lastChangeBy, lastReverseText, astParseError, paneVars>>

Redo ==
    /\ mode = "edit" /\ dialog = "none"
    /\ future # <<>>
    /\ ops' = future[Len(future)]
    /\ past' = Append(past, ops)
    /\ future' = Pop(future)
    /\ travelled' = TRUE
    /\ UNCHANGED <<lastChangeBy, lastReverseText, astParseError, paneVars>>

\* What discard leaves of the tab.
Discarded ==
    /\ ops' = <<>> /\ past' = <<>> /\ future' = <<>>
    /\ lastChangeBy' = "none" /\ lastReverseText' = NoText
    /\ astParseError' = FALSE /\ travelled' = FALSE

\* Leaving edit mode unmounts the panel, and its debounce timer with it.
ToggleMode ==
    /\ dialog = "none"
    /\ mode' = IF mode = "read" THEN "edit" ELSE "read"
    /\ typed' = NoText
    /\ UNCHANGED <<storeVars, parsing, dialog, applying>>

----------------------------------------------------------------------------
(* The DDL panel.                                                          *)

TypeText(t) ==
    /\ mode = "edit" /\ dialog = "none"
    /\ typed' = t
    /\ UNCHANGED <<storeVars, mode, parsing, dialog, applying>>

\* The debounce has run out.
StartParse ==
    /\ typed # NoText
    /\ parsing' = parsing \cup {typed}
    /\ typed' = NoText
    /\ UNCHANGED <<storeVars, mode, dialog, applying>>

\* The script does not parse: setAstParseError, which Apply waits for.
ParseFails(t) ==
    /\ t \in parsing \cap Broken
    /\ parsing' = parsing \ {t}
    /\ astParseError' = TRUE
    /\ UNCHANGED <<ops, past, future, lastChangeBy, lastReverseText, travelled,
                   mode, typed, dialog, applying>>

\* MUTANT of ParseLands: the operations change and the text of an older parse stays.
ParseLandsKeepsText(t) ==
    /\ t \in parsing \ Broken
    /\ Len(past) < MaxPast
    /\ parsing' = parsing \ {t}
    /\ ops' = Script[t]
    /\ past' = Append(past, ops)
    /\ future' = <<>>
    /\ lastChangeBy' = "text"
    /\ lastReverseText' = IF lastReverseText = NoText THEN t ELSE lastReverseText
    /\ astParseError' = FALSE /\ travelled' = FALSE
    /\ UNCHANGED <<mode, typed, dialog, applying>>

\* It parses: replaceOpsFromAst on the store as it is now.
ParseLands(t) ==
    /\ t \in parsing \ Broken
    /\ Len(past) < MaxPast
    /\ parsing' = parsing \ {t}
    /\ ops' = Script[t]
    /\ past' = Append(past, ops)
    /\ future' = <<>>
    /\ lastChangeBy' = "text" /\ lastReverseText' = t
    /\ astParseError' = FALSE /\ travelled' = FALSE
    /\ UNCHANGED <<mode, typed, dialog, applying>>

----------------------------------------------------------------------------
(* Apply and Discard, each behind its dialog.                              *)

OpenDialog(which) ==
    /\ mode = "edit" /\ dialog = "none"
    /\ ops # <<>>
    /\ which = "apply" => ~astParseError
    /\ dialog' = which
    /\ UNCHANGED <<storeVars, mode, typed, parsing, applying>>

CloseDialog ==
    /\ dialog # "none"
    /\ dialog' = "none"
    /\ UNCHANGED <<storeVars, mode, typed, parsing, applying>>

ConfirmDiscard ==
    /\ dialog = "discard"
    /\ Discarded
    /\ dialog' = "none"
    /\ UNCHANGED <<mode, typed, parsing, applying>>

\* What onConfirmApply sends: the script as typed, or the DDL of the operations.
ToApply ==
    IF lastChangeBy = "text" /\ lastReverseText # NoText THEN Script[lastReverseText] ELSE ops

ConfirmApply ==
    /\ dialog = "apply"
    /\ Cardinality(applying) < MaxApplies
    /\ dialog' = "none"
    /\ applying' = applying \cup {ToApply}
    /\ UNCHANGED <<storeVars, mode, typed, parsing>>

ApplySucceeds(s) ==
    /\ s \in applying
    /\ applying' = applying \ {s}
    /\ Discarded
    /\ UNCHANGED <<mode, typed, parsing, dialog>>

ApplyFails(s) ==
    /\ s \in applying
    /\ applying' = applying \ {s}
    /\ UNCHANGED <<storeVars, mode, typed, parsing, dialog>>

----------------------------------------------------------------------------
ErdNext ==
    \/ \E op \in Ops : PushOp(op)
    \/ Undo
    \/ Redo
    \/ ToggleMode
    \/ \E t \in Texts : TypeText(t)
    \/ StartParse
    \/ \E t \in parsing : ParseFails(t)
    \/ \E t \in parsing : ParseLands(t)
    \/ \E which \in {"apply", "discard"} : OpenDialog(which)
    \/ CloseDialog
    \/ ConfirmDiscard
    \/ ConfirmApply
    \/ \E s \in applying : ApplySucceeds(s)
    \/ \E s \in applying : ApplyFails(s)

ErdSpec == ErdInit /\ [][ErdNext]_erdVars

----------------------------------------------------------------------------
(* Properties.                                                             *)

\* The documents of a tab from the oldest snapshot to the newest: those to undo to, the
\* one shown, and those to redo to, which were pushed in the opposite order.
LineOf(undos, shown, redos) ==
    [i \in 1..(Len(undos) + 1 + Len(redos)) |->
        IF i <= Len(undos) THEN undos[i]
        ELSE IF i = Len(undos) + 1 THEN shown
        ELSE redos[Len(undos) + Len(redos) + 2 - i]]

Documents == LineOf(past, ops, future)

History == INSTANCE EditHistory WITH Blank <- <<>>, line <- Documents, at <- Len(past) + 1

\* Two stacks of snapshots with coalesced drags, late parses and Apply clearing
\* them are one linear history: undo followed by redo gives back what was there,
\* and only a new edit or a discard loses a document.
LinearUndo == History!HistorySpec

\* After a script was taken over, and until the user walks the history, Apply sends
\* what the canvas shows: the late parses and the coalescing never pair the
\* operations of one script with the text of another.
SendsWhatIsShown == travelled \/ ToApply = ops

\* DdlPreviewPanel.tsx:107-112 says that in text mode "the text is already canonical
\* for the current ops", so that Apply may send it in their place.
TextIsCanonical == lastChangeBy = "text" => ToApply = ops
=============================================================================
