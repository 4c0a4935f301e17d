---------------------------- MODULE EditHistory ----------------------------
(***************************************************************************)
(* What undo and redo promise of any editor: the documents the user went   *)
(* through stand in a line and a cursor walks on it.  An edit forgets what *)
(* was undone and nothing else; undo and redo move the cursor and change   *)
(* no document; an amended edit replaces the newest document instead of    *)
(* adding one.                                                             *)
(***************************************************************************)
EXTENDS Naturals, Sequences

CONSTANT Blank  \* the document before the first edit

VARIABLES
    line,   \* the documents, oldest first
    at      \* the one that is shown

HistoryInit == line = <<Blank>> /\ at = 1

\* The first n documents are the same before and after.
Keeps(n) == \A i \in 1..n : line'[i] = line[i]

\* A new document after the one shown.
Extend ==
    /\ at' = at + 1
    /\ Len(line') = at + 1
    /\ Keeps(at)

\* The document shown is replaced; there was an edit to fold it into.
Amend ==
    /\ at > 1
    /\ at' = at
    /\ Len(line') = at
    /\ Keeps(at - 1)

StepBack    == at > 1 /\ at' = at - 1 /\ UNCHANGED line
StepForward == at < Len(line) /\ at' = at + 1 /\ UNCHANGED line
Forget      == line' = <<Blank>> /\ at' = 1

HistoryNext == Extend \/ Amend \/ StepBack \/ StepForward \/ Forget

HistorySpec == HistoryInit /\ [][HistoryNext]_<<line, at>>
=============================================================================
