------------------------------ MODULE TabStore ------------------------------
(***************************************************************************)
(* One editor tab and its row in SQLite: two debounced saves, the saves    *)
(* that are sent at once, the delete of closeTab, and a restart that opens *)
(* what the rows hold.  The calls run on the backend's runtime, so they    *)
(* reach the row in any order.  Tabs do not touch each other's rows: one   *)
(* stands for all.  Every edit is a new text and every rename a new name,  *)
(* so two versions of the tab have the same updatedAt only when they are   *)
(* equal.                                                                  *)
(*                                                                         *)
(* Source: src/features/editor/store.ts, src-tauri/src/query/tabs.rs.      *)
(***************************************************************************)
EXTENDS Naturals, Sequences, SequencesExt

CONSTANTS
    MaxEdits, MaxNames, \* bounds: edits and renames
    MaxCalls,           \* bound: calls under way
    NoTab

ASSUME TabAssumption ==
    /\ MaxEdits \in Nat /\ MaxNames \in Nat /\ MaxCalls \in Nat
    /\ NoTab \notin [text : 0..MaxEdits, name : 0..MaxNames]

VARIABLES
    tab,        \* text and name of the open tab, NoTab before it opens and once closed
    dirty,
    row,        \* its row
    contentTimer, cursorTimer,
    tabCalls,   \* tabs_save and tabs_delete calls not yet answered, as they were sent
    opened,     \* the tab has had its id
    edited,      \* history: setContent since it was opened or hydrated
    overtaken,  \* history: a call reached the row before one sent earlier
    lost        \* history: a call failed, or the program ended

tabVars == <<tab, dirty, row, contentTimer, cursorTimer, tabCalls, opened, edited, overtaken, lost>>
histories == <<edited, overtaken, lost>>

Versions == [text : 0..MaxEdits, name : 0..MaxNames]

TabTypeOK ==
    /\ tab \in Versions \cup {NoTab} /\ row \in Versions \cup {NoTab}
    /\ {dirty, contentTimer, cursorTimer, opened, edited, overtaken, lost} \subseteq BOOLEAN
    /\ tabCalls \in Seq([row : Versions \cup {NoTab}, content : BOOLEAN, done : BOOLEAN])

TabInit ==
    /\ tab = NoTab /\ dirty = FALSE /\ row = NoTab
    /\ contentTimer = FALSE /\ cursorTimer = FALSE
    /\ tabCalls = <<>> /\ opened = FALSE
    /\ edited = FALSE /\ overtaken = FALSE /\ lost = FALSE

----------------------------------------------------------------------------
\* tabsSave of a version, or tabsDelete; content marks the save of setContent.
Call(r, content) ==
    /\ Len(tabCalls) < MaxCalls
    /\ tabCalls' = Append(tabCalls, [row |-> r, content |-> content, done |-> FALSE])

OpenEditorTab ==
    /\ ~opened /\ opened' = TRUE
    /\ tab' = [text |-> 0, name |-> 0]
    /\ Call(tab', FALSE)
    /\ UNCHANGED <<dirty, row, contentTimer, cursorTimer, histories>>

SetContent ==
    /\ tab # NoTab /\ tab.text < MaxEdits
    /\ tab' = [tab EXCEPT !.text = @ + 1]
    /\ dirty' = TRUE /\ contentTimer' = TRUE /\ edited' = TRUE
    /\ UNCHANGED <<row, cursorTimer, tabCalls, opened, overtaken, lost>>

\* MUTANT of ContentTimerFires: no second call while one is out.
TimerGivesWay ==
    /\ contentTimer /\ contentTimer' = FALSE
    /\ IF tabCalls = <<>> THEN Call(tab, TRUE) ELSE UNCHANGED tabCalls
    /\ UNCHANGED <<tab, dirty, row, cursorTimer, opened, histories>>

\* The tab is saved as it is when the timer fires.
ContentTimerFires ==
    /\ contentTimer /\ contentTimer' = FALSE
    /\ Call(tab, TRUE)
    /\ UNCHANGED <<tab, dirty, row, cursorTimer, opened, histories>>

\* renameEditorTab, and setTabConnection as far as the row goes.
RenameEditorTab ==
    /\ tab # NoTab /\ tab.name < MaxNames
    /\ tab' = [tab EXCEPT !.name = @ + 1]
    /\ Call(tab', FALSE)
    /\ UNCHANGED <<dirty, row, contentTimer, cursorTimer, opened, histories>>

SetCursor ==
    /\ tab # NoTab /\ cursorTimer' = TRUE
    /\ UNCHANGED <<tab, dirty, row, contentTimer, tabCalls, opened, histories>>

CursorTimerFires ==
    /\ cursorTimer /\ cursorTimer' = FALSE
    /\ Call(tab, FALSE)
    /\ UNCHANGED <<tab, dirty, row, contentTimer, opened, histories>>

\* Both timers are cleared; a save that is out is not called back.
CloseEditorTab ==
    /\ tab # NoTab /\ tab' = NoTab
    /\ dirty' = FALSE /\ contentTimer' = FALSE /\ cursorTimer' = FALSE
    /\ Call(NoTab, FALSE)
    /\ UNCHANGED <<row, opened, histories>>

----------------------------------------------------------------------------
\* upsert or delete.
CallWrites(i) ==
    /\ ~tabCalls[i].done
    /\ row' = tabCalls[i].row
    /\ tabCalls' = [tabCalls EXCEPT ![i].done = TRUE]
    /\ overtaken' = (overtaken \/ \E j \in 1..(i - 1) : ~tabCalls[j].done)
    /\ UNCHANGED <<tab, dirty, contentTimer, cursorTimer, opened, edited, lost>>

\* MUTANT of CallAnswered: updatedAt is not compared.
AnswerCleans(i) ==
    /\ tabCalls[i].done
    /\ tabCalls' = RemoveAt(tabCalls, i)
    /\ dirty' = (dirty /\ ~(tabCalls[i].content /\ tab # NoTab))
    /\ UNCHANGED <<tab, row, contentTimer, cursorTimer, opened, histories>>

\* Only the save of setContent cleans the tab, and only the version it saved.
CallAnswered(i) ==
    /\ tabCalls[i].done
    /\ tabCalls' = RemoveAt(tabCalls, i)
    /\ dirty' = (dirty /\ ~(tabCalls[i].content /\ tab = tabCalls[i].row))
    /\ UNCHANGED <<tab, row, contentTimer, cursorTimer, opened, histories>>

\* A failure is swallowed: nothing tries again before the next edit.
CallFails(i) ==
    /\ ~tabCalls[i].done
    /\ tabCalls' = RemoveAt(tabCalls, i)
    /\ lost' = TRUE
    /\ UNCHANGED <<tab, dirty, row, contentTimer, cursorTimer, opened, edited, overtaken>>

\* The program ends; calls it did not answer may have reached the row or not.
\* hydrateFromSqlite opens the row, if there is one, even that of a closed tab.
TabRestart ==
    /\ tab' = row /\ dirty' = FALSE
    /\ contentTimer' = FALSE /\ cursorTimer' = FALSE /\ tabCalls' = <<>>
    /\ edited' = FALSE /\ overtaken' = FALSE /\ lost' = TRUE
    /\ UNCHANGED <<row, opened>>

TabNext ==
    \/ OpenEditorTab
    \/ SetContent
    \/ ContentTimerFires
    \/ RenameEditorTab
    \/ SetCursor
    \/ CursorTimerFires
    \/ CloseEditorTab
    \/ \E i \in DOMAIN tabCalls : CallWrites(i)
    \/ \E i \in DOMAIN tabCalls : CallAnswered(i)
    \/ \E i \in DOMAIN tabCalls : CallFails(i)
    \/ TabRestart

\* Timers fire and the backend answers; the user owes nothing.
TabFairness ==
    /\ WF_tabVars(ContentTimerFires)
    /\ WF_tabVars(CursorTimerFires)
    /\ WF_tabVars(\E i \in DOMAIN tabCalls : CallWrites(i))
    /\ WF_tabVars(\E i \in DOMAIN tabCalls : CallAnswered(i))

TabSpec == TabInit /\ [][TabNext]_tabVars

----------------------------------------------------------------------------
(* Properties.                                                             *)

\* A tab that stopped being dirty has its text in its row, whatever was typed, renamed
\* or moved while saves were out, unless the backend took the calls out of order.
CleanMeansSaved ==
    tab # NoTab /\ edited /\ ~dirty /\ ~overtaken => row # NoTab /\ row.text = tab.text

\* What EditReachesRow rests on: the text of an open tab is in its row, or in a call that
\* has not written yet, or waits for its timer, while no call was overtaken and nothing lost.
TextIsOnItsWay ==
    tab # NoTab /\ ~lost /\ ~overtaken =>
        \/ contentTimer
        \/ row # NoTab /\ row.text = tab.text
        \/ \E i \in DOMAIN tabCalls : ~tabCalls[i].done /\ tabCalls[i].row.text = tab.text

\* What is typed reaches the row, or something newer does, unless the tab is closed, a
\* call fails or is overtaken, or the program ends.
EditReachesRow ==
    \A n \in 1..MaxEdits :
        tab # NoTab /\ tab.text = n
            ~> lost \/ overtaken \/ tab = NoTab \/ (row # NoTab /\ row.text >= n)
=============================================================================
