------------------------------ MODULE Notebook ------------------------------
(***************************************************************************)
(* One notebook: the copy its pane edits, the copy the store keeps for     *)
(* running cells, and the row in SQLite, kept together by a debounced      *)
(* autosave, by Save, and by runCell, which writes the whole notebook back *)
(* with the result it got for the cells it had read before.                *)
(*                                                                         *)
(* A notebook is the text of all its cells, one value, and whether a cell  *)
(* has a result.  runFrom is runCell again and again.                      *)
(*                                                                         *)
(* Source: src/features/notebook/store.ts, useAutosave.ts, NotebookPane.tsx*)
(***************************************************************************)
EXTENDS Naturals, Sequences, SequencesExt, FiniteSets

CONSTANTS
    Sources,    \* texts of the notebook
    Untitled,   \* the text it has at first
    MaxOut,     \* bound: saves under way
    MaxRuns,    \* bound: runs under way
    NoNotebook

ASSUME NotebookAssumption ==
    /\ Untitled \in Sources
    /\ NoNotebook \notin [text : Sources, result : BOOLEAN]
    /\ MaxOut \in Nat /\ MaxRuns \in Nat

VARIABLES
    pane,       \* state of NotebookPane, NoNotebook when it is not mounted
    cached,     \* byId[id] of the store
    disk,       \* the row of the notebook
    lastSerialized, timer,  \* of useAutosave; an armed timer saves the pane's state
    nbSaves,    \* notebook_save calls not yet answered, in the order they were sent
    runs,       \* runCell calls before their save, with the notebook they read
    isRunning,  \* runningByNotebookId[id]
    slipped     \* history: one of the gaps named at QuietMeansAgreed was hit

nbVars == <<pane, cached, disk, lastSerialized, timer, nbSaves, runs, isRunning, slipped>>

Notebooks == [text : Sources, result : BOOLEAN]
Maybe(S) == S \cup {NoNotebook}
Saves == [who : {"auto", "manual", "run", "stray"}, nb : Notebooks, done : BOOLEAN]

NotebookTypeOK ==
    /\ pane \in Maybe(Notebooks) /\ cached \in Maybe(Notebooks)
    /\ disk \in Notebooks
    /\ lastSerialized \in Maybe(Notebooks) /\ timer \in BOOLEAN
    /\ nbSaves \in Seq(Saves)
    /\ runs \subseteq Notebooks
    /\ isRunning \in BOOLEAN /\ slipped \in BOOLEAN

NotebookInit ==
    /\ pane = NoNotebook /\ cached = NoNotebook
    /\ disk = [text |-> Untitled, result |-> FALSE]
    /\ lastSerialized = NoNotebook /\ timer = FALSE
    /\ nbSaves = <<>> /\ runs = {} /\ isRunning = FALSE /\ slipped = FALSE

----------------------------------------------------------------------------
(* The autosave effect and the calls it makes.                             *)

\* The effect, run again whenever the notebook or isRunning changes: it clears the
\* timer, takes a freshly loaded notebook for saved, and arms the timer for another.
AutosaveEffect(nb, busy) ==
    /\ timer' = /\ nb # NoNotebook /\ ~busy
                /\ lastSerialized \notin {NoNotebook, nb}
    /\ lastSerialized' = IF nb # NoNotebook /\ ~busy /\ lastSerialized = NoNotebook
                           THEN nb ELSE lastSerialized

Send(who, nb) ==
    /\ Len(nbSaves) < MaxOut
    /\ nbSaves' = Append(nbSaves, [who |-> who, nb |-> nb, done |-> FALSE])

TimerFires ==
    /\ timer /\ timer' = FALSE
    /\ Send("auto", pane)
    /\ UNCHANGED <<pane, cached, disk, lastSerialized, runs, isRunning, slipped>>

\* Calls of the frontend reach the row in any order.
SaveWrites(i) ==
    /\ ~nbSaves[i].done
    /\ disk' = nbSaves[i].nb
    /\ nbSaves' = [nbSaves EXCEPT ![i].done = TRUE]
    /\ slipped' = (slipped \/ \E j \in 1..(i - 1) : ~nbSaves[j].done)
    /\ UNCHANGED <<pane, cached, lastSerialized, timer, runs, isRunning>>

\* save puts what it saved into the store; then its caller goes on.
AutosaveAnswered(i) ==
    /\ nbSaves[i].done /\ nbSaves[i].who \in {"auto", "stray"}
    /\ cached' = nbSaves[i].nb
    /\ nbSaves' = RemoveAt(nbSaves, i)
    /\ lastSerialized' = IF nbSaves[i].who = "auto" THEN nbSaves[i].nb ELSE lastSerialized
    /\ slipped' = (slipped \/ i > 1)
    /\ UNCHANGED <<pane, disk, timer, runs, isRunning>>

\* An autosave that fails shows an error and waits for the next edit.
SaveFails(i) ==
    /\ ~nbSaves[i].done /\ nbSaves[i].who # "run"
    /\ nbSaves' = RemoveAt(nbSaves, i)
    /\ slipped' = (slipped \/ nbSaves[i].who # "manual")
    /\ UNCHANGED <<pane, cached, disk, lastSerialized, timer, runs, isRunning>>

----------------------------------------------------------------------------
(* The pane.                                                               *)

\* load prefers the store's copy to the row.
Mount ==
    /\ pane = NoNotebook
    /\ pane' = IF cached # NoNotebook THEN cached ELSE disk
    /\ cached' = pane'
    /\ AutosaveEffect(pane', isRunning)
    /\ UNCHANGED <<disk, nbSaves, runs, isRunning, slipped>>

\* The timer goes with the pane; answers still out find nobody to tell.
Unmount ==
    /\ pane # NoNotebook /\ pane' = NoNotebook
    /\ timer' = FALSE /\ lastSerialized' = NoNotebook
    /\ nbSaves' = [i \in DOMAIN nbSaves |->
                     IF nbSaves[i].who = "run" THEN nbSaves[i] ELSE [nbSaves[i] EXCEPT !.who = "stray"]]
    /\ slipped' = (slipped \/ timer \/ isRunning \/ nbSaves # <<>>)
    /\ UNCHANGED <<cached, disk, runs, isRunning>>

\* A save of this text is out, or was the last one.
SavedBefore(nb, out) == nb = lastSerialized \/ \E i \in DOMAIN out : out[i].nb = nb

Edit(t) ==
    /\ pane # NoNotebook /\ t # pane.text
    /\ pane' = [pane EXCEPT !.text = t]
    /\ cached' = pane'
    /\ AutosaveEffect(pane', isRunning)
    /\ slipped' = (slipped \/ SavedBefore(pane', nbSaves))
    /\ UNCHANGED <<disk, nbSaves, runs, isRunning>>

SaveNow ==
    /\ pane # NoNotebook
    /\ Send("manual", pane)
    /\ UNCHANGED <<pane, cached, disk, lastSerialized, timer, runs, isRunning, slipped>>

\* onSaveNow puts what it saved back into the pane, over later edits.
SaveNowAnswered(i) ==
    /\ nbSaves[i].done /\ nbSaves[i].who = "manual"
    /\ pane' = nbSaves[i].nb /\ cached' = pane'
    /\ nbSaves' = RemoveAt(nbSaves, i)
    /\ AutosaveEffect(pane', isRunning)
    /\ slipped' = (slipped \/ SavedBefore(pane', nbSaves'))
    /\ UNCHANGED <<disk, runs, isRunning>>

----------------------------------------------------------------------------
(* Running a cell.                                                         *)

\* The cells are read from the store once, here.
RunCell ==
    /\ pane # NoNotebook
    /\ Cardinality(runs) < MaxRuns
    /\ runs' = runs \cup {cached}
    /\ isRunning' = TRUE
    /\ AutosaveEffect(pane, TRUE)
    /\ slipped' = (slipped \/ isRunning \/ nbSaves # <<>>)
    /\ UNCHANGED <<pane, cached, disk, nbSaves>>

\* What was read is saved with the result.
QueryAnswers(nb) ==
    /\ runs' = runs \ {nb}
    /\ Send("run", [nb EXCEPT !.result = TRUE])
    /\ UNCHANGED <<pane, cached, disk, lastSerialized, timer, isRunning, slipped>>

\* MUTANT of RunEnds: the effect does not depend on isRunning.
RunEndsUnseen ==
    /\ isRunning' = FALSE
    /\ UNCHANGED <<timer, lastSerialized>>

RunEnds ==
    /\ isRunning' = FALSE
    /\ IF isRunning THEN AutosaveEffect(pane, FALSE) ELSE UNCHANGED <<timer, lastSerialized>>

QueryFails(nb) ==
    /\ runs' = runs \ {nb}
    /\ RunEnds
    /\ UNCHANGED <<pane, cached, disk, nbSaves, slipped>>

\* The result is in the store and in the row; the pane is not told.
RunSaved(i) ==
    /\ nbSaves[i].done /\ nbSaves[i].who = "run"
    /\ cached' = nbSaves[i].nb
    /\ nbSaves' = RemoveAt(nbSaves, i)
    /\ RunEnds
    /\ UNCHANGED <<pane, disk, runs, slipped>>

RunSaveFails(i) ==
    /\ ~nbSaves[i].done /\ nbSaves[i].who = "run"
    /\ nbSaves' = RemoveAt(nbSaves, i)
    /\ RunEnds
    /\ UNCHANGED <<pane, cached, disk, runs, slipped>>

----------------------------------------------------------------------------
\* The program ends and starts again: the row is all there is.
NotebookRestart ==
    /\ pane' = NoNotebook /\ cached' = NoNotebook
    /\ lastSerialized' = NoNotebook /\ timer' = FALSE
    /\ nbSaves' = <<>> /\ runs' = {} /\ isRunning' = FALSE /\ slipped' = FALSE
    /\ UNCHANGED disk
----------------------------------------------------------------------------
NotebookNext ==
    \/ TimerFires
    \/ \E i \in DOMAIN nbSaves : SaveWrites(i)
    \/ \E i \in DOMAIN nbSaves : AutosaveAnswered(i)
    \/ \E i \in DOMAIN nbSaves : SaveFails(i)
    \/ Mount
    \/ Unmount
    \/ \E t \in Sources : Edit(t)
    \/ SaveNow
    \/ \E i \in DOMAIN nbSaves : SaveNowAnswered(i)
    \/ RunCell
    \/ \E nb \in runs : QueryAnswers(nb)
    \/ \E nb \in runs : QueryFails(nb)
    \/ \E i \in DOMAIN nbSaves : RunSaved(i)
    \/ \E i \in DOMAIN nbSaves : RunSaveFails(i)
    \/ NotebookRestart

NotebookSpec == NotebookInit /\ [][NotebookNext]_nbVars

----------------------------------------------------------------------------
(* Properties.                                                             *)

Quiet == pane # NoNotebook /\ ~timer /\ nbSaves = <<>> /\ runs = {}

\* When nothing is armed, running or out, the pane, the store that cells run from and
\* the row have the same text, whatever was typed while saves and runs were out.  The
\* gaps: saves written or answered out of order, an autosave that failed, a pane closed
\* with a save due or out, text put back to what is being or was last saved, and a run
\* begun over another run or a save that is out.
QuietMeansAgreed ==
    Quiet /\ ~slipped => pane.text = disk.text /\ cached.text = disk.text

\* CellList.tsx:12-14: "Run-cell still writes through the store directly so result
\* snapshots survive a reload": a result in the row is there until its text is gone.
ResultSurvives ==
    [][disk'.text = disk.text /\ disk.result => disk'.result]_nbVars
=============================================================================
