------------------------------ MODULE MCEditorTab ------------------------------
(* What the editor keeps of a tab in memory (EditorRun) and what it keeps of it   *)
(* in SQLite (TabStore).  The two share no state but the closing of the tab,      *)
(* which either forgets on its own: a behaviour belongs to one of them, chosen at *)
(* the start, and the other keeps its initial state.                              *)
EXTENDS MCEditorRun, TabStore

VARIABLE side

SideInit == side \in {"memory", "row"} /\ Init /\ TabInit

SideNext ==
    \/ side = "memory" /\ Next /\ UNCHANGED <<side, tabVars>>
    \/ side = "row" /\ TabNext /\ UNCHANGED <<side, vars>>

\* The fairness of each side; the one that is not chosen has no step to take.
SideFairness == IF side = "memory" THEN Fairness ELSE TabFairness

SideSpec == SideInit /\ [][SideNext]_<<side, vars, tabVars>> /\ SideFairness

\* Each side keeps its types.
SideTypeOK == TypeOK /\ TabTypeOK
=============================================================================
