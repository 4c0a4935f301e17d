---------------------------- MODULE MCNotebookCte ----------------------------
EXTENDS NotebookCte

\* Three candidates: each with a name of its own, or the last named like the first.
MCOwnNames == {<<"a", "b", "c">>}
MCNamings == MCOwnNames \cup {<<"a", "b", "a">>}
==============================================================================
