--------------------------- MODULE MCMigrationApply ---------------------------
(* Two commands on two versions, with up scripts of two contents: enough for  *)
(* a gap, a stale listing, an edited file and two commands at one version.    *)
EXTENDS MigrationApply, TLC

\* The folder starts complete; edits take scripts away and bring them back.
MCFolders == [up : {[v \in Versions |-> k] : k \in Contents}, down : {Versions}]

\* Commands, clients and contents are told apart by nothing; versions are ordered.
Symmetry == Permutations(Commands) \cup Permutations(Clients) \cup Permutations(Contents)
=============================================================================
