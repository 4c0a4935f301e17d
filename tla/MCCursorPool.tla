---- MODULE MCCursorPool ----
(* CursorPool on a small instance, up to renaming of tasks, ids and slots. *)
EXTENDS CursorPool, TLC

Symmetry == Permutations(Tasks) \cup Permutations(Cursors) \cup Permutations(Slots)
====
