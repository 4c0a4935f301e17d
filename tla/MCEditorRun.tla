---- MODULE MCEditorRun ----
(* EditorRun on the replies that differ in what they leave behind. *)
EXTENDS EditorRun

MCReplies == {<<"cursor">>, <<"rows", "cursor">>, <<"page">>, <<"dml">>, <<"rows", "error">>}
====
