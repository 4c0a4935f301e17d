---- MODULE MCBatchRun ----
(* BatchRun on the programs that make transactions interesting. *)
EXTENDS BatchRun, TLC

BlockThenQuery == <<"begin", "write", "write", "commit", "query">>
BlockThatFails == <<"begin", "write", "bad", "commit">>
BlockBreaks    == <<"begin", "write", "bad", "write", "commit">>
BlockAlone     == <<"begin", "write", "write", "commit">>
Plain          == <<"write", "query">>
LastFails      == <<"begin", "write", "bad">>
UndoneByHand   == <<"begin", "write", "rollback">>

MCPrograms == {BlockThenQuery, BlockThatFails, BlockBreaks, BlockAlone, Plain, LastFails, UndoneByHand}

Symmetry == Permutations(Batches) \cup Permutations(Clients)
====
