------------------------------ MODULE MCBackend ------------------------------
(* Batches and dry runs: two kinds of backend command that share no state.     *)
(* A behaviour belongs to one of them, chosen at the start; the other keeps    *)
(* its initial state.  No symmetry is used, because both have a liveness       *)
(* property.                                                                   *)
EXTENDS MCBatchRun, DryRun

VARIABLE command

BackendInit == command \in {"batch", "dry run"} /\ Init /\ DryInit

BackendNext ==
    \/ command = "batch" /\ Next /\ UNCHANGED <<command, dryVars>>
    \/ command = "dry run" /\ DryNext /\ UNCHANGED <<command, vars>>

\* The fairness of each part; a part that is not chosen has no step to take.
BackendFairness ==
    IF command = "batch" THEN Fairness ELSE DryFairness

BackendSpec == BackendInit /\ [][BackendNext]_<<command, vars, dryVars>> /\ BackendFairness

\* Each part keeps its types.
BackendTypeOK == TypeOK /\ DryTypeOK

\* Whatever is begun ends: every batch, with fewer batches than clients, and every
\* dry run, cancelled or not.
BackendEnds == BatchesEnd /\ DryRunsEnd
=============================================================================
