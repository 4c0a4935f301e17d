------------------------------- MODULE MCDryRun -------------------------------
(* Three dry runs of one connection, to see who cancels whom: one that is      *)
(* cancelled, one begun over it, one begun after both.  Runs may be named in   *)
(* any order; no symmetry is used because DryRunsEnd is a liveness property.   *)
EXTENDS DryRun
=============================================================================
