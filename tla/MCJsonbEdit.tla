----------------------------- MODULE MCJsonbEdit -----------------------------
(* JsonbEdit on cells of two tables.                                           *)
EXTENDS JsonbEdit

MCTableOf == [c \in Cells |-> IF c = "a" THEN "T" ELSE "U"]
=============================================================================
