--------------------------- MODULE MCInt64Values ---------------------------
(* Model checking of Int64Values. *)
EXTENDS Int64Values
=============================================================================
