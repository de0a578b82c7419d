------------------------- MODULE MCNodeValueWriter -------------------------
(* Model checking of NodeValueWriter. *)
EXTENDS NodeValueWriter
=============================================================================
