------------------------- MODULE MCNodeValueReader -------------------------
(* Model checking of NodeValueReader: names that are members are alike. *)
EXTENDS NodeValueReader, TLC

Symmetry == Permutations(Members)
=============================================================================
