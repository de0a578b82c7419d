--------------------------- MODULE MCNodeOpenDDS ---------------------------
(* Model checking of NodeOpenDDS. *)
EXTENDS NodeOpenDDS, TLC

Symmetry == Permutations(Participants) \cup Permutations(Readers)
=============================================================================
