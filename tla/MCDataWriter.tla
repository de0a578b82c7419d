---------------------------- MODULE MCDataWriter ----------------------------
(* Model checking of DataWriter: instances are alike. *)
EXTENDS DataWriter, TLC

Symmetry == Permutations(Keys)
=============================================================================
