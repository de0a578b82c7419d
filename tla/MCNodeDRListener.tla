-------------------------- MODULE MCNodeDRListener --------------------------
(* Model checking of NodeDRListener. *)
EXTENDS NodeDRListener, TLC

\* Threads and samples are interchangeable. Sound for the safety runs only.
Symmetry == Permutations(Threads) \cup Permutations(Samples)
=============================================================================
