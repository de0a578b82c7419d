------------------------- MODULE MCNodePBITListener -------------------------
(* Model checking of NodePBITListener. *)
EXTENDS NodePBITListener, TLC

Symmetry ==
    Permutations(Participants) \cup Permutations(Threads)
        \cup Permutations(Listeners)
=============================================================================
