---------------------- MODULE MCContentFilteredTopics ----------------------
(* Model checking of ContentFilteredTopics with the six digits of the code. *)
EXTENDS ContentFilteredTopics
=============================================================================
