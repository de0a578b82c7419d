------------------------- MODULE MCAcknowledgments -------------------------
(* Model checking of Acknowledgments. *)
EXTENDS Acknowledgments
=============================================================================
