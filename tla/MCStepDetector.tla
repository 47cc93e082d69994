--------------------------- MODULE MCStepDetector ---------------------------
(* Step detector models: two timerfds and the threads they can have started. *)
(* Liveness is checked, so no symmetry is used.                              *)
EXTENDS StepDetector
=============================================================================
