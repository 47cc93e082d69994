----------------------------- MODULE MCEventFD -----------------------------
(* Eventfd models: three threads and a counter of a few values.  Liveness is *)
(* checked, so no symmetry is used.                                          *)
EXTENDS EventFDRefinement
=============================================================================
