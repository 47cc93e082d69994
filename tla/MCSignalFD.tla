----------------------------- MODULE MCSignalFD -----------------------------
(* Signalfd model: two threads, two signals.  Liveness is checked, so no     *)
(* symmetry is used.                                                         *)
EXTENDS SignalFD
=============================================================================
