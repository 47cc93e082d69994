------------------------------ MODULE MCRWLock ------------------------------
(* RWLock on a few threads, with the abstract lock it has to implement.      *)
(* Liveness is checked, so no symmetry is used.                              *)
EXTENDS RWLockRefinement
=============================================================================
