-------------------------- MODULE RWLockRefinement --------------------------
(* The lock of rwlock.c implements the abstract reader-writer lock. *)
EXTENDS RWLock

Abstract == INSTANCE AbstractRWLock WITH readers <- Readers, writers <- Writers

\* Whatever the interleaving of its atomics, the code grants and releases the
\* lock only as AbstractRWLock allows; rwlock_downgrade passes from writing to
\* reading in one step, which epoll_shim_ctx_remove_desc depends on.
AbstractSpec == Abstract!Spec
=============================================================================
