--------------------------- MODULE AbstractRWLock ---------------------------
(***************************************************************************)
(* What a reader-writer lock with rwlock_downgrade promises its callers in *)
(* epoll_shim_ctx.c: the set of threads that hold it for reading and the   *)
(* set, of at most one, that holds it for writing.                         *)
(***************************************************************************)
EXTENDS Naturals

CONSTANT Threads

VARIABLES readers, writers

Init == readers = {} /\ writers = {}

AcquireRead(t) == /\ writers = {}
                  /\ readers' = readers \cup {t}
                  /\ UNCHANGED writers

ReleaseRead(t) == /\ t \in readers
                  /\ readers' = readers \ {t}
                  /\ UNCHANGED writers

AcquireWrite(t) == /\ writers = {}
                   /\ readers = {}
                   /\ writers' = {t}
                   /\ UNCHANGED readers

ReleaseWrite(t) == /\ writers = {t}
                   /\ writers' = {}
                   /\ UNCHANGED readers

\* No other thread writes between the write lock and the read lock.
Downgrade(t) == /\ writers = {t}
                /\ writers' = {}
                /\ readers' = readers \cup {t}

Next == \E t \in Threads : \/ AcquireRead(t) \/ ReleaseRead(t)
                           \/ AcquireWrite(t) \/ ReleaseWrite(t)
                           \/ Downgrade(t)

Spec == Init /\ [][Next]_<<readers, writers>>
=============================================================================
