------------------------------- MODULE RWLock -------------------------------
(***************************************************************************)
(* The reader-writer lock of src/src/rwlock.c, which protects the table of *)
(* shimmed file descriptions.  Every step of a thread is one atomic        *)
(* operation of the code: an atomic_fetch_*, a sem_wait, a sem_post or a   *)
(* mutex operation.                                                        *)
(*                                                                         *)
(* num_pending counts the readers that hold the lock or wait for it; a     *)
(* writer subtracts MAX_READERS from it, so a negative value announces the *)
(* writer.  readers_departing counts down the readers the announcing       *)
(* writer still has to wait for.                                           *)
(***************************************************************************)
EXTENDS Integers, FiniteSets

CONSTANTS Threads,      \* the threads of the process
          MAX_READERS,  \* 1 << 30 in the code
          NoThread      \* "nobody owns the mutex"

ASSUME ThreadsAssumption == IsFiniteSet(Threads) /\ NoThread \notin Threads

\* The code relies on there being fewer readers than MAX_READERS.
ASSUME MaxReadersAssumption == MAX_READERS \in Nat /\ Cardinality(Threads) < MAX_READERS

VARIABLES num_pending,        \* atomic counter
          readers_departing,  \* atomic counter
          reader_wait,        \* value of the readers' semaphore
          writer_wait,        \* value of the writer's semaphore
          mutex,              \* owner of the writers' mutex
          r,                  \* local r of the mutex owner
          pc                  \* where each thread is

vars == <<num_pending, readers_departing, reader_wait, writer_wait, mutex, r, pc>>

(***************************************************************************)
(* "idle"     outside the lock                                             *)
(* "rd_wait"  lock_read, in sem_wait(reader_wait)                          *)
(* "read"     holds the lock for reading                                   *)
(* "rd_depart" unlock_read, before the fetch_sub on readers_departing      *)
(* "rd_post"  unlock_read, before sem_post(writer_wait)                    *)
(* "wr_mutex" lock_write, waits for the mutex                              *)
(* "wr_sub"   lock_write, before the fetch_sub on num_pending              *)
(* "wr_add"   lock_write, before the fetch_add on readers_departing        *)
(* "wr_wait"  lock_write, in sem_wait(writer_wait)                         *)
(* "write"    holds the lock for writing                                   *)
(* "ul_post"  unlock_write, r more sem_posts before it unlocks the mutex   *)
(* "dg_post"  downgrade, r more sem_posts before it unlocks the mutex      *)
(***************************************************************************)
Locations == {"idle", "rd_wait", "read", "rd_depart", "rd_post", "wr_mutex",
              "wr_sub", "wr_add", "wr_wait", "write", "ul_post", "dg_post"}

Init == /\ num_pending = 0
        /\ readers_departing = 0
        /\ reader_wait = 0
        /\ writer_wait = 0
        /\ mutex = NoThread
        /\ r = 0
        /\ pc = [t \in Threads |-> "idle"]

Goto(t, from, to) == pc[t] = from /\ pc' = [pc EXCEPT ![t] = to]

-----------------------------------------------------------------------------
\* Semaphore operations; sem_wait_nointr retries on EINTR, a stuttering step.
SemWaitReader(t) == /\ Goto(t, "rd_wait", "read")
                    /\ reader_wait > 0
                    /\ reader_wait' = reader_wait - 1
                    /\ UNCHANGED <<num_pending, readers_departing, writer_wait, mutex, r>>

SemWaitWriter(t) == /\ Goto(t, "wr_wait", "write")
                    /\ writer_wait > 0
                    /\ writer_wait' = writer_wait - 1
                    /\ UNCHANGED <<num_pending, readers_departing, reader_wait, mutex, r>>

-----------------------------------------------------------------------------
\* rwlock_lock_read
LockRead(t) == /\ Goto(t, "idle", IF num_pending + 1 < 0 THEN "rd_wait" ELSE "read")
               /\ num_pending' = num_pending + 1
               /\ UNCHANGED <<readers_departing, reader_wait, writer_wait, mutex, r>>

\* rwlock_unlock_read: the two fetch_subs and the sem_post are three steps.
UnlockRead(t) == /\ Goto(t, "read", IF num_pending - 1 < 0 THEN "rd_depart" ELSE "idle")
                 /\ num_pending' = num_pending - 1
                 /\ UNCHANGED <<readers_departing, reader_wait, writer_wait, mutex, r>>

\* Mutant: readers that leave before the writer has counted them also post.
DepartEager(t) ==
    /\ Goto(t, "rd_depart", IF readers_departing - 1 <= 0 THEN "rd_post" ELSE "idle")
    /\ readers_departing' = readers_departing - 1
    /\ UNCHANGED <<num_pending, reader_wait, writer_wait, mutex, r>>

\* Mutant: the fetch_sub's old value decides who is the last reader.
DepartOldValue(t) ==
    /\ Goto(t, "rd_depart", IF readers_departing = 0 THEN "rd_post" ELSE "idle")
    /\ readers_departing' = readers_departing - 1
    /\ UNCHANGED <<num_pending, reader_wait, writer_wait, mutex, r>>

Depart(t) == /\ Goto(t, "rd_depart", IF readers_departing - 1 = 0 THEN "rd_post" ELSE "idle")
             /\ readers_departing' = readers_departing - 1
             /\ UNCHANGED <<num_pending, reader_wait, writer_wait, mutex, r>>

PostWriter(t) == /\ Goto(t, "rd_post", "idle")
                 /\ writer_wait' = writer_wait + 1
                 /\ UNCHANGED <<num_pending, readers_departing, reader_wait, mutex, r>>

-----------------------------------------------------------------------------
\* rwlock_lock_write
RequestWrite(t) == /\ Goto(t, "idle", "wr_mutex")
                   /\ UNCHANGED <<num_pending, readers_departing, reader_wait,
                                  writer_wait, mutex, r>>

LockMutex(t) == /\ Goto(t, "wr_mutex", "wr_sub")
                /\ mutex = NoThread
                /\ mutex' = t
                /\ UNCHANGED <<num_pending, readers_departing, reader_wait, writer_wait, r>>

\* Mutant: the writer does not look at the readers there are.
AnnounceNoWait(t) == /\ Goto(t, "wr_sub", "write")
                     /\ r' = num_pending
                     /\ num_pending' = num_pending - MAX_READERS
                     /\ UNCHANGED <<readers_departing, reader_wait, writer_wait, mutex>>

Announce(t) == /\ Goto(t, "wr_sub", IF num_pending # 0 THEN "wr_add" ELSE "write")
               /\ r' = num_pending
               /\ num_pending' = num_pending - MAX_READERS
               /\ UNCHANGED <<readers_departing, reader_wait, writer_wait, mutex>>

\* Mutant: the fetch_add's old value decides whether to wait.
AwaitReadersOldValue(t) ==
    /\ Goto(t, "wr_add", IF readers_departing # 0 THEN "wr_wait" ELSE "write")
    /\ readers_departing' = readers_departing + r
    /\ UNCHANGED <<num_pending, reader_wait, writer_wait, mutex, r>>

AwaitReaders(t) == /\ Goto(t, "wr_add", IF readers_departing + r # 0 THEN "wr_wait" ELSE "write")
                   /\ readers_departing' = readers_departing + r
                   /\ UNCHANGED <<num_pending, reader_wait, writer_wait, mutex, r>>

-----------------------------------------------------------------------------
\* rwlock_unlock_common: the fetch_add, the loop of sem_posts, the mutex.
UnlockCommon(t, keep_reading, to) ==
    /\ Goto(t, "write", to)
    /\ num_pending' = num_pending + MAX_READERS + keep_reading
    /\ r' = num_pending'  - keep_reading
    /\ UNCHANGED <<readers_departing, reader_wait, writer_wait, mutex>>

UnlockWrite(t) == UnlockCommon(t, 0, "ul_post")

Downgrade(t) == UnlockCommon(t, 1, "dg_post")

PostReader(t) == /\ pc[t] \in {"ul_post", "dg_post"}
                 /\ r > 0
                 /\ r' = r - 1
                 /\ reader_wait' = reader_wait + 1
                 /\ UNCHANGED <<num_pending, readers_departing, writer_wait, mutex, pc>>

\* Mutant: the loop of sem_posts ends one early.
UnlockMutexEarly(t) ==
    /\ Goto(t, "ul_post", "idle") \/ Goto(t, "dg_post", "read")
    /\ r <= 1
    /\ mutex' = NoThread
    /\ UNCHANGED <<num_pending, readers_departing, reader_wait, writer_wait, r>>

UnlockMutex(t) == /\ \/ Goto(t, "ul_post", "idle")
                     \/ Goto(t, "dg_post", "read")
                  /\ r <= 0
                  /\ mutex' = NoThread
                  /\ UNCHANGED <<num_pending, readers_departing, reader_wait, writer_wait, r>>

-----------------------------------------------------------------------------
\* The steps of a call in progress, and the release of a lock that is held.
Step(t) == \/ SemWaitReader(t) \/ SemWaitWriter(t)
           \/ UnlockRead(t) \/ Depart(t) \/ PostWriter(t)
           \/ LockMutex(t) \/ Announce(t) \/ AwaitReaders(t)
           \/ UnlockWrite(t) \/ Downgrade(t) \/ PostReader(t) \/ UnlockMutex(t)

Next == \E t \in Threads : LockRead(t) \/ RequestWrite(t) \/ Step(t)

\* A thread inside the lock keeps running and every critical section of
\* epoll_shim_ctx.c ends; no thread has to ask for the lock.
Fairness == \A t \in Threads : WF_vars(Step(t))

Spec == Init /\ [][Next]_vars

FairSpec == Spec /\ Fairness

-----------------------------------------------------------------------------
ThreadsAt(f, loc) == {t \in Threads : f[t] = loc}

Count(f, loc) == Cardinality(ThreadsAt(f, loc))

At(loc) == ThreadsAt(pc, loc)

N(loc) == Count(pc, loc)

\* The threads that may read, and the one that may write, the protected data.
\* A downgrading thread reads as soon as its fetch_add is done.
Readers == At("read") \cup At("dg_post")

Writers == At("write")

\* The types of rwlock.c's counters and semaphores, and of the control state.
TypeOK == /\ num_pending \in Int
          /\ readers_departing \in Int
          /\ reader_wait \in Nat
          /\ writer_wait \in Nat
          /\ mutex \in Threads \cup {NoThread}
          /\ r \in Int
          /\ pc \in [Threads -> Locations]

\* rwlock_lock_write excludes everybody, rwlock_lock_read excludes writers,
\* however the readers' departures interleave with the writer's two atomics.
MutualExclusion == /\ \A t, u \in Writers : t = u
                   /\ Writers # {} => Readers = {}

\* atomic_int_fast32_t is wide enough: the counters stay within the readers
\* there are, shifted by at most one announced writer.
CountersBounded == /\ num_pending \in (-MAX_READERS) .. Cardinality(Threads)
                   /\ readers_departing \in (-Cardinality(Threads)) .. Cardinality(Threads)

\* The last departing reader posts writer_wait exactly when a writer sleeps on
\* it: no token survives for a later writer, who would then not wait.
NoStrayWriterToken == writer_wait > 0 => writer_wait = 1 /\ N("wr_wait") = 1 /\ N("rd_post") = 0

\* Threads that no token and no mutex lets go on.
Blocked(t) == \/ pc[t] = "rd_wait" /\ reader_wait = 0
              \/ pc[t] = "wr_mutex" /\ mutex # NoThread
              \/ pc[t] = "wr_wait" /\ writer_wait = 0

\* No wakeup is lost: as long as threads are inside the lock, one of them can go
\* on.  The token that a sleeping reader or writer needs has been posted, or a
\* thread that will post it is awake.
SomeoneAwake == (\A t \in Threads : pc[t] # "idle" => Blocked(t)) => \A t \in Threads : pc[t] = "idle"

(***************************************************************************)
(* The inductive invariant behind the safety properties.  What the         *)
(* counters mean depends on where the owner of the mutex is.               *)
(***************************************************************************)
Phase == IF mutex = NoThread THEN "none" ELSE pc[mutex]

Announced == Phase \in {"wr_add", "wr_wait", "write"}

ToPost == IF Phase \in {"ul_post", "dg_post"} THEN r ELSE 0

\* Readers an announced writer has to outlast: those that read, those that may
\* as soon as they take a token, and those between unlock_read's two atomics.
Outstanding == N("read") + reader_wait + N("rd_depart")

MutexInv == \A t \in Threads :
    mutex = t <=> pc[t] \in {"wr_sub", "wr_add", "wr_wait", "write", "ul_post", "dg_post"}

PendingInv == num_pending = N("rd_wait") + N("read") + N("dg_post")
                              - (IF Announced THEN MAX_READERS ELSE 0)

TokenInv == /\ ToPost >= 0
            /\ reader_wait + ToPost <= N("rd_wait")
            /\ ~Announced => reader_wait + ToPost = N("rd_wait")

DepartInv ==
    /\ ~Announced => /\ readers_departing = 0 /\ N("rd_depart") = 0
                     /\ writer_wait = 0 /\ N("rd_post") = 0
    /\ Phase = "wr_add" => /\ r \in 1 .. Cardinality(Threads)
                           /\ readers_departing <= 0
                           /\ readers_departing + r = Outstanding
                           /\ writer_wait = 0 /\ N("rd_post") = 0
    /\ Phase = "wr_wait" => /\ readers_departing = Outstanding
                            /\ writer_wait + N("rd_post") = (IF Outstanding = 0 THEN 1 ELSE 0)
    /\ Phase = "write" => /\ readers_departing = 0 /\ Outstanding = 0
                          /\ writer_wait = 0 /\ N("rd_post") = 0

\* What the counters and semaphores of RWLock say of the threads, at every
\* point between the atomics of rwlock.c.
LockInv == TypeOK /\ MutexInv /\ PendingInv /\ TokenInv /\ DepartInv

\* A writer that announced itself is not starved by a stream of new readers.
WriterNotStarved ==
    \A t \in Threads : pc[t] \in {"wr_add", "wr_wait"} ~> pc[t] = "write"

\* Readers blocked behind a writer are released: unlock_common's posts reach
\* at least one of them (reader_wait is not FIFO, so not a chosen one).
ReadersReleased == At("rd_wait") # {} ~> Readers # {}
=============================================================================
