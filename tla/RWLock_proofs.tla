---------------------------- MODULE RWLock_proofs ----------------------------
(***************************************************************************)
(* Proofs about rwlock.c for every finite set of threads and every         *)
(* MAX_READERS larger than it: the inductive invariant, mutual exclusion,  *)
(* the bounds of the counters and the refinement of AbstractRWLock.        *)
(***************************************************************************)
EXTENDS RWLockRefinement, FiniteSetTheorems, TLAPS

-----------------------------------------------------------------------------
(* Counting the threads at a location. *)

\* The threads at a location are finitely many, at most all of them.
LEMMA CountType ==
    ASSUME NEW f, NEW loc
    PROVE  /\ IsFiniteSet(ThreadsAt(f, loc))
           /\ Count(f, loc) \in Nat
           /\ Count(f, loc) <= Cardinality(Threads)
<1>1. ThreadsAt(f, loc) \subseteq Threads
  BY DEF ThreadsAt
<1>2. IsFiniteSet(ThreadsAt(f, loc)) /\ Count(f, loc) <= Cardinality(Threads)
  BY <1>1, FS_Subset, ThreadsAssumption DEF Count
<1>3. Count(f, loc) \in Nat
  BY <1>2, FS_CardinalityType DEF Count
<1> QED
  BY <1>2, <1>3

\* One thread moves from a location to another one.
Change(loc, from, to) == IF loc = to THEN 1 ELSE IF loc = from THEN -1 ELSE 0

\* When one thread moves, the counts of its two locations change by one.
LEMMA CountMove ==
    ASSUME NEW f, NEW g, NEW t \in Threads, f[t] # g[t],
           \A u \in Threads : u # t => g[u] = f[u], NEW loc
    PROVE  Count(g, loc) = Count(f, loc) + Change(loc, f[t], g[t])
<1>0. /\ IsFiniteSet(ThreadsAt(f, loc)) /\ IsFiniteSet(ThreadsAt(g, loc))
      /\ Count(f, loc) \in Nat
  BY CountType
<1>1. CASE loc = g[t]
  <2>1. ThreadsAt(g, loc) = ThreadsAt(f, loc) \cup {t} /\ t \notin ThreadsAt(f, loc)
    BY <1>1 DEF ThreadsAt
  <2>2. Cardinality(ThreadsAt(g, loc)) = Cardinality(ThreadsAt(f, loc)) + 1
    BY <2>1, <1>0, FS_AddElement
  <2> QED
    BY <2>2, <1>1 DEF Count, Change
<1>2. CASE loc # g[t] /\ loc = f[t]
  <2>1. ThreadsAt(g, loc) = ThreadsAt(f, loc) \ {t} /\ t \in ThreadsAt(f, loc)
    BY <1>2 DEF ThreadsAt
  <2>2. Cardinality(ThreadsAt(g, loc)) = Cardinality(ThreadsAt(f, loc)) - 1
    BY <2>1, <1>0, FS_RemoveElement
  <2> QED
    BY <1>0, <2>2, <1>2 DEF Count, Change
<1>3. CASE loc # g[t] /\ loc # f[t]
  <2>1. ThreadsAt(g, loc) = ThreadsAt(f, loc)
    BY <1>3 DEF ThreadsAt
  <2> QED
    BY <1>0, <2>1, <1>3 DEF Count, Change
<1> QED
  BY <1>1, <1>2, <1>3

\* A location where a thread is has a positive count.
LEMMA CountPositive ==
    ASSUME NEW f, NEW t \in Threads
    PROVE  Count(f, f[t]) >= 1
<1>1. IsFiniteSet(ThreadsAt(f, f[t]))
  BY CountType
<1>2. ThreadsAt(f, f[t]) # {}
  BY DEF ThreadsAt
<1>3. Count(f, f[t]) # 0
  BY <1>1, <1>2, FS_EmptySet DEF Count
<1>4. Count(f, f[t]) \in Nat
  BY CountType
<1> QED
  BY <1>3, <1>4

\* The cardinality of the union of two disjoint finite sets.
LEMMA DisjointUnion ==
    ASSUME NEW A, NEW B, IsFiniteSet(A), IsFiniteSet(B), A \cap B = {}
    PROVE  IsFiniteSet(A \cup B) /\ Cardinality(A \cup B) = Cardinality(A) + Cardinality(B)
<1>1. /\ IsFiniteSet(A \cup B)
      /\ Cardinality(A \cup B) = Cardinality(A) + Cardinality(B) - Cardinality(A \cap B)
  BY FS_Union
<1>2. Cardinality(A \cap B) = 0
  BY FS_EmptySet
<1>3. Cardinality(A) \in Nat /\ Cardinality(B) \in Nat
  BY FS_CardinalityType
<1> QED
  BY <1>1, <1>2, <1>3

\* The threads at three different locations are different threads.
LEMMA CountSum ==
    ASSUME NEW f, NEW a, NEW b, NEW c, a # b, a # c, b # c
    PROVE  Count(f, a) + Count(f, b) + Count(f, c) <= Cardinality(Threads)
<1> DEFINE A == ThreadsAt(f, a)
           B == ThreadsAt(f, b)
           C == ThreadsAt(f, c)
<1>0. IsFiniteSet(A) /\ IsFiniteSet(B) /\ IsFiniteSet(C)
  BY CountType
<1>1. A \cap B = {} /\ (A \cup B) \cap C = {} /\ (A \cup B) \cup C \subseteq Threads
  BY DEF ThreadsAt
<1> HIDE DEF A, B, C
<1>2. IsFiniteSet(A \cup B) /\ Cardinality(A \cup B) = Cardinality(A) + Cardinality(B)
  BY <1>0, <1>1, DisjointUnion
<1>3. Cardinality((A \cup B) \cup C) = Cardinality(A \cup B) + Cardinality(C)
  BY <1>0, <1>1, <1>2, DisjointUnion
<1>4. Cardinality((A \cup B) \cup C) <= Cardinality(Threads)
  BY <1>1, FS_Subset, ThreadsAssumption
<1>5. Cardinality(A) + Cardinality(B) + Cardinality(C) <= Cardinality(Threads)
  BY <1>2, <1>3, <1>4
<1> QED
  BY <1>5 DEF Count, A, B, C

-----------------------------------------------------------------------------
(* How one step of a thread changes the counts and the phase. *)

Owning == {"wr_sub", "wr_add", "wr_wait", "write", "ul_post", "dg_post"}

\* The counts that LockInv speaks of.
CountTypes == /\ N("rd_wait") \in Nat /\ N("read") \in Nat /\ N("dg_post") \in Nat
              /\ N("rd_depart") \in Nat /\ N("rd_post") \in Nat

CountChanges(from, to) == /\ N("rd_wait")' = N("rd_wait") + Change("rd_wait", from, to)
                          /\ N("read")' = N("read") + Change("read", from, to)
                          /\ N("dg_post")' = N("dg_post") + Change("dg_post", from, to)
                          /\ N("rd_depart")' = N("rd_depart") + Change("rd_depart", from, to)
                          /\ N("rd_post")' = N("rd_post") + Change("rd_post", from, to)

\* What a Goto does to pc and to every count N(loc).
LEMMA Move ==
    ASSUME TypeOK, NEW t \in Threads, NEW from, NEW to \in Locations,
           from # to, Goto(t, from, to)
    PROVE  /\ CountTypes /\ CountChanges(from, to) /\ N(from) >= 1
           /\ pc' \in [Threads -> Locations]
           /\ pc[t] = from /\ pc'[t] = to
           /\ \A u \in Threads : u # t => pc'[u] = pc[u]
<1>1. /\ pc[t] = from /\ pc' = [pc EXCEPT ![t] = to] /\ pc \in [Threads -> Locations]
  BY DEF Goto, TypeOK
<1>2. /\ pc' \in [Threads -> Locations] /\ pc'[t] = to
      /\ \A u \in Threads : u # t => pc'[u] = pc[u]
  BY <1>1
<1>3. N(from) >= 1
  BY <1>1, CountPositive DEF N
<1>4. ASSUME NEW loc
      PROVE  N(loc)' = N(loc) + Change(loc, from, to)
  <2>1. N(loc)' = Count(pc', loc) /\ N(loc) = Count(pc, loc)
    BY DEF N
  <2>2. pc[t] # pc'[t]
    BY <1>1, <1>2
  <2>3. Count(pc', loc) = Count(pc, loc) + Change(loc, pc[t], pc'[t])
    BY <1>2, <2>2, CountMove
  <2> QED
    BY <1>1, <1>2, <2>1, <2>3
<1>5. CountChanges(from, to)
  BY <1>4 DEF CountChanges
<1>6. CountTypes
  BY CountType DEF CountTypes, N
<1> QED
  BY <1>1, <1>2, <1>3, <1>5, <1>6

\* A step of a thread that neither owns the mutex nor takes it.
LEMMA OutsideStep ==
    ASSUME TypeOK, MutexInv, NEW t \in Threads, UNCHANGED mutex, NEW from \in Locations \ Owning,
           NEW to \in Locations \ Owning, from # to, Goto(t, from, to)
    PROVE  MutexInv' /\ Phase' = Phase
<1>1. mutex # t
  BY DEF MutexInv, Goto, Owning
<1>2. MutexInv'
  BY Move DEF MutexInv, Owning
<1>3. Phase' = Phase
  BY <1>1, Move DEF Phase, TypeOK
<1> QED
  BY <1>2, <1>3

\* A step of the owner of the mutex that keeps it.
LEMMA OwnerStep ==
    ASSUME TypeOK, MutexInv, NEW t \in Threads, UNCHANGED mutex, NEW from \in Owning,
           NEW to \in Owning, from # to, Goto(t, from, to)
    PROVE  MutexInv' /\ Phase = from /\ Phase' = to
<1>0. Owning \subseteq Locations
  BY DEF Owning, Locations
<1>1. mutex = t /\ t # NoThread
  BY ThreadsAssumption DEF MutexInv, Goto, Owning
<1>2. MutexInv'
  BY <1>0, Move DEF MutexInv, Owning
<1>3. Phase = from /\ Phase' = to
  BY <1>0, <1>1, Move DEF Phase
<1> QED
  BY <1>2, <1>3

\* The readers that num_pending counts are threads, before and after a step.
LEMMA PendingBound ==
    ASSUME TRUE
    PROVE  /\ N("rd_wait") + N("read") + N("dg_post") <= Cardinality(Threads)
           /\ N("rd_wait")' + N("read")' + N("dg_post")' <= Cardinality(Threads)
           /\ N("rd_wait") + N("read") + N("rd_depart") <= Cardinality(Threads)
           /\ Cardinality(Threads) \in Nat
<1>1. Cardinality(Threads) \in Nat
  BY ThreadsAssumption, FS_CardinalityType
<1> QED
  BY <1>1, CountSum DEF N

\* Only the owner of the mutex can be downgrading.
LEMMA NoDowngrader ==
    ASSUME MutexInv, Phase # "dg_post"
    PROVE  N("dg_post") = 0
<1>1. ThreadsAt(pc, "dg_post") = {}
  BY ThreadsAssumption DEF MutexInv, Phase, ThreadsAt
<1> QED
  BY <1>1, FS_EmptySet DEF N, Count

-----------------------------------------------------------------------------
(* The invariant is inductive. *)

\* rwlock_init establishes the invariant.
LEMMA InitLockInv == Init => LockInv
<1> SUFFICES ASSUME Init PROVE LockInv
  OBVIOUS
<1>1. TypeOK
  BY DEF Init, TypeOK, Locations
<1>2. ASSUME NEW loc, loc # "idle" PROVE N(loc) = 0
  <2>1. ThreadsAt(pc, loc) = {}
    BY <1>2 DEF Init, ThreadsAt
  <2> QED
    BY <2>1, FS_EmptySet DEF N, Count
<1>3. Phase = "none" /\ ~Announced
  BY DEF Init, Phase, Announced
<1>4. MutexInv
  BY ThreadsAssumption DEF Init, MutexInv
<1>5. PendingInv /\ TokenInv /\ DepartInv
  BY <1>2, <1>3 DEF Init, PendingInv, TokenInv, DepartInv, ToPost, Outstanding
<1> QED
  BY <1>1, <1>4, <1>5 DEF LockInv

CountParts == PendingInv /\ TokenInv /\ DepartInv

\* rwlock_lock_read's fetch_add preserves the invariant.
LEMMA LockReadPreserves ==
    ASSUME LockInv, NEW t \in Threads, LockRead(t)
    PROVE  LockInv'
<1> DEFINE to == IF num_pending + 1 < 0 THEN "rd_wait" ELSE "read"
<1>0. TypeOK /\ MutexInv /\ CountParts
  BY DEF LockInv, CountParts
<1>1. to \in Locations \ Owning /\ "idle" \in Locations \ Owning /\ to # "idle"
  BY DEF Locations, Owning
<1>2. Goto(t, "idle", to) /\ UNCHANGED mutex
  BY DEF LockRead
<1> HIDE DEF to
<1>3. MutexInv' /\ Phase' = Phase
  BY <1>0, <1>1, <1>2, OutsideStep
<1>4. TypeOK'
  BY <1>0, <1>1, <1>2, Move DEF LockRead, TypeOK
<1>5. CountTypes /\ CountChanges("idle", to)
  BY <1>0, <1>1, <1>2, Move
<1>6. to = IF Announced THEN "rd_wait" ELSE "read"
  BY <1>0, <1>5, PendingBound, MaxReadersAssumption
     DEF CountParts, PendingInv, to, CountTypes, CountChanges, Change
<1>7. PendingInv'
  BY <1>0, <1>3, <1>5, <1>6, MaxReadersAssumption
     DEF CountParts, PendingInv, Announced, LockRead, TypeOK, CountTypes, CountChanges, Change
<1>8. TokenInv'
  BY <1>0, <1>3, <1>5, <1>6
     DEF CountParts, TokenInv, Announced, ToPost, LockRead, TypeOK, CountTypes, CountChanges, Change
<1>9. DepartInv'
  <2>1. Announced => Outstanding' = Outstanding
    BY <1>5, <1>6 DEF Outstanding, LockRead, CountTypes, CountChanges, Change
  <2>2. N("rd_depart")' = N("rd_depart") /\ N("rd_post")' = N("rd_post")
    BY <1>5, <1>6 DEF CountTypes, CountChanges, Change
  <2> QED
    BY <1>0, <1>3, <2>1, <2>2 DEF CountParts, DepartInv, Announced, LockRead
<1> QED
  BY <1>3, <1>4, <1>7, <1>8, <1>9 DEF LockInv

\* rwlock_unlock_read's first fetch_sub preserves the invariant.
LEMMA UnlockReadPreserves ==
    ASSUME LockInv, NEW t \in Threads, UnlockRead(t)
    PROVE  LockInv'
<1> DEFINE to == IF num_pending - 1 < 0 THEN "rd_depart" ELSE "idle"
<1>0. TypeOK /\ MutexInv /\ CountParts
  BY DEF LockInv, CountParts
<1>1. /\ to \in Locations \ Owning /\ "read" \in Locations \ Owning /\ to # "read"
      /\ to \in Locations
  BY DEF Locations, Owning
<1>2. Goto(t, "read", to) /\ UNCHANGED mutex
  BY DEF UnlockRead
<1> HIDE DEF to
<1>3. MutexInv' /\ Phase' = Phase
  BY <1>0, <1>1, <1>2, OutsideStep
<1>4. CountTypes /\ CountChanges("read", to) /\ N("read") >= 1
  BY <1>0, <1>1, <1>2, Move
<1>5. to = IF Announced THEN "rd_depart" ELSE "idle"
  BY <1>0, <1>4, PendingBound, MaxReadersAssumption DEF CountParts, PendingInv, to, CountTypes
<1>6. TypeOK'
  BY <1>0, <1>1, <1>2, Move, MaxReadersAssumption DEF UnlockRead, TypeOK
<1>7. PendingInv'
  BY <1>0, <1>3, <1>4, <1>5, MaxReadersAssumption
     DEF CountParts, PendingInv, Announced, UnlockRead, TypeOK, CountTypes, CountChanges, Change
<1>8. TokenInv'
  BY <1>0, <1>3, <1>4, <1>5
     DEF CountParts, TokenInv, Announced, ToPost, UnlockRead, TypeOK, CountTypes, CountChanges, Change
<1>9. DepartInv'
  <2>1. Announced => Outstanding' = Outstanding /\ N("rd_post")' = N("rd_post")
    BY <1>0, <1>4, <1>5 DEF Outstanding, UnlockRead, TypeOK, CountTypes, CountChanges, Change
  <2>2. ~Announced => N("rd_depart")' = N("rd_depart") /\ N("rd_post")' = N("rd_post")
    BY <1>4, <1>5 DEF CountTypes, CountChanges, Change
  <2> QED
    BY <1>0, <1>3, <2>1, <2>2 DEF CountParts, DepartInv, Announced, UnlockRead
<1> QED
  BY <1>3, <1>6, <1>7, <1>8, <1>9 DEF LockInv

\* rwlock_unlock_read's fetch_sub on readers_departing preserves it.
LEMMA DepartPreserves ==
    ASSUME LockInv, NEW t \in Threads, Depart(t)
    PROVE  LockInv'
<1> DEFINE to == IF readers_departing - 1 = 0 THEN "rd_post" ELSE "idle"
<1>0. TypeOK /\ MutexInv /\ CountParts
  BY DEF LockInv, CountParts
<1>1. /\ to \in Locations \ Owning /\ "rd_depart" \in Locations \ Owning /\ to # "rd_depart"
      /\ to \in Locations
  BY DEF Locations, Owning
<1>2. Goto(t, "rd_depart", to) /\ UNCHANGED mutex
  BY DEF Depart
<1> HIDE DEF to
<1>3. MutexInv' /\ Phase' = Phase
  BY <1>0, <1>1, <1>2, OutsideStep
<1>4. CountTypes /\ CountChanges("rd_depart", to) /\ N("rd_depart") >= 1
  BY <1>0, <1>1, <1>2, Move
<1>5. Phase \in {"wr_add", "wr_wait"}
  BY <1>0, <1>4 DEF CountParts, DepartInv, Announced, Outstanding, TypeOK, CountTypes
<1>6. TypeOK'
  BY <1>0, <1>1, <1>2, Move, MaxReadersAssumption DEF Depart, TypeOK
<1>7. PendingInv'
  BY <1>0, <1>3, <1>4, <1>5, MaxReadersAssumption
     DEF CountParts, PendingInv, Announced, Depart, TypeOK, CountTypes, CountChanges, Change, to
<1>8. TokenInv'
  BY <1>0, <1>3, <1>4, <1>5
     DEF CountParts, TokenInv, Announced, ToPost, Depart, TypeOK, CountTypes, CountChanges, Change, to
<1>9. DepartInv'
  <2>1. Outstanding' = Outstanding - 1 /\ Outstanding \in Nat
    BY <1>0, <1>4 DEF Outstanding, Depart, TypeOK, CountTypes, CountChanges, Change, to
  <2>2. CASE Phase = "wr_add"
    <3>1. to = "idle"
      BY <1>0, <2>2 DEF CountParts, DepartInv, to, TypeOK
    <3> QED
      BY <1>0, <1>3, <1>4, <2>1, <2>2, <3>1
         DEF CountParts, DepartInv, Announced, Depart, TypeOK, CountTypes, CountChanges, Change
  <2>3. CASE Phase = "wr_wait"
    <3>1. /\ readers_departing = Outstanding /\ Outstanding # 0
          /\ writer_wait = 0 /\ N("rd_post") = 0
      BY <1>0, <1>4, <2>1, <2>3 DEF CountParts, DepartInv, Outstanding, TypeOK, CountTypes
    <3>2. /\ readers_departing' = Outstanding' /\ writer_wait' = 0
          /\ N("rd_post")' = IF Outstanding' = 0 THEN 1 ELSE 0
      BY <1>4, <2>1, <3>1 DEF Depart, CountChanges, Change, to
    <3> QED
      BY <1>3, <2>3, <3>2 DEF DepartInv, Announced
  <2> QED
    BY <1>5, <2>2, <2>3
<1> QED
  BY <1>3, <1>6, <1>7, <1>8, <1>9 DEF LockInv

\* The last departing reader's sem_post preserves the invariant.
LEMMA PostWriterPreserves ==
    ASSUME LockInv, NEW t \in Threads, PostWriter(t)
    PROVE  LockInv'
<1>0. TypeOK /\ MutexInv /\ CountParts
  BY DEF LockInv, CountParts
<1>1. /\ "idle" \in Locations \ Owning /\ "rd_post" \in Locations \ Owning /\ "idle" # "rd_post"
      /\ "idle" \in Locations
  BY DEF Locations, Owning
<1>2. Goto(t, "rd_post", "idle") /\ UNCHANGED mutex
  BY DEF PostWriter
<1>3. MutexInv' /\ Phase' = Phase
  BY <1>0, <1>1, <1>2, OutsideStep
<1>4. CountTypes /\ CountChanges("rd_post", "idle") /\ N("rd_post") >= 1
  BY <1>0, <1>1, <1>2, Move
<1>5. Phase = "wr_wait"
  BY <1>0, <1>4 DEF CountParts, DepartInv, Announced
<1>6. TypeOK'
  BY <1>0, <1>1, <1>2, Move, MaxReadersAssumption DEF PostWriter, TypeOK
<1>7. PendingInv'
  BY <1>0, <1>3, <1>4, <1>5, MaxReadersAssumption
     DEF CountParts, PendingInv, Announced, PostWriter, TypeOK, CountTypes, CountChanges, Change
<1>8. TokenInv'
  BY <1>0, <1>3, <1>4, <1>5
     DEF CountParts, TokenInv, Announced, ToPost, PostWriter, TypeOK, CountTypes, CountChanges, Change
<1>9. DepartInv'
  <2>1. Outstanding' = Outstanding /\ Outstanding \in Nat
    BY <1>0, <1>4 DEF Outstanding, PostWriter, TypeOK, CountTypes, CountChanges, Change
  <2> QED
    BY <1>0, <1>3, <1>4, <1>5, <2>1
       DEF CountParts, DepartInv, Announced, PostWriter, TypeOK, CountTypes, CountChanges, Change
<1> QED
  BY <1>3, <1>6, <1>7, <1>8, <1>9 DEF LockInv

\* A blocked reader that takes a token preserves the invariant.
LEMMA SemWaitReaderPreserves ==
    ASSUME LockInv, NEW t \in Threads, SemWaitReader(t)
    PROVE  LockInv'
<1>0. TypeOK /\ MutexInv /\ CountParts
  BY DEF LockInv, CountParts
<1>1. /\ "read" \in Locations \ Owning /\ "rd_wait" \in Locations \ Owning /\ "read" # "rd_wait"
      /\ "read" \in Locations
  BY DEF Locations, Owning
<1>2. Goto(t, "rd_wait", "read") /\ UNCHANGED mutex
  BY DEF SemWaitReader
<1>3. MutexInv' /\ Phase' = Phase
  BY <1>0, <1>1, <1>2, OutsideStep
<1>4. CountTypes /\ CountChanges("rd_wait", "read") /\ N("rd_wait") >= 1
  BY <1>0, <1>1, <1>2, Move
<1>5. Outstanding' = Outstanding /\ N("rd_depart")' = N("rd_depart") /\ N("rd_post")' = N("rd_post")
  BY <1>0, <1>4 DEF Outstanding, SemWaitReader, TypeOK, CountTypes, CountChanges, Change
<1>6. TypeOK'
  BY <1>0, <1>1, <1>2, Move, MaxReadersAssumption DEF SemWaitReader, TypeOK
<1>7. PendingInv'
  BY <1>0, <1>3, <1>4, MaxReadersAssumption
     DEF CountParts, PendingInv, Announced, SemWaitReader, TypeOK, CountTypes, CountChanges, Change
<1>8. TokenInv'
  BY <1>0, <1>3, <1>4
     DEF CountParts, TokenInv, Announced, ToPost, SemWaitReader, TypeOK, CountTypes, CountChanges, Change
<1>9. DepartInv'
  BY <1>0, <1>3, <1>5 DEF CountParts, DepartInv, Announced, SemWaitReader
<1> QED
  BY <1>3, <1>6, <1>7, <1>8, <1>9 DEF LockInv

\* Calling rwlock_lock_write preserves the invariant.
LEMMA RequestWritePreserves ==
    ASSUME LockInv, NEW t \in Threads, RequestWrite(t)
    PROVE  LockInv'
<1>0. TypeOK /\ MutexInv /\ CountParts
  BY DEF LockInv, CountParts
<1>1. /\ "wr_mutex" \in Locations \ Owning /\ "idle" \in Locations \ Owning /\ "wr_mutex" # "idle"
      /\ "wr_mutex" \in Locations
  BY DEF Locations, Owning
<1>2. Goto(t, "idle", "wr_mutex") /\ UNCHANGED mutex
  BY DEF RequestWrite
<1>3. MutexInv' /\ Phase' = Phase
  BY <1>0, <1>1, <1>2, OutsideStep
<1>4. CountTypes /\ CountChanges("idle", "wr_mutex") /\ N("idle") >= 1
  BY <1>0, <1>1, <1>2, Move
<1>5. Outstanding' = Outstanding /\ N("rd_depart")' = N("rd_depart") /\ N("rd_post")' = N("rd_post")
  BY <1>0, <1>4 DEF Outstanding, RequestWrite, TypeOK, CountTypes, CountChanges, Change
<1>6. TypeOK'
  BY <1>0, <1>1, <1>2, Move, MaxReadersAssumption DEF RequestWrite, TypeOK
<1>7. PendingInv'
  BY <1>0, <1>3, <1>4, MaxReadersAssumption
     DEF CountParts, PendingInv, Announced, RequestWrite, TypeOK, CountTypes, CountChanges, Change
<1>8. TokenInv'
  BY <1>0, <1>3, <1>4
     DEF CountParts, TokenInv, Announced, ToPost, RequestWrite, TypeOK, CountTypes, CountChanges, Change
<1>9. DepartInv'
  BY <1>0, <1>3, <1>5 DEF CountParts, DepartInv, Announced, RequestWrite
<1> QED
  BY <1>3, <1>6, <1>7, <1>8, <1>9 DEF LockInv

\* Taking the mutex preserves the invariant.
LEMMA LockMutexPreserves ==
    ASSUME LockInv, NEW t \in Threads, LockMutex(t)
    PROVE  LockInv'
<1>0. TypeOK /\ MutexInv /\ CountParts
  BY DEF LockInv, CountParts
<1>1. "wr_sub" \in Locations
  BY DEF Locations
<1>2. Goto(t, "wr_mutex", "wr_sub") /\ mutex = NoThread /\ mutex' = t
  BY DEF LockMutex
<1>3. MutexInv' /\ Phase = "none" /\ Phase' = "wr_sub"
  <2>1. Phase = "none" /\ Phase' = "wr_sub"
    BY <1>0, <1>1, <1>2, Move, ThreadsAssumption DEF Phase
  <2>2. MutexInv'
    BY <1>0, <1>1, <1>2, Move, ThreadsAssumption DEF MutexInv
  <2> QED
    BY <2>1, <2>2
<1>4. CountTypes /\ CountChanges("wr_mutex", "wr_sub") /\ N("wr_mutex") >= 1
  BY <1>0, <1>1, <1>2, Move
<1>6. TypeOK'
  BY <1>0, <1>1, <1>2, Move, MaxReadersAssumption DEF LockMutex, TypeOK
<1>7. PendingInv'
  BY <1>0, <1>3, <1>4, MaxReadersAssumption
     DEF CountParts, PendingInv, Announced, LockMutex, TypeOK, CountTypes, CountChanges, Change
<1>8. TokenInv'
  BY <1>0, <1>3, <1>4
     DEF CountParts, TokenInv, Announced, ToPost, LockMutex, TypeOK, CountTypes, CountChanges, Change
<1>9. DepartInv'
  <2>1. N("rd_depart")' = N("rd_depart") /\ N("rd_post")' = N("rd_post")
    BY <1>4 DEF CountTypes, CountChanges, Change
  <2> QED
    BY <1>0, <1>3, <2>1 DEF CountParts, DepartInv, Announced, LockMutex
<1> QED
  BY <1>3, <1>6, <1>7, <1>8, <1>9 DEF LockInv

\* rwlock_lock_write's fetch_sub on num_pending preserves the invariant.
LEMMA AnnouncePreserves ==
    ASSUME LockInv, NEW t \in Threads, Announce(t)
    PROVE  LockInv'
<1> DEFINE to == IF num_pending # 0 THEN "wr_add" ELSE "write"
<1>0. TypeOK /\ MutexInv /\ CountParts
  BY DEF LockInv, CountParts
<1>1. /\ to \in Owning /\ "wr_sub" \in Owning /\ to # "wr_sub"
      /\ to \in Locations
  BY DEF Locations, Owning
<1>2. Goto(t, "wr_sub", to) /\ UNCHANGED mutex
  BY DEF Announce
<1> HIDE DEF to
<1>3. MutexInv' /\ Phase = "wr_sub" /\ Phase' = to
  BY <1>0, <1>1, <1>2, OwnerStep
<1>4. CountTypes /\ CountChanges("wr_sub", to) /\ N("wr_sub") >= 1
  BY <1>0, <1>1, <1>2, Move
<1>5. N("dg_post") = 0
  BY <1>0, <1>3, NoDowngrader
<1>6. TypeOK'
  BY <1>0, <1>1, <1>2, Move, MaxReadersAssumption DEF Announce, TypeOK
<1>7. PendingInv'
  BY <1>0, <1>3, <1>4, <1>5, MaxReadersAssumption
     DEF CountParts, PendingInv, Announced, Announce, TypeOK, CountTypes, CountChanges, Change, to
<1>8. TokenInv'
  BY <1>0, <1>3, <1>4, <1>5
     DEF CountParts, TokenInv, Announced, ToPost, Announce, TypeOK, CountTypes, CountChanges, Change, to
<1>9. DepartInv'
  <2>1. num_pending = N("rd_wait") + N("read") /\ reader_wait = N("rd_wait") /\ N("rd_depart") = 0
    BY <1>0, <1>3, <1>4, <1>5
       DEF CountParts, PendingInv, TokenInv, DepartInv, ToPost, Announced, TypeOK, CountTypes
  <2>2. num_pending <= Cardinality(Threads) /\ Cardinality(Threads) \in Nat
    BY <2>1, <1>4, <1>5, PendingBound DEF CountTypes
  <2>3. Outstanding' = num_pending
    BY <1>0, <1>4, <2>1 DEF Outstanding, Announce, TypeOK, CountTypes, CountChanges, Change, to
  <2>4. N("rd_post")' = 0 /\ readers_departing' = 0 /\ writer_wait' = 0 /\ r' = num_pending
    BY <1>0, <1>3, <1>4
       DEF CountParts, DepartInv, Announced, Announce, CountTypes, CountChanges, Change, to
  <2>5. num_pending \in Nat
    BY <2>1, <1>4 DEF CountTypes
  <2> QED
    BY <1>3, <2>2, <2>3, <2>4, <2>5 DEF DepartInv, Announced, to
<1> QED
  BY <1>3, <1>6, <1>7, <1>8, <1>9 DEF LockInv

\* rwlock_lock_write's fetch_add on readers_departing preserves it.
LEMMA AwaitReadersPreserves ==
    ASSUME LockInv, NEW t \in Threads, AwaitReaders(t)
    PROVE  LockInv'
<1> DEFINE to == IF readers_departing + r # 0 THEN "wr_wait" ELSE "write"
<1>0. TypeOK /\ MutexInv /\ CountParts
  BY DEF LockInv, CountParts
<1>1. /\ to \in Owning /\ "wr_add" \in Owning /\ to # "wr_add"
      /\ to \in Locations
  BY DEF Locations, Owning
<1>2. Goto(t, "wr_add", to) /\ UNCHANGED mutex
  BY DEF AwaitReaders
<1> HIDE DEF to
<1>3. MutexInv' /\ Phase = "wr_add" /\ Phase' = to
  BY <1>0, <1>1, <1>2, OwnerStep
<1>4. CountTypes /\ CountChanges("wr_add", to) /\ N("wr_add") >= 1
  BY <1>0, <1>1, <1>2, Move
<1>5. /\ readers_departing + r = Outstanding /\ Outstanding' = Outstanding
      /\ Outstanding \in Nat
  BY <1>0, <1>3, <1>4
     DEF CountParts, DepartInv, Outstanding, AwaitReaders, TypeOK, CountTypes, CountChanges, Change, to
<1>6. TypeOK'
  BY <1>0, <1>1, <1>2, Move, MaxReadersAssumption DEF AwaitReaders, TypeOK
<1>7. PendingInv'
  BY <1>0, <1>3, <1>4, MaxReadersAssumption
     DEF CountParts, PendingInv, Announced, AwaitReaders, TypeOK, CountTypes, CountChanges, Change, to
<1>8. TokenInv'
  BY <1>0, <1>3, <1>4
     DEF CountParts, TokenInv, Announced, ToPost, AwaitReaders, TypeOK, CountTypes, CountChanges, Change, to
<1>9. DepartInv'
  BY <1>0, <1>3, <1>4, <1>5
     DEF CountParts, DepartInv, Announced, AwaitReaders, TypeOK, CountTypes, CountChanges, Change, to
<1> QED
  BY <1>3, <1>6, <1>7, <1>8, <1>9 DEF LockInv

\* The writer that takes its token preserves the invariant.
LEMMA SemWaitWriterPreserves ==
    ASSUME LockInv, NEW t \in Threads, SemWaitWriter(t)
    PROVE  LockInv'
<1>0. TypeOK /\ MutexInv /\ CountParts
  BY DEF LockInv, CountParts
<1>1. /\ "write" \in Owning /\ "wr_wait" \in Owning /\ "write" # "wr_wait"
      /\ "write" \in Locations
  BY DEF Locations, Owning
<1>2. Goto(t, "wr_wait", "write") /\ UNCHANGED mutex
  BY DEF SemWaitWriter
<1>3. MutexInv' /\ Phase = "wr_wait" /\ Phase' = "write"
  BY <1>0, <1>1, <1>2, OwnerStep
<1>4. CountTypes /\ CountChanges("wr_wait", "write") /\ N("wr_wait") >= 1
  BY <1>0, <1>1, <1>2, Move
<1>5. /\ Outstanding = 0 /\ Outstanding' = Outstanding
      /\ writer_wait = 1 /\ N("rd_post") = 0 /\ readers_departing = 0
  <2>1. Outstanding \in Nat /\ Outstanding' = Outstanding
    BY <1>0, <1>4 DEF Outstanding, SemWaitWriter, TypeOK, CountTypes, CountChanges, Change
  <2>2. /\ readers_departing = Outstanding
        /\ writer_wait + N("rd_post") = IF Outstanding = 0 THEN 1 ELSE 0
    BY <1>0, <1>3 DEF CountParts, DepartInv
  <2> QED
    BY <1>0, <1>4, <2>1, <2>2 DEF SemWaitWriter, TypeOK, CountTypes
<1>6. TypeOK'
  BY <1>0, <1>1, <1>2, Move, MaxReadersAssumption DEF SemWaitWriter, TypeOK
<1>7. PendingInv'
  BY <1>0, <1>3, <1>4, MaxReadersAssumption
     DEF CountParts, PendingInv, Announced, SemWaitWriter, TypeOK, CountTypes, CountChanges, Change
<1>8. TokenInv'
  BY <1>0, <1>3, <1>4
     DEF CountParts, TokenInv, Announced, ToPost, SemWaitWriter, TypeOK, CountTypes, CountChanges, Change
<1>9. DepartInv'
  BY <1>0, <1>3, <1>4, <1>5
     DEF CountParts, DepartInv, Announced, SemWaitWriter, TypeOK, CountTypes, CountChanges, Change
<1> QED
  BY <1>3, <1>6, <1>7, <1>8, <1>9 DEF LockInv

\* rwlock_unlock_write's fetch_add preserves the invariant.
LEMMA UnlockWritePreserves ==
    ASSUME LockInv, NEW t \in Threads, UnlockWrite(t)
    PROVE  LockInv'
<1>0. TypeOK /\ MutexInv /\ CountParts
  BY DEF LockInv, CountParts
<1>1. /\ "ul_post" \in Owning /\ "write" \in Owning /\ "ul_post" # "write"
      /\ "ul_post" \in Locations
  BY DEF Locations, Owning
<1>2. Goto(t, "write", "ul_post") /\ UNCHANGED mutex
  BY DEF UnlockWrite, UnlockCommon
<1>3. MutexInv' /\ Phase = "write" /\ Phase' = "ul_post"
  BY <1>0, <1>1, <1>2, OwnerStep
<1>4. CountTypes /\ CountChanges("write", "ul_post") /\ N("write") >= 1
  BY <1>0, <1>1, <1>2, Move
<1>5. /\ N("read") = 0 /\ reader_wait = 0 /\ N("rd_depart") = 0 /\ N("rd_post") = 0
      /\ N("dg_post") = 0
      /\ readers_departing = 0 /\ writer_wait = 0
  BY <1>0, <1>3, <1>4, NoDowngrader DEF CountParts, DepartInv, Announced, Outstanding, TypeOK, CountTypes
<1>6. TypeOK'
  BY <1>0, <1>1, <1>2, Move, MaxReadersAssumption DEF UnlockWrite, UnlockCommon, TypeOK
<1>7. PendingInv'
  BY <1>0, <1>3, <1>4, <1>5, MaxReadersAssumption
     DEF CountParts, PendingInv, Announced, UnlockWrite, UnlockCommon, TypeOK, CountTypes, CountChanges, Change
<1>8. TokenInv'
  <2>1. r' = N("rd_wait")
    BY <1>0, <1>3, <1>4, <1>5, MaxReadersAssumption
       DEF CountParts, PendingInv, Announced, UnlockWrite, UnlockCommon, TypeOK, CountTypes
  <2>2. N("rd_wait")' = N("rd_wait") /\ N("rd_wait") \in Nat /\ reader_wait' = 0
    BY <1>4, <1>5 DEF CountTypes, CountChanges, Change, UnlockWrite, UnlockCommon
  <2> QED
    BY <1>3, <2>1, <2>2 DEF TokenInv, Announced, ToPost
<1>9. DepartInv'
  BY <1>0, <1>3, <1>4, <1>5
     DEF CountParts, DepartInv, Announced, UnlockWrite, UnlockCommon, TypeOK, CountTypes, CountChanges, Change
<1> QED
  BY <1>3, <1>6, <1>7, <1>8, <1>9 DEF LockInv

\* rwlock_downgrade's fetch_add preserves the invariant.
LEMMA DowngradePreserves ==
    ASSUME LockInv, NEW t \in Threads, Downgrade(t)
    PROVE  LockInv'
<1>0. TypeOK /\ MutexInv /\ CountParts
  BY DEF LockInv, CountParts
<1>1. /\ "dg_post" \in Owning /\ "write" \in Owning /\ "dg_post" # "write"
      /\ "dg_post" \in Locations
  BY DEF Locations, Owning
<1>2. Goto(t, "write", "dg_post") /\ UNCHANGED mutex
  BY DEF Downgrade, UnlockCommon
<1>3. MutexInv' /\ Phase = "write" /\ Phase' = "dg_post"
  BY <1>0, <1>1, <1>2, OwnerStep
<1>4. CountTypes /\ CountChanges("write", "dg_post") /\ N("write") >= 1
  BY <1>0, <1>1, <1>2, Move
<1>5. /\ N("read") = 0 /\ reader_wait = 0 /\ N("rd_depart") = 0 /\ N("rd_post") = 0
      /\ N("dg_post") = 0
      /\ readers_departing = 0 /\ writer_wait = 0
  BY <1>0, <1>3, <1>4, NoDowngrader DEF CountParts, DepartInv, Announced, Outstanding, TypeOK, CountTypes
<1>6. TypeOK'
  BY <1>0, <1>1, <1>2, Move, MaxReadersAssumption DEF Downgrade, UnlockCommon, TypeOK
<1>7. PendingInv'
  BY <1>0, <1>3, <1>4, <1>5, MaxReadersAssumption
     DEF CountParts, PendingInv, Announced, Downgrade, UnlockCommon, TypeOK, CountTypes, CountChanges, Change
<1>8. TokenInv'
  <2>1. r' = N("rd_wait")
    BY <1>0, <1>3, <1>4, <1>5, MaxReadersAssumption
       DEF CountParts, PendingInv, Announced, Downgrade, UnlockCommon, TypeOK, CountTypes
  <2>2. N("rd_wait")' = N("rd_wait") /\ N("rd_wait") \in Nat /\ reader_wait' = 0
    BY <1>4, <1>5 DEF CountTypes, CountChanges, Change, Downgrade, UnlockCommon
  <2> QED
    BY <1>3, <2>1, <2>2 DEF TokenInv, Announced, ToPost
<1>9. DepartInv'
  BY <1>0, <1>3, <1>4, <1>5
     DEF CountParts, DepartInv, Announced, Downgrade, UnlockCommon, TypeOK, CountTypes, CountChanges, Change
<1> QED
  BY <1>3, <1>6, <1>7, <1>8, <1>9 DEF LockInv

\* Each sem_post of rwlock_unlock_common's loop preserves the invariant.
LEMMA PostReaderPreserves ==
    ASSUME LockInv, NEW t \in Threads, PostReader(t)
    PROVE  LockInv'
<1>0. TypeOK /\ MutexInv /\ CountParts
  BY DEF LockInv, CountParts
<1>1. mutex = t /\ t # NoThread
  BY <1>0, ThreadsAssumption DEF MutexInv, PostReader
<1>2. Phase \in {"ul_post", "dg_post"} /\ Phase' = Phase
  BY <1>1 DEF PostReader, Phase
<1>3. CountTypes
  BY CountType DEF CountTypes, N
<1>4. /\ N("rd_wait")' = N("rd_wait") /\ N("read")' = N("read") /\ N("dg_post")' = N("dg_post")
      /\ N("rd_depart")' = N("rd_depart") /\ N("rd_post")' = N("rd_post")
  BY DEF PostReader, N
<1>5. TypeOK' /\ MutexInv'
  BY <1>0 DEF TypeOK, MutexInv, PostReader
<1>6. PendingInv'
  BY <1>0, <1>2, <1>4 DEF CountParts, PendingInv, Announced, PostReader
<1>7. TokenInv'
  BY <1>0, <1>2, <1>3, <1>4
     DEF CountParts, TokenInv, Announced, ToPost, PostReader, TypeOK, CountTypes
<1>8. DepartInv'
  BY <1>0, <1>2, <1>4 DEF CountParts, DepartInv, Announced, PostReader
<1> QED
  BY <1>5, <1>6, <1>7, <1>8 DEF LockInv

\* Releasing the mutex preserves the invariant.
LEMMA UnlockMutexPreserves ==
    ASSUME LockInv, NEW t \in Threads, UnlockMutex(t)
    PROVE  LockInv'
<1>0. TypeOK /\ MutexInv /\ CountParts
  BY DEF LockInv, CountParts
<1>1. PICK from \in {"ul_post", "dg_post"}, to \in {"idle", "read"} :
          /\ Goto(t, from, to)
          /\ from = "ul_post" <=> to = "idle"
  BY DEF UnlockMutex
<1>2. to \in Locations /\ from # to
  BY DEF Locations
<1>3. mutex = t /\ t # NoThread
  BY <1>0, <1>1, ThreadsAssumption DEF MutexInv, Goto
<1>4. Phase = from /\ Phase' = "none"
  BY <1>1, <1>3 DEF Phase, Goto, UnlockMutex
<1>5. CountTypes /\ CountChanges(from, to)
  BY <1>0, <1>1, <1>2, Move
<1>6. TypeOK'
  BY <1>0, <1>1, <1>2, Move DEF UnlockMutex, TypeOK
<1>7. MutexInv'
  BY <1>0, <1>1, <1>2, <1>3, Move, ThreadsAssumption DEF MutexInv, UnlockMutex
<1>8. r = 0
  BY <1>0, <1>4 DEF CountParts, TokenInv, ToPost, UnlockMutex, TypeOK
<1>9. PendingInv'
  BY <1>0, <1>1, <1>4, <1>5
     DEF CountParts, PendingInv, Announced, UnlockMutex, CountTypes, CountChanges, Change
<1>10. TokenInv'
  BY <1>0, <1>4, <1>5, <1>8
     DEF CountParts, TokenInv, Announced, ToPost, UnlockMutex, TypeOK, CountTypes, CountChanges, Change
<1>11. DepartInv'
  BY <1>0, <1>4, <1>5
     DEF CountParts, DepartInv, Announced, UnlockMutex, CountTypes, CountChanges, Change
<1> QED
  BY <1>6, <1>7, <1>9, <1>10, <1>11 DEF LockInv

\* LockInv is inductive.
LEMMA NextLockInv == LockInv /\ [Next]_vars => LockInv'
<1> SUFFICES ASSUME LockInv, [Next]_vars PROVE LockInv'
  OBVIOUS
<1>1. ASSUME NEW t \in Threads, LockRead(t) PROVE LockInv'
  BY <1>1, LockReadPreserves
<1>2. ASSUME NEW t \in Threads, RequestWrite(t) PROVE LockInv'
  BY <1>2, RequestWritePreserves
<1>3. ASSUME NEW t \in Threads, SemWaitReader(t) PROVE LockInv'
  BY <1>3, SemWaitReaderPreserves
<1>4. ASSUME NEW t \in Threads, SemWaitWriter(t) PROVE LockInv'
  BY <1>4, SemWaitWriterPreserves
<1>5. ASSUME NEW t \in Threads, UnlockRead(t) PROVE LockInv'
  BY <1>5, UnlockReadPreserves
<1>6. ASSUME NEW t \in Threads, Depart(t) PROVE LockInv'
  BY <1>6, DepartPreserves
<1>7. ASSUME NEW t \in Threads, PostWriter(t) PROVE LockInv'
  BY <1>7, PostWriterPreserves
<1>8. ASSUME NEW t \in Threads, LockMutex(t) PROVE LockInv'
  BY <1>8, LockMutexPreserves
<1>9. ASSUME NEW t \in Threads, Announce(t) PROVE LockInv'
  BY <1>9, AnnouncePreserves
<1>10. ASSUME NEW t \in Threads, AwaitReaders(t) PROVE LockInv'
  BY <1>10, AwaitReadersPreserves
<1>11. ASSUME NEW t \in Threads, UnlockWrite(t) PROVE LockInv'
  BY <1>11, UnlockWritePreserves
<1>12. ASSUME NEW t \in Threads, Downgrade(t) PROVE LockInv'
  BY <1>12, DowngradePreserves
<1>13. ASSUME NEW t \in Threads, PostReader(t) PROVE LockInv'
  BY <1>13, PostReaderPreserves
<1>14. ASSUME NEW t \in Threads, UnlockMutex(t) PROVE LockInv'
  BY <1>14, UnlockMutexPreserves
<1>15. CASE UNCHANGED vars
  BY <1>15 DEF vars, LockInv, TypeOK, MutexInv, PendingInv, TokenInv, DepartInv, Phase,
     Announced, ToPost, Outstanding, N
<1> QED
  BY <1>1, <1>2, <1>3, <1>4, <1>5, <1>6, <1>7, <1>8, <1>9, <1>10, <1>11, <1>12, <1>13, <1>14, <1>15 DEF Next, Step

(* The counters and semaphores of rwlock.c always say what the threads do, *)
(* whatever the number of threads below MAX_READERS.                       *)
THEOREM LockInvariant == Spec => []LockInv
<1>1. Init => LockInv
  BY InitLockInv
<1>2. LockInv /\ [Next]_vars => LockInv'
  BY NextLockInv
<1> QED
  BY <1>1, <1>2, PTL DEF Spec

(* Type correctness of the lock's state. *)
THEOREM TypeCorrect == Spec => []TypeOK
<1>1. LockInv => TypeOK
  BY DEF LockInv
<1> QED
  BY <1>1, LockInvariant, PTL

-----------------------------------------------------------------------------
(* The safety properties. *)

\* A location with count 0 is empty.
LEMMA EmptyWhenZero ==
    ASSUME NEW loc, N(loc) = 0
    PROVE  At(loc) = {}
<1>1. IsFiniteSet(ThreadsAt(pc, loc))
  BY CountType
<1> QED
  BY <1>1, FS_EmptySet DEF N, Count, At

\* The invariant leaves a writer no company.
LEMMA WriterAlone ==
    ASSUME LockInv, NEW t \in Writers
    PROVE  /\ mutex = t /\ Phase = "write"
           /\ Readers = {} /\ reader_wait = 0 /\ Writers = {t}
<1>0. t \in Threads /\ pc[t] = "write" /\ t # NoThread
  BY ThreadsAssumption DEF Writers, At, ThreadsAt
<1>1. mutex = t /\ Phase = "write"
  BY <1>0 DEF LockInv, MutexInv, Phase
<1>2. N("read") = 0 /\ reader_wait = 0
  <2>1. N("read") \in Nat /\ N("rd_depart") \in Nat
    BY CountType DEF N
  <2> QED
    BY <1>1, <2>1 DEF LockInv, DepartInv, Outstanding, TypeOK
<1>3. N("dg_post") = 0
  BY <1>1, NoDowngrader DEF LockInv
<1>4. Readers = {}
  BY <1>2, <1>3, EmptyWhenZero DEF Readers
<1>5. Writers = {t}
  BY <1>0, <1>1 DEF LockInv, MutexInv, Writers, At, ThreadsAt
<1> QED
  BY <1>1, <1>2, <1>4, <1>5

(* A writer is alone in its critical section: rwlock_lock_write really waits *)
(* for every reader, whenever they depart between its two atomics.           *)
THEOREM Exclusion == Spec => []MutualExclusion
<1>1. LockInv => MutualExclusion
  BY WriterAlone DEF MutualExclusion
<1> QED
  BY <1>1, LockInvariant, PTL

\* A token in writer_wait is for the one writer that sleeps on it.
THEOREM TokenMeetsWriter == Spec => []NoStrayWriterToken
<1>1. ASSUME LockInv, writer_wait > 0
      PROVE  writer_wait = 1 /\ N("wr_wait") = 1 /\ N("rd_post") = 0
  <2>1. N("rd_post") \in Nat /\ writer_wait \in Nat
    BY <1>1, CountType DEF N, LockInv, TypeOK
  <2>2. Phase = "wr_wait"
    BY <1>1 DEF LockInv, DepartInv, Announced
  <2>3. writer_wait + N("rd_post") <= 1
    BY <1>1, <2>1, <2>2 DEF LockInv, DepartInv
  <2>4. mutex \in Threads /\ pc[mutex] = "wr_wait"
    BY <1>1, <2>2 DEF Phase, LockInv, TypeOK
  <2>5. ThreadsAt(pc, "wr_wait") = {mutex}
    BY <1>1, <2>4 DEF ThreadsAt, LockInv, MutexInv
  <2>6. N("wr_wait") = 1
    BY <2>5, FS_Singleton DEF N, Count
  <2> QED
    BY <1>1, <2>1, <2>3, <2>6
<1>2. LockInv => NoStrayWriterToken
  BY <1>1 DEF NoStrayWriterToken
<1> QED
  BY <1>2, LockInvariant, PTL

(* num_pending and readers_departing stay within an int_fast32_t. *)
THEOREM NoOverflow == Spec => []CountersBounded
<1>1. LockInv => CountersBounded
  <2> SUFFICES ASSUME LockInv PROVE CountersBounded
    OBVIOUS
  <2>1. CountTypes
    BY CountType DEF CountTypes, N
  <2>2. /\ N("rd_wait") + N("read") + N("dg_post") <= Cardinality(Threads)
        /\ N("rd_wait") + N("read") + N("rd_depart") <= Cardinality(Threads)
        /\ Cardinality(Threads) \in Nat
    BY PendingBound
  <2>3. num_pending \in (-MAX_READERS) .. Cardinality(Threads)
    BY <2>1, <2>2, MaxReadersAssumption DEF LockInv, PendingInv, CountTypes
  <2>4. Outstanding \in 0 .. Cardinality(Threads)
    <3>1. reader_wait \in Nat /\ reader_wait <= N("rd_wait")
      BY <2>1 DEF LockInv, TokenInv, TypeOK, ToPost, CountTypes
    <3> QED
      BY <2>1, <2>2, <3>1 DEF Outstanding, CountTypes
  <2>5. readers_departing \in (-Cardinality(Threads)) .. Cardinality(Threads)
    <3>1. CASE ~Announced
      BY <2>2, <3>1 DEF LockInv, DepartInv
    <3>2. CASE Phase = "wr_add"
      BY <2>2, <2>4, <3>2 DEF LockInv, DepartInv, TypeOK
    <3>3. CASE Phase = "wr_wait"
      BY <2>2, <2>4, <3>3 DEF LockInv, DepartInv
    <3>4. CASE Phase = "write"
      BY <2>2, <3>4 DEF LockInv, DepartInv
    <3> QED
      BY <3>1, <3>2, <3>3, <3>4 DEF Announced
  <2> QED
    BY <2>3, <2>5 DEF CountersBounded
<1> QED
  BY <1>1, LockInvariant, PTL

(* No wakeup of rwlock.c's semaphores is lost, however the posts, the two     *)
(* atomics of a departing reader and those of the writer interleave.          *)
THEOREM NoLostWakeup == Spec => []SomeoneAwake
<1>1. ASSUME LockInv, \A t \in Threads : pc[t] # "idle" => Blocked(t), NEW t \in Threads, pc[t] # "idle"
      PROVE  FALSE
  <2>1. \A u \in Threads : pc[u] \in {"idle", "rd_wait", "wr_mutex", "wr_wait"}
    BY <1>1 DEF Blocked
  <2>2. CountTypes /\ TypeOK /\ MutexInv
    BY <1>1, CountType DEF CountTypes, N, LockInv
  <2>3. N("read") = 0 /\ N("rd_depart") = 0 /\ N("rd_post") = 0
    <3>1. At("read") = {} /\ At("rd_depart") = {} /\ At("rd_post") = {}
      BY <2>1 DEF At, ThreadsAt
    <3> QED
      BY <3>1, FS_EmptySet DEF N, Count, At
  <2>4. mutex = NoThread
    <3> SUFFICES ASSUME mutex \in Threads PROVE FALSE
      BY <2>2 DEF TypeOK
    <3>1. pc[mutex] = "wr_wait" /\ mutex # NoThread
      BY <2>1, <2>2, ThreadsAssumption DEF MutexInv
    <3>2. Phase = "wr_wait" /\ writer_wait = 0
      BY <1>1, <3>1 DEF Phase, Blocked
    <3>3. Outstanding # 0
      BY <1>1, <2>3, <3>2 DEF LockInv, DepartInv
    <3>4. reader_wait > 0
      BY <2>2, <2>3, <3>3 DEF Outstanding, TypeOK
    <3>5. N("rd_wait") > 0
      BY <1>1, <2>2, <3>2, <3>4 DEF LockInv, TokenInv, ToPost, TypeOK, CountTypes
    <3>6. At("rd_wait") # {}
      BY <3>5, FS_EmptySet DEF N, Count, At
    <3>7. PICK u \in Threads : pc[u] = "rd_wait"
      BY <3>6 DEF At, ThreadsAt
    <3> QED
      BY <1>1, <3>4, <3>7 DEF Blocked
  <2>5. reader_wait = N("rd_wait")
    BY <1>1, <2>2, <2>4 DEF LockInv, TokenInv, Announced, Phase, ToPost, TypeOK, CountTypes
  <2>6. pc[t] = "rd_wait" => reader_wait > 0
    <3>1. Count(pc, pc[t]) >= 1
      BY CountPositive
    <3> QED
      BY <2>2, <2>5, <3>1 DEF N, TypeOK
  <2>7. pc[t] # "wr_wait"
    BY <2>2, <2>4, ThreadsAssumption DEF MutexInv
  <2> QED
    BY <1>1, <2>4, <2>6, <2>7 DEF Blocked
<1>2. LockInv => SomeoneAwake
  BY <1>1 DEF SomeoneAwake
<1> QED
  BY <1>2, LockInvariant, PTL

-----------------------------------------------------------------------------
(* The refinement of the abstract lock. *)

Granted(loc) == loc \in {"read", "dg_post"}

\* How one thread's move changes who holds the lock.
LEMMA HoldersMove ==
    ASSUME TypeOK, NEW t \in Threads, NEW from, NEW to \in Locations,
           from # to, Goto(t, from, to)
    PROVE  /\ Readers' = IF Granted(to) THEN Readers \cup {t} ELSE Readers \ {t}
           /\ Writers' = IF to = "write" THEN Writers \cup {t} ELSE Writers \ {t}
           /\ t \in Readers <=> Granted(from)
           /\ t \in Writers <=> from = "write"
<1>1. /\ pc[t] = from /\ pc'[t] = to
      /\ \A u \in Threads : u # t => pc'[u] = pc[u]
  BY Move
<1> QED
  BY <1>1 DEF Readers, Writers, At, ThreadsAt, Granted

\* A step between locations that hold nothing, or hold the same, changes nobody's hold.
LEMMA HoldersStutter ==
    ASSUME TypeOK, NEW t \in Threads, NEW from, NEW to \in Locations, from # to,
           Goto(t, from, to), Granted(from) <=> Granted(to), from = "write" <=> to = "write"
    PROVE  UNCHANGED <<Readers, Writers>>
<1>1. /\ Readers' = IF Granted(to) THEN Readers \cup {t} ELSE Readers \ {t}
      /\ Writers' = IF to = "write" THEN Writers \cup {t} ELSE Writers \ {t}
      /\ t \in Readers <=> Granted(from)
      /\ t \in Writers <=> from = "write"
  BY HoldersMove
<1> QED
  BY <1>1

\* The lock is free where the code lets a writer in.
LEMMA WriterEntry ==
    ASSUME LockInv, NEW t \in Threads,
           \/ pc[t] = "wr_sub" /\ num_pending = 0
           \/ pc[t] = "wr_add" /\ readers_departing + r = 0
           \/ pc[t] = "wr_wait" /\ writer_wait > 0
    PROVE  Readers = {} /\ Writers = {}
<1>1. mutex = t /\ Phase = pc[t]
  BY ThreadsAssumption DEF LockInv, MutexInv, Phase
<1>2. CountTypes
  BY CountType DEF CountTypes, N
<1>3. N("dg_post") = 0
  BY <1>1, NoDowngrader DEF LockInv
<1>4. N("read") = 0
  <2>1. CASE Phase = "wr_sub"
    <3>1. num_pending = 0
      BY <1>1, <2>1
    <3>2. ~Announced
      BY <2>1 DEF Announced
    <3>3. num_pending = N("rd_wait") + N("read") + N("dg_post") - 0
      BY <3>2 DEF LockInv, PendingInv
    <3> QED
      BY <1>2, <1>3, <3>1, <3>3 DEF CountTypes
  <2>2. CASE Phase = "wr_add"
    BY <1>1, <1>2, <2>2 DEF LockInv, DepartInv, Outstanding, TypeOK, CountTypes
  <2>3. CASE Phase = "wr_wait"
    <3>1. writer_wait + N("rd_post") = IF Outstanding = 0 THEN 1 ELSE 0
      BY <2>3 DEF LockInv, DepartInv
    <3>2. Outstanding = 0
      BY <1>1, <1>2, <2>3, <3>1 DEF LockInv, TypeOK, CountTypes
    <3> QED
      BY <1>2, <3>2 DEF LockInv, Outstanding, TypeOK, CountTypes
  <2> QED
    BY <1>1, <2>1, <2>2, <2>3
<1>5. Readers = {}
  BY <1>3, <1>4, EmptyWhenZero DEF Readers
<1>6. Writers = {}
  BY <1>1, WriterAlone
<1> QED
  BY <1>5, <1>6

\* A reader is let in only while nobody writes.
LEMMA ReaderEntry ==
    ASSUME LockInv, num_pending + 1 >= 0 \/ reader_wait > 0
    PROVE  Writers = {}
<1> SUFFICES ASSUME NEW t \in Writers PROVE FALSE
  OBVIOUS
<1>1. Phase = "write" /\ reader_wait = 0
  BY WriterAlone
<1>2. CountTypes
  BY CountType DEF CountTypes, N
<1>3. num_pending = N("rd_wait") + N("read") + N("dg_post") - MAX_READERS
  BY <1>1 DEF LockInv, PendingInv, Announced
<1>4. num_pending + 1 < 0
  <2>1. N("dg_post") = 0
    BY <1>1, NoDowngrader DEF LockInv
  <2>2. pc[t] = "write" /\ t \in Threads
    BY DEF Writers, At, ThreadsAt
  <2>3. N("write") >= 1 /\ N("write") \in Nat
    BY <2>2, CountPositive, CountType DEF N
  <2>4. N("rd_wait") + N("read") + N("write") <= Cardinality(Threads)
    BY CountSum DEF N
  <2>5. Cardinality(Threads) \in Nat
    BY ThreadsAssumption, FS_CardinalityType
  <2> QED
    BY <1>2, <1>3, <2>1, <2>3, <2>4, <2>5, MaxReadersAssumption DEF CountTypes
<1> QED
  BY <1>1, <1>4 DEF LockInv, TypeOK

\* Every step of a thread is a step of the abstract lock or stutters there.
LEMMA AbstractStep ==
    ASSUME LockInv, NEW t \in Threads, LockRead(t) \/ RequestWrite(t) \/ Step(t)
    PROVE  Abstract!Next \/ UNCHANGED <<Readers, Writers>>
<1>0. TypeOK
  BY DEF LockInv
<1>1. ASSUME NEW from, NEW to \in Locations, from # to, Goto(t, from, to),
             Granted(from) <=> Granted(to), from = "write" <=> to = "write"
      PROVE  UNCHANGED <<Readers, Writers>>
  BY <1>0, <1>1, HoldersStutter
<1>2. ASSUME NEW from \in {"idle", "rd_wait"}, Goto(t, from, "read"), Writers = {}
      PROVE  Abstract!Next
  <2>1. Readers' = Readers \cup {t} /\ Writers' = Writers
    BY <1>0, <1>2, HoldersMove DEF Granted, Locations
  <2> QED
    BY <1>2, <2>1 DEF Abstract!Next, Abstract!AcquireRead
<1>3. ASSUME NEW to \in {"idle", "rd_depart"}, Goto(t, "read", to)
      PROVE  Abstract!Next
  <2>1. Readers' = Readers \ {t} /\ Writers' = Writers /\ t \in Readers
    BY <1>0, <1>3, HoldersMove DEF Granted, Locations
  <2> QED
    BY <2>1 DEF Abstract!Next, Abstract!ReleaseRead
<1>4. ASSUME NEW from \in {"wr_sub", "wr_add", "wr_wait"}, Goto(t, from, "write"),
             Readers = {}, Writers = {}
      PROVE  Abstract!Next
  <2>1. Readers' = Readers /\ Writers' = {t}
    BY <1>0, <1>4, HoldersMove DEF Granted, Locations
  <2> QED
    BY <1>4, <2>1 DEF Abstract!Next, Abstract!AcquireWrite
<1>5. CASE LockRead(t)
  <2>1. CASE num_pending + 1 < 0
    BY <1>1, <1>5, <2>1 DEF LockRead, Granted, Locations
  <2>2. CASE ~(num_pending + 1 < 0)
    <3>1. Writers = {}
      BY <2>2, ReaderEntry DEF LockInv, TypeOK
    <3> QED
      BY <1>2, <1>5, <2>2, <3>1 DEF LockRead
  <2> QED
    BY <2>1, <2>2
<1>6. CASE RequestWrite(t)
  BY <1>1, <1>6 DEF RequestWrite, Granted, Locations
<1>7. CASE SemWaitReader(t)
  BY <1>2, <1>7, ReaderEntry DEF SemWaitReader
<1>8. CASE SemWaitWriter(t)
  <2>1. Readers = {} /\ Writers = {}
    BY <1>8, WriterEntry DEF SemWaitWriter, Goto
  <2> QED
    BY <1>4, <1>8, <2>1 DEF SemWaitWriter
<1>9. CASE UnlockRead(t)
  BY <1>3, <1>9 DEF UnlockRead
<1>10. CASE Depart(t)
  BY <1>1, <1>10 DEF Depart, Granted, Locations
<1>11. CASE PostWriter(t)
  BY <1>1, <1>11 DEF PostWriter, Granted, Locations
<1>12. CASE LockMutex(t)
  BY <1>1, <1>12 DEF LockMutex, Granted, Locations
<1>13. CASE Announce(t)
  <2>1. CASE num_pending # 0
    BY <1>1, <1>13, <2>1 DEF Announce, Granted, Locations
  <2>2. CASE num_pending = 0
    <3>1. Readers = {} /\ Writers = {}
      BY <1>13, <2>2, WriterEntry DEF Announce, Goto
    <3> QED
      BY <1>4, <1>13, <2>2, <3>1 DEF Announce
  <2> QED
    BY <2>1, <2>2
<1>14. CASE AwaitReaders(t)
  <2>1. CASE readers_departing + r # 0
    BY <1>1, <1>14, <2>1 DEF AwaitReaders, Granted, Locations
  <2>2. CASE readers_departing + r = 0
    <3>1. Readers = {} /\ Writers = {}
      BY <1>14, <2>2, WriterEntry DEF AwaitReaders, Goto
    <3> QED
      BY <1>4, <1>14, <2>2, <3>1 DEF AwaitReaders
  <2> QED
    BY <2>1, <2>2
<1>15. ASSUME Goto(t, "write", "ul_post") \/ Goto(t, "write", "dg_post")
       PROVE  t \in Writers /\ Writers = {t}
  <2>1. t \in Writers
    BY <1>15 DEF Goto, Writers, At, ThreadsAt
  <2> QED
    BY <2>1, WriterAlone
<1>16. CASE UnlockWrite(t)
  <2>1. Goto(t, "write", "ul_post")
    BY <1>16 DEF UnlockWrite, UnlockCommon
  <2>2. Writers' = Writers \ {t} /\ Readers' = Readers \ {t} /\ t \notin Readers
    BY <1>0, <2>1, HoldersMove DEF Granted, Locations
  <2> QED
    BY <1>15, <2>1, <2>2 DEF Abstract!Next, Abstract!ReleaseWrite
<1>17. CASE Downgrade(t)
  <2>1. Goto(t, "write", "dg_post")
    BY <1>17 DEF Downgrade, UnlockCommon
  <2>2. Writers' = Writers \ {t} /\ Readers' = Readers \cup {t}
    BY <1>0, <2>1, HoldersMove DEF Granted, Locations
  <2> QED
    BY <1>15, <2>1, <2>2 DEF Abstract!Next, Abstract!Downgrade
<1>18. CASE PostReader(t)
  BY <1>18 DEF PostReader, Readers, Writers, At
<1>19. CASE UnlockMutex(t)
  BY <1>1, <1>19 DEF UnlockMutex, Granted, Locations
<1> QED
  BY <1>5, <1>6, <1>7, <1>8, <1>9, <1>10, <1>11, <1>12, <1>13, <1>14, <1>16, <1>17,
     <1>18, <1>19 DEF Step

(* rwlock.c implements the abstract reader-writer lock for any number of *)
(* threads: every atomic of the code grants, releases or downgrades the  *)
(* lock as AbstractRWLock allows, or changes no thread's hold.           *)
THEOREM Refinement == Spec => AbstractSpec
<1>1. Init => Abstract!Init
  BY DEF Init, Abstract!Init, Readers, Writers, At, ThreadsAt
<1>2. LockInv /\ [Next]_vars => [Abstract!Next]_<<Readers, Writers>>
  <2> SUFFICES ASSUME LockInv, [Next]_vars
               PROVE  [Abstract!Next]_<<Readers, Writers>>
    OBVIOUS
  <2>1. CASE Next
    BY <2>1, AbstractStep DEF Next
  <2>2. CASE UNCHANGED vars
    BY <2>2 DEF vars, Readers, Writers, At
  <2> QED
    BY <2>1, <2>2
<1> QED
  BY <1>1, <1>2, LockInvariant, PTL DEF Spec, AbstractSpec, Abstract!Spec
==============================================================================
