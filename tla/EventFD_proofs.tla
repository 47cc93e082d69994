--------------------------- MODULE EventFD_proofs ---------------------------
(***************************************************************************)
(* Proofs about EventFD for any threads, any width of the counter and any  *)
(* values written, in both modes.  Every property, and that EventFD        *)
(* implements AbstractEventFD, follows from EventInv, which each step      *)
(* preserves: the mutex makes at most one thread be between two steps of a *)
(* read or a write.                                                        *)
(***************************************************************************)
EXTENDS EventFDRefinement, TLAPS

USE EventFDAssumption

\* Init establishes the invariant: the event is set iff the counter is not 0.
LEMMA InitInv == Init => EventInv
<1> SUFFICES ASSUME Init PROVE EventInv
    OBVIOUS
<1>1. TypeOK
    BY DEF Init, TypeOK, Locations
<1>2. MutexInv /\ ValueInv
    BY DEF Init, MutexInv, ValueInv, InWrite
<1>3. CountInv /\ TriggerInv
    BY DEF Init, CountInv, TriggerInv, Added
<1> QED
    BY <1>1, <1>2, <1>3 DEF EventInv

\* Where t was determines where t is; nobody else moves.
LEMMA GotoPc ==
    ASSUME TypeOK, NEW t \in Threads, NEW from, NEW to \in Locations, Goto(t, from, to)
    PROVE  /\ pc' \in [Threads -> Locations]
           /\ pc[t] = from /\ pc'[t] = to
           /\ \A u \in Threads : u # t => pc'[u] = pc[u]
BY DEF TypeOK, Goto

\* Calling read or write, being woken and being interrupted keep the counter,
\* the event and the mutex, and move a thread outside the critical sections.
LEMMA Outside ==
    ASSUME EventInv, NEW t \in Threads, NEW from, NEW to \in Locations, Goto(t, from, to),
           from \notin {"rd_ctx", "rd_clear", "wr_ctx", "wr_trigger"},
           to \notin {"rd_ctx", "rd_clear", "wr_ctx", "wr_trigger"},
           to = "write" => val'[t] \in Values,
           val' \in [Threads -> 0 .. UINT64_MAX],
           \A u \in Threads : u # t => val'[u] = val[u],
           UNCHANGED <<counter, is_triggered, readable, semaphore, nonblock, mutex, owed>>
    PROVE  EventInv'
<1>1. /\ pc' \in [Threads -> Locations]
      /\ pc[t] = from /\ pc'[t] = to
      /\ \A u \in Threads : u # t => pc'[u] = pc[u]
    BY GotoPc DEF EventInv
<1>2. TypeOK'
    BY <1>1 DEF EventInv, TypeOK
<1>3. MutexInv'
    BY <1>1 DEF EventInv, MutexInv
<1>4. ValueInv'
    BY <1>1 DEF EventInv, ValueInv, InWrite
<1>5. CountInv'
    BY <1>1 DEF EventInv, CountInv, Added
<1>6. TriggerInv'
    BY <1>1 DEF EventInv, TriggerInv, Added, ReadRest
<1> QED
    BY <1>2, <1>3, <1>4, <1>5, <1>6 DEF EventInv

\* Taking the mutex: no other thread is in a critical section.
LEMMA Locking ==
    ASSUME EventInv, NEW t \in Threads, NEW from, NEW to, Lock(t, from, to),
           \/ from = "read" /\ to = "rd_ctx"
           \/ from = "write" /\ to = "wr_ctx"
    PROVE  EventInv'
<1>1. /\ pc' \in [Threads -> Locations]
      /\ pc[t] = from /\ pc'[t] = to
      /\ \A u \in Threads : u # t => pc'[u] = pc[u]
    BY GotoPc DEF EventInv, Lock, Locations
<1>2. mutex = NoThread /\ mutex' = t /\ UNCHANGED <<counter, is_triggered, readable, semaphore, nonblock, val, owed>>
    BY DEF Lock
<1>3. TypeOK'
    BY <1>1, <1>2 DEF EventInv, TypeOK
<1>4. MutexInv'
    BY <1>1, <1>2 DEF EventInv, MutexInv
<1>5. ValueInv'
    BY <1>1, <1>2 DEF EventInv, ValueInv, InWrite
<1>6. CountInv'
    BY <1>1, <1>2 DEF EventInv, CountInv, Added
<1>7. TriggerInv'
    BY <1>1, <1>2 DEF EventInv, TriggerInv, Added, ReadRest
<1> QED
    BY <1>3, <1>4, <1>5, <1>6, <1>7 DEF EventInv

\* A thread in a critical section is the only one there.
LEMMA Alone ==
    ASSUME EventInv, NEW t \in Threads,
           pc[t] \in {"rd_ctx", "rd_clear", "wr_ctx", "wr_trigger"}
    PROVE  /\ mutex = t
           /\ \A u \in Threads : u # t => pc[u] \notin {"rd_ctx", "rd_clear", "wr_ctx", "wr_trigger"}
BY DEF EventInv, MutexInv

\* eventfd_ctx_read that finds 0 preserves the invariant.
LEMMA ReadEmptyInv == ASSUME EventInv, NEW t \in Threads, ReadEmpty(t) PROVE EventInv'
<1> DEFINE to == IF nonblock THEN "idle" ELSE "rd_poll"
<1>1. /\ pc' \in [Threads -> Locations]
      /\ pc[t] = "rd_ctx" /\ pc'[t] = to
      /\ \A u \in Threads : u # t => pc'[u] = pc[u]
    BY GotoPc DEF EventInv, ReadEmpty, Locations
<1>2. mutex' = NoThread /\ UNCHANGED <<counter, is_triggered, readable, semaphore, nonblock, val, owed>>
    BY DEF ReadEmpty
<1>3. \A u \in Threads : u # t => pc[u] \notin {"rd_ctx", "rd_clear", "wr_ctx", "wr_trigger"}
    BY <1>1, Alone
<1>4. TypeOK'
    BY <1>1, <1>2 DEF EventInv, TypeOK
<1>5. MutexInv'
    BY <1>1, <1>2, <1>3 DEF EventInv, MutexInv
<1>6. ValueInv'
    BY <1>1, <1>2 DEF EventInv, ValueInv, InWrite
<1>7. CountInv'
    BY <1>1, <1>2 DEF EventInv, CountInv, Added
<1>8. TriggerInv'
    BY <1>1, <1>2 DEF EventInv, TriggerInv, Added, ReadRest
<1> QED
    BY <1>4, <1>5, <1>6, <1>7, <1>8 DEF EventInv

\* Deciding to clear the event preserves the invariant.
LEMMA ReadMustClearInv == ASSUME EventInv, NEW t \in Threads, ReadMustClear(t) PROVE EventInv'
<1>1. /\ pc' \in [Threads -> Locations]
      /\ pc[t] = "rd_ctx" /\ pc'[t] = "rd_clear"
      /\ \A u \in Threads : u # t => pc'[u] = pc[u]
    BY GotoPc DEF EventInv, ReadMustClear, Locations
<1>2. /\ counter > 0 /\ ReadRest = 0 /\ is_triggered
      /\ UNCHANGED <<counter, is_triggered, readable, semaphore, nonblock, mutex, val, owed>>
    BY DEF ReadMustClear
<1>4. TypeOK'
    BY <1>1, <1>2 DEF EventInv, TypeOK
<1>5. MutexInv'
    BY <1>1, <1>2 DEF EventInv, MutexInv
<1>6. ValueInv'
    BY <1>1, <1>2 DEF EventInv, ValueInv, InWrite
<1>7. CountInv'
    BY <1>1, <1>2 DEF EventInv, CountInv, Added
<1>8. TriggerInv'
    BY <1>1, <1>2 DEF EventInv, TriggerInv, Added, ReadRest
<1> QED
    BY <1>4, <1>5, <1>6, <1>7, <1>8 DEF EventInv

\* Both ways a read ends take what they return off the counter.
LEMMA ReadDoneInv ==
    ASSUME EventInv, NEW t \in Threads, NEW from \in {"rd_ctx", "rd_clear"}, ReadDone(t, from),
           counter > 0,
           is_triggered' \in BOOLEAN, readable' = is_triggered',
           ReadRest > 0 => is_triggered' = is_triggered,
           ReadRest = 0 => is_triggered' = FALSE
    PROVE  EventInv'
<1>1. /\ pc' \in [Threads -> Locations]
      /\ pc[t] = from /\ pc'[t] = "idle"
      /\ \A u \in Threads : u # t => pc'[u] = pc[u]
    BY GotoPc DEF EventInv, ReadDone, Locations
<1>2. /\ counter' = ReadRest /\ owed' = owed - ReadValue
      /\ mutex' = NoThread /\ UNCHANGED <<semaphore, nonblock, val>>
    BY DEF ReadDone
<1>3. \A u \in Threads : u # t => pc[u] \notin {"rd_ctx", "rd_clear", "wr_ctx", "wr_trigger"}
    BY <1>1, Alone
<1>4. /\ counter \in 0 .. UINT64_MAX - 1 /\ owed \in Int
      /\ ReadRest \in 0 .. UINT64_MAX - 1 /\ ReadValue \in Int
      /\ ReadRest = counter - ReadValue
    BY DEF EventInv, TypeOK, ReadRest, ReadValue
<1>5. TypeOK'
    BY <1>1, <1>2, <1>4 DEF EventInv, TypeOK
<1>6. MutexInv'
    BY <1>1, <1>2, <1>3 DEF EventInv, MutexInv
<1>7. ValueInv'
    BY <1>1, <1>2 DEF EventInv, ValueInv, InWrite
<1>8. CountInv'
    BY <1>1, <1>2, <1>3, <1>4 DEF EventInv, CountInv, Added
<1>9. TriggerInv'
  <2>1. counter' > 0 => is_triggered'
      BY <1>1, <1>2, <1>3, <1>4 DEF EventInv, TriggerInv, Added
  <2>2. \A u \in Threads : pc'[u] # "rd_clear"
      BY <1>1, <1>3
  <2>3. is_triggered' => counter' > 0
      BY <1>2, <1>4
  <2> QED
      BY <2>1, <2>2, <2>3 DEF TriggerInv
<1> QED
    BY <1>5, <1>6, <1>7, <1>8, <1>9 DEF EventInv

\* eventfd_ctx_write that fails preserves the invariant.
LEMMA WriteFailsInv == ASSUME EventInv, NEW t \in Threads, WriteFails(t) PROVE EventInv'
<1>1. /\ pc' \in [Threads -> Locations]
      /\ pc[t] = "wr_ctx" /\ pc'[t] = "idle"
      /\ \A u \in Threads : u # t => pc'[u] = pc[u]
    BY GotoPc DEF EventInv, WriteFails, Locations
<1>2. /\ mutex' = NoThread /\ val' = [val EXCEPT ![t] = 0]
      /\ UNCHANGED <<counter, is_triggered, readable, semaphore, nonblock, owed>>
    BY DEF WriteFails
<1>3. \A u \in Threads : u # t => pc[u] \notin {"rd_ctx", "rd_clear", "wr_ctx", "wr_trigger"}
    BY <1>1, Alone
<1>4. TypeOK'
    BY <1>1, <1>2 DEF EventInv, TypeOK
<1>5. MutexInv'
    BY <1>1, <1>2, <1>3 DEF EventInv, MutexInv
<1>6. ValueInv'
    BY <1>1, <1>2 DEF EventInv, TypeOK, ValueInv, InWrite
<1>7. CountInv'
    BY <1>1, <1>2, <1>3 DEF EventInv, CountInv, Added
<1>8. TriggerInv'
    BY <1>1, <1>2, <1>3 DEF EventInv, TriggerInv, Added, ReadRest
<1> QED
    BY <1>4, <1>5, <1>6, <1>7, <1>8 DEF EventInv

\* eventfd_ctx_write's addition preserves the invariant, and does not overflow.
LEMMA WriteAddInv == ASSUME EventInv, NEW t \in Threads, WriteAdd(t) PROVE EventInv'
<1>1. /\ pc' \in [Threads -> Locations]
      /\ pc[t] = "wr_ctx" /\ pc'[t] = "wr_trigger"
      /\ \A u \in Threads : u # t => pc'[u] = pc[u]
    BY GotoPc DEF EventInv, WriteAdd, Locations
<1>2. /\ ~Overflows(val[t]) /\ counter' = counter + val[t]
      /\ UNCHANGED <<is_triggered, readable, semaphore, nonblock, mutex, val, owed>>
    BY DEF WriteAdd
<1>3. \A u \in Threads : u # t => pc[u] \notin {"rd_ctx", "rd_clear", "wr_ctx", "wr_trigger"}
    BY <1>1, Alone
<1>4. /\ counter \in 0 .. UINT64_MAX - 1 /\ owed \in Int /\ val[t] \in 0 .. UINT64_MAX
      /\ val[t] \in Values
    BY <1>1 DEF EventInv, TypeOK, ValueInv, InWrite
<1>5. TypeOK'
    BY <1>1, <1>2, <1>4 DEF EventInv, TypeOK, Overflows
<1>6. MutexInv'
    BY <1>1, <1>2 DEF EventInv, MutexInv
<1>7. ValueInv'
    BY <1>1, <1>2 DEF EventInv, ValueInv, InWrite
<1>8. CountInv'
    BY <1>1, <1>2, <1>3, <1>4 DEF EventInv, CountInv, Added
<1>9. TriggerInv'
    BY <1>1, <1>2, <1>3, <1>4 DEF EventInv, TriggerInv, Added
<1> QED
    BY <1>5, <1>6, <1>7, <1>8, <1>9 DEF EventInv

\* kqueue_event_trigger at the end of a write preserves the invariant.
LEMMA WriteTriggerInv == ASSUME EventInv, NEW t \in Threads, WriteTrigger(t) PROVE EventInv'
<1>1. /\ pc' \in [Threads -> Locations]
      /\ pc[t] = "wr_trigger" /\ pc'[t] = "idle"
      /\ \A u \in Threads : u # t => pc'[u] = pc[u]
    BY GotoPc DEF EventInv, WriteTrigger, Locations
<1>2. /\ is_triggered' = TRUE /\ readable' = (readable \/ ~is_triggered)
      /\ owed' = owed + val[t] /\ mutex' = NoThread /\ val' = [val EXCEPT ![t] = 0]
      /\ UNCHANGED <<counter, semaphore, nonblock>>
    BY DEF WriteTrigger
<1>3. \A u \in Threads : u # t => pc[u] \notin {"rd_ctx", "rd_clear", "wr_ctx", "wr_trigger"}
    BY <1>1, Alone
<1>4. /\ counter \in 0 .. UINT64_MAX - 1 /\ owed \in Int /\ val[t] \in 0 .. UINT64_MAX
      /\ val[t] \in Values /\ owed + val[t] = counter /\ owed >= 0
    BY <1>1 DEF EventInv, TypeOK, ValueInv, InWrite, CountInv, Added
<1>5. readable' = TRUE
    BY <1>2 DEF EventInv, TypeOK, TriggerInv
<1>6. TypeOK'
    BY <1>1, <1>2, <1>4, <1>5 DEF EventInv, TypeOK
<1>7. MutexInv'
    BY <1>1, <1>2, <1>3 DEF EventInv, MutexInv
<1>8. ValueInv'
    BY <1>1, <1>2 DEF EventInv, TypeOK, ValueInv, InWrite
<1>9. CountInv'
    BY <1>1, <1>2, <1>3, <1>4 DEF EventInv, CountInv, Added
<1>10. TriggerInv'
  <2>1. 0 \notin Values => counter' > 0
    <3>1. 0 \notin Values => val[t] > 0 /\ counter' = counter
        BY <1>2, <1>4
    <3>2. 0 \notin Values => counter > 0
        BY <1>4, <3>1
    <3> QED
        BY <3>1, <3>2
  <2> QED
      BY <2>1, <1>1, <1>2, <1>3, <1>5 DEF TriggerInv
<1> QED
    BY <1>6, <1>7, <1>8, <1>9, <1>10 DEF EventInv

\* Every step of a call in progress preserves the invariant.
LEMMA StepInv == ASSUME EventInv, NEW t \in Threads, Step(t) PROVE EventInv'
<1>1. CASE ReadLock(t)
    BY <1>1, Locking DEF ReadLock
<1>2. CASE ReadEmpty(t)
    BY <1>2, ReadEmptyInv
<1>3. CASE ReadMustClear(t)
    BY <1>3, ReadMustClearInv
<1>4. CASE ReadClear(t)
  <2>1. pc[t] = "rd_clear"
      BY <1>4 DEF ReadClear, ReadDone, Goto
  <2>2. counter > 0 /\ ReadRest = 0
      BY <2>1 DEF EventInv, TriggerInv
  <2>3. ReadDone(t, "rd_clear") /\ readable' = FALSE /\ is_triggered' = FALSE
      BY <1>4 DEF ReadClear
  <2>4. ~(ReadRest > 0)
      BY <2>2
  <2> QED
      BY <2>2, <2>3, <2>4, ReadDoneInv
<1>5. CASE ReadKeep(t)
  <2>1. readable = is_triggered /\ is_triggered \in BOOLEAN
      BY DEF EventInv, TriggerInv, TypeOK
  <2>2. ReadRest = 0 => is_triggered' = FALSE
      BY <1>5, <2>1 DEF ReadKeep
  <2> QED
      BY <1>5, <2>1, <2>2, ReadDoneInv DEF ReadKeep
<1>6. CASE ReadWoken(t)
    BY <1>6, Outside DEF ReadWoken, EventInv, TypeOK, Locations
<1>7. CASE WriteLock(t)
    BY <1>7, Locking DEF WriteLock
<1>8. CASE WriteFails(t)
    BY <1>8, WriteFailsInv
<1>9. CASE WriteAdd(t)
    BY <1>9, WriteAddInv
<1>10. CASE WriteTrigger(t)
    BY <1>10, WriteTriggerInv
<1> QED
    BY <1>1, <1>2, <1>3, <1>4, <1>5, <1>6, <1>7, <1>8, <1>9, <1>10 DEF Step

\* EventInv is inductive.
LEMMA NextInv == EventInv /\ [Next]_vars => EventInv'
<1> SUFFICES ASSUME EventInv, [Next]_vars PROVE EventInv'
    OBVIOUS
<1>1. CASE UNCHANGED vars
    BY <1>1 DEF EventInv, TypeOK, MutexInv, ValueInv, CountInv, TriggerInv, InWrite, Added,
                ReadRest, vars
<1>2. ASSUME NEW t \in Threads, CallRead(t) PROVE EventInv'
    BY <1>2, Outside DEF CallRead, EventInv, TypeOK, Locations
<1>3. ASSUME NEW t \in Threads, ReadInterrupted(t) PROVE EventInv'
    BY <1>3, Outside DEF ReadInterrupted, EventInv, TypeOK, Locations
<1>4. ASSUME NEW t \in Threads, NEW v \in Values, CallWrite(t, v) PROVE EventInv'
  <2>1. /\ Goto(t, "idle", "write")
        /\ val'[t] = v /\ val' \in [Threads -> 0 .. UINT64_MAX]
        /\ \A u \in Threads : u # t => val'[u] = val[u]
        /\ UNCHANGED <<counter, is_triggered, readable, semaphore, nonblock, mutex, owed>>
      BY <1>4 DEF CallWrite, EventInv, TypeOK
  <2> QED
      BY <2>1, Outside DEF Locations
<1>5. CASE SetNonblock
    BY <1>5 DEF SetNonblock, EventInv, TypeOK, MutexInv, ValueInv, CountInv, TriggerInv, InWrite,
                Added, ReadRest
<1> QED
    BY <1>1, <1>2, <1>3, <1>4, <1>5, StepInv DEF Next

\* counter_, is_triggered_ and the kqueue agree as EventInv says in every
\* reachable state of an eventfd, whatever the threads do.
THEOREM EventInvariant == Spec => []EventInv
BY InitInv, NextInv, PTL DEF Spec

\* counter_ stays below UINT64_MAX and every variable keeps its type.
THEOREM TypeCorrect == Spec => []TypeOK
<1>1. EventInv => TypeOK
    BY DEF EventInv
<1> QED
    BY <1>1, EventInvariant, PTL

\* With no thread in a critical section nobody is between addition and trigger.
LEMMA Quiet == ASSUME EventInv, mutex = NoThread PROVE \A t \in Threads : ~Added(t)
BY DEF EventInv, MutexInv, Added

\* A non-zero counter makes the descriptor readable, with any number of readers
\* and writers: no wakeup is lost between kqueue_event_clear and _trigger.
THEOREM WakeupsKept == Spec => []NoLostWakeup
<1>1. EventInv => NoLostWakeup
    BY Quiet DEF EventInv, TriggerInv, NoLostWakeup
<1> QED
    BY <1>1, EventInvariant, PTL

\* What reads have returned and what is left add up to what was written.
THEOREM Conservation == Spec => []NothingLost
<1>1. EventInv => NothingLost
    BY Quiet DEF EventInv, CountInv, NothingLost
<1> QED
    BY <1>1, EventInvariant, PTL

\* A readable descriptor has a value to read, provided nobody writes 0.
THEOREM ReadinessTruthful == ASSUME 0 \notin Values PROVE Spec => []NoSpuriousReadiness
<1>1. EventInv => NoSpuriousReadiness
    BY DEF EventInv, TriggerInv, NoSpuriousReadiness
<1> QED
    BY <1>1, EventInvariant, PTL

-----------------------------------------------------------------------------
(* The refinement of the abstract eventfd. *)

\* A thread that moves on turns from the call of one location to that of the other.
LEMMA CallMoves ==
    ASSUME TypeOK, NEW t \in Threads, NEW from, NEW to \in Locations, Goto(t, from, to)
    PROVE  /\ Abstract!Turn(t, CallOf(from), CallOf(to))
           /\ CallOf(from) = CallOf(to) => Calls' = Calls
<1>1. /\ pc' \in [Threads -> Locations]
      /\ pc[t] = from /\ pc'[t] = to
      /\ \A u \in Threads : u # t => pc'[u] = pc[u]
    BY GotoPc
<1>2. Calls[t] = CallOf(from) /\ Calls' = [u \in Threads |-> CallOf(pc'[u])]
    BY <1>1 DEF Calls
<1>3. Calls' = [Calls EXCEPT ![t] = CallOf(to)]
    BY <1>1, <1>2 DEF Calls
<1> QED
    BY <1>2, <1>3 DEF Abstract!Turn, Calls

\* What the locations are called.
LEMMA CallNames ==
    /\ CallOf("idle") = "none" /\ CallOf("rd_poll") = "blocked"
    /\ CallOf("read") = "read" /\ CallOf("rd_ctx") = "read" /\ CallOf("rd_clear") = "read"
    /\ CallOf("write") = "write" /\ CallOf("wr_ctx") = "write" /\ CallOf("wr_trigger") = "write"
BY DEF CallOf

\* In a critical section, before an addition, what is owed is the counter.
LEMMA OwedIsCounter ==
    ASSUME EventInv, NEW t \in Threads, pc[t] \in {"rd_ctx", "rd_clear", "wr_ctx"}
    PROVE  owed = counter
BY Alone DEF EventInv, CountInv, Added

\* Both ways a read ends are one Take.
LEMMA ReadTakes ==
    ASSUME EventInv, NEW t \in Threads, NEW from \in {"rd_ctx", "rd_clear"}, ReadDone(t, from), counter > 0
    PROVE  Abstract!Take(t)
<1>1. Abstract!Turn(t, "read", "none") /\ pc[t] = from
    BY CallMoves, CallNames DEF EventInv, ReadDone, Locations, Goto
<1>2. owed = counter
    BY <1>1, OwedIsCounter
<1>3. owed' = IF semaphore THEN owed - 1 ELSE 0
    BY <1>2 DEF ReadDone, ReadValue, EventInv, TypeOK
<1> QED
    BY <1>1, <1>2, <1>3 DEF Abstract!Take, ReadDone

\* A step of a call in progress is one of the abstract steps, or none.
LEMMA AbstractStep ==
    ASSUME EventInv, NEW t \in Threads, Step(t)
    PROVE  Abstract!Next \/ UNCHANGED Abstract!vars
<1>0. TypeOK /\ "idle" \in Locations /\ "read" \in Locations /\ "rd_ctx" \in Locations /\ "rd_clear" \in Locations
      /\ "rd_poll" \in Locations /\ "wr_ctx" \in Locations /\ "wr_trigger" \in Locations
    BY DEF EventInv, Locations
<1>1. CASE ReadLock(t) \/ WriteLock(t)
    BY <1>0, <1>1, CallMoves, CallNames DEF ReadLock, WriteLock, Lock, Abstract!vars
<1>2. CASE ReadMustClear(t)
    BY <1>0, <1>2, CallMoves, CallNames DEF ReadMustClear, Abstract!vars
<1>3. CASE WriteAdd(t)
    BY <1>0, <1>3, CallMoves, CallNames DEF WriteAdd, Abstract!vars
<1>4. CASE ReadEmpty(t)
  <2>1. Abstract!Turn(t, "read", IF nonblock THEN "none" ELSE "blocked")
      BY <1>0, <1>4, CallMoves, CallNames DEF ReadEmpty
  <2>2. owed = 0
      BY <1>4, OwedIsCounter DEF ReadEmpty, Goto
  <2>3. Abstract!Empty(t)
      BY <1>4, <2>1, <2>2 DEF ReadEmpty, Abstract!Empty
  <2> QED
      BY <2>3 DEF Abstract!Next
<1>5. CASE ReadClear(t)
  <2>1. pc[t] = "rd_clear"
      BY <1>5 DEF ReadClear, ReadDone, Goto
  <2>2. counter > 0
      BY <2>1 DEF EventInv, TriggerInv
  <2>3. Abstract!Take(t)
      BY <1>5, <2>2, ReadTakes DEF ReadClear
  <2> QED
      BY <2>3 DEF Abstract!Next
<1>6. CASE ReadKeep(t)
  <2>1. Abstract!Take(t)
      BY <1>6, ReadTakes DEF ReadKeep
  <2> QED
      BY <2>1 DEF Abstract!Next
<1>7. CASE ReadWoken(t)
  <2>1. Abstract!Wake(t)
      BY <1>0, <1>7, CallMoves, CallNames DEF ReadWoken, Abstract!Wake
  <2> QED
      BY <2>1 DEF Abstract!Next
<1>8. CASE WriteFails(t)
  <2>1. Abstract!Turn(t, "write", "none") /\ owed = counter
      BY <1>0, <1>8, CallMoves, CallNames, OwedIsCounter DEF WriteFails, Goto
  <2>2. ~Abstract!Fits(val[t])
      BY <1>0, <1>8, <2>1 DEF WriteFails, Overflows, Abstract!Fits, TypeOK
  <2>3. Abstract!Refuse(t)
      BY <1>8, <2>1, <2>2 DEF WriteFails, Abstract!Refuse
  <2> QED
      BY <2>3 DEF Abstract!Next
<1>9. CASE WriteTrigger(t)
  <2>1. Abstract!Turn(t, "write", "none") /\ pc[t] = "wr_trigger"
      BY <1>0, <1>9, CallMoves, CallNames DEF WriteTrigger, Goto
  <2>2. owed + val[t] = counter /\ owed >= 0
      BY <2>1 DEF EventInv, CountInv, Added
  <2>3. Abstract!Fits(val[t])
      BY <1>0, <2>2 DEF Abstract!Fits, TypeOK
  <2>4. Abstract!Add(t)
      BY <1>9, <2>1, <2>3 DEF WriteTrigger, Abstract!Add
  <2> QED
      BY <2>4 DEF Abstract!Next
<1> QED
    BY <1>1, <1>2, <1>3, <1>4, <1>5, <1>6, <1>7, <1>8, <1>9 DEF Step

\* eventfd_ctx.c and the blocking loop of eventfd.c implement the atomic counter
\* of AbstractEventFD, for any threads, values and width.
THEOREM Refinement == Spec => AbstractSpec
<1>1. Init => Abstract!Init
  <2>1. Init => Calls = [t \in Threads |-> "none"]
      BY DEF Init, Calls, CallOf
  <2> QED
      BY <2>1 DEF Init, Abstract!Init
<1>2. EventInv /\ [Next]_vars => [Abstract!Next]_Abstract!vars
  <2> SUFFICES ASSUME EventInv, [Next]_vars PROVE Abstract!Next \/ UNCHANGED Abstract!vars
      OBVIOUS
  <2>0. TypeOK /\ "idle" \in Locations /\ "read" \in Locations /\ "write" \in Locations
      BY DEF EventInv, Locations
  <2>1. CASE UNCHANGED vars
      BY <2>1 DEF vars, Abstract!vars, Calls
  <2>2. ASSUME NEW t \in Threads, CallRead(t) PROVE Abstract!Next
    <3>1. Abstract!Read(t)
        BY <2>0, <2>2, CallMoves, CallNames DEF CallRead, Abstract!Read
    <3> QED
        BY <3>1 DEF Abstract!Next
  <2>3. ASSUME NEW t \in Threads, ReadInterrupted(t) PROVE Abstract!Next
    <3>1. Abstract!Wake(t)
        BY <2>0, <2>3, CallMoves, CallNames DEF ReadInterrupted, Abstract!Wake
    <3> QED
        BY <3>1 DEF Abstract!Next
  <2>4. ASSUME NEW t \in Threads, NEW v \in Values, CallWrite(t, v) PROVE Abstract!Next
    <3>1. Abstract!Write(t, v)
        BY <2>0, <2>4, CallMoves, CallNames DEF CallWrite, Abstract!Write
    <3> QED
        BY <3>1 DEF Abstract!Next
  <2>5. CASE SetNonblock
    <3>1. Abstract!SetNonblock
        BY <2>5 DEF SetNonblock, Abstract!SetNonblock, Calls
    <3> QED
        BY <3>1 DEF Abstract!Next
  <2> QED
      BY <2>1, <2>2, <2>3, <2>4, <2>5, AbstractStep DEF Next
<1> QED
    BY <1>1, <1>2, EventInvariant, PTL DEF Spec, AbstractSpec, Abstract!Spec
=============================================================================
