--------------------------- MODULE SignalFD_proofs ---------------------------
(***************************************************************************)
(* Proofs about SignalFD for any threads, signals and sizes of a read.     *)
(* The kqueue may be silent about a pending signal, or tell of one that    *)
(* was read, only while the mutex is held: between a clear and its recheck *)
(* in the first case, between a sigtimedwait and the clear in the second.  *)
(* SignalInv says so, and every step preserves it.                         *)
(***************************************************************************)
EXTENDS SignalFD, TLAPS

USE SignalFDAssumption

Critical == {"rd_wait", "rd_clear", "rd_recheck", "rd_unlock",
             "pl_check", "pl_clear", "pl_recheck", "pl_unlock"}

\* The threads in a critical section are the owner of the mutex.
MutexInv == \A t \in Threads : pc[t] \in Critical <=> mutex = t

\* What is stored and what still fits is what the caller made room for, and a
\* sigtimedwait has room for one more.
RoomInv == \A t \in Threads :
    /\ room[t] + got[t] <= MaxInfos
    /\ pc[t] \in {"read", "rd_wait", "rd_poll"} => room[t] > 0
    /\ pc[t] \in {"rd_clear", "rd_recheck", "rd_unlock"} /\ again[t] => room[t] > 0
    /\ ~InRead(t) => room[t] = 0 /\ got[t] = 0

\* kqueue_event's flag is never ahead of the kernel's event.
TriggerInv == is_triggered => USER \in kq

\* Pending signals that do not show are about to be looked for.
PendingInv == pending # {} /\ kq = {} =>
    \E t \in Threads : pc[t] \in {"rd_recheck", "pl_recheck"}

\* Readiness without a signal is about to be cleared, or another's doing.
ReadyInv == kq # {} /\ pending = {} /\ ~stolen =>
    \E t \in Threads : pc[t] = "rd_clear"

SignalInv == TypeOK /\ MutexInv /\ RoomInv /\ TriggerInv /\ PendingInv /\ ReadyInv

-----------------------------------------------------------------------------
\* signalfd_ctx_init triggers the kqueue if a signal is pending already.
LEMMA InitInv == Init => SignalInv
<1> SUFFICES ASSUME Init PROVE SignalInv
    OBVIOUS
<1>1. TypeOK
  <2>1. is_triggered \in BOOLEAN
      BY Zenon DEF Init
  <2>2. kq \subseteq Signals \cup {USER} /\ pending \subseteq Signals
      BY DEF Init
  <2>3. again \in [Threads -> BOOLEAN] /\ nonblock \in BOOLEAN /\ stolen \in BOOLEAN
      BY DEF Init
  <2>4. /\ pc \in [Threads -> Locations]
        /\ room \in [Threads -> 0 .. MaxInfos] /\ got \in [Threads -> 0 .. MaxInfos]
        /\ mutex \in Threads \cup {NoThread}
      BY DEF Init, Locations
  <2> QED
      BY <2>1, <2>2, <2>3, <2>4 DEF TypeOK
<1>2. MutexInv /\ RoomInv
    BY DEF Init, MutexInv, RoomInv, InRead, Critical
<1>3. TriggerInv /\ PendingInv /\ ReadyInv
    BY DEF Init, TriggerInv, PendingInv, ReadyInv
<1> QED
    BY <1>1, <1>2, <1>3 DEF SignalInv

\* Goto moves one thread.
LEMMA GotoPc ==
    ASSUME TypeOK, NEW t \in Threads, NEW from, NEW to \in Locations, Goto(t, from, to)
    PROVE  /\ pc' \in [Threads -> Locations]
           /\ pc[t] = from /\ pc'[t] = to
           /\ \A u \in Threads : u # t => pc'[u] = pc[u]
BY DEF TypeOK, Goto

\* The end of a read resets its variables.
LEMMA ReturnType ==
    ASSUME TypeOK, NEW t \in Threads, Return(t)
    PROVE  /\ room' \in [Threads -> 0 .. MaxInfos] /\ got' \in [Threads -> 0 .. MaxInfos]
           /\ again' \in [Threads -> BOOLEAN]
<1>1. room' \in [Threads -> 0 .. MaxInfos] /\ got' \in [Threads -> 0 .. MaxInfos]
    BY DEF TypeOK, Return
<1>2. again' \in [Threads -> BOOLEAN]
    BY DEF TypeOK, Return
<1> QED
    BY <1>1, <1>2

\* Taking the mutex changes nothing else: the invariants about signals are about
\* locations that neither a lock nor a call leaves or enters.
LEMMA LockInv ==
    ASSUME SignalInv, NEW t \in Threads, NEW from \in {"read", "poll"}, NEW to, Lock(t, from, to),
           to \in IF from = "read" THEN {"rd_wait"} ELSE {"pl_check", "pl_clear"}
    PROVE  SignalInv'
<1>1. /\ pc' \in [Threads -> Locations]
      /\ pc[t] = from /\ pc'[t] = to
      /\ \A u \in Threads : u # t => pc'[u] = pc[u]
    BY GotoPc DEF SignalInv, Lock, Locations
<1>2. /\ mutex = NoThread /\ mutex' = t
      /\ UNCHANGED <<pending, kq, is_triggered, nonblock, room, got, again, stolen>>
    BY DEF Lock, read_vars
<1>3. TypeOK'
    BY <1>1, <1>2 DEF SignalInv, TypeOK
<1>4. MutexInv'
    BY <1>1, <1>2 DEF SignalInv, MutexInv, Critical
<1>5. RoomInv'
    BY <1>1, <1>2 DEF SignalInv, RoomInv, InRead
<1>6. TriggerInv' /\ PendingInv' /\ ReadyInv'
    BY <1>1, <1>2 DEF SignalInv, TriggerInv, PendingInv, ReadyInv
<1> QED
    BY <1>3, <1>4, <1>5, <1>6 DEF SignalInv

\* signalfd_ctx_clear_signal, first half: an empty kqueue tells no lie, and a
\* pending signal waits for the recheck.
LEMMA ClearInv ==
    ASSUME SignalInv, NEW t \in Threads, NEW from, NEW to, Clear(t, from, to),
           \/ from = "rd_clear" /\ to = "rd_recheck"
           \/ from = "pl_clear" /\ to = "pl_recheck"
    PROVE  SignalInv'
<1>1. /\ pc' \in [Threads -> Locations]
      /\ pc[t] = from /\ pc'[t] = to
      /\ \A u \in Threads : u # t => pc'[u] = pc[u]
    BY GotoPc DEF SignalInv, Clear, Locations
<1>2. /\ kq' = {} /\ is_triggered' = FALSE /\ stolen' = FALSE
      /\ UNCHANGED <<pending, nonblock, mutex, room, got, again>>
    BY DEF Clear, read_vars
<1>3. TypeOK'
    BY <1>1, <1>2 DEF SignalInv, TypeOK
<1>4. MutexInv'
    BY <1>1, <1>2 DEF SignalInv, MutexInv, Critical
<1>5. RoomInv'
    BY <1>1, <1>2 DEF SignalInv, RoomInv, InRead
<1>6. TriggerInv' /\ PendingInv' /\ ReadyInv'
    BY <1>1, <1>2 DEF SignalInv, TriggerInv, PendingInv, ReadyInv
<1> QED
    BY <1>3, <1>4, <1>5, <1>6 DEF SignalInv

\* ... and the second half: what is pending now shows.
LEMMA RecheckInv ==
    ASSUME SignalInv, NEW t \in Threads, NEW from, NEW to, Recheck(t, from, to),
           \/ from = "rd_recheck" /\ to = "rd_unlock"
           \/ from = "pl_recheck" /\ to = "pl_unlock"
    PROVE  SignalInv'
<1>1. /\ pc' \in [Threads -> Locations]
      /\ pc[t] = from /\ pc'[t] = to
      /\ \A u \in Threads : u # t => pc'[u] = pc[u]
    BY GotoPc DEF SignalInv, Recheck, Locations
<1>2. /\ IF pending # {}
         THEN kq' = (IF is_triggered THEN kq ELSE kq \cup {USER}) /\ is_triggered' = TRUE
         ELSE kq' = kq /\ is_triggered' = is_triggered
      /\ UNCHANGED <<pending, nonblock, mutex, room, got, again, stolen>>
    BY DEF Recheck, read_vars
<1>3. TypeOK'
    BY <1>1, <1>2 DEF SignalInv, TypeOK
<1>4. MutexInv'
    BY <1>1, <1>2 DEF SignalInv, MutexInv, Critical
<1>5. RoomInv'
    BY <1>1, <1>2 DEF SignalInv, RoomInv, InRead
<1>6. TriggerInv'
    BY <1>1, <1>2 DEF SignalInv, TriggerInv
<1>7. PendingInv'
    BY <1>1, <1>2, <1>6 DEF SignalInv, TriggerInv, PendingInv
<1>8. ReadyInv'
    BY <1>1, <1>2 DEF SignalInv, ReadyInv
<1> QED
    BY <1>3, <1>4, <1>5, <1>6, <1>7, <1>8 DEF SignalInv

\* A sigtimedwait: whether it found a signal or not, the clear comes next.
LEMMA SigTimedWaitInv == ASSUME SignalInv, NEW t \in Threads, SigTimedWait(t) PROVE SignalInv'
<1>1. /\ pc' \in [Threads -> Locations]
      /\ pc[t] = "rd_wait" /\ pc'[t] = "rd_clear"
      /\ \A u \in Threads : u # t => pc'[u] = pc[u]
    BY GotoPc DEF SignalInv, SigTimedWait, Take, Locations
<1>2. /\ again' = [again EXCEPT ![t] = (pending = {})]
      /\ UNCHANGED <<kq, is_triggered, nonblock, mutex, stolen>>
    BY DEF SigTimedWait, Take
<1>3. \/ pending = {} /\ UNCHANGED <<pending, room, got>>
      \/ /\ pending # {} /\ pending' \subseteq pending
         /\ room' = [room EXCEPT ![t] = @ - 1]
         /\ got' = [got EXCEPT ![t] = @ + 1]
    BY DEF SigTimedWait, Take
<1>4. room[t] \in 1 .. MaxInfos /\ got[t] \in 0 .. MaxInfos /\ room[t] + got[t] <= MaxInfos
    BY <1>1 DEF SignalInv, RoomInv, TypeOK
<1>5. TypeOK'
    BY <1>1, <1>2, <1>3, <1>4 DEF SignalInv, TypeOK
<1>6. MutexInv'
    BY <1>1, <1>2 DEF SignalInv, MutexInv, Critical
<1>7. RoomInv'
  <2>1. again'[t] => UNCHANGED room
      BY <1>2, <1>3 DEF SignalInv, TypeOK
  <2>2. \A u \in Threads : u # t => room'[u] = room[u] /\ got'[u] = got[u] /\ again'[u] = again[u]
      BY <1>2, <1>3 DEF SignalInv, TypeOK
  <2>3. room'[t] + got'[t] <= MaxInfos /\ (UNCHANGED room => room'[t] > 0)
      BY <1>3, <1>4 DEF SignalInv, TypeOK
  <2> QED
      BY <1>1, <2>1, <2>2, <2>3 DEF SignalInv, RoomInv, InRead
<1>8. TriggerInv'
    BY <1>2 DEF SignalInv, TriggerInv
<1>9. PendingInv'
    BY <1>1, <1>2, <1>3 DEF SignalInv, PendingInv
<1>10. ReadyInv'
    BY <1>1 DEF ReadyInv
<1> QED
    BY <1>5, <1>6, <1>7, <1>8, <1>9, <1>10 DEF SignalInv

\* Steps of a thread that leave signals and kqueue alone and neither enter nor
\* leave the locations that the invariants about signals name.
LEMMA Elsewhere ==
    ASSUME SignalInv, NEW t \in Threads, NEW from, NEW to \in Locations, Goto(t, from, to),
           from \notin {"rd_clear", "rd_recheck", "pl_recheck"},
           UNCHANGED <<pending, kq, is_triggered, nonblock, stolen>>,
           MutexInv', RoomInv',
           mutex' \in Threads \cup {NoThread}, room' \in [Threads -> 0 .. MaxInfos],
           got' \in [Threads -> 0 .. MaxInfos], again' \in [Threads -> BOOLEAN]
    PROVE  SignalInv'
<1>1. /\ pc' \in [Threads -> Locations]
      /\ pc[t] = from /\ pc'[t] = to
      /\ \A u \in Threads : u # t => pc'[u] = pc[u]
    BY GotoPc DEF SignalInv
<1>2. TypeOK'
    BY <1>1 DEF SignalInv, TypeOK
<1>3. TriggerInv' /\ PendingInv' /\ ReadyInv'
    BY <1>1 DEF SignalInv, TriggerInv, PendingInv, ReadyInv
<1> QED
    BY <1>2, <1>3 DEF SignalInv

\* read is called with room for some siginfos.
LEMMA CallReadInv ==
    ASSUME SignalInv, NEW t \in Threads, NEW n \in 1 .. MaxInfos, CallRead(t, n)
    PROVE  SignalInv'
<1>1. /\ pc' \in [Threads -> Locations]
      /\ pc[t] = "idle" /\ pc'[t] = "read"
      /\ \A u \in Threads : u # t => pc'[u] = pc[u]
    BY GotoPc DEF SignalInv, CallRead, Locations
<1>2. /\ room' = [room EXCEPT ![t] = n]
      /\ UNCHANGED <<pending, kq, is_triggered, nonblock, mutex, got, again, stolen>>
    BY DEF CallRead
<1>3. MutexInv'
    BY <1>1, <1>2 DEF SignalInv, MutexInv, Critical
<1>4. RoomInv'
    BY <1>1, <1>2 DEF SignalInv, RoomInv, InRead, TypeOK
<1> QED
    BY <1>2, <1>3, <1>4, Elsewhere DEF CallRead, Locations, SignalInv, TypeOK

\* The end of a pass of signalfd_read: the next siginfo, poll or return.
LEMMA ReadUnlockInv == ASSUME SignalInv, NEW t \in Threads, ReadUnlock(t) PROVE SignalInv'
<1>1. PICK to \in {"rd_poll", "read", "idle"} : Goto(t, "rd_unlock", to)
    BY DEF ReadUnlock
<1>2. /\ pc' \in [Threads -> Locations]
      /\ pc[t] = "rd_unlock" /\ pc'[t] = to
      /\ \A u \in Threads : u # t => pc'[u] = pc[u]
    BY <1>1, GotoPc DEF SignalInv, Locations
<1>3. mutex' = NoThread /\ UNCHANGED <<pending, kq, is_triggered, nonblock, stolen>>
    BY DEF ReadUnlock
<1>4. \/ to = "rd_poll" /\ again[t] /\ UNCHANGED <<room, got, again>>
      \/ to = "read" /\ room[t] > 0 /\ UNCHANGED <<room, got, again>>
      \/ to = "idle" /\ Return(t)
    BY <1>2 DEF ReadUnlock, Goto, read_vars, SignalInv, TypeOK
<1>5. MutexInv'
    BY <1>2, <1>3 DEF SignalInv, MutexInv, Critical
<1>6. RoomInv'
    BY <1>2, <1>4 DEF SignalInv, RoomInv, InRead, TypeOK, Return
<1>7. /\ room' \in [Threads -> 0 .. MaxInfos] /\ got' \in [Threads -> 0 .. MaxInfos]
      /\ again' \in [Threads -> BOOLEAN]
  <2>1. CASE UNCHANGED <<room, got, again>>
      BY <2>1 DEF SignalInv, TypeOK
  <2>2. CASE Return(t)
      BY <2>2, ReturnType DEF SignalInv
  <2> QED
      BY <1>4, <2>1, <2>2
<1> QED
    BY <1>1, <1>3, <1>5, <1>6, <1>7, Elsewhere DEF Locations

\* A read in poll goes on or is interrupted.
LEMMA ReadWokenInv ==
    ASSUME SignalInv, NEW t \in Threads, ReadWoken(t) \/ ReadInterrupted(t)
    PROVE  SignalInv'
<1>1. PICK to \in {"read", "idle"} : Goto(t, "rd_poll", to)
    BY DEF ReadWoken, ReadInterrupted
<1>2. /\ pc' \in [Threads -> Locations]
      /\ pc[t] = "rd_poll" /\ pc'[t] = to
      /\ \A u \in Threads : u # t => pc'[u] = pc[u]
    BY <1>1, GotoPc DEF SignalInv, Locations
<1>3. UNCHANGED <<pending, kq, is_triggered, nonblock, mutex, stolen>>
    BY DEF ReadWoken, ReadInterrupted
<1>4. \/ to = "read" /\ UNCHANGED <<room, got, again>>
      \/ to = "idle" /\ Return(t)
    BY <1>2 DEF ReadWoken, ReadInterrupted, Goto, read_vars, SignalInv, TypeOK
<1>5. MutexInv'
    BY <1>2, <1>3 DEF SignalInv, MutexInv, Critical
<1>6. RoomInv'
    BY <1>2, <1>4 DEF SignalInv, RoomInv, InRead, TypeOK, Return
<1>7. /\ room' \in [Threads -> 0 .. MaxInfos] /\ got' \in [Threads -> 0 .. MaxInfos]
      /\ again' \in [Threads -> BOOLEAN]
  <2>1. CASE UNCHANGED <<room, got, again>>
      BY <2>1 DEF SignalInv, TypeOK
  <2>2. CASE Return(t)
      BY <2>2, ReturnType DEF SignalInv
  <2> QED
      BY <1>4, <2>1, <2>2
<1> QED
    BY <1>1, <1>3, <1>5, <1>6, <1>7, Elsewhere DEF Locations, SignalInv, TypeOK

\* signalfd_poll outside of its clear and recheck.
LEMMA PollInv ==
    ASSUME SignalInv, NEW t \in Threads, CallPoll(t) \/ PollCheck(t) \/ PollUnlock(t)
    PROVE  SignalInv'
<1>1. PICK from \in {"idle", "pl_check", "pl_unlock"}, to \in {"poll", "pl_unlock", "pl_clear", "idle"} :
        /\ Goto(t, from, to)
        /\ \/ from = "idle" /\ to = "poll" /\ UNCHANGED mutex
           \/ from = "pl_check" /\ to \in {"pl_unlock", "pl_clear"} /\ UNCHANGED mutex
           \/ from = "pl_unlock" /\ to = "idle" /\ mutex' = NoThread
    BY DEF CallPoll, PollCheck, PollUnlock
<1>2. /\ pc' \in [Threads -> Locations]
      /\ pc[t] = from /\ pc'[t] = to
      /\ \A u \in Threads : u # t => pc'[u] = pc[u]
    BY <1>1, GotoPc DEF SignalInv, Locations
<1>3. UNCHANGED <<pending, kq, is_triggered, nonblock, stolen, room, got, again>>
    BY DEF CallPoll, PollCheck, PollUnlock, read_vars
<1>4. MutexInv'
    BY <1>1, <1>2 DEF SignalInv, MutexInv, Critical
<1>5. RoomInv'
    BY <1>1, <1>2, <1>3 DEF SignalInv, RoomInv, InRead
<1> QED
    BY <1>1, <1>3, <1>4, <1>5, Elsewhere DEF Locations, SignalInv, TypeOK

\* What the threads of the program and the kernel do.
LEMMA OthersInv ==
    ASSUME SignalInv, (\E s \in Signals : Arrive(s) \/ TakenByOther(s)) \/ SetNonblock
    PROVE  SignalInv'
<1>1. /\ UNCHANGED <<mutex, pc, room, got, again, is_triggered>>
      /\ nonblock' \in BOOLEAN
    BY DEF Arrive, TakenByOther, SetNonblock, read_vars, SignalInv, TypeOK
<1>2. \/ \E s \in Signals : pending' = pending \cup {s} /\ kq' = kq \cup {s} /\ UNCHANGED stolen
      \/ \E s \in Signals : pending' = pending \ {s} /\ UNCHANGED kq /\ stolen' = TRUE
      \/ UNCHANGED <<pending, kq, stolen>>
    BY DEF Arrive, TakenByOther, SetNonblock
<1>3. TypeOK'
    BY <1>1, <1>2 DEF SignalInv, TypeOK
<1>4. MutexInv' /\ RoomInv'
    BY <1>1 DEF SignalInv, MutexInv, RoomInv, InRead
<1>5. TriggerInv' /\ PendingInv' /\ ReadyInv'
    BY <1>1, <1>2 DEF SignalInv, TriggerInv, PendingInv, ReadyInv
<1> QED
    BY <1>3, <1>4, <1>5 DEF SignalInv

-----------------------------------------------------------------------------
\* Every step preserves the invariant.
LEMMA NextInv == SignalInv /\ [Next]_vars => SignalInv'
<1> SUFFICES ASSUME SignalInv, [Next]_vars PROVE SignalInv'
    OBVIOUS
<1>1. CASE UNCHANGED vars
    BY <1>1 DEF vars, SignalInv, TypeOK, MutexInv, RoomInv, TriggerInv, PendingInv, ReadyInv, InRead
<1>2. ASSUME NEW t \in Threads, ReadLock(t) \/ PollLock(t) PROVE SignalInv'
    BY <1>2, LockInv DEF ReadLock, PollLock
<1>3. ASSUME NEW t \in Threads, ReadClear(t) \/ PollClear(t) PROVE SignalInv'
    BY <1>3, ClearInv DEF ReadClear, PollClear
<1>4. ASSUME NEW t \in Threads, ReadRecheck(t) \/ PollRecheck(t) PROVE SignalInv'
    BY <1>4, RecheckInv DEF ReadRecheck, PollRecheck
<1> QED
    BY <1>1, <1>2, <1>3, <1>4, SigTimedWaitInv, CallReadInv, ReadUnlockInv, ReadWokenInv,
       PollInv, OthersInv DEF Next, Step

\* The inductive invariant holds for every set of threads and of signals.
THEOREM SignalInvariant == Spec => []SignalInv
BY InitInv, NextInv, PTL DEF Spec

\* The variables keep their types: signalfd_read stores no more siginfos than fit.
THEOREM TypeCorrect == Spec => []TypeOK
<1>1. SignalInv => TypeOK
    BY DEF SignalInv
<1> QED
    BY <1>1, SignalInvariant, PTL

\* Whenever signals arrive and whoever clears the kqueue: with the mutex free, a
\* pending signal shows.
THEOREM SignalsShow == Spec => []NoLostSignal
<1>1. SignalInv => NoLostSignal
    BY DEF SignalInv, NoLostSignal, PendingInv, MutexInv, Critical
<1> QED
    BY <1>1, SignalInvariant, PTL

\* With the mutex free a readable kqueue means that a read succeeds, unless
\* somebody else has taken the signal since it was cleared.
THEOREM ReadinessTruthful == Spec => []NoSpuriousReadiness
<1>1. SignalInv => NoSpuriousReadiness
    BY DEF SignalInv, NoSpuriousReadiness, ReadyInv, MutexInv, Critical
<1> QED
    BY <1>1, SignalInvariant, PTL
=============================================================================
