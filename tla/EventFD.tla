------------------------------ MODULE EventFD ------------------------------
(***************************************************************************)
(* An eventfd: src/src/eventfd_ctx.c and the blocking loop of              *)
(* src/src/eventfd.c, on top of the manually triggered kqueue event of     *)
(* src/src/kqueue_event.c.                                                 *)
(*                                                                         *)
(* counter and is_triggered are protected by desc->mutex.  The kernel's    *)
(* view, whether the descriptor's kqueue is readable, is also seen without *)
(* the mutex, by threads in poll.                                          *)
(***************************************************************************)
EXTENDS Integers

CONSTANTS Threads,
          NoThread,
          UINT64_MAX,   \* the largest value of the counter's type
          InitVals,     \* initial values given to eventfd()
          Values        \* values the threads write

ASSUME EventFDAssumption ==
    /\ NoThread \notin Threads
    /\ UINT64_MAX \in Nat \ {0}
    /\ Values \subseteq 0 .. UINT64_MAX
    /\ InitVals \subseteq 0 .. UINT64_MAX - 1   \* an unsigned int

VARIABLES counter,       \* counter_
          is_triggered,  \* kqueue_event_.is_triggered_
          readable,      \* the kqueue has an event: poll returns POLLIN
          semaphore,     \* EFD_SEMAPHORE in flags_
          nonblock,      \* O_NONBLOCK in desc->flags
          mutex,         \* owner of desc->mutex
          pc,
          val,           \* the value a thread is writing
          owed           \* history: successfully written minus returned by reads

vars == <<counter, is_triggered, readable, semaphore, nonblock, mutex, pc, val, owed>>

Locations == {"idle", "read", "rd_ctx", "rd_clear", "rd_poll", "write", "wr_ctx", "wr_trigger"}

\* eventfd_ctx_init
Init == /\ counter \in InitVals
        /\ is_triggered = (counter > 0)
        /\ readable = (counter > 0)
        /\ semaphore \in BOOLEAN
        /\ nonblock \in BOOLEAN
        /\ mutex = NoThread
        /\ pc = [t \in Threads |-> "idle"]
        /\ val = [t \in Threads |-> 0]
        /\ owed = counter

Goto(t, from, to) == pc[t] = from /\ pc' = [pc EXCEPT ![t] = to]

Lock(t, from, to) ==
    /\ Goto(t, from, to)
    /\ mutex = NoThread
    /\ mutex' = t
    /\ UNCHANGED <<counter, is_triggered, readable, semaphore, nonblock, val, owed>>

-----------------------------------------------------------------------------
(* eventfd_ctx_read_or_block *)

CallRead(t) ==
    /\ Goto(t, "idle", "read")
    /\ UNCHANGED <<counter, is_triggered, readable, semaphore, nonblock, mutex, val, owed>>

ReadLock(t) == Lock(t, "read", "rd_ctx")

\* What eventfd_ctx_read returns and leaves behind.
ReadValue == IF semaphore THEN 1 ELSE counter
\* Mutant: a semaphore read takes everything and returns 1.
ReadRestNone == 0

ReadRest == IF semaphore THEN counter - 1 ELSE 0

\* eventfd_ctx_read fails with EAGAIN; O_NONBLOCK is looked at under the mutex.
ReadEmpty(t) ==
    /\ Goto(t, "rd_ctx", IF nonblock THEN "idle" ELSE "rd_poll")
    /\ counter = 0
    /\ mutex' = NoThread
    /\ UNCHANGED <<counter, is_triggered, readable, semaphore, nonblock, val, owed>>

\* Mutant: the event is cleared though a semaphore's counter is not used up.
ReadAlwaysClears(t) ==
    /\ Goto(t, "rd_ctx", "rd_clear")
    /\ counter > 0 /\ is_triggered
    /\ UNCHANGED <<counter, is_triggered, readable, semaphore, nonblock, mutex, val, owed>>

\* The last value is taken while the event is set: it is cleared first.
ReadMustClear(t) ==
    /\ Goto(t, "rd_ctx", "rd_clear")
    /\ counter > 0
    /\ ReadRest = 0 /\ is_triggered
    /\ UNCHANGED <<counter, is_triggered, readable, semaphore, nonblock, mutex, val, owed>>

ReadDone(t, from) ==
    /\ Goto(t, from, "idle")
    /\ counter' = ReadRest
    /\ owed' = owed - ReadValue
    /\ mutex' = NoThread
    /\ UNCHANGED <<semaphore, nonblock, val>>

\* Mutant: only the flag is cleared, not the kqueue.
ReadClearFlagOnly(t) ==
    /\ ReadDone(t, "rd_clear")
    /\ is_triggered' = FALSE
    /\ UNCHANGED readable

\* kqueue_event_clear
ReadClear(t) ==
    /\ ReadDone(t, "rd_clear")
    /\ readable' = FALSE
    /\ is_triggered' = FALSE

ReadKeep(t) ==
    /\ ReadDone(t, "rd_ctx")
    /\ counter > 0
    /\ ~(ReadRest = 0 /\ is_triggered)
    /\ UNCHANGED <<readable, is_triggered>>

\* poll on the kqueue without the mutex; then everything is tried again.
ReadWoken(t) ==
    /\ Goto(t, "rd_poll", "read")
    /\ readable
    /\ UNCHANGED <<counter, is_triggered, readable, semaphore, nonblock, mutex, val, owed>>

\* A signal handler ran: poll fails with EINTR and so does read.
ReadInterrupted(t) ==
    /\ Goto(t, "rd_poll", "idle")
    /\ UNCHANGED <<counter, is_triggered, readable, semaphore, nonblock, mutex, val, owed>>

-----------------------------------------------------------------------------
(* eventfd_helper_write *)

CallWrite(t, v) ==
    /\ Goto(t, "idle", "write")
    /\ val' = [val EXCEPT ![t] = v]
    /\ UNCHANGED <<counter, is_triggered, readable, semaphore, nonblock, mutex, owed>>

WriteLock(t) == Lock(t, "write", "wr_ctx")

\* __builtin_add_overflow, or a sum (which then is exact) of UINT64_MAX: EAGAIN.
\* Writing UINT64_MAX is EINVAL.
Overflows(v) == \/ counter + v > UINT64_MAX
                \/ counter + v > UINT64_MAX - 1

WriteFails(t) ==
    /\ Goto(t, "wr_ctx", "idle")
    /\ val[t] = UINT64_MAX \/ Overflows(val[t])
    /\ mutex' = NoThread
    /\ val' = [val EXCEPT ![t] = 0]
    /\ UNCHANGED <<counter, is_triggered, readable, semaphore, nonblock, owed>>

WriteAdd(t) ==
    /\ Goto(t, "wr_ctx", "wr_trigger")
    /\ val[t] # UINT64_MAX
    /\ ~Overflows(val[t])
    /\ counter' = counter + val[t]
    /\ UNCHANGED <<is_triggered, readable, semaphore, nonblock, mutex, val, owed>>

\* Mutant: a write does not trigger the event.
WriteNoTrigger(t) ==
    /\ Goto(t, "wr_trigger", "idle")
    /\ owed' = owed + val[t]
    /\ mutex' = NoThread
    /\ val' = [val EXCEPT ![t] = 0]
    /\ UNCHANGED <<counter, is_triggered, readable, semaphore, nonblock>>

\* kqueue_event_trigger; it does nothing if the event is set already.
WriteTrigger(t) ==
    /\ Goto(t, "wr_trigger", "idle")
    /\ is_triggered' = TRUE
    /\ readable' = (readable \/ ~is_triggered)
    /\ owed' = owed + val[t]
    /\ mutex' = NoThread
    /\ val' = [val EXCEPT ![t] = 0]
    /\ UNCHANGED <<counter, semaphore, nonblock>>

-----------------------------------------------------------------------------
\* fcntl(F_SETFL) changes O_NONBLOCK under the mutex.
SetNonblock == /\ mutex = NoThread
               /\ nonblock' = ~nonblock
               /\ UNCHANGED <<counter, is_triggered, readable, semaphore, mutex, pc, val, owed>>

Step(t) == \/ ReadLock(t) \/ ReadEmpty(t) \/ ReadMustClear(t) \/ ReadClear(t) \/ ReadKeep(t)
           \/ ReadWoken(t) \/ WriteLock(t) \/ WriteFails(t) \/ WriteAdd(t) \/ WriteTrigger(t)

Next == \/ \E t \in Threads : \/ CallRead(t) \/ ReadInterrupted(t) \/ Step(t)
                              \/ \E v \in Values : CallWrite(t, v)
        \/ SetNonblock

\* Threads inside a call run on; nobody has to call, and no signal has to come.
Fairness == \A t \in Threads : WF_vars(Step(t))

Spec == Init /\ [][Next]_vars

FairSpec == Spec /\ Fairness

-----------------------------------------------------------------------------
\* The types of the variables; eventfd_ctx_write keeps the counter below
\* UINT64_MAX.
TypeOK == /\ counter \in 0 .. UINT64_MAX - 1
          /\ is_triggered \in BOOLEAN
          /\ readable \in BOOLEAN
          /\ semaphore \in BOOLEAN
          /\ nonblock \in BOOLEAN
          /\ mutex \in Threads \cup {NoThread}
          /\ pc \in [Threads -> Locations]
          /\ val \in [Threads -> 0 .. UINT64_MAX]
          /\ owed \in Int

\* While no thread is inside a critical section a non-zero counter shows: poll
\* and epoll report the descriptor readable.
NoLostWakeup == mutex = NoThread /\ counter > 0 => readable

\* Nothing written is lost or read twice, whichever threads overlap.
NothingLost == mutex = NoThread => owed = counter

\* poll reports the descriptor readable only if a read would return a value.
NoSpuriousReadiness == mutex = NoThread /\ readable => counter > 0

\* A reader blocked in poll is woken by a write, unless others take it all.
BlockedReaderWoken == \A t \in Threads :
    pc[t] = "rd_poll" /\ counter > 0 ~> pc[t] # "rd_poll" \/ counter = 0

(***************************************************************************)
(* The inductive invariant behind the safety properties.  Between          *)
(* eventfd_ctx_write's addition and its trigger, and only there, the       *)
(* counter is ahead of the event and of what the writers were told.        *)
(***************************************************************************)
InWrite(t) == pc[t] \in {"write", "wr_ctx", "wr_trigger"}

Added(t) == pc[t] = "wr_trigger"

MutexInv == \A t \in Threads : mutex = t <=> pc[t] \in {"rd_ctx", "rd_clear", "wr_ctx", "wr_trigger"}

ValueInv == \A t \in Threads : InWrite(t) => val[t] \in Values

CountInv == /\ \A t \in Threads : Added(t) => owed + val[t] = counter /\ owed >= 0
            /\ (\A t \in Threads : ~Added(t)) => owed = counter

TriggerInv == /\ readable = is_triggered
              /\ counter > 0 => is_triggered \/ \E t \in Threads : Added(t)
              /\ \A t \in Threads : pc[t] = "rd_clear" => counter > 0 /\ ReadRest = 0
              /\ 0 \notin Values => (is_triggered => counter > 0)

\* How counter_, is_triggered_ and the kqueue agree at every point between the
\* steps of eventfd_ctx_read and eventfd_ctx_write.
EventInv == TypeOK /\ MutexInv /\ ValueInv /\ CountInv /\ TriggerInv
=============================================================================
