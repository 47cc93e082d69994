------------------------------ MODULE SignalFD ------------------------------
(***************************************************************************)
(* A signalfd: src/src/signalfd_ctx.c and the loops of src/src/signalfd.c. *)
(* The signals are blocked, so they stay pending in the process until a    *)
(* sigtimedwait takes them.  The descriptor's kqueue only observes them:   *)
(* EVFILT_SIGNAL records arrivals, and the user event of kqueue_event.c    *)
(* is triggered by hand.  desc->mutex protects the code's state, but       *)
(* signals arrive, and others take them, between any two steps.            *)
(***************************************************************************)
EXTENDS Naturals

CONSTANTS Threads, NoThread,
          Signals,      \* the signals of the descriptor's mask
          USER,         \* the user event of kqueue_event_
          MaxInfos      \* bound: siginfos a read asks for

ASSUME SignalFDAssumption ==
    /\ NoThread \notin Threads
    /\ USER \notin Signals
    /\ MaxInfos \in Nat \ {0}

VARIABLES pending,       \* signals pending in the process
          kq,            \* events the kqueue holds: signals and USER
          is_triggered,  \* kqueue_event_.is_triggered_
          nonblock,      \* O_NONBLOCK in desc->flags
          mutex,         \* owner of desc->mutex
          pc,
          room,          \* read: siginfos that still fit
          got,           \* read: siginfos stored so far
          again,         \* read: the last sigtimedwait found nothing
          stolen         \* history: another signalfd or sigwait took a signal
                         \* since the kqueue was last cleared

vars == <<pending, kq, is_triggered, nonblock, mutex, pc, room, got, again, stolen>>

Locations == {"idle", "read", "rd_wait", "rd_clear", "rd_recheck", "rd_unlock", "rd_poll",
              "poll", "pl_check", "pl_clear", "pl_recheck", "pl_unlock"}

\* signalfd_ctx_init: kevent first, then a look at the signals that were pending
\* already or have arrived since.
Init == /\ pending \in SUBSET Signals
        /\ \E arrived \in SUBSET pending :
             kq = IF pending # {} THEN arrived \cup {USER} ELSE {}
        /\ is_triggered = (pending # {})
        /\ nonblock \in BOOLEAN
        /\ mutex = NoThread
        /\ pc = [t \in Threads |-> "idle"]
        /\ room = [t \in Threads |-> 0]
        /\ got = [t \in Threads |-> 0]
        /\ again = [t \in Threads |-> FALSE]
        /\ stolen = FALSE

Goto(t, from, to) == pc[t] = from /\ pc' = [pc EXCEPT ![t] = to]

read_vars == <<room, got, again>>

Lock(t, from, to) ==
    /\ Goto(t, from, to)
    /\ mutex = NoThread
    /\ mutex' = t
    /\ UNCHANGED <<pending, kq, is_triggered, nonblock, read_vars, stolen>>

-----------------------------------------------------------------------------
(* signalfd_ctx_clear_signal; `to' is where its caller unlocks. *)

\* kqueue_event_clear
Clear(t, from, to) ==
    /\ Goto(t, from, to)
    /\ kq' = {}
    /\ is_triggered' = FALSE
    /\ stolen' = FALSE
    /\ UNCHANGED <<pending, nonblock, mutex, read_vars>>

\* Mutant: no check for signals that came before the kqueue was cleared.
RecheckSkipped(t, from, to) ==
    /\ Goto(t, from, to)
    /\ UNCHANGED <<pending, kq, is_triggered, nonblock, mutex, read_vars, stolen>>

\* Signals that came in between are triggered by hand.
Recheck(t, from, to) ==
    /\ Goto(t, from, to)
    /\ IF pending # {}
       THEN /\ kq' = IF is_triggered THEN kq ELSE kq \cup {USER}
            /\ is_triggered' = TRUE
       ELSE UNCHANGED <<kq, is_triggered>>
    /\ UNCHANGED <<pending, nonblock, mutex, read_vars, stolen>>

-----------------------------------------------------------------------------
(* signalfd_read *)

CallRead(t, n) ==
    /\ Goto(t, "idle", "read")
    /\ room' = [room EXCEPT ![t] = n]
    /\ UNCHANGED <<pending, kq, is_triggered, nonblock, mutex, got, again, stolen>>

ReadLock(t) == Lock(t, "read", "rd_wait")

\* A sigtimedwait whose caller goes to found or to empty.
Take(t, found, empty) ==
    /\ Goto(t, "rd_wait", IF pending = {} THEN empty ELSE found)
    /\ again' = [again EXCEPT ![t] = (pending = {})]
    /\ IF pending = {} THEN UNCHANGED <<pending, room, got>>
       ELSE /\ \E s \in pending : pending' = pending \ {s}
            /\ room' = [room EXCEPT ![t] = @ - 1]
            /\ got' = [got EXCEPT ![t] = @ + 1]
    /\ UNCHANGED <<kq, is_triggered, nonblock, mutex, stolen>>

\* Mutant: a read that got a signal does not clear the kqueue.
FoundNotCleared(t) == Take(t, "rd_unlock", "rd_clear")

\* Mutant: a read that got EAGAIN does not clear the kqueue.
EmptyNotCleared(t) == Take(t, "rd_clear", "rd_unlock")

\* signalfd_ctx_read_impl
SigTimedWait(t) == Take(t, "rd_clear", "rd_clear")

ReadClear(t) == Clear(t, "rd_clear", "rd_recheck")

ReadRecheck(t) == Recheck(t, "rd_recheck", "rd_unlock")

Return(t) == /\ room' = [room EXCEPT ![t] = 0]
             /\ got' = [got EXCEPT ![t] = 0]
             /\ again' = [again EXCEPT ![t] = FALSE]

\* After the unlock: the next siginfo, poll, or return.  From the second
\* siginfo on the read does not block (force_nonblock).
ReadUnlock(t) ==
    /\ mutex' = NoThread
    /\ \/ /\ again[t] /\ ~nonblock /\ got[t] = 0
          /\ Goto(t, "rd_unlock", "rd_poll")
          /\ UNCHANGED read_vars
       \/ /\ ~again[t] /\ room[t] > 0
          /\ Goto(t, "rd_unlock", "read")
          /\ UNCHANGED read_vars
       \/ /\ IF again[t] THEN nonblock \/ got[t] > 0 ELSE room[t] = 0
          /\ Goto(t, "rd_unlock", "idle")
          /\ Return(t)
    /\ UNCHANGED <<pending, kq, is_triggered, nonblock, stolen>>

ReadWoken(t) ==
    /\ Goto(t, "rd_poll", "read")
    /\ kq # {}
    /\ UNCHANGED <<pending, kq, is_triggered, nonblock, mutex, read_vars, stolen>>

\* An unrelated signal's handler: EINTR.
ReadInterrupted(t) ==
    /\ Goto(t, "rd_poll", "idle")
    /\ Return(t)
    /\ UNCHANGED <<pending, kq, is_triggered, nonblock, mutex, stolen>>

-----------------------------------------------------------------------------
(* signalfd_poll, called by epoll_wait (revents # NULL) and before a poll or  *)
(* an epoll_ctl (revents = NULL).                                             *)

CallPoll(t) ==
    /\ Goto(t, "idle", "poll")
    /\ UNCHANGED <<pending, kq, is_triggered, nonblock, mutex, read_vars, stolen>>

PollLock(t) == \E to \in {"pl_check", "pl_clear"} : Lock(t, "poll", to)

\* With other signals pending the kqueue can stay readable.
PollCheck(t) ==
    /\ Goto(t, "pl_check", IF pending # {} THEN "pl_unlock" ELSE "pl_clear")
    /\ UNCHANGED <<pending, kq, is_triggered, nonblock, mutex, read_vars, stolen>>

PollClear(t) == Clear(t, "pl_clear", "pl_recheck")

PollRecheck(t) == Recheck(t, "pl_recheck", "pl_unlock")

PollUnlock(t) ==
    /\ Goto(t, "pl_unlock", "idle")
    /\ mutex' = NoThread
    /\ UNCHANGED <<pending, kq, is_triggered, nonblock, read_vars, stolen>>

-----------------------------------------------------------------------------
(* The kernel and the other threads *)

\* A signal arrives: it becomes pending and EVFILT_SIGNAL fires.
Arrive(s) ==
    /\ pending' = pending \cup {s}
    /\ kq' = kq \cup {s}
    /\ UNCHANGED <<is_triggered, nonblock, mutex, pc, read_vars, stolen>>

TakenByOther(s) ==
    /\ s \in pending
    /\ pending' = pending \ {s}
    /\ stolen' = TRUE
    /\ UNCHANGED <<kq, is_triggered, nonblock, mutex, pc, read_vars>>

\* fcntl(F_SETFL)
SetNonblock ==
    /\ mutex = NoThread
    /\ nonblock' = ~nonblock
    /\ UNCHANGED <<pending, kq, is_triggered, mutex, pc, read_vars, stolen>>

Step(t) == \/ ReadLock(t) \/ SigTimedWait(t) \/ ReadClear(t) \/ ReadRecheck(t) \/ ReadUnlock(t)
           \/ ReadWoken(t) \/ PollLock(t) \/ PollCheck(t) \/ PollClear(t) \/ PollRecheck(t)
           \/ PollUnlock(t)

Next == \/ \E t \in Threads : \/ Step(t) \/ ReadInterrupted(t) \/ CallPoll(t)
                              \/ \E n \in 1 .. MaxInfos : CallRead(t, n)
        \/ \E s \in Signals : Arrive(s) \/ TakenByOther(s)
        \/ SetNonblock

\* Threads inside a call run on.
Fairness == \A t \in Threads : WF_vars(Step(t))

Spec == Init /\ [][Next]_vars

FairSpec == Spec /\ Fairness
-----------------------------------------------------------------------------
\* The types of the variables; signalfd_read never stores more siginfos than fit
\* into the caller's buffer.
TypeOK == /\ pending \subseteq Signals
          /\ kq \subseteq Signals \cup {USER}
          /\ is_triggered \in BOOLEAN
          /\ nonblock \in BOOLEAN
          /\ mutex \in Threads \cup {NoThread}
          /\ pc \in [Threads -> Locations]
          /\ room \in [Threads -> 0 .. MaxInfos]
          /\ got \in [Threads -> 0 .. MaxInfos]
          /\ again \in [Threads -> BOOLEAN]
          /\ stolen \in BOOLEAN

\* A pending signal shows, whenever it arrived: outside the critical sections
\* the kqueue is readable, so no thread in poll or epoll_wait misses it.
NoLostSignal == mutex = NoThread /\ pending # {} => kq # {}

\* A readable kqueue means that a read succeeds, unless somebody else has taken
\* the signal since.
NoSpuriousReadiness == mutex = NoThread /\ kq # {} /\ ~stolen => pending # {}

InRead(t) == pc[t] \in {"read", "rd_wait", "rd_clear", "rd_recheck", "rd_unlock", "rd_poll"}

\* A read blocked in poll goes on when a signal is pending, unless other threads
\* keep calling read or poll, which clear and trigger the kqueue again.
BlockedReadWoken == \A t \in Threads :
    pc[t] = "rd_poll" /\ pending # {}
        ~> \/ pc[t] # "rd_poll" \/ pending = {}
           \/ \E u \in Threads \ {t} : pc[u] \notin {"idle", "rd_poll"}

\* When others took the signals, a blocking read clears the readiness left
\* behind instead of spinning between poll and EAGAIN.
NoBusyRead == \A t \in Threads :
    InRead(t) /\ kq # {} /\ pending = {} ~> ~InRead(t) \/ kq = {} \/ pending # {}
=============================================================================
