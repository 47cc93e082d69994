------------------------------- MODULE PPoll -------------------------------
(***************************************************************************)
(* epoll_shim_ppoll of src/src/epoll_shim_ctx.c on a system without ppoll, *)
(* where real_ppoll (src/src/wrap.c) is the emulation of                   *)
(* src/src/compat_ppoll.c: poll between two changes of the signal mask,    *)
(* with a kqueue among its descriptors that becomes readable when a signal *)
(* arrives which the mask lets through.  The shim calls the poll functions *)
(* of its descriptors before and after, and tries again when they say that *)
(* nothing was ready.                                                      *)
(*                                                                         *)
(* One thread calls; signals arrive, and descriptors change, between any   *)
(* two of its system calls.                                                *)
(***************************************************************************)
EXTENDS Naturals, FiniteSets

CONSTANTS Signals,
          NFds,          \* the length of the fds array
          SignalFds,     \* those of the fds that are signalfds
          NULL

Fds == 1 .. NFds

ASSUME PPollAssumption ==
    NFds \in Nat \ {0} /\ SignalFds \subseteq Fds

VARIABLES handled,   \* signals with a handler that does not restart system calls
          mask,      \* the signals that the thread blocks
          pending,   \* the blocked signals that have arrived
          state,     \* of each fd: "no", "ready", or "stale": only the kqueue says so
          passed,    \* the deadline has passed
          pc,
          args,      \* timeout and sigmask, and the mask of the caller
          timeout,   \* what is left of it: "zero", "positive", "infinite", or "huge":
                     \* more milliseconds than an int holds
          i,         \* the walks over the fds: the next one
          kq,        \* compat_ppoll's kqueue: "closed", "idle" or "active"
          knotes,    \* the signals it looks out for
          polled,    \* what poll returned: ec, and whether kq was among the ready ones
          revents,   \* the fds with revents # 0
          n,         \* the count to return
          result,    \* what the last call returned: ec
          ran,       \* history: handlers that ran in this call of compat_ppoll
          taken      \* history: another thread took a signal in this call

vars == <<handled, mask, pending, state, passed, pc, args, timeout, i, kq, knotes, polled,
          revents, n, result, ran, taken>>
emulation == <<kq, knotes, polled>>
call == <<args, timeout, i, revents, n, result>>
world == <<handled, state, passed, taken>>

NotPolled == [ec |-> "0", kq |-> FALSE]

Init == /\ handled \in SUBSET Signals
        /\ mask \in SUBSET Signals
        /\ pending = {} /\ ran = {} /\ taken = FALSE
        /\ state = [f \in Fds |-> "no"]
        /\ passed = FALSE
        /\ pc = "idle"
        /\ args = [timeout |-> "zero", sigmask |-> NULL, mask |-> mask]
        /\ timeout = "zero" /\ i = 1
        /\ kq = "closed" /\ knotes = {} /\ polled = NotPolled
        /\ revents = {} /\ n = 0 /\ result = "0"

-----------------------------------------------------------------------------
(* Signals, descriptors and time. *)

Noticed(s) == kq' = IF s \in knotes THEN "active" ELSE kq

\* A handler that runs while the thread is in poll interrupts it, unless it came
\* just before.
Arrive(s) ==
    /\ s \notin pending
    /\ Noticed(s)
    /\ IF s \in mask THEN pending' = pending \cup {s} /\ UNCHANGED <<ran, pc, polled>>
       ELSE /\ ran' = ran \cup ({s} \cap handled)
            /\ pending' = pending
            /\ \/ UNCHANGED <<pc, polled>>
               \/ /\ pc = "poll" /\ s \in handled
                  /\ pc' = "restore" /\ polled' = [NotPolled EXCEPT !.ec = "EINTR"]
    /\ UNCHANGED <<handled, mask, state, passed, call, knotes, taken>>

\* A pending signal was sent to the process, and another thread takes it.
TakenByOther(s) ==
    /\ s \in pending
    /\ pending' = pending \ {s} /\ taken' = TRUE
    /\ UNCHANGED <<handled, mask, state, passed, pc, call, emulation, ran>>

FdChanges(f) ==
    /\ \E st \in {"no", "ready"} \cup (IF f \in SignalFds THEN {"stale"} ELSE {}) :
         st # state[f] /\ state' = [state EXCEPT ![f] = st]
    /\ UNCHANGED <<handled, mask, pending, passed, pc, call, emulation, ran, taken>>

DeadlinePasses ==
    /\ pc # "idle" /\ ~passed
    /\ passed' = TRUE
    /\ UNCHANGED <<handled, mask, pending, state, pc, call, emulation, ran, taken>>

-----------------------------------------------------------------------------
(* epoll_shim_ppoll_impl, and the walk before real_ppoll. *)

Call(to, sigmask) ==
    /\ pc = "idle"
    /\ args' = [timeout |-> to, sigmask |-> sigmask, mask |-> mask]
    /\ timeout' = to
    /\ pc' = "walk" /\ i' = 1
    /\ revents' = {} /\ n' = 0 /\ result' = "0"
    /\ passed' = FALSE /\ ran' = {} /\ taken' = FALSE
    /\ UNCHANGED <<handled, mask, pending, state, emulation>>

\* The poll function of a signalfd clears a kqueue that has nothing to read.
Cleared(f) == [state EXCEPT ![f] = IF f \in SignalFds /\ @ = "stale" THEN "no" ELSE @]

Walk ==
    /\ pc = "walk"
    /\ state' = Cleared(i)
    /\ i' = IF i = NFds THEN 1 ELSE i + 1
    /\ pc' = IF i = NFds THEN "watch" ELSE "walk"
    /\ UNCHANGED <<handled, mask, pending, passed, args, timeout, revents, n, result, emulation,
                   ran, taken>>

-----------------------------------------------------------------------------
(* compat_ppoll_impl *)

Finish(ec) == pc' = "idle" /\ result' = ec

\* The signals that the caller blocks, sigmask lets through, and whose handler
\* interrupts poll.
Watched == IF timeout = "zero" \/ args.sigmask = NULL THEN {}
           ELSE (mask \ args.sigmask) \cap handled

Watch ==
    /\ pc = "watch"
    /\ pc' = IF Watched = {} THEN "set_mask" ELSE "kqueue"
    /\ ran' = {}
    /\ UNCHANGED <<world, mask, pending, call, emulation>>

\* kqueue, and kevent with a filter for each of them.
Kqueue ==
    /\ pc = "kqueue"
    /\ \/ kq' = "idle" /\ knotes' = Watched /\ pc' = "sigpending" /\ result' = result
       \/ Finish("EMFILE") /\ UNCHANGED <<kq, knotes>>
    /\ UNCHANGED <<world, mask, pending, args, timeout, i, revents, n, polled, ran>>

\* Mutant: a signal that was pending before is left to the filter, which did not see it.
SigpendingIgnored ==
    /\ pc = "sigpending"
    /\ pc' = "set_mask"
    /\ UNCHANGED <<world, mask, pending, call, emulation, ran>>

\* The filters notice what arrives; what has arrived before is asked for, and
\* triggers the kqueue by hand.  malloc may fail after that.
Sigpending ==
    /\ pc = "sigpending"
    /\ \/ /\ kq' = IF pending \cap knotes # {} THEN "active" ELSE kq
          /\ pc' = "set_mask" /\ UNCHANGED <<knotes, result>>
       \/ kq' = "closed" /\ knotes' = {} /\ Finish("ENOMEM")
    /\ UNCHANGED <<world, mask, pending, args, timeout, i, revents, n, polled, ran>>

\* pthread_sigmask: what the new mask lets through is delivered before it returns.
SigMask(m) ==
    /\ mask' = m
    /\ pending' = pending \cap m
    /\ ran' = ran \cup ((pending \ m) \cap handled)

SetMask ==
    /\ pc = "set_mask"
    /\ SigMask(IF args.sigmask = NULL THEN mask ELSE args.sigmask)
    /\ pc' = "poll"
    /\ UNCHANGED <<world, call, emulation>>

Ready == {f \in Fds : state[f] # "no"}

\* The timeout is rounded up to milliseconds: poll does not end before the deadline.
\* With one that is too long for an int it does not end at all.
Poll ==
    /\ pc = "poll"
    /\ \/ Ready # {} \/ kq = "active"
       \/ timeout = "zero" \/ (timeout = "positive" /\ passed)
    /\ polled' = [ec |-> "0", kq |-> kq = "active"]
    /\ revents' = Ready
    /\ n' = Cardinality(Ready) + IF kq = "active" THEN 1 ELSE 0
    /\ pc' = "restore"
    /\ UNCHANGED <<world, mask, pending, args, timeout, i, result, kq, knotes, ran>>

\* Mutant: a kqueue that is ready alone counts as nothing ready.
RestoreNoEintr ==
    LET ready == IF polled.kq THEN n - 1 ELSE n
    IN  /\ pc = "restore"
        /\ SigMask(IF args.sigmask = NULL THEN mask ELSE args.mask)
        /\ kq' = "closed" /\ knotes' = {} /\ polled' = NotPolled
        /\ IF polled.ec # "0" THEN Finish(polled.ec) /\ UNCHANGED <<revents, n>>
           ELSE /\ n' = ready /\ revents' = revents
                /\ IF ready = 0 THEN Finish("0") ELSE pc' = "check" /\ result' = result
        /\ UNCHANGED <<world, args, timeout, i>>

\* The caller's mask is set again and the kqueue closed; EINTR if it was all that was
\* ready.  The caller's revents are written only on success.
Restore ==
    LET ready == IF polled.kq THEN n - 1 ELSE n
        ec == IF polled.ec = "0" /\ polled.kq /\ ready = 0 THEN "EINTR" ELSE polled.ec
    IN  /\ pc = "restore"
        /\ SigMask(IF args.sigmask = NULL THEN mask ELSE args.mask)
        /\ kq' = "closed" /\ knotes' = {} /\ polled' = NotPolled
        /\ IF ec # "0" THEN Finish(ec) /\ UNCHANGED <<revents, n>>
           ELSE /\ n' = ready /\ revents' = revents
                /\ IF ready = 0 THEN Finish("0") ELSE pc' = "check" /\ result' = result
        /\ UNCHANGED <<world, args, timeout, i>>

-----------------------------------------------------------------------------
(* The walk after real_ppoll, and the decision to try again. *)

\* The poll function of a signalfd has the last word on its revents.
Check ==
    LET drop == i \in revents /\ i \in SignalFds /\ state[i] # "ready"
    IN  /\ pc = "check"
        /\ state' = IF i \in revents THEN Cleared(i) ELSE state
        /\ revents' = IF drop THEN revents \ {i} ELSE revents
        /\ n' = IF drop THEN n - 1 ELSE n
        /\ i' = IF i = NFds THEN 1 ELSE i + 1
        /\ pc' = IF i = NFds THEN "decide" ELSE "check"
        /\ UNCHANGED <<handled, mask, pending, passed, args, timeout, result, emulation, ran, taken>>

\* Mutant: the timeout starts anew.
RetryAnew ==
    /\ pc = "decide" /\ n = 0 /\ timeout # "zero"
    /\ pc' = "walk"
    /\ passed' = FALSE
    /\ UNCHANGED <<handled, state, taken, mask, pending, call, emulation, ran>>

\* With what is left of the timeout.
Left(to) == CASE to = "infinite" -> {"infinite"}
              [] to # "infinite" /\ passed -> {"zero"}
              [] OTHER -> {"positive", to}

Retry ==
    /\ pc = "decide" /\ n = 0 /\ timeout # "zero"
    /\ timeout' \in Left(timeout)
    /\ pc' = "walk"
    /\ UNCHANGED <<world, mask, pending, args, i, revents, n, result, emulation, ran>>

Return ==
    /\ pc = "decide" /\ (n # 0 \/ timeout = "zero")
    /\ Finish("0")
    /\ UNCHANGED <<world, mask, pending, args, timeout, i, revents, n, emulation, ran>>

-----------------------------------------------------------------------------
Thread == \/ Walk \/ Watch \/ Kqueue \/ Sigpending \/ SetMask \/ Poll \/ Restore
          \/ Check \/ Retry \/ Return

Next == \/ \E s \in Signals : Arrive(s) \/ TakenByOther(s)
        \/ \E f \in Fds : FdChanges(f)
        \/ DeadlinePasses
        \/ \E to \in {"zero", "positive", "huge", "infinite"}, m \in (SUBSET Signals) \cup {NULL} : Call(to, m)
        \/ Thread

Spec == Init /\ [][Next]_vars

\* The thread runs and time goes on.
FairSpec == Spec /\ WF_vars(Thread) /\ WF_vars(DeadlinePasses)

-----------------------------------------------------------------------------
(* Properties *)

\* No signal is missed by compat_ppoll: when the handler of a signal that the caller
\* blocks and sigmask lets through has run, at whatever point between the look at the
\* old mask and poll, poll does not sleep.
NoMissedSignal ==
    pc = "poll" /\ timeout # "zero" /\ args.sigmask # NULL
        /\ ran \cap (args.mask \ args.sigmask) # {} => kq = "active"

\* The caller gets a true answer and its signal mask back, and no kqueue is left open:
\* EINTR means that a handler ran, or that another thread took the signal; 0 that the
\* timeout has passed, never that a signalfd was not ready after all or that only the
\* emulation's own kqueue was; and any count is that of the fds with revents.
ResultTrue ==
    pc = "idle" => /\ mask = args.mask /\ kq = "closed"
                   /\ result = "EINTR" => ran # {} \/ taken
                   /\ result = "0" => /\ n = Cardinality(revents)
                                      /\ n = 0 => passed \/ args.timeout = "zero"

\* A call with a timeout, short of 24 days, returns when it has passed, however often signalfds that were
\* not ready after all, or signals, made it try again.
CallEnds == pc # "idle" /\ args.timeout \in {"zero", "positive"} ~> pc = "idle"
=============================================================================
