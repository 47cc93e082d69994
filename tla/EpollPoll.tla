----------------------------- MODULE EpollPoll -----------------------------
(***************************************************************************)
(* Waiting on an epoll instance, and changing it meanwhile, for fds that   *)
(* kqueue cannot watch (NODE_TYPE_POLL of src/src/epollfd_ctx.c).  Such    *)
(* fds are on the list poll_fds.  epoll_wait (src/src/epoll.c) polls a     *)
(* copy of that list without desc->mutex; epollfd_ctx__trigger_repoll,     *)
(* called wherever the list or an entry's events change, makes all polling *)
(* threads give up their copies before the mutex is released.              *)
(*                                                                         *)
(* The kqueue holds the user events of the code: SELF, by which            *)
(* trigger_repoll interrupts the polling threads, and one for each poll    *)
(* node.  Files, readiness and the passing of time are the environment.    *)
(***************************************************************************)
EXTENDS Naturals, FiniteSets

CONSTANTS Threads, NoThread,
          Fds,            \* the poll-only fds
          Events,         \* event bits (EPOLLIN, EPOLLOUT)
          SELF,           \* the epollfd's own user event
          EVFILT_USER,    \* FALSE: the build uses self-pipes
          Cnts,           \* values of maxevents
          Timeouts,       \* timeouts epoll_wait is called with
          MaxCalls,       \* bound: calls each thread makes
          MaxChanges      \* bound: changes of readiness and raw closes

ASSUME EpollPollAssumption ==
    /\ NoThread \notin Threads
    /\ SELF \notin Fds /\ IsFiniteSet(Fds)
    /\ EVFILT_USER \in BOOLEAN
    /\ Cnts \subseteq Nat \ {0}
    /\ Timeouts \subseteq {"zero", "positive", "infinite"}
    /\ MaxCalls \in Nat /\ MaxChanges \in Nat

VARIABLES registered,  \* registered_fds
          listed,      \* poll_fds: the nodes with is_on_pollfd_list
          events,      \* node->events
          oneshot,     \* node->is_oneshot
          kq,          \* user events pending in the kqueue
          nr_polling_threads,
          mutex,       \* owner of desc->mutex
          open,        \* fds that are open
          ready,       \* the events each fd is ready for
          pc, loc,     \* control state and local variables of each thread
          calls, changes

node_vars == <<registered, listed, events, oneshot>>
file_vars == <<open, ready, changes>>
vars == <<registered, listed, events, oneshot, kq, nr_polling_threads, mutex,
          open, ready, pc, loc, calls, changes>>

Locations == {"idle", "wait", "scan", "scan_remove", "kevent", "deliver", "wait_unlock",
              "block", "polling", "leave", "leave_error", "ctl", "ctl_op", "ctl_unlock",
              "repoll", "repoll_check", "cond_wait", "remove", "disarm"}

\* timeout; pfds, the copied list as <<fd, events>>; todo, the nodes a loop still
\* has to treat; got, the nodes ev[] was filled from; after, where the thread
\* continues when the node fd is off the list and no thread polls a copy.
NoLocals == [timeout |-> "infinite", expired |-> FALSE, cnt |-> 1, pfds |-> {}, todo |-> {},
             got |-> {}, op |-> "none", fd |-> NoThread, after |-> "idle"]

\* Some fds have been added already.
Init == /\ registered \in SUBSET Fds /\ listed = registered
        /\ events = [f \in Fds |-> IF f \in registered THEN Events ELSE {}]
        /\ oneshot = [f \in Fds |-> FALSE]
        /\ kq = {}
        /\ nr_polling_threads = 0
        /\ mutex = NoThread
        /\ open = Fds
        /\ ready \in [Fds -> SUBSET Events]
        /\ pc = [t \in Threads |-> "idle"]
        /\ loc = [t \in Threads |-> NoLocals]
        /\ calls = [t \in Threads |-> 0]
        /\ changes = 0

Goto(t, from, to) == pc[t] = from /\ pc' = [pc EXCEPT ![t] = to]

StartCall(t, to, locals) ==
    /\ calls[t] < MaxCalls
    /\ calls' = [calls EXCEPT ![t] = @ + 1]
    /\ Goto(t, "idle", to)
    /\ loc' = [loc EXCEPT ![t] = locals]
    /\ UNCHANGED <<node_vars, kq, nr_polling_threads, mutex, file_vars>>

Lock(t, from, to) ==
    /\ Goto(t, from, to)
    /\ mutex = NoThread
    /\ mutex' = t
    /\ UNCHANGED <<node_vars, kq, nr_polling_threads, file_vars, loc, calls>>

\* epollfd_ctx_fill_pollfds (the kqueue itself is always polled)
PollSet == {<<f, events[f]>> : f \in listed}

\* What poll reports for an entry.
Invalid(p) == p[1] \notin open
Triggered(p) == ~Invalid(p) /\ p[2] \cap ready[p[1]] # {}

\* registered_fds_node_add_self_trigger and epollfd_ctx__add_self_trigger, whose
\* EV_ADD of a user event clears a pending one on some systems.
EvAdd(S) == kq' \in {kq, kq \ S}

-----------------------------------------------------------------------------
(* epollfd_ctx__trigger_repoll; t owns the mutex. *)

Repoll(t) ==
    /\ pc[t] = "repoll"
    /\ IF nr_polling_threads = 0
       THEN Goto(t, "repoll", loc[t].after) /\ UNCHANGED kq
       ELSE Goto(t, "repoll", "repoll_check") /\ kq' = kq \cup {SELF}
    /\ UNCHANGED <<node_vars, nr_polling_threads, mutex, file_vars, loc, calls>>

RepollCheck(t) ==
    /\ pc[t] = "repoll_check"
    /\ IF nr_polling_threads = 0
       THEN /\ Goto(t, "repoll_check", loc[t].after)
            /\ kq' = IF EVFILT_USER THEN kq ELSE kq \ {SELF}
       ELSE Goto(t, "repoll_check", "cond_wait") /\ UNCHANGED kq
    /\ UNCHANGED <<node_vars, nr_polling_threads, mutex, file_vars, loc, calls>>

SpuriousWakeup(t) ==
    /\ Goto(t, "cond_wait", "repoll_check")
    /\ UNCHANGED <<node_vars, kq, nr_polling_threads, mutex, file_vars, loc, calls>>

\* epollfd_ctx__remove_node_from_kq up to the repoll.  `after' is "remove" for a
\* node that goes away, "disarm" for a one-shot node that stays registered.
TakeOffList(t, from, f, after) ==
    /\ Goto(t, from, IF f \in listed THEN "repoll" ELSE after)
    /\ listed' = listed \ {f}
    /\ UNCHANGED <<registered, events, oneshot>>

\* Mutant: a node's pending event is not deleted with it.
RemoveNodeOnly(t) ==
    /\ Goto(t, "remove", IF loc[t].op = "none" THEN "scan_remove" ELSE "ctl_unlock")
    /\ registered' = registered \ {loc[t].fd}
    /\ events' = [events EXCEPT ![loc[t].fd] = {}]
    /\ oneshot' = [oneshot EXCEPT ![loc[t].fd] = FALSE]
    /\ UNCHANGED <<listed, kq, nr_polling_threads, mutex, file_vars, loc, calls>>

\* Its EV_DELETE; then epollfd_ctx_remove_node destroys the node.
RemoveNode(t) ==
    /\ Goto(t, "remove", IF loc[t].op = "none" THEN "scan_remove" ELSE "ctl_unlock")
    /\ kq' = kq \ {loc[t].fd}
    /\ registered' = registered \ {loc[t].fd}
    /\ events' = [events EXCEPT ![loc[t].fd] = {}]
    /\ oneshot' = [oneshot EXCEPT ![loc[t].fd] = FALSE]
    /\ UNCHANGED <<listed, nr_polling_threads, mutex, file_vars, loc, calls>>

Disarm(t) ==
    /\ Goto(t, "disarm", "deliver")
    /\ kq' = kq \ {loc[t].fd}
    /\ UNCHANGED <<node_vars, nr_polling_threads, mutex, file_vars, loc, calls>>

-----------------------------------------------------------------------------
(* epoll_pwait: epollfd_ctx_wait_or_block *)

CallWait(t) == \E to \in Timeouts, cnt \in Cnts :
    StartCall(t, "wait", [NoLocals EXCEPT !.timeout = to, !.cnt = cnt])

WaitLock(t) == Lock(t, "wait", "scan")

\* epollfd_ctx_wait's poll, and the triggers of the ready nodes.
Scan(t) ==
    /\ pc[t] = "scan"
    /\ LET invalid == {p \in PollSet : Invalid(p)}
           triggered == {p \in PollSet : Triggered(p)}
       IN  IF kq = {} /\ invalid = {} /\ triggered = {}
           THEN /\ Goto(t, "scan", "wait_unlock")
                /\ UNCHANGED <<kq, loc>>
           ELSE /\ Goto(t, "scan", "scan_remove")
                /\ kq' = kq \cup {p[1] : p \in triggered}
                /\ loc' = [loc EXCEPT ![t].todo = {p[1] : p \in invalid}]
    /\ UNCHANGED <<node_vars, nr_polling_threads, mutex, file_vars, calls>>

\* The nodes that got POLLNVAL are removed one by one.
ScanRemove(t) ==
    /\ pc[t] = "scan_remove"
    /\ \/ \E f \in loc[t].todo :
            /\ TakeOffList(t, "scan_remove", f, "remove")
            /\ loc' = [loc EXCEPT ![t] = [loc[t] EXCEPT !.todo = @ \ {f}, !.fd = f, !.after = "remove"]]
       \/ /\ loc[t].todo = {}
          /\ Goto(t, "scan_remove", "kevent")
          /\ UNCHANGED <<node_vars, loc>>
    /\ UNCHANGED <<kq, nr_polling_threads, mutex, file_vars, calls>>

\* Mutant: room for three kevents of each event, whatever the number of nodes.
EventSpaceAlways(cnt) == (cnt + 1) * 3

\* The length of kevs[].
EventSpace(cnt) == IF cnt >= Cardinality(registered) THEN (cnt + 1) * 3 ELSE cnt

\* registered_fds_node_feed_event: a poll node is polled again, and an fd that is
\* no longer ready, or closed, yields nothing.
FeedEvent(f) == Triggered(<<f, events[f]>>)

\* kevent, and feed_event for each event.
Kevent(t) ==
    /\ pc[t] = "kevent"
    /\ \E S \in SUBSET kq :
         LET space == EventSpace(loc[t].cnt)
             got == {f \in S \ {SELF} : FeedEvent(f)}
         IN  /\ Cardinality(S) = IF Cardinality(kq) < space THEN Cardinality(kq) ELSE space
             /\ kq' = kq \ S
             /\ Goto(t, "kevent", IF S # {} /\ got = {} THEN "kevent" ELSE "deliver")
             /\ loc' = [loc EXCEPT ![t] = [loc[t] EXCEPT !.got = got, !.todo = {f \in got : oneshot[f]}]]
    /\ UNCHANGED <<node_vars, nr_polling_threads, mutex, file_vars, calls>>

\* The loop over ev[]: one-shot nodes are taken out of the kqueue and the list.
Deliver(t) ==
    /\ pc[t] = "deliver"
    /\ \/ \E f \in loc[t].todo :
            /\ TakeOffList(t, "deliver", f, "disarm")
            /\ loc' = [loc EXCEPT ![t] = [loc[t] EXCEPT !.todo = @ \ {f}, !.fd = f, !.after = "disarm"]]
       \/ /\ loc[t].todo = {}
          /\ Goto(t, "deliver", "wait_unlock")
          /\ UNCHANGED <<node_vars, loc>>
    /\ UNCHANGED <<kq, nr_polling_threads, mutex, file_vars, calls>>

Returned(t) == loc' = [loc EXCEPT ![t] = NoLocals]

\* ENOMEM for pfds[] or kevs[], or a failing poll or kevent.
WaitFails(t) ==
    /\ Goto(t, "scan", "idle") \/ Goto(t, "kevent", "idle")
    /\ mutex' = NoThread
    /\ Returned(t)
    /\ UNCHANGED <<node_vars, kq, nr_polling_threads, file_vars, calls>>

WaitUnlock(t) ==
    /\ pc[t] = "wait_unlock"
    /\ mutex' = NoThread
    /\ IF loc[t].got # {} \/ loc[t].timeout = "zero"
       THEN Goto(t, "wait_unlock", "idle") /\ Returned(t)
       ELSE Goto(t, "wait_unlock", "block") /\ UNCHANGED loc
    /\ UNCHANGED <<node_vars, kq, nr_polling_threads, file_vars, calls>>

\* Under the mutex again: copy the list and count the thread in.
EnterPoll(t) ==
    /\ Goto(t, "block", "polling")
    /\ mutex = NoThread
    /\ loc' = [loc EXCEPT ![t].pfds = PollSet]
    /\ nr_polling_threads' = nr_polling_threads + 1
    /\ UNCHANGED <<node_vars, kq, mutex, file_vars, calls>>

\* malloc fails.
EnterPollFails(t) ==
    /\ Goto(t, "block", "idle")
    /\ mutex = NoThread
    /\ Returned(t)
    /\ UNCHANGED <<node_vars, kq, nr_polling_threads, mutex, file_vars, calls>>

\* real_ppoll returns: an event, or the timeout.
PollReturns(t) ==
    /\ Goto(t, "polling", "leave")
    /\ \/ kq # {}
       \/ \E p \in loc[t].pfds : Invalid(p) \/ Triggered(p)
       \/ loc[t].expired
    /\ UNCHANGED <<node_vars, kq, nr_polling_threads, mutex, file_vars, loc, calls>>

PollInterrupted(t) ==
    /\ Goto(t, "polling", "leave_error")
    /\ UNCHANGED <<node_vars, kq, nr_polling_threads, mutex, file_vars, loc, calls>>

\* Mutant: the last thread out does not signal.
CountOutSilent(t, from, to) ==
    /\ Goto(t, from, to)
    /\ nr_polling_threads' = nr_polling_threads - 1
    /\ UNCHANGED <<node_vars, kq, mutex, file_vars, calls>>

\* Count the thread out; at zero one thread in pthread_cond_wait is woken.
CountOut(t, from, to) ==
    /\ pc[t] = from
    /\ nr_polling_threads' = nr_polling_threads - 1
    /\ LET out == [pc EXCEPT ![t] = to]
           waiting == {u \in Threads : pc[u] = "cond_wait"}
       IN  IF nr_polling_threads' = 0 /\ waiting # {}
           THEN \E u \in waiting : pc' = [out EXCEPT ![u] = "repoll_check"]
           ELSE pc' = out
    /\ UNCHANGED <<node_vars, kq, mutex, file_vars, calls>>

\* The remaining timeout is zero once the deadline has passed.
LeavePoll(t) ==
    /\ CountOut(t, "leave", "wait")
    /\ loc' = [loc EXCEPT ![t] = [loc[t] EXCEPT !.pfds = {}, !.timeout = IF loc[t].expired THEN "zero" ELSE @]]

LeavePollError(t) ==
    /\ CountOut(t, "leave_error", "idle")
    /\ Returned(t)

-----------------------------------------------------------------------------
(* epoll_ctl, and "close" for epollfd_remove_fd as epoll_shim_close uses it *)

CallCtl(t) == \E op \in {"ADD", "MOD", "DEL", "close"}, f \in Fds :
    StartCall(t, "ctl", [NoLocals EXCEPT !.op = op, !.fd = f, !.after = IF op \in {"ADD", "MOD"} THEN "ctl_unlock" ELSE "remove"])

CtlLock(t) == Lock(t, "ctl", "ctl_op")

\* EEXIST, ENOENT, EBADF without a node, ENOMEM: nothing changes.
CtlFails(t) ==
    LET f == loc[t].fd
    IN  /\ Goto(t, "ctl_op", "ctl_unlock")
        /\ \/ loc[t].op = "ADD"
           \/ f \notin registered
        /\ f \in open \/ f \notin registered
        /\ UNCHANGED <<node_vars, kq, nr_polling_threads, mutex, file_vars, loc, calls>>

Register(t, repoll) ==
    LET f == loc[t].fd
    IN  /\ Goto(t, "ctl_op", IF repoll THEN "repoll" ELSE "ctl_unlock")
        /\ f \in open
        /\ \/ loc[t].op = "ADD" /\ f \notin registered
           \/ loc[t].op = "MOD" /\ f \in registered
        /\ registered' = registered \cup {f}
        /\ \E e \in SUBSET Events : events' = [events EXCEPT ![f] = e]
        /\ \E b \in BOOLEAN : oneshot' = [oneshot EXCEPT ![f] = b]
        /\ EvAdd({f} \cup (IF f \in listed THEN {} ELSE {SELF}))
        /\ listed' = listed \cup {f}
        /\ UNCHANGED <<nr_polling_threads, mutex, file_vars, loc, calls>>

\* Mutant: only a node that is new on the list makes the threads repoll.
CtlRegisterNewOnly(t) == Register(t, loc[t].fd \notin listed)

\* Mutant: nobody is told of a new node.
CtlRegisterSilently(t) == Register(t, FALSE)

\* epollfd_ctx_add_node and _modify_node: the events are set, the user events
\* added, the node put on the list, and the threads that poll made to repoll.
CtlRegister(t) == Register(t, TRUE)

\* EPOLL_CTL_DEL, a modify that fails, a failing fstat (whatever op is) and
\* epollfd_ctx_remove_fd remove the node.
CtlRemove(t) ==
    LET f == loc[t].fd
    IN  /\ f \in registered
        /\ loc[t].op \in {"MOD", "DEL", "close"} \/ f \notin open
        /\ TakeOffList(t, "ctl_op", f, "remove")
        /\ loc' = [loc EXCEPT ![t].after = "remove"]
        /\ UNCHANGED <<kq, nr_polling_threads, mutex, file_vars, calls>>

\* remove_desc calls real_close before it unlocks the mutex.
CtlUnlock(t) ==
    /\ Goto(t, "ctl_unlock", "idle")
    /\ mutex' = NoThread
    /\ open' = IF loc[t].op = "close" THEN open \ {loc[t].fd} ELSE open
    /\ Returned(t)
    /\ UNCHANGED <<node_vars, kq, nr_polling_threads, ready, changes, calls>>

-----------------------------------------------------------------------------
(* The environment *)

FileChanges(f) ==
    /\ changes < MaxChanges
    /\ changes' = changes + 1
    /\ \/ \E e \in SUBSET Events : e # ready[f] /\ ready' = [ready EXCEPT ![f] = e] /\ UNCHANGED open
       \/ f \in open /\ open' = open \ {f} /\ UNCHANGED ready    \* closed behind the shim
    /\ UNCHANGED <<node_vars, kq, nr_polling_threads, mutex, pc, loc, calls>>

\* An fd number is used again.
OpenFile(f) ==
    /\ f \notin open
    /\ open' = open \cup {f}
    /\ UNCHANGED <<node_vars, kq, nr_polling_threads, mutex, ready, pc, loc, calls, changes>>

DeadlinePasses(t) ==
    /\ pc[t] # "idle" /\ loc[t].timeout = "positive" /\ ~loc[t].expired
    /\ loc' = [loc EXCEPT ![t].expired = TRUE]
    /\ UNCHANGED <<node_vars, kq, nr_polling_threads, mutex, file_vars, pc, calls>>

\* Waiting for ever is a state the system may rest in.
AtRest == /\ \A t \in Threads : pc[t] \in {"idle", "polling"}
          /\ UNCHANGED vars

Step(t) == \/ Repoll(t) \/ RepollCheck(t) \/ RemoveNode(t) \/ Disarm(t)
           \/ WaitLock(t) \/ Scan(t) \/ ScanRemove(t) \/ Kevent(t) \/ Deliver(t) \/ WaitUnlock(t)
           \/ EnterPoll(t) \/ PollReturns(t) \/ LeavePoll(t) \/ LeavePollError(t)
           \/ CtlLock(t) \/ CtlFails(t) \/ CtlRegister(t) \/ CtlRemove(t) \/ CtlUnlock(t)

Next == \/ \E t \in Threads : \/ CallWait(t) \/ CallCtl(t) \/ Step(t)
                              \/ SpuriousWakeup(t) \/ WaitFails(t) \/ EnterPollFails(t)
                              \/ PollInterrupted(t) \/ DeadlinePasses(t)
        \/ \E f \in Fds : FileChanges(f) \/ OpenFile(f)
        \/ AtRest

\* Threads inside a call run on, and time passes.
Fairness == \A t \in Threads : WF_vars(Step(t)) /\ WF_vars(DeadlinePasses(t))

Spec == Init /\ [][Next]_vars

FairSpec == Spec /\ Fairness
-----------------------------------------------------------------------------
Entry == Fds \X SUBSET Events

\* The types of the variables; only registered nodes are on poll_fds, and
\* epollfd_ctx_wait_or_block never counts more threads out than in.
TypeOK == /\ registered \subseteq Fds /\ listed \subseteq registered
          /\ events \in [Fds -> SUBSET Events]
          /\ oneshot \in [Fds -> BOOLEAN]
          /\ kq \subseteq Fds \cup {SELF}
          /\ nr_polling_threads \in Nat
          /\ mutex \in Threads \cup {NoThread}
          /\ open \subseteq Fds
          /\ ready \in [Fds -> SUBSET Events]
          /\ pc \in [Threads -> Locations]
          /\ loc \in [Threads -> [timeout : {"zero", "positive", "infinite"}, expired : BOOLEAN,
                                  cnt : Cnts \cup {1}, pfds : SUBSET Entry, todo : SUBSET Fds,
                                  got : SUBSET Fds, op : {"none", "ADD", "MOD", "DEL", "close"},
                                  fd : Fds \cup {NoThread}, after : Locations]]
          /\ calls \in [Threads -> 0 .. MaxCalls]
          /\ changes \in 0 .. MaxChanges

\* Once epoll_ctl, close or epoll_wait has released the mutex, every thread
\* inside real_ppoll polls exactly the list as it now is: no removed fd, no fd
\* missing, no events of before the change.
PollSetsCurrent == mutex = NoThread =>
    \A t \in Threads : pc[t] = "polling" => loc[t].pfds = PollSet

\* A pending user event's udata is a node that exists, and outside the critical
\* sections one that is armed: a deleted node is never dereferenced and a fired
\* one-shot node does not fire again before it is modified.  And however many are
\* pending, the nodes reported fit the caller's ev[], though kevs[] may be longer.
EventsHaveNodes == /\ kq \ {SELF} \subseteq registered
                   /\ mutex = NoThread => kq \ {SELF} \subseteq listed
                   /\ \A t \in Threads : Cardinality(loc[t].got) <= loc[t].cnt

\* trigger_repoll waits only while it will be woken: a thread is still counted, so that
\* one has yet to count itself out and signal, and no poll of such a thread can block.
RepollHeard == \A t \in Threads : pc[t] = "cond_wait" => nr_polling_threads > 0 /\ SELF \in kq

\* trigger_repoll's wait for the polling threads ends: epoll_ctl and close
\* return, and so does an epoll_wait with a timeout.
CallsReturn == \A t \in Threads :
    pc[t] # "idle" /\ (loc[t].op # "none" \/ loc[t].timeout # "infinite") ~> pc[t] = "idle"

\* A thread in epoll_wait returns while an armed fd is ready, also one whose fd
\* was added or modified, or became ready, after the thread began to wait.
ReadyFdWakes == \A t \in Threads :
    LET waiting == pc[t] # "idle" /\ loc[t].op = "none"
        deliverable == \E p \in PollSet : Triggered(p)
    IN  waiting /\ deliverable ~> ~waiting \/ ~deliverable
=============================================================================
