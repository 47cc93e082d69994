-------------------------- MODULE EpollPoll_proofs --------------------------
(***************************************************************************)
(* Proofs about EpollPoll for any threads, fds and events.  The copies of  *)
(* the list that threads poll differ from the list only while the owner of *)
(* the mutex is in trigger_repoll, which it leaves when the count of the   *)
(* polling threads, an exact one, is 0; and a pending event whose node is  *)
(* not on the list is about to be deleted by the owner.                    *)
(***************************************************************************)
EXTENDS EpollPoll, FiniteSetTheorems, TLAPS

USE EpollPollAssumption

Locals == [timeout : {"zero", "positive", "infinite"}, expired : BOOLEAN,
           cnt : Cnts \cup {1}, pfds : SUBSET Entry, todo : SUBSET Fds,
           got : SUBSET Fds, op : {"none", "ADD", "MOD", "DEL", "close"},
           fd : Fds \cup {NoThread}, after : Locations]

\* Inside trigger_repoll.
Repolling == {"repoll", "repoll_check", "cond_wait"}

\* About to delete the pending event of a node that is off the list.
Deleting == {"remove", "disarm"}

\* Counted in nr_polling_threads.
Counted == {"polling", "leave", "leave_error"}

Critical == {"scan", "scan_remove", "kevent", "deliver", "wait_unlock", "ctl_op", "ctl_unlock"}
                \cup Repolling \cup Deleting

Polling == {t \in Threads : pc[t] \in Counted}

\* The threads in a critical section are the owner of desc->mutex.
MutexInv == \A t \in Threads : pc[t] \in Critical <=> mutex = t

\* nr_polling_threads is the number of threads between counting in and out.
CountInv == IsFiniteSet(Polling) /\ nr_polling_threads = Cardinality(Polling)

\* Outside of trigger_repoll the copies are the list.
CopiesInv == (\A t \in Threads : pc[t] \notin Repolling) =>
    \A t \in Threads : pc[t] = "polling" => loc[t].pfds = PollSet

\* Thread t will delete the event of its node fd.
WillDelete(t) == \/ pc[t] \in Deleting
                 \/ pc[t] \in Repolling /\ loc[t].after \in Deleting

\* Where a thread goes on, and with which node.
LocInv == \A t \in Threads :
    /\ pc[t] \in Repolling => loc[t].after \in Deleting \cup {"ctl_unlock"}
    /\ pc[t] \in {"ctl", "ctl_op"} => /\ loc[t].fd \in Fds
                                      /\ loc[t].op \in {"ADD", "MOD"} => loc[t].after = "ctl_unlock"
    /\ WillDelete(t) => loc[t].fd \in Fds \ listed

\* The node of a pending event exists, and is on the list unless its event is
\* about to be deleted.
EventInv == \A f \in kq \ {SELF} :
    /\ f \in registered
    /\ f \in listed \/ \E t \in Threads : WillDelete(t) /\ loc[t].fd = f

PollInv == TypeOK /\ MutexInv /\ CountInv /\ CopiesInv /\ LocInv /\ EventInv

\* Thread t alone moves, and only its own local variables change.
Moves(t) == /\ pc' \in [Threads -> Locations] /\ loc' \in [Threads -> Locals]
            /\ \A u \in Threads : u # t => pc'[u] = pc[u] /\ loc'[u] = loc[u]

\* It keeps the mutex or does without it, takes it, or releases it.
MutexUsed(t) == \/ mutex' = mutex /\ (pc[t] \in Critical <=> pc'[t] \in Critical)
                \/ mutex = NoThread /\ mutex' = t /\ pc'[t] \in Critical
                \/ mutex' = NoThread /\ pc[t] \in Critical /\ pc'[t] \notin Critical

-----------------------------------------------------------------------------
\* Goto moves one thread.
LEMMA GotoPc ==
    ASSUME TypeOK, NEW t \in Threads, NEW from, NEW to \in Locations, Goto(t, from, to)
    PROVE  /\ pc' \in [Threads -> Locations]
           /\ pc[t] = from /\ pc'[t] = to
           /\ \A u \in Threads : u # t => pc'[u] = pc[u]
BY DEF TypeOK, Goto

\* A thread that is done has the local variables of one that has not begun.
LEMMA NoLocalsType == NoLocals \in Locals
BY DEF NoLocals, Locals, Locations

\* An update of one thread's local variables.
LEMMA LocUpdate ==
    ASSUME TypeOK, NEW t \in Threads, NEW new \in Locals, loc' = [loc EXCEPT ![t] = new]
    PROVE  /\ loc' \in [Threads -> Locals] /\ loc'[t] = new
           /\ \A u \in Threads : u # t => loc'[u] = loc[u]
BY DEF TypeOK, Locals

\* The copy that fill_pollfds makes.
LEMMA PollSetType == TypeOK => PollSet \in SUBSET Entry
BY DEF TypeOK, PollSet, Entry

\* Taking and releasing the mutex.
LEMMA MutexMoves ==
    ASSUME PollInv, NEW t \in Threads, Moves(t), MutexUsed(t)
    PROVE  MutexInv' /\ mutex' \in Threads \cup {NoThread}
BY DEF PollInv, MutexInv, MutexUsed, Moves, TypeOK

\* The owner of the mutex is alone in the critical sections.
LEMMA OwnerAlone ==
    ASSUME PollInv, NEW t \in Threads, pc[t] \in Critical
    PROVE  \A u \in Threads : u # t => pc[u] \notin Critical
BY DEF PollInv, MutexInv

\* A step outside of trigger_repoll and of the deletions that leaves nodes and count
\* alone, and makes at most events of listed nodes pending.
LEMMA Quietly ==
    ASSUME PollInv, NEW t \in Threads, Moves(t), MutexUsed(t),
           UNCHANGED <<registered, listed, events, oneshot, nr_polling_threads>>,
           kq' \subseteq kq \cup listed,
           open' \subseteq Fds, UNCHANGED ready, UNCHANGED changes, calls' \in [Threads -> 0 .. MaxCalls],
           pc[t] \notin Counted \cup Repolling \cup Deleting,
           pc'[t] \notin Counted \cup Repolling \cup Deleting,
           pc'[t] \in {"ctl", "ctl_op"} =>
               /\ loc'[t].fd \in Fds
               /\ loc'[t].op \in {"ADD", "MOD"} => loc'[t].after = "ctl_unlock"
    PROVE  PollInv'
<1>1. TypeOK'
    BY MutexMoves DEF PollInv, TypeOK, Moves, Locals
<1>2. Polling' = Polling
    BY DEF Polling, Moves
<1>3. CountInv'
    BY <1>2 DEF PollInv, CountInv
<1>4. CopiesInv'
    BY DEF PollInv, CopiesInv, PollSet, Moves, Counted
<1>5. \A u \in Threads : /\ WillDelete(u)' <=> WillDelete(u)
                         /\ WillDelete(u) => loc'[u].fd = loc[u].fd
    BY DEF WillDelete, Moves
<1>6. LocInv'
    BY <1>5 DEF PollInv, LocInv, Moves
<1>7. EventInv'
    BY <1>5 DEF PollInv, EventInv, TypeOK
<1> QED
    BY <1>1, <1>3, <1>4, <1>6, <1>7, MutexMoves DEF PollInv

\* Some fds have been added, and nobody has called yet.
LEMMA InitInv == Init => PollInv
<1> SUFFICES ASSUME Init PROVE PollInv
    OBVIOUS
<1>1. TypeOK
  <2>1. loc \in [Threads -> Locals]
      BY NoLocalsType DEF Init
  <2>2. oneshot \in [Fds -> BOOLEAN] /\ pc \in [Threads -> Locations]
      BY DEF Init, Locations
  <2>3. events \in [Fds -> SUBSET Events] /\ calls \in [Threads -> 0 .. MaxCalls]
      BY DEF Init
  <2> QED
      BY <2>1, <2>2, <2>3 DEF Init, TypeOK, Locals
<1>2. Polling = {}
    BY DEF Init, Polling, Counted
<1>3. MutexInv /\ CopiesInv /\ LocInv /\ EventInv
    BY DEF Init, MutexInv, CopiesInv, LocInv, EventInv, WillDelete, Critical, Repolling, Deleting
<1> QED
    BY <1>1, <1>2, <1>3, FS_EmptySet DEF PollInv, CountInv, Init

-----------------------------------------------------------------------------
(* Calls, locks and returns *)

\* A call begins.
LEMMA CallInv == ASSUME PollInv, NEW t \in Threads, CallWait(t) \/ CallCtl(t) PROVE PollInv'
<1>1. PICK to \in {"wait", "ctl"}, new \in Locals :
        /\ StartCall(t, to, new)
        /\ to = "ctl" => new.fd \in Fds /\ (new.op \in {"ADD", "MOD"} => new.after = "ctl_unlock")
  <2>1. CASE CallWait(t)
    <3>1. PICK tm \in Timeouts, cnt \in Cnts :
            StartCall(t, "wait", [NoLocals EXCEPT !.timeout = tm, !.cnt = cnt])
        BY <2>1 DEF CallWait
    <3>2. [NoLocals EXCEPT !.timeout = tm, !.cnt = cnt] \in Locals
        BY NoLocalsType DEF Locals
    <3> QED
        BY <3>1, <3>2
  <2>2. CASE CallCtl(t)
    <3>1. PICK op \in {"ADD", "MOD", "DEL", "close"}, f \in Fds :
            StartCall(t, "ctl", [NoLocals EXCEPT !.op = op, !.fd = f,
                                   !.after = IF op \in {"ADD", "MOD"} THEN "ctl_unlock" ELSE "remove"])
        BY <2>2 DEF CallCtl
    <3> DEFINE a == IF op \in {"ADD", "MOD"} THEN "ctl_unlock" ELSE "remove"
               new == [NoLocals EXCEPT !.op = op, !.fd = f, !.after = a]
    <3>2. a \in Locations
        BY DEF Locations
    <3>3. new \in Locals /\ new.fd = f /\ new.op = op /\ new.after = a
        BY <3>2, NoLocalsType DEF Locals
    <3>4. op \in {"ADD", "MOD"} => a = "ctl_unlock"
        OBVIOUS
    <3>5. StartCall(t, "ctl", new)
        BY <3>1
    <3> HIDE DEF new, a
    <3> QED
        BY <3>3, <3>4, <3>5
  <2> QED
      BY <2>1, <2>2
<1>2. /\ calls[t] < MaxCalls /\ calls' = [calls EXCEPT ![t] = @ + 1] /\ Goto(t, "idle", to)
      /\ loc' = [loc EXCEPT ![t] = new]
      /\ UNCHANGED <<registered, listed, events, oneshot, kq, nr_polling_threads, mutex, open, ready, changes>>
    BY <1>1 DEF StartCall, node_vars, file_vars
<1>3. Moves(t) /\ pc[t] = "idle" /\ pc'[t] = to /\ loc'[t] = new
  <2>1. loc' \in [Threads -> Locals] /\ loc'[t] = new /\ \A u \in Threads : u # t => loc'[u] = loc[u]
      BY <1>2, LocUpdate DEF PollInv
  <2>2. to \in Locations
      BY DEF Locations
  <2> QED
      BY <1>2, <2>1, <2>2, GotoPc DEF Moves, PollInv
<1>4. calls' \in [Threads -> 0 .. MaxCalls]
    BY <1>2 DEF PollInv, TypeOK
<1>5. MutexUsed(t)
    BY <1>2, <1>3 DEF MutexUsed, Critical, Repolling, Deleting
<1> QED
    BY <1>1, <1>2, <1>3, <1>4, <1>5, Quietly DEF PollInv, TypeOK, Counted, Repolling, Deleting

\* desc->mutex is taken.
LEMMA LockInv == ASSUME PollInv, NEW t \in Threads, WaitLock(t) \/ CtlLock(t) PROVE PollInv'
<1>1. /\ \/ Goto(t, "wait", "scan") \/ Goto(t, "ctl", "ctl_op")
      /\ mutex = NoThread /\ mutex' = t
      /\ UNCHANGED <<registered, listed, events, oneshot, kq, nr_polling_threads, open, ready, changes, loc, calls>>
    BY DEF WaitLock, CtlLock, Lock, node_vars, file_vars
<1>2. /\ Moves(t) /\ loc'[t] = loc[t]
      /\ \/ pc[t] = "wait" /\ pc'[t] = "scan"
         \/ pc[t] = "ctl" /\ pc'[t] = "ctl_op"
    BY <1>1, GotoPc DEF Moves, PollInv, TypeOK, Locations, Locals
<1>3. MutexUsed(t)
    BY <1>1, <1>2 DEF MutexUsed, Critical
<1> QED
    BY <1>1, <1>2, <1>3, Quietly DEF PollInv, TypeOK, LocInv, Counted, Repolling, Deleting

\* The ends of epoll_wait's critical section, and of calls that cannot begin to poll.
LEMMA UnlockInv ==
    ASSUME PollInv, NEW t \in Threads, WaitFails(t) \/ WaitUnlock(t) \/ EnterPollFails(t)
    PROVE  PollInv'
<1>1. /\ UNCHANGED <<registered, listed, events, oneshot, kq, nr_polling_threads, open, ready, changes, calls>>
      /\ loc' = [loc EXCEPT ![t] = NoLocals] \/ UNCHANGED loc
      /\ \/ mutex' = NoThread /\ \/ Goto(t, "scan", "idle") \/ Goto(t, "kevent", "idle")
                                 \/ Goto(t, "wait_unlock", "idle") \/ Goto(t, "wait_unlock", "block")
         \/ mutex' = mutex /\ Goto(t, "block", "idle")
    BY DEF WaitFails, WaitUnlock, EnterPollFails, Returned, node_vars, file_vars
<1>2. loc' \in [Threads -> Locals] /\ \A u \in Threads : u # t => loc'[u] = loc[u]
    BY <1>1, LocUpdate, NoLocalsType DEF PollInv, TypeOK, Locals
<1>3. /\ Moves(t) /\ pc'[t] \in {"idle", "block"}
      /\ \/ mutex' = NoThread /\ pc[t] \in {"scan", "kevent", "wait_unlock"}
         \/ mutex' = mutex /\ pc[t] = "block"
    BY <1>1, <1>2, GotoPc DEF Moves, PollInv, Locations
<1>4. MutexUsed(t)
    BY <1>3 DEF MutexUsed, Critical, Repolling, Deleting
<1> QED
    BY <1>1, <1>3, <1>4, Quietly DEF PollInv, TypeOK, Counted, Repolling, Deleting

\* epoll_ctl and close: nothing to do, and the end.
LEMMA CtlEndInv == ASSUME PollInv, NEW t \in Threads, CtlFails(t) \/ CtlUnlock(t) PROVE PollInv'
<1>1. /\ UNCHANGED <<registered, listed, events, oneshot, kq, nr_polling_threads, ready, changes, calls>>
      /\ open' \subseteq open
      /\ loc' = [loc EXCEPT ![t] = NoLocals] \/ UNCHANGED loc
      /\ \/ mutex' = NoThread /\ Goto(t, "ctl_unlock", "idle")
         \/ mutex' = mutex /\ Goto(t, "ctl_op", "ctl_unlock")
    BY DEF CtlFails, CtlUnlock, Returned, node_vars, file_vars
<1>2. loc' \in [Threads -> Locals] /\ \A u \in Threads : u # t => loc'[u] = loc[u]
    BY <1>1, LocUpdate, NoLocalsType DEF PollInv, TypeOK, Locals
<1>3. /\ Moves(t)
      /\ \/ mutex' = NoThread /\ pc[t] = "ctl_unlock" /\ pc'[t] = "idle"
         \/ mutex' = mutex /\ pc[t] = "ctl_op" /\ pc'[t] = "ctl_unlock"
    BY <1>1, <1>2, GotoPc DEF Moves, PollInv, Locations
<1>4. MutexUsed(t)
    BY <1>3 DEF MutexUsed, Critical, Repolling, Deleting
<1> QED
    BY <1>1, <1>3, <1>4, Quietly DEF PollInv, TypeOK, Counted, Repolling, Deleting

-----------------------------------------------------------------------------
(* epollfd_ctx_wait *)

\* The triggers of the ready nodes are those of nodes on the list.
LEMMA ScanInv == ASSUME PollInv, NEW t \in Threads, Scan(t) PROVE PollInv'
<1> DEFINE invalid == {p[1] : p \in {q \in PollSet : Invalid(q)}}
           triggered == {p[1] : p \in {q \in PollSet : Triggered(q)}}
<1>1. /\ UNCHANGED <<registered, listed, events, oneshot, nr_polling_threads, mutex, open, ready, changes, calls>>
      /\ \/ Goto(t, "scan", "wait_unlock") /\ UNCHANGED <<kq, loc>>
         \/ /\ Goto(t, "scan", "scan_remove") /\ kq' = kq \cup triggered
            /\ loc' = [loc EXCEPT ![t].todo = invalid]
    BY DEF Scan, node_vars, file_vars
<1>2. triggered \subseteq listed /\ invalid \subseteq listed /\ listed \subseteq Fds
    BY DEF PollSet, PollInv, TypeOK
<1> HIDE DEF triggered, invalid
<1>3. loc' \in [Threads -> Locals] /\ \A u \in Threads : u # t => loc'[u] = loc[u]
  <2>1. CASE loc' = [loc EXCEPT ![t].todo = invalid]
    <3>1. loc[t] \in Locals
        BY DEF PollInv, TypeOK, Locals
    <3>2. [loc[t] EXCEPT !.todo = invalid] \in Locals
        BY <1>2, <3>1 DEF Locals
    <3> QED
        BY <2>1, <3>2, LocUpdate DEF PollInv
  <2>2. CASE UNCHANGED loc
      BY <2>2 DEF PollInv, TypeOK, Locals
  <2> QED
      BY <1>1, <2>1, <2>2
<1>4. Moves(t) /\ pc[t] = "scan" /\ pc'[t] \in {"wait_unlock", "scan_remove"}
    BY <1>1, <1>3, GotoPc DEF Moves, PollInv, Locations
<1>5. MutexUsed(t)
    BY <1>1, <1>4 DEF MutexUsed, Critical, Repolling, Deleting
<1> QED
    BY <1>1, <1>2, <1>4, <1>5, Quietly DEF PollInv, TypeOK, Counted, Repolling, Deleting

\* Events are taken out of the kqueue.
LEMMA KeventInv == ASSUME PollInv, NEW t \in Threads, Kevent(t) PROVE PollInv'
<1>1. PICK S, got, todo :
        /\ S \subseteq kq /\ got \subseteq S \ {SELF} /\ todo \subseteq got
        /\ kq' = kq \ S
        /\ Goto(t, "kevent", "kevent") \/ Goto(t, "kevent", "deliver")
        /\ loc' = [loc EXCEPT ![t] = [loc[t] EXCEPT !.got = got, !.todo = todo]]
  <2>1. PICK S \in SUBSET kq :
          LET got == {f \in S \ {SELF} : FeedEvent(f)}
          IN  /\ kq' = kq \ S
              /\ Goto(t, "kevent", IF S # {} /\ got = {} THEN "kevent" ELSE "deliver")
              /\ loc' = [loc EXCEPT ![t] = [loc[t] EXCEPT !.got = got, !.todo = {f \in got : oneshot[f]}]]
      BY DEF Kevent
  <2> DEFINE got == {f \in S \ {SELF} : FeedEvent(f)}
             todo == {f \in got : oneshot[f]}
  <2>2. got \subseteq S \ {SELF} /\ todo \subseteq got
      OBVIOUS
  <2>3. /\ kq' = kq \ S
        /\ Goto(t, "kevent", "kevent") \/ Goto(t, "kevent", "deliver")
        /\ loc' = [loc EXCEPT ![t] = [loc[t] EXCEPT !.got = got, !.todo = todo]]
      BY <2>1
  <2> HIDE DEF got, todo
  <2> QED
      BY <2>2, <2>3
<1>2. UNCHANGED <<registered, listed, events, oneshot, nr_polling_threads, mutex, open, ready, changes, calls>>
    BY DEF Kevent, node_vars, file_vars
<1>3. got \subseteq Fds /\ todo \subseteq Fds
    BY <1>1 DEF PollInv, TypeOK
<1>4. loc' \in [Threads -> Locals] /\ \A u \in Threads : u # t => loc'[u] = loc[u]
  <2>1. loc[t] \in Locals
      BY DEF PollInv, TypeOK, Locals
  <2> DEFINE new == [loc[t] EXCEPT !.got = got, !.todo = todo]
  <2>2. new \in Locals
      BY <1>3, <2>1 DEF Locals
  <2>3. loc' = [loc EXCEPT ![t] = new]
      BY <1>1
  <2> HIDE DEF new
  <2> QED
      BY <2>2, <2>3, LocUpdate DEF PollInv
<1>5. Moves(t) /\ pc[t] = "kevent" /\ pc'[t] \in {"kevent", "deliver"}
    BY <1>1, <1>4, GotoPc DEF Moves, PollInv, Locations
<1>6. MutexUsed(t)
    BY <1>2, <1>5 DEF MutexUsed, Critical, Repolling, Deleting
<1> QED
    BY <1>1, <1>2, <1>5, <1>6, Quietly DEF PollInv, TypeOK, Counted, Repolling, Deleting

\* A node is taken off the list: while threads may still poll it, the owner is in
\* trigger_repoll, and while its event may be pending, on the way to delete it.
LEMMA TakeOff ==
    ASSUME PollInv, NEW t \in Threads, NEW f \in Fds, NEW after \in Deleting, Moves(t),
           pc[t] \in {"scan_remove", "deliver", "ctl_op"},
           pc'[t] = IF f \in listed THEN "repoll" ELSE after,
           listed' = listed \ {f}, loc'[t].fd = f, loc'[t].after = after,
           UNCHANGED <<registered, events, oneshot, kq, nr_polling_threads, mutex, open, ready, changes, calls>>
    PROVE  PollInv'
<1>1. pc[t] \in Critical /\ pc'[t] \in Critical /\ pc'[t] \notin Counted
    BY DEF Critical, Repolling, Deleting, Counted
<1>2. TypeOK'
    BY DEF PollInv, TypeOK, Moves, Locals
<1>3. MutexInv'
    BY <1>1, MutexMoves DEF MutexUsed
<1>4. Polling' = Polling
    BY <1>1 DEF Polling, Moves, Critical, Counted, Repolling, Deleting
<1>5. CountInv'
    BY <1>4 DEF PollInv, CountInv
<1>6. \A u \in Threads : u # t => pc[u] \notin Critical /\ pc'[u] \notin Critical
    BY <1>1, OwnerAlone DEF Moves
<1>7. CopiesInv'
  <2>1. CASE f \in listed
      BY <2>1 DEF CopiesInv, Repolling
  <2>2. CASE f \notin listed
    <3>1. PollSet' = PollSet
        BY <2>2 DEF PollSet
    <3> QED
        BY <1>1, <1>6, <3>1 DEF PollInv, CopiesInv, Moves, Critical, Repolling, Counted
  <2> QED
      BY <2>1, <2>2
<1>8. /\ WillDelete(t)' /\ ~WillDelete(t)
      /\ \A u \in Threads : u # t => ~WillDelete(u) /\ ~WillDelete(u)'
    BY <1>1, <1>6 DEF WillDelete, Critical, Repolling, Deleting
<1>9. LocInv'
    BY <1>1, <1>6, <1>8 DEF PollInv, LocInv, Moves, Critical, Deleting
<1>10. EventInv'
    BY <1>8 DEF PollInv, EventInv
<1> QED
    BY <1>2, <1>3, <1>5, <1>7, <1>9, <1>10 DEF PollInv

\* The loops over the nodes with POLLNVAL and over the one-shot nodes of ev[].
LEMMA LoopInv == ASSUME PollInv, NEW t \in Threads, ScanRemove(t) \/ Deliver(t) PROVE PollInv'
<1>1. UNCHANGED <<registered, events, oneshot, kq, nr_polling_threads, mutex, open, ready, changes, calls>>
    BY DEF ScanRemove, Deliver, TakeOffList, node_vars, file_vars
<1>2. CASE \/ Goto(t, "scan_remove", "kevent") /\ UNCHANGED <<listed, loc>>
           \/ Goto(t, "deliver", "wait_unlock") /\ UNCHANGED <<listed, loc>>
  <2>1. Moves(t) /\ pc[t] \in {"scan_remove", "deliver"} /\ pc'[t] \in {"kevent", "wait_unlock"}
      BY <1>2, GotoPc DEF Moves, PollInv, TypeOK, Locals, Locations
  <2>2. MutexUsed(t)
      BY <1>1, <2>1 DEF MutexUsed, Critical
  <2> QED
      BY <1>1, <1>2, <2>1, <2>2, Quietly DEF PollInv, TypeOK, Counted, Repolling, Deleting
<1>3. ASSUME NEW f \in loc[t].todo, NEW from \in {"scan_remove", "deliver"}, NEW after \in Deleting,
             TakeOffList(t, from, f, after),
             loc' = [loc EXCEPT ![t] = [loc[t] EXCEPT !.todo = @ \ {f}, !.fd = f, !.after = after]]
      PROVE  PollInv'
  <2>1. loc[t] \in Locals
      BY DEF PollInv, TypeOK, Locals
  <2>2. f \in Fds /\ loc[t].todo \ {f} \in SUBSET Fds /\ after \in Locations
      BY <2>1 DEF Locals, Deleting, Locations
  <2> DEFINE new == [loc[t] EXCEPT !.todo = @ \ {f}, !.fd = f, !.after = after]
  <2>3. new \in Locals /\ new.fd = f /\ new.after = after
      BY <2>1, <2>2 DEF Locals
  <2>4. loc' = [loc EXCEPT ![t] = new]
      BY <1>3
  <2> HIDE DEF new
  <2>5. /\ loc' \in [Threads -> Locals] /\ loc'[t] = new
        /\ \A u \in Threads : u # t => loc'[u] = loc[u]
      BY <2>3, <2>4, LocUpdate DEF PollInv
  <2> DEFINE to == IF f \in listed THEN "repoll" ELSE after
  <2>6. Goto(t, from, to) /\ to \in Locations /\ listed' = listed \ {f}
      BY <1>3, <2>2 DEF TakeOffList, Locations
  <2> HIDE DEF to
  <2>7. Moves(t) /\ pc[t] = from /\ pc'[t] = to
      BY <2>5, <2>6, GotoPc DEF Moves, PollInv
  <2> QED
      BY <1>1, <2>2, <2>3, <2>5, <2>6, <2>7, TakeOff DEF to
<1> QED
    BY <1>2, <1>3 DEF ScanRemove, Deliver, node_vars, Deleting

\* epollfd_ctx_remove_node as epoll_ctl and close reach it.
LEMMA CtlRemoveInv == ASSUME PollInv, NEW t \in Threads, CtlRemove(t) PROVE PollInv'
<1> DEFINE f == loc[t].fd
           new == [loc[t] EXCEPT !.after = "remove"]
           to == IF f \in listed THEN "repoll" ELSE "remove"
<1>1. /\ f \in registered /\ Goto(t, "ctl_op", to) /\ listed' = listed \ {f}
      /\ loc' = [loc EXCEPT ![t] = new]
      /\ UNCHANGED <<registered, events, oneshot, kq, nr_polling_threads, mutex, open, ready, changes, calls>>
    BY DEF CtlRemove, TakeOffList, file_vars
<1>2. loc[t] \in Locals /\ f \in Fds /\ to \in Locations
    BY <1>1 DEF PollInv, TypeOK, Locals, Locations
<1>3. new \in Locals /\ new.fd = f /\ new.after = "remove"
    BY <1>2 DEF Locals, Locations
<1> HIDE DEF new, to, f
<1>4. loc' \in [Threads -> Locals] /\ loc'[t] = new /\ \A u \in Threads : u # t => loc'[u] = loc[u]
    BY <1>1, <1>3, LocUpdate DEF PollInv
<1>5. Moves(t) /\ pc[t] = "ctl_op" /\ pc'[t] = to
    BY <1>1, <1>2, <1>4, GotoPc DEF Moves, PollInv
<1> QED
    BY <1>1, <1>2, <1>3, <1>4, <1>5, TakeOff DEF to, Deleting

\* A node is added or its events change: the owner goes on in trigger_repoll.
LEMMA RegisterInv == ASSUME PollInv, NEW t \in Threads, CtlRegister(t) PROVE PollInv'
<1> DEFINE f == loc[t].fd
<1>1. /\ Goto(t, "ctl_op", "repoll") /\ loc[t].op \in {"ADD", "MOD"}
      /\ registered' = registered \cup {f} /\ listed' = listed \cup {f}
      /\ \E e \in SUBSET Events : events' = [events EXCEPT ![f] = e]
      /\ \E b \in BOOLEAN : oneshot' = [oneshot EXCEPT ![f] = b]
      /\ kq' \subseteq kq
      /\ UNCHANGED <<nr_polling_threads, mutex, open, ready, changes, loc, calls>>
    BY DEF CtlRegister, Register, EvAdd, file_vars
<1>2. Moves(t) /\ pc[t] = "ctl_op" /\ pc'[t] = "repoll" /\ loc'[t] = loc[t]
    BY <1>1, GotoPc DEF Moves, PollInv, TypeOK, Locals, Locations
<1>3. f \in Fds /\ loc[t].after = "ctl_unlock"
    BY <1>1, <1>2 DEF PollInv, LocInv
<1> HIDE DEF f
<1>4. events' \in [Fds -> SUBSET Events]
    BY <1>1, <1>3 DEF PollInv, TypeOK
<1>5. oneshot' \in [Fds -> BOOLEAN]
    BY <1>1, <1>3 DEF PollInv, TypeOK
<1>6. TypeOK'
    BY <1>1, <1>2, <1>3, <1>4, <1>5 DEF PollInv, TypeOK, Moves, Locals
<1>7. MutexInv'
    BY <1>1, <1>2, MutexMoves DEF MutexUsed, Critical, Repolling
<1>8. Polling' = Polling
    BY <1>2 DEF Polling, Moves, Counted
<1>9. CountInv'
    BY <1>1, <1>8 DEF PollInv, CountInv
<1>10. \A u \in Threads : u # t => pc[u] \notin Critical /\ pc'[u] \notin Critical
    BY <1>2, OwnerAlone DEF Moves, Critical
<1>11. CopiesInv'
    BY <1>2 DEF CopiesInv, Repolling
<1>12. \A u \in Threads : ~WillDelete(u) /\ ~WillDelete(u)'
    BY <1>1, <1>2, <1>3, <1>10 DEF WillDelete, Critical, Repolling, Deleting
<1>13. LocInv'
    BY <1>1, <1>2, <1>3, <1>12 DEF PollInv, LocInv, Moves, Repolling
<1>14. EventInv'
    BY <1>1, <1>12 DEF PollInv, EventInv
<1> QED
    BY <1>6, <1>7, <1>9, <1>11, <1>13, <1>14 DEF PollInv

-----------------------------------------------------------------------------
(* epollfd_ctx__trigger_repoll *)

\* A thread leaves trigger_repoll only when no thread polls a copy.
LEMMA RepollInv ==
    ASSUME PollInv, NEW t \in Threads, Repoll(t) \/ RepollCheck(t) \/ SpuriousWakeup(t)
    PROVE  PollInv'
<1>1. PICK to \in Repolling \cup {loc[t].after} :
        /\ Goto(t, "repoll", to) \/ Goto(t, "repoll_check", to) \/ Goto(t, "cond_wait", to)
        /\ to \in Repolling \/ nr_polling_threads = 0
    BY DEF Repoll, RepollCheck, SpuriousWakeup, Repolling
<1>2. /\ UNCHANGED <<registered, listed, events, oneshot, nr_polling_threads, mutex, open, ready, changes,
                     loc, calls>>
      /\ kq' \subseteq kq \cup {SELF}
    BY DEF Repoll, RepollCheck, SpuriousWakeup, node_vars, file_vars
<1>3. loc[t] \in Locals
    BY DEF PollInv, TypeOK, Locals
<1>4. to \in Locations
    BY <1>3 DEF Locals, Locations, Repolling
<1>5. Moves(t) /\ pc[t] \in Repolling /\ pc'[t] = to
    BY <1>1, <1>2, <1>4, GotoPc DEF Moves, PollInv, TypeOK, Locals, Repolling
<1>6. loc[t].after \in Deleting \cup {"ctl_unlock"}
    BY <1>5 DEF PollInv, LocInv
<1>7. pc[t] \in Critical /\ pc'[t] \in Critical
    BY <1>5, <1>6 DEF Critical
<1>8. TypeOK'
    BY <1>2, <1>5 DEF PollInv, TypeOK, Moves, Locals
<1>9. MutexInv'
    BY <1>2, <1>5, <1>7, MutexMoves DEF MutexUsed
<1>10. Polling' = Polling
    BY <1>5, <1>7 DEF Polling, Moves, Critical, Counted, Repolling, Deleting
<1>11. CountInv'
    BY <1>2, <1>10 DEF PollInv, CountInv
<1>12. CopiesInv'
  <2>1. CASE to \in Repolling
      BY <1>5, <2>1 DEF CopiesInv
  <2>2. CASE nr_polling_threads = 0
    <3>1. Polling = {}
        BY <2>2, FS_EmptySet DEF PollInv, CountInv
    <3>2. \A u \in Threads : pc'[u] # "polling"
        BY <1>10, <3>1 DEF Polling, Counted
    <3> QED
        BY <3>2 DEF CopiesInv
  <2> QED
      BY <1>1, <2>1, <2>2
<1>13. \A u \in Threads : /\ WillDelete(u)' <=> WillDelete(u)
                          /\ loc'[u] = loc[u]
    BY <1>2, <1>5, <1>6, <1>1 DEF WillDelete, Moves, Repolling, Deleting
<1>14. LocInv'
  <2>1. pc'[t] \notin {"ctl", "ctl_op"}
      BY <1>1, <1>5, <1>6 DEF Repolling, Deleting
  <2> QED
      BY <1>2, <1>5, <1>6, <1>13, <2>1 DEF PollInv, LocInv, Moves
<1>15. EventInv'
    BY <1>2, <1>13 DEF PollInv, EventInv
<1> QED
    BY <1>8, <1>9, <1>11, <1>12, <1>14, <1>15 DEF PollInv

\* The deletion of the event, and of the node where it goes away.
LEMMA DeleteInv == ASSUME PollInv, NEW t \in Threads, RemoveNode(t) \/ Disarm(t) PROVE PollInv'
<1> DEFINE f == loc[t].fd
<1>1. PICK to \in {"scan_remove", "ctl_unlock", "deliver"} : Goto(t, "remove", to) \/ Goto(t, "disarm", to)
    BY DEF RemoveNode, Disarm
<1>2. /\ kq' = kq \ {f} /\ UNCHANGED <<listed, nr_polling_threads, mutex, open, ready, changes, loc, calls>>
      /\ \/ UNCHANGED <<registered, events, oneshot>>
         \/ /\ registered' = registered \ {f} /\ events' = [events EXCEPT ![f] = {}]
            /\ oneshot' = [oneshot EXCEPT ![f] = FALSE]
    BY DEF RemoveNode, Disarm, node_vars, file_vars
<1>3. to \in Locations
    BY DEF Locations
<1>4. Moves(t) /\ pc[t] \in Deleting /\ pc'[t] = to
    BY <1>1, <1>2, <1>3, GotoPc DEF Moves, PollInv, TypeOK, Locals, Deleting
<1>5. f \in Fds \ listed
    BY <1>4 DEF PollInv, LocInv, WillDelete
<1>6. pc[t] \in Critical /\ pc'[t] \in Critical
    BY <1>4 DEF Critical
<1>7. \A u \in Threads : u # t => pc[u] \notin Critical /\ pc'[u] \notin Critical
    BY <1>4, <1>6, OwnerAlone DEF Moves
<1>8. TypeOK'
  <2>1. events' \in [Fds -> SUBSET Events]
      BY <1>2, <1>5 DEF PollInv, TypeOK
  <2>2. oneshot' \in [Fds -> BOOLEAN]
      BY <1>2, <1>5 DEF PollInv, TypeOK
  <2> QED
      BY <1>2, <1>4, <1>5, <2>1, <2>2 DEF PollInv, TypeOK, Moves, Locals
<1>9. MutexInv'
    BY <1>2, <1>4, <1>6, MutexMoves DEF MutexUsed
<1>10. Polling' = Polling
    BY <1>4, <1>6 DEF Polling, Moves, Critical, Counted, Repolling, Deleting
<1>11. CountInv'
    BY <1>2, <1>10 DEF PollInv, CountInv
<1>12. PollSet' = PollSet
    BY <1>2, <1>5 DEF PollSet, PollInv, TypeOK
<1>13. CopiesInv'
    BY <1>2, <1>4, <1>7, <1>12 DEF PollInv, CopiesInv, Moves, Critical, Repolling, Deleting
<1>14. \A u \in Threads : ~WillDelete(u)' /\ (u # t => ~WillDelete(u))
    BY <1>4, <1>7 DEF WillDelete, Critical, Repolling, Deleting
<1>15. LocInv'
    BY <1>2, <1>4, <1>7, <1>14 DEF PollInv, LocInv, Moves, Critical, Repolling
<1>16. EventInv'
    BY <1>2, <1>14 DEF PollInv, EventInv
<1> QED
    BY <1>8, <1>9, <1>11, <1>13, <1>15, <1>16 DEF PollInv

-----------------------------------------------------------------------------
(* The polling threads *)

\* A thread is counted in with a copy of the list as it is: the mutex is free, so
\* nobody is in trigger_repoll.
LEMMA EnterPollInv == ASSUME PollInv, NEW t \in Threads, EnterPoll(t) PROVE PollInv'
<1> DEFINE new == [loc[t] EXCEPT !.pfds = PollSet]
<1>1. /\ Goto(t, "block", "polling") /\ mutex = NoThread /\ nr_polling_threads' = nr_polling_threads + 1
      /\ loc' = [loc EXCEPT ![t] = new]
      /\ UNCHANGED <<registered, listed, events, oneshot, kq, mutex, open, ready, changes, calls>>
    BY DEF EnterPoll, node_vars, file_vars
<1>2. new \in Locals /\ new.pfds = PollSet
    BY PollSetType DEF PollInv, TypeOK, Locals
<1> HIDE DEF new
<1>3. Moves(t) /\ loc'[t] = new /\ pc[t] = "block" /\ pc'[t] = "polling"
  <2>1. loc' \in [Threads -> Locals] /\ loc'[t] = new /\ \A u \in Threads : u # t => loc'[u] = loc[u]
      BY <1>1, <1>2, LocUpdate DEF PollInv
  <2> QED
      BY <1>1, <2>1, GotoPc DEF Moves, PollInv, Locations
<1>4. \A u \in Threads : pc[u] \notin Critical /\ pc'[u] \notin Critical
    BY <1>1, <1>3 DEF PollInv, MutexInv, Moves, Critical, Repolling, Deleting
<1>5. t \notin Polling /\ Polling' = Polling \cup {t}
    BY <1>3 DEF Polling, Moves, Counted
<1>6. CountInv' /\ nr_polling_threads' \in Nat
  <2>1. /\ IsFiniteSet(Polling \cup {t})
        /\ Cardinality(Polling \cup {t}) = Cardinality(Polling) + 1
      BY <1>5, FS_AddElement DEF PollInv, CountInv
  <2> QED
      BY <1>1, <1>5, <2>1 DEF PollInv, CountInv, TypeOK
<1>7. TypeOK'
    BY <1>1, <1>3, <1>6 DEF PollInv, TypeOK, Moves, Locals
<1>8. MutexInv'
    BY <1>1, <1>3, <1>4, MutexMoves DEF MutexUsed
<1>9. PollSet' = PollSet
    BY <1>1 DEF PollSet
<1>10. CopiesInv'
    BY <1>2, <1>3, <1>4, <1>9 DEF PollInv, CopiesInv, Moves, Critical
<1>11. \A u \in Threads : ~WillDelete(u) /\ ~WillDelete(u)'
    BY <1>4 DEF WillDelete, Critical
<1>12. LocInv'
    BY <1>3, <1>4, <1>11 DEF PollInv, LocInv, Moves, Critical
<1>13. EventInv'
    BY <1>1, <1>11 DEF PollInv, EventInv
<1> QED
    BY <1>6, <1>7, <1>8, <1>10, <1>12, <1>13 DEF PollInv

\* real_ppoll returns; the thread is still counted.
LEMMA PollReturnsInv ==
    ASSUME PollInv, NEW t \in Threads, PollReturns(t) \/ PollInterrupted(t)
    PROVE  PollInv'
<1>1. /\ Goto(t, "polling", "leave") \/ Goto(t, "polling", "leave_error")
      /\ UNCHANGED <<registered, listed, events, oneshot, kq, nr_polling_threads, mutex, open, ready, changes,
                     loc, calls>>
    BY DEF PollReturns, PollInterrupted, node_vars, file_vars
<1>2. Moves(t) /\ pc[t] = "polling" /\ pc'[t] \in {"leave", "leave_error"}
    BY <1>1, GotoPc DEF Moves, PollInv, TypeOK, Locals, Locations
<1>3. TypeOK'
    BY <1>1, <1>2 DEF PollInv, TypeOK, Moves, Locals
<1>4. MutexInv'
    BY <1>1, <1>2, MutexMoves DEF MutexUsed, Critical, Repolling, Deleting
<1>5. Polling' = Polling
    BY <1>2 DEF Polling, Moves, Counted
<1>6. CountInv'
    BY <1>1, <1>5 DEF PollInv, CountInv
<1>7. CopiesInv'
    BY <1>1, <1>2 DEF PollInv, CopiesInv, PollSet, Moves, Repolling
<1>8. \A u \in Threads : (WillDelete(u)' <=> WillDelete(u)) /\ loc'[u] = loc[u]
    BY <1>1, <1>2 DEF WillDelete, Moves, Repolling, Deleting
<1>9. LocInv'
    BY <1>1, <1>2, <1>8 DEF PollInv, LocInv, Moves, Repolling
<1>10. EventInv'
    BY <1>1, <1>8 DEF PollInv, EventInv
<1> QED
    BY <1>3, <1>4, <1>6, <1>7, <1>9, <1>10 DEF PollInv

\* A thread is counted out, and may wake the one in trigger_repoll.
LEMMA LeavePollInv ==
    ASSUME PollInv, NEW t \in Threads, LeavePoll(t) \/ LeavePollError(t)
    PROVE  PollInv'
<1> DEFINE left == [loc[t] EXCEPT !.pfds = {}, !.timeout = IF loc[t].expired THEN "zero" ELSE @]
<1>1. left \in Locals
  <2>1. loc[t] \in Locals
      BY DEF PollInv, TypeOK, Locals
  <2>2. (IF loc[t].expired THEN "zero" ELSE loc[t].timeout) \in {"zero", "positive", "infinite"}
      BY <2>1 DEF Locals
  <2> QED
      BY <2>1, <2>2 DEF Locals
<1>2. /\ loc' = [loc EXCEPT ![t] = left] \/ loc' = [loc EXCEPT ![t] = NoLocals]
      /\ UNCHANGED <<registered, listed, events, oneshot, kq, mutex, open, ready, changes, calls>>
      /\ nr_polling_threads' = nr_polling_threads - 1
    BY DEF LeavePoll, LeavePollError, CountOut, Returned, node_vars, file_vars
<1> HIDE DEF left
<1>3. loc' \in [Threads -> Locals] /\ \A u \in Threads : u # t => loc'[u] = loc[u]
    BY <1>1, <1>2, LocUpdate, NoLocalsType DEF PollInv
<1>4. pc[t] \in {"leave", "leave_error"}
    BY DEF LeavePoll, LeavePollError, CountOut
<1>5. /\ pc' \in [Threads -> Locations] /\ pc'[t] \in {"wait", "idle"}
      /\ \A u \in Threads : u # t => \/ pc'[u] = pc[u]
                                     \/ pc[u] = "cond_wait" /\ pc'[u] = "repoll_check"
  <2>1. PICK to \in {"wait", "idle"} :
          \/ pc' = [pc EXCEPT ![t] = to]
          \/ \E u \in Threads : pc[u] = "cond_wait" /\ pc' = [[pc EXCEPT ![t] = to] EXCEPT ![u] = "repoll_check"]
      BY DEF LeavePoll, LeavePollError, CountOut
  <2>2. to \in Locations /\ "repoll_check" \in Locations /\ pc \in [Threads -> Locations]
      BY DEF Locations, PollInv, TypeOK
  <2>3. CASE pc' = [pc EXCEPT ![t] = to]
      BY <2>2, <2>3
  <2>4. ASSUME NEW u \in Threads, pc[u] = "cond_wait",
               pc' = [[pc EXCEPT ![t] = to] EXCEPT ![u] = "repoll_check"]
        PROVE  /\ pc' \in [Threads -> Locations] /\ pc'[t] \in {"wait", "idle"}
               /\ \A v \in Threads : v # t => \/ pc'[v] = pc[v]
                                              \/ pc[v] = "cond_wait" /\ pc'[v] = "repoll_check"
      BY <1>4, <2>2, <2>4
  <2> QED
      BY <2>1, <2>3, <2>4
<1>6. t \in Polling /\ Polling' = Polling \ {t}
    BY <1>4, <1>5 DEF Polling, Counted
<1>7. CountInv' /\ nr_polling_threads' \in Nat
  <2>1. /\ IsFiniteSet(Polling \ {t}) /\ Cardinality(Polling \ {t}) \in Nat
        /\ Cardinality(Polling \ {t}) = Cardinality(Polling) - 1
      BY <1>6, FS_RemoveElement, FS_CardinalityType DEF PollInv, CountInv
  <2> QED
      BY <1>2, <1>6, <2>1 DEF PollInv, CountInv
<1>8. TypeOK'
    BY <1>2, <1>3, <1>5, <1>7 DEF PollInv, TypeOK, Locals
<1>9. MutexInv'
    BY <1>2, <1>4, <1>5 DEF PollInv, MutexInv, Critical, Repolling, Deleting
<1>10. CopiesInv'
  <2>1. PollSet' = PollSet
      BY <1>2 DEF PollSet
  <2>2. \A u \in Threads : pc[u] \in Repolling => pc'[u] \in Repolling
      BY <1>4, <1>5 DEF Repolling
  <2>3. \A u \in Threads : pc'[u] = "polling" => pc[u] = "polling" /\ loc'[u] = loc[u]
      BY <1>3, <1>5
  <2> QED
      BY <2>1, <2>2, <2>3 DEF PollInv, CopiesInv
<1>11. \A u \in Threads : /\ WillDelete(u)' <=> WillDelete(u)
                          /\ WillDelete(u) => loc'[u] = loc[u]
    BY <1>3, <1>4, <1>5 DEF WillDelete, Repolling, Deleting
<1>12. LocInv'
    BY <1>2, <1>3, <1>5, <1>11 DEF PollInv, LocInv, Repolling
<1>13. EventInv'
    BY <1>2, <1>11 DEF PollInv, EventInv
<1> QED
    BY <1>7, <1>8, <1>9, <1>10, <1>12, <1>13 DEF PollInv

-----------------------------------------------------------------------------
(* The environment *)

\* Time does not change what a thread polls or is about to do.
LEMMA DeadlineInv == ASSUME PollInv, NEW t \in Threads, DeadlinePasses(t) PROVE PollInv'
<1> DEFINE new == [loc[t] EXCEPT !.expired = TRUE]
<1>1. /\ loc' = [loc EXCEPT ![t] = new]
      /\ UNCHANGED <<registered, listed, events, oneshot, kq, nr_polling_threads, mutex, open, ready, changes, pc, calls>>
    BY DEF DeadlinePasses, node_vars, file_vars
<1>2. /\ new \in Locals /\ new.pfds = loc[t].pfds /\ new.fd = loc[t].fd /\ new.op = loc[t].op
      /\ new.after = loc[t].after
  <2>1. loc[t] \in Locals
      BY DEF PollInv, TypeOK, Locals
  <2> QED
      BY <2>1 DEF Locals
<1> HIDE DEF new
<1>3. /\ loc' \in [Threads -> Locals]
      /\ \A u \in Threads : /\ loc'[u].pfds = loc[u].pfds /\ loc'[u].fd = loc[u].fd
                            /\ loc'[u].op = loc[u].op /\ loc'[u].after = loc[u].after
    BY <1>1, <1>2, LocUpdate DEF PollInv
<1>4. TypeOK' /\ MutexInv'
    BY <1>1, <1>3 DEF PollInv, TypeOK, MutexInv, Locals
<1>5. CountInv' /\ CopiesInv'
    BY <1>1, <1>3 DEF PollInv, CountInv, Polling, CopiesInv, PollSet
<1>6. LocInv' /\ EventInv'
    BY <1>1, <1>3 DEF PollInv, LocInv, EventInv, WillDelete
<1> QED
    BY <1>4, <1>5, <1>6 DEF PollInv

\* Files are closed and opened and become ready.
LEMMA FilesInv == ASSUME PollInv, NEW f \in Fds, FileChanges(f) \/ OpenFile(f) PROVE PollInv'
<1>1. /\ UNCHANGED <<registered, listed, events, oneshot, kq, nr_polling_threads, mutex, pc, loc, calls>>
      /\ open' \subseteq Fds /\ ready' \in [Fds -> SUBSET Events] /\ changes' \in 0 .. MaxChanges
    BY DEF FileChanges, OpenFile, node_vars, PollInv, TypeOK
<1>2. TypeOK' /\ MutexInv'
    BY <1>1 DEF PollInv, TypeOK, MutexInv
<1>3. CountInv' /\ CopiesInv'
    BY <1>1 DEF PollInv, CountInv, Polling, CopiesInv, PollSet
<1>4. LocInv' /\ EventInv'
    BY <1>1 DEF PollInv, LocInv, EventInv, WillDelete
<1> QED
    BY <1>2, <1>3, <1>4 DEF PollInv

-----------------------------------------------------------------------------
\* Every step preserves the invariant.
LEMMA NextInv == PollInv /\ [Next]_vars => PollInv'
<1> SUFFICES ASSUME PollInv, [Next]_vars PROVE PollInv'
    OBVIOUS
<1>1. CASE UNCHANGED vars
    BY <1>1 DEF vars, PollInv, TypeOK, MutexInv, CountInv, Polling, CopiesInv, PollSet, LocInv, EventInv, WillDelete
<1>2. ASSUME NEW t \in Threads, Step(t) PROVE PollInv'
    BY <1>2, RepollInv, DeleteInv, LockInv, ScanInv, LoopInv, KeventInv, UnlockInv, EnterPollInv,
       PollReturnsInv, LeavePollInv, CtlEndInv, RegisterInv, CtlRemoveInv DEF Step
<1> QED
    BY <1>1, <1>2, CallInv, RepollInv, UnlockInv, PollReturnsInv, DeadlineInv, FilesInv DEF Next, AtRest

\* The inductive invariant holds for every set of threads, fds and events.
THEOREM PollInvariant == Spec => []PollInv
BY InitInv, NextInv, PTL DEF Spec

\* The variables keep their types: nr_polling_threads does not drop below 0 and poll_fds
\* holds only registered nodes.
THEOREM TypeCorrect == Spec => []TypeOK
<1>1. PollInv => TypeOK
    BY DEF PollInv
<1> QED
    BY <1>1, PollInvariant, PTL

\* Whichever threads change the list or an entry's events while others poll: once the
\* mutex is free, every thread inside real_ppoll polls the list as it is.
THEOREM CopiesCurrent == Spec => []PollSetsCurrent
<1>1. PollInv => PollSetsCurrent
    BY DEF PollInv, PollSetsCurrent, CopiesInv, MutexInv, Critical
<1> QED
    BY <1>1, PollInvariant, PTL

-----------------------------------------------------------------------------
(* The caller's array: kevs[] is longer than ev[] only when ev[] has room    *)
(* for every registered node, and a node is reported once.                   *)

Fits(l) == Cardinality(l.got) <= l.cnt

FitInv == \A t \in Threads : Fits(loc[t])

\* The length of ev[].
LEMMA CntType == ASSUME NEW c \in Cnts \cup {1} PROVE c \in Nat
<1>1. CASE c \in Cnts
  <2>1. Cnts \subseteq Nat \ {0}
      BY EpollPollAssumption
  <2> QED
      BY <1>1, <2>1
<1>2. CASE c = 1
    BY <1>2
<1> QED
    BY <1>1, <1>2

\* A call begins with an empty array of at least one entry.
LEMMA EmptyFits == ASSUME NEW l \in Locals, l.got = {} PROVE Fits(l)
<1>1. l.cnt \in Cnts \cup {1}
    BY DEF Locals
<1>2. l.cnt \in Nat
    BY <1>1, CntType
<1> QED
    BY <1>2, FS_EmptySet DEF Fits

\* What epoll_wait takes out of the kqueue fits.
LEMMA KeventFits == ASSUME PollInv, FitInv, NEW t \in Threads, Kevent(t) PROVE FitInv'
<1>1. PICK S \in SUBSET kq : \E todo :
        LET space == EventSpace(loc[t].cnt)
            got == {f \in S \ {SELF} : FeedEvent(f)}
        IN  /\ Cardinality(S) = IF Cardinality(kq) < space THEN Cardinality(kq) ELSE space
            /\ loc' = [loc EXCEPT ![t] = [loc[t] EXCEPT !.got = got, !.todo = todo]]
    BY DEF Kevent
<1> DEFINE got == {f \in S \ {SELF} : FeedEvent(f)}
           space == EventSpace(loc[t].cnt)
<1>2. loc \in [Threads -> Locals] /\ loc[t].cnt \in Nat
  <2>1. loc \in [Threads -> Locals]
      BY DEF PollInv, TypeOK, Locals
  <2>2. loc[t].cnt \in Cnts \cup {1}
      BY <2>1 DEF Locals
  <2> QED
      BY <2>1, <2>2, CntType
<1>3. IsFiniteSet(registered) /\ IsFiniteSet(kq) /\ IsFiniteSet(S)
  <2>1. registered \in SUBSET Fds /\ kq \in SUBSET (Fds \cup {SELF}) /\ S \in SUBSET kq
      BY DEF PollInv, TypeOK
  <2>2. IsFiniteSet(Fds \cup {SELF})
      BY FS_AddElement
  <2> QED
      BY <2>1, <2>2, FS_Subset
<1>4. Cardinality(registered) \in Nat /\ Cardinality(kq) \in Nat /\ Cardinality(S) \in Nat
    BY <1>3, FS_CardinalityType
<1>5. got \in SUBSET S /\ got \in SUBSET registered
    BY DEF PollInv, EventInv
<1>6. Cardinality(got) <= Cardinality(S) /\ Cardinality(got) <= Cardinality(registered)
    BY <1>3, <1>5, FS_Subset
<1>7. Cardinality(got) \in Nat
    BY <1>3, <1>5, FS_Subset, FS_CardinalityType
<1>8. Cardinality(S) = IF Cardinality(kq) < space THEN Cardinality(kq) ELSE space
    BY <1>1
<1>9. Cardinality(got) <= loc[t].cnt
  <2>1. CASE loc[t].cnt >= Cardinality(registered)
      BY <2>1, <1>2, <1>4, <1>6, <1>7
  <2>2. CASE ~(loc[t].cnt >= Cardinality(registered))
    <3>1. space = loc[t].cnt
        BY <2>2 DEF EventSpace
    <3> HIDE DEF space
    <3>2. Cardinality(S) <= loc[t].cnt
        BY <3>1, <1>2, <1>4, <1>8
    <3> QED
        BY <3>2, <1>2, <1>4, <1>6, <1>7
  <2> QED
      BY <2>1, <2>2
<1>10. /\ loc'[t].got = got /\ loc'[t].cnt = loc[t].cnt
       /\ \A u \in Threads : u # t => loc'[u] = loc[u]
  <2>1. PICK todo : loc' = [loc EXCEPT ![t] = [loc[t] EXCEPT !.got = got, !.todo = todo]]
      BY <1>1
  <2> HIDE DEF got
  <2> QED
      BY <2>1, <1>2 DEF Locals
<1> HIDE DEF got, space
<1> QED
    BY <1>9, <1>10 DEF FitInv, Fits

\* Nobody else writes to the array, and a call that begins or ends empties it.
LEMMA NextFits == PollInv /\ FitInv /\ [Next]_vars => FitInv'
<1> SUFFICES ASSUME PollInv, FitInv, [Next]_vars PROVE FitInv'
    OBVIOUS
<1>0. loc \in [Threads -> Locals]
    BY DEF PollInv, TypeOK, Locals
<1>1. ASSUME UNCHANGED loc PROVE FitInv'
    BY <1>1 DEF FitInv, Fits
<1>2. ASSUME NEW t \in Threads, NEW l, loc' = [loc EXCEPT ![t] = l],
             l.got = loc[t].got, l.cnt = loc[t].cnt
      PROVE  FitInv'
    BY <1>0, <1>2 DEF FitInv, Fits
<1>3. ASSUME NEW t \in Threads, NEW l \in Locals, loc' = [loc EXCEPT ![t] = l], l.got = {}
      PROVE  FitInv'
  <2>1. Fits(l)
      BY <1>3, EmptyFits
  <2> QED
      BY <1>0, <1>3, <2>1 DEF FitInv, Fits
<1>4. ASSUME NEW t \in Threads, Returned(t) PROVE FitInv'
    BY <1>3, <1>4, NoLocalsType DEF Returned, NoLocals
<1>5. ASSUME NEW t \in Threads, CallWait(t) PROVE FitInv'
  <2>1. PICK to \in Timeouts, cnt \in Cnts :
          loc' = [loc EXCEPT ![t] = [NoLocals EXCEPT !.timeout = to, !.cnt = cnt]]
      BY <1>5 DEF CallWait, StartCall
  <2> DEFINE l == [NoLocals EXCEPT !.timeout = to, !.cnt = cnt]
  <2>2. l \in Locals /\ l.got = {}
      BY NoLocalsType DEF Locals, NoLocals
  <2>3. loc' = [loc EXCEPT ![t] = l]
      BY <2>1
  <2> HIDE DEF l
  <2> QED
      BY <1>3, <2>2, <2>3
<1>6. ASSUME NEW t \in Threads, CallCtl(t) PROVE FitInv'
  <2>1. PICK op \in {"ADD", "MOD", "DEL", "close"}, f \in Fds :
          loc' = [loc EXCEPT ![t] = [NoLocals EXCEPT !.op = op, !.fd = f,
                                       !.after = IF op \in {"ADD", "MOD"} THEN "ctl_unlock" ELSE "remove"]]
      BY <1>6 DEF CallCtl, StartCall
  <2> DEFINE a == IF op \in {"ADD", "MOD"} THEN "ctl_unlock" ELSE "remove"
             l == [NoLocals EXCEPT !.op = op, !.fd = f, !.after = a]
  <2>2. a \in Locations
      BY DEF Locations
  <2>3. l \in Locals /\ l.got = {}
      BY <2>2, NoLocalsType DEF Locals, NoLocals
  <2>4. loc' = [loc EXCEPT ![t] = l]
      BY <2>1
  <2> HIDE DEF l, a
  <2> QED
      BY <1>3, <2>3, <2>4
<1>7. ASSUME NEW t \in Threads,
             Scan(t) \/ ScanRemove(t) \/ Deliver(t) \/ EnterPoll(t) \/ LeavePoll(t) \/ CtlRemove(t)
                 \/ DeadlinePasses(t)
      PROVE  FitInv'
  <2>1. UNCHANGED loc \/ \E l : /\ loc' = [loc EXCEPT ![t] = l]
                                /\ l.got = loc[t].got /\ l.cnt = loc[t].cnt
    <3>0. loc[t] \in Locals
        BY <1>0
    <3>1. CASE Scan(t)
        BY <3>0, <3>1 DEF Scan, Locals
    <3>2. CASE ScanRemove(t)
        BY <3>0, <3>2 DEF ScanRemove, Locals
    <3>3. CASE Deliver(t)
        BY <3>0, <3>3 DEF Deliver, Locals
    <3>4. CASE EnterPoll(t)
      <4> DEFINE l == [loc[t] EXCEPT !.pfds = PollSet]
      <4>1. loc' = [loc EXCEPT ![t] = l]
          BY <1>0, <3>4 DEF EnterPoll
      <4>2. l.got = loc[t].got /\ l.cnt = loc[t].cnt
          BY <3>0 DEF Locals
      <4> QED
          BY <4>1, <4>2
    <3>5. CASE LeavePoll(t)
      <4> DEFINE l == [loc[t] EXCEPT !.pfds = {}, !.timeout = IF loc[t].expired THEN "zero" ELSE @]
      <4>1. loc' = [loc EXCEPT ![t] = l]
          BY <1>0, <3>5 DEF LeavePoll
      <4>2. l.got = loc[t].got /\ l.cnt = loc[t].cnt
          BY <3>0 DEF Locals
      <4> QED
          BY <4>1, <4>2
    <3>6. CASE CtlRemove(t)
      <4> DEFINE l == [loc[t] EXCEPT !.after = "remove"]
      <4>1. loc' = [loc EXCEPT ![t] = l]
          BY <1>0, <3>6 DEF CtlRemove
      <4>2. l.got = loc[t].got /\ l.cnt = loc[t].cnt
          BY <3>0 DEF Locals
      <4> QED
          BY <4>1, <4>2
    <3>7. CASE DeadlinePasses(t)
      <4> DEFINE l == [loc[t] EXCEPT !.expired = TRUE]
      <4>1. loc' = [loc EXCEPT ![t] = l]
          BY <1>0, <3>7 DEF DeadlinePasses
      <4>2. l.got = loc[t].got /\ l.cnt = loc[t].cnt
          BY <3>0 DEF Locals
      <4> QED
          BY <4>1, <4>2
    <3> QED
        BY <1>7, <3>1, <3>2, <3>3, <3>4, <3>5, <3>6, <3>7
  <2> QED
      BY <1>1, <1>2, <2>1
<1>8. ASSUME NEW t \in Threads, Step(t), ~Kevent(t) PROVE FitInv'
    BY <1>1, <1>4, <1>7, <1>8 DEF Step, Repoll, RepollCheck, RemoveNode, Disarm, WaitLock, CtlLock, Lock,
       WaitUnlock, PollReturns, LeavePollError, CtlFails, CtlRegister, Register, CtlUnlock
<1>9. ASSUME NEW t \in Threads, \/ SpuriousWakeup(t) \/ WaitFails(t) \/ EnterPollFails(t)
                                \/ PollInterrupted(t)
      PROVE  FitInv'
    BY <1>1, <1>4, <1>9 DEF SpuriousWakeup, WaitFails, EnterPollFails, PollInterrupted
<1>10. ASSUME NEW f \in Fds, FileChanges(f) \/ OpenFile(f) PROVE FitInv'
    BY <1>1, <1>10 DEF FileChanges, OpenFile
<1>11. CASE UNCHANGED vars
    BY <1>1, <1>11 DEF vars
<1> QED
    BY <1>5, <1>6, <1>7, <1>8, <1>9, <1>10, <1>11, KeventFits DEF Next, AtRest

\* No pending user event outlives its node, nor, outside of the critical sections, the
\* arming of it; and epoll_wait never writes past the end of the caller's array.
THEOREM EventsOfNodes == Spec => []EventsHaveNodes
<1>1. Init => FitInv
    BY EmptyFits, NoLocalsType DEF Init, FitInv, NoLocals
<1>2. Spec => []FitInv
    BY <1>1, InitInv, NextInv, NextFits, PTL DEF Spec
<1>3. PollInv /\ FitInv => EventsHaveNodes
    BY DEF PollInv, EventsHaveNodes, EventInv, WillDelete, MutexInv, Critical, FitInv, Fits
<1> QED
    BY <1>2, <1>3, PollInvariant, PTL

-----------------------------------------------------------------------------
(* The wait in trigger_repoll: from the trigger on SELF stays pending, as    *)
(* only the owner of the mutex reads the kqueue, and no thread enters poll.  *)

Awaiting == {"repoll_check", "cond_wait"}

HeardInv == \A t \in Threads : /\ pc[t] = "cond_wait" => nr_polling_threads > 0
                               /\ pc[t] \in Awaiting => SELF \in kq

\* Nobody but the owner of the mutex changes the kqueue, and nobody is counted in
\* while there is one.
LEMMA OthersHeard ==
    ASSUME PollInv, HeardInv, NEW t \in Threads, NEW from, NEW to \in Locations \ Awaiting,
           Goto(t, from, to), from \in Critical \/ UNCHANGED kq,
           UNCHANGED nr_polling_threads \/ mutex = NoThread
    PROVE  HeardInv'
<1>1. SUFFICES ASSUME NEW u \in Threads, pc'[u] \in Awaiting
               PROVE  SELF \in kq' /\ (pc'[u] = "cond_wait" => nr_polling_threads' > 0)
    BY DEF HeardInv, Awaiting
<1>2. pc[t] = from /\ u # t /\ pc'[u] = pc[u]
    BY <1>1, GotoPc DEF PollInv
<1>3. pc[u] \in Critical /\ mutex = u
    BY <1>1, <1>2 DEF PollInv, MutexInv, Critical, Repolling, Awaiting
<1>4. UNCHANGED kq /\ UNCHANGED nr_polling_threads
    BY <1>2, <1>3, OwnerAlone
<1> QED
    BY <1>1, <1>2, <1>4 DEF HeardInv

\* The wait begins with a thread counted and the user event triggered.
LEMMA RepollHears ==
    ASSUME PollInv, HeardInv, NEW t \in Threads, Repoll(t) \/ RepollCheck(t) \/ SpuriousWakeup(t)
    PROVE  HeardInv'
<1>1. pc[t] \in Repolling /\ loc[t] \in Locals /\ nr_polling_threads \in Nat
    BY DEF Repoll, RepollCheck, SpuriousWakeup, Goto, Repolling, PollInv, TypeOK, Locals
<1>2. loc[t].after \in Locations \ Awaiting
    BY <1>1 DEF PollInv, LocInv, Deleting, Locations, Awaiting
<1>3. UNCHANGED nr_polling_threads /\ pc[t] \in Critical
    BY <1>1 DEF Repoll, RepollCheck, SpuriousWakeup, Critical
<1>4. ASSUME NEW from, NEW to \in Awaiting, Goto(t, from, to), SELF \in kq',
             to = "cond_wait" => nr_polling_threads > 0
      PROVE  HeardInv'
  <2>1. pc'[t] = to /\ \A u \in Threads : u # t => pc'[u] = pc[u]
      BY <1>4, GotoPc DEF Awaiting, Locations, PollInv
  <2>2. \A u \in Threads : u # t => pc[u] \notin Awaiting
      BY <1>3, OwnerAlone DEF Critical, Repolling, Awaiting
  <2> QED
      BY <1>3, <1>4, <2>1, <2>2 DEF HeardInv, Awaiting
<1>5. CASE Repoll(t)
  <2>1. \/ Goto(t, "repoll", loc[t].after)
        \/ Goto(t, "repoll", "repoll_check") /\ SELF \in kq'
      BY <1>5 DEF Repoll
  <2> QED
      BY <1>2, <1>3, <1>4, <2>1, OthersHeard DEF Critical, Repolling, Awaiting
<1>6. CASE RepollCheck(t)
  <2>1. pc[t] \in Awaiting
      BY <1>6 DEF RepollCheck, Awaiting
  <2>2. \/ Goto(t, "repoll_check", loc[t].after)
        \/ Goto(t, "repoll_check", "cond_wait") /\ nr_polling_threads # 0 /\ UNCHANGED kq
      BY <1>6 DEF RepollCheck
  <2>3. SELF \in kq
      BY <2>1 DEF HeardInv
  <2> QED
      BY <1>1, <1>2, <1>3, <1>4, <2>2, <2>3, OthersHeard DEF Critical, Repolling, Awaiting
<1>7. CASE SpuriousWakeup(t)
    BY <1>4, <1>7 DEF SpuriousWakeup, Goto, HeardInv, Awaiting
<1> QED
    BY <1>5, <1>6, <1>7

\* The thread that brings the count to 0 wakes the one that waits.
LEMMA LeaveHeard ==
    ASSUME PollInv, HeardInv, NEW t \in Threads, LeavePoll(t) \/ LeavePollError(t)
    PROVE  HeardInv'
<1>1. PICK from \in {"leave", "leave_error"}, to \in {"wait", "idle"} : CountOut(t, from, to)
    BY DEF LeavePoll, LeavePollError
<1>2. pc[t] = from /\ nr_polling_threads' = nr_polling_threads - 1 /\ UNCHANGED kq
    BY <1>1 DEF CountOut
<1>3. nr_polling_threads' \in Nat
    BY NextInv DEF Next, Step, PollInv, TypeOK
<1>4. pc \in [Threads -> Locations]
    BY DEF PollInv, TypeOK
<1>5. CASE pc' = [pc EXCEPT ![t] = to] /\ (nr_polling_threads' # 0 \/ \A u \in Threads : pc[u] # "cond_wait")
  <2>1. \A u \in Threads : pc'[u] \in Awaiting => pc'[u] = pc[u]
      BY <1>4, <1>5 DEF Awaiting
  <2>2. \A u \in Threads : pc'[u] = "cond_wait" => nr_polling_threads' > 0
      BY <1>3, <1>5, <2>1 DEF Awaiting
  <2>3. \A u \in Threads : pc'[u] \in Awaiting => SELF \in kq'
      BY <1>2, <2>1 DEF HeardInv
  <2> QED
      BY <2>2, <2>3 DEF HeardInv
<1>6. ASSUME NEW u \in Threads, pc[u] = "cond_wait", pc' = [[pc EXCEPT ![t] = to] EXCEPT ![u] = "repoll_check"]
      PROVE  HeardInv'
  <2>1. \A v \in Threads : v # u => pc[v] \notin Awaiting
      BY <1>6, OwnerAlone DEF Critical, Repolling, Awaiting
  <2>2. pc'[u] = "repoll_check" /\ \A v \in Threads : v # u => pc'[v] \notin Awaiting
      BY <1>4, <1>6, <2>1 DEF Awaiting
  <2>3. SELF \in kq
      BY <1>6 DEF HeardInv, Awaiting
  <2> QED
      BY <1>2, <2>2, <2>3 DEF HeardInv, Awaiting
<1> QED
    BY <1>1, <1>5, <1>6 DEF CountOut

\* Every step preserves it.
LEMMA NextHeard == PollInv /\ HeardInv /\ [Next]_vars => HeardInv'
<1> SUFFICES ASSUME PollInv, HeardInv, [Next]_vars PROVE HeardInv'
    OBVIOUS
<1>1. ASSUME UNCHANGED <<pc, kq, nr_polling_threads>> PROVE HeardInv'
    BY <1>1 DEF HeardInv
<1>2. ASSUME NEW t \in Threads, CallWait(t) \/ CallCtl(t) PROVE HeardInv'
    BY <1>2, OthersHeard DEF CallWait, CallCtl, StartCall, Locations, Awaiting
<1>3. ASSUME NEW t \in Threads, WaitLock(t) \/ CtlLock(t) PROVE HeardInv'
    BY <1>3, OthersHeard DEF WaitLock, CtlLock, Lock, Locations, Awaiting
<1>4. ASSUME NEW t \in Threads,
             Scan(t) \/ ScanRemove(t) \/ Kevent(t) \/ Deliver(t) \/ WaitFails(t) \/ WaitUnlock(t)
      PROVE  HeardInv'
  <2>1. PICK from \in Critical, to \in Locations \ Awaiting : Goto(t, from, to)
      BY <1>4 DEF Scan, ScanRemove, Kevent, Deliver, WaitFails, WaitUnlock, TakeOffList, Critical,
         Locations, Awaiting
  <2>2. UNCHANGED nr_polling_threads
      BY <1>4 DEF Scan, ScanRemove, Kevent, Deliver, WaitFails, WaitUnlock
  <2> QED
      BY <2>1, <2>2, OthersHeard
<1>5. ASSUME NEW t \in Threads, CtlFails(t) \/ CtlRegister(t) \/ CtlRemove(t) \/ CtlUnlock(t) PROVE HeardInv'
  <2>1. PICK from \in Critical, to \in Locations \ Awaiting : Goto(t, from, to)
      BY <1>5 DEF CtlFails, CtlRegister, Register, CtlRemove, CtlUnlock, TakeOffList, Critical,
         Locations, Awaiting
  <2>2. UNCHANGED nr_polling_threads
      BY <1>5 DEF CtlFails, CtlRegister, Register, CtlRemove, CtlUnlock
  <2> QED
      BY <2>1, <2>2, OthersHeard
<1>6. ASSUME NEW t \in Threads, RemoveNode(t) \/ Disarm(t) PROVE HeardInv'
  <2>1. PICK from \in Critical, to \in Locations \ Awaiting : Goto(t, from, to)
      BY <1>6 DEF RemoveNode, Disarm, Critical, Deleting, Locations, Awaiting
  <2>2. UNCHANGED nr_polling_threads
      BY <1>6 DEF RemoveNode, Disarm
  <2> QED
      BY <2>1, <2>2, OthersHeard
<1>7. ASSUME NEW t \in Threads,
             EnterPoll(t) \/ EnterPollFails(t) \/ PollReturns(t) \/ PollInterrupted(t)
      PROVE  HeardInv'
    BY <1>7, OthersHeard DEF EnterPoll, EnterPollFails, PollReturns, PollInterrupted, Locations, Awaiting
<1>8. ASSUME NEW t \in Threads, DeadlinePasses(t) PROVE HeardInv'
    BY <1>1, <1>8 DEF DeadlinePasses
<1>9. ASSUME NEW f \in Fds, FileChanges(f) \/ OpenFile(f) PROVE HeardInv'
    BY <1>1, <1>9 DEF FileChanges, OpenFile
<1>10. CASE UNCHANGED vars
    BY <1>1, <1>10 DEF vars
<1> QED
    BY <1>2, <1>3, <1>4, <1>5, <1>6, <1>7, <1>8, <1>9, <1>10, RepollHears, LeaveHeard
       DEF Next, Step, AtRest

\* The condition variable loses no wakeup: trigger_repoll waits only while a thread is
\* counted that cannot block and, leaving, counts itself out.  Holding the mutex of the
\* epollfd through that wait is no deadlock.
THEOREM RepollWoken == Spec => []RepollHeard
<1>1. Init => HeardInv
    BY DEF Init, HeardInv, Awaiting
<1>2. Spec => []HeardInv
    BY <1>1, InitInv, NextInv, NextHeard, PTL DEF Spec
<1>3. HeardInv => RepollHeard
    BY DEF HeardInv, RepollHeard, Awaiting
<1> QED
    BY <1>2, <1>3, PTL
=============================================================================
