----------------------------- MODULE DescTable -----------------------------
(***************************************************************************)
(* The table of file descriptions of src/src/epoll_shim_ctx.c and the      *)
(* calls that go through it: creating a descriptor (epoll_create,          *)
(* timerfd_create, ...), closing one, finding one to use it (read, write,  *)
(* fcntl, epoll_wait), epoll_ctl, and the two walks over the table that    *)
(* take no reference (ppoll and the realtime step detector).               *)
(*                                                                         *)
(* The table is protected by the lock of RWLock; here a thread takes it in *)
(* the steps of AbstractRWLock, with the code's preference for writers: a  *)
(* writer first announces itself, which stops new readers, and enters when *)
(* the readers have left.  Descriptions are freed when their reference     *)
(* count drops to zero; an epollfd's nodes hold references of their own.   *)
(***************************************************************************)
EXTENDS Naturals, FiniteSets

CONSTANTS Threads,
          NFds,          \* file descriptor numbers are 0 .. NFds - 1
          Descs,         \* addresses malloc can give to a FileDescription
          NoThread, NULL,
          MaxCalls,      \* bound: calls each thread makes
          Calls,         \* which of the calls below the threads make
          RawCloses,     \* TRUE: the program also closes fds behind the shim
          Disciplined    \* TRUE: no fd is closed while another call names it

ASSUME FdsAssumption == NFds \in Nat /\ NFds >= 2
ASSUME DescsAssumption == IsFiniteSet(Descs) /\ Cardinality(Descs) >= 2
ASSUME ThreadsAssumption == IsFiniteSet(Threads)
ASSUME BoundAssumption == MaxCalls \in Nat
ASSUME SentinelAssumption == NoThread \notin Threads /\ NULL \notin Descs

VARIABLES announced,   \* the thread that holds or awaits the write lock
          readers,     \* the threads that hold the read lock
          open_files,  \* the table: fd -> description or NULL
          refcount,    \* description -> refcount; 0 once freed
          vtable,      \* description -> its kind, "none" before it is set
          mutex,       \* description -> owner of desc->mutex
          nodes,       \* epollfd description -> registered_fds
          kernel,      \* fd -> what the kernel has open under that number
          pc, loc,     \* control state and local variables of each thread
          calls        \* calls each thread has made

vars == <<announced, readers, open_files, refcount, vtable, mutex, nodes, kernel, pc, loc, calls>>

Fds == 0 .. NFds - 1

Kinds == {"epoll", "pollable"}   \* "pollable": timerfd, signalfd

\* A registered fd, the pollable description its node references (or NULL)
\* and, as a history variable, whether it was added after fd's last
\* epoll_shim_close.
Node == [fd : Fds, desc : Descs \cup {NULL}, fresh : BOOLEAN]

Locals == [fd : Fds, fd2 : Fds, cur : 0 .. NFds, op : {"none", "ADD", "MOD", "DEL"},
           desc : Descs \cup {NULL}, desc2 : Descs \cup {NULL}]

NoLocals == [fd |-> 0, fd2 |-> 0, cur |-> 0, op |-> "none", desc |-> NULL, desc2 |-> NULL]

Locations == {"idle", "create", "create_wr", "create_desc", "created", "drop_close", "close", "close_wr", "lock_epollfds",
              "remove_fd", "unref_closed", "real_close", "unlock_epollfds",
              "find", "found", "find2", "found2", "use", "in_use",
              "ctl_lock", "ctl", "unref2", "unref", "walk", "walking"}

\* The table after epoll_create (fd 0), timerfd_create (fd 1) and an epoll_ctl
\* that added fd 1 to the epoll instance.
Start(ep, tfd) ==
    /\ open_files = [f \in Fds |-> IF f = 0 THEN ep ELSE IF f = 1 THEN tfd ELSE NULL]
    /\ refcount = [d \in Descs |-> IF d = ep THEN 1 ELSE IF d = tfd THEN 2 ELSE 0]
    /\ vtable = [d \in Descs |-> IF d = ep THEN "epoll" ELSE IF d = tfd THEN "pollable" ELSE "none"]
    /\ nodes = [d \in Descs |-> IF d = ep THEN {[fd |-> 1, desc |-> tfd, fresh |-> TRUE]} ELSE {}]
    /\ kernel = [f \in Fds |-> IF f <= 1 THEN "kqueue" ELSE "closed"]

Init == /\ announced = NoThread
        /\ readers = {}
        /\ LET ep == CHOOSE d \in Descs : TRUE    \* any two addresses: they are alike
               tfd == CHOOSE d \in Descs \ {ep} : TRUE
           IN  Start(ep, tfd)
        /\ mutex = [d \in Descs |-> NoThread]
        /\ pc = [t \in Threads |-> "idle"]
        /\ loc = [t \in Threads |-> NoLocals]
        /\ calls = [t \in Threads |-> 0]

-----------------------------------------------------------------------------
Goto(t, from, to) == pc[t] = from /\ pc' = [pc EXCEPT ![t] = to]

Return(t, from) == Goto(t, from, "idle") /\ loc' = [loc EXCEPT ![t] = NoLocals]

LockRead(t) == announced = NoThread /\ readers' = readers \cup {t} /\ UNCHANGED announced
UnlockRead(t) == readers' = readers \ {t} /\ UNCHANGED announced

\* lock_write in two steps, and its end.
Announce(t) == announced = NoThread /\ announced' = t /\ UNCHANGED readers
WriteLocked(t) == announced = t /\ readers = {}
UnlockWrite == announced' = NoThread /\ UNCHANGED readers

\* Descriptions whose count has dropped to zero are destroyed; ns are the nodes
\* that remain registered.
Settle(ns) ==
    /\ vtable' = [d \in Descs |-> IF refcount'[d] = 0 THEN "none" ELSE vtable[d]]
    /\ nodes' = [d \in Descs |-> IF refcount'[d] = 0 THEN {} ELSE ns[d]]

\* How many nodes of the descriptions ds, for fds fs, reference e.
NodeRefs(ds, fs, e) ==
    Cardinality({r \in ds \X fs : \E n \in nodes[r[1]] : n.fd = r[2] /\ n.desc = e})

\* file_description_unref: destroying an epollfd drops its nodes' references.
Unref(d) ==
    /\ refcount' = [e \in Descs |->
           refcount[e] - (IF e = d THEN 1 ELSE 0)
                       - (IF refcount[d] = 1 THEN NodeRefs({d}, Fds, e) ELSE 0)]
    /\ Settle(nodes)

\* epollfd_ctx_remove_node for fd f in each of the epollfds ds.
RemoveNodes(ds, f) ==
    /\ refcount' = [e \in Descs |-> refcount[e] - NodeRefs(ds, {f}, e)]
    /\ Settle([d \in Descs |-> IF d \in ds THEN {n \in nodes[d] : n.fd # f} ELSE nodes[d]])

KernelClose(f) == kernel' = [kernel EXCEPT ![f] = "closed"]

Names(t) == IF pc[t] = "idle" THEN {} ELSE {loc[t].fd} \cup (IF loc[t].op = "none" THEN {} ELSE {loc[t].fd2})
Closing(t) == pc[t] \in {"close", "close_wr", "lock_epollfds", "remove_fd", "unref_closed",
                         "real_close", "unlock_epollfds"}
Creating(t) == pc[t] \in {"create_desc", "created", "drop_close"}

\* What a disciplined program does: it names fds that are open and returned to
\* it, and closes none that another thread names.
MayClose(t, f) == Disciplined => \A u \in Threads \ {t} : f \notin Names(u)
MayUse(t, f) == Disciplined => /\ kernel[f] # "closed"
                               /\ \A u \in Threads \ {t} : Closing(u) \/ Creating(u) => loc[u].fd # f

StartCall(t, call, to, locals) ==
    /\ call \in Calls
    /\ calls[t] < MaxCalls
    /\ calls' = [calls EXCEPT ![t] = @ + 1]
    /\ Goto(t, "idle", to)
    /\ loc' = [loc EXCEPT ![t] = locals]
    /\ UNCHANGED <<announced, readers, open_files, refcount, vtable, mutex, nodes, kernel>>

-----------------------------------------------------------------------------
(* epoll_shim_ctx_create_desc, _install_desc and _drop_desc *)

CallCreate(t) == StartCall(t, "create", "create", NoLocals)

CreateAnnounce(t) ==
    /\ Goto(t, "create", "create_wr")
    /\ Announce(t)
    /\ UNCHANGED <<open_files, refcount, vtable, mutex, nodes, kernel, loc, calls>>

\* kqueue1 gives a free number; a description left there by a close behind the
\* shim is dropped.
CreateKqueue(t) ==
    /\ Goto(t, "create_wr", "create_desc")
    /\ WriteLocked(t)
    /\ \E kq \in Fds :
         /\ kernel[kq] = "closed"
         /\ kernel' = [kernel EXCEPT ![kq] = "kqueue"]
         /\ loc' = [loc EXCEPT ![t].fd = kq]
         /\ open_files' = [open_files EXCEPT ![kq] = NULL]
         /\ IF open_files[kq] = NULL THEN UNCHANGED <<refcount, vtable, nodes>>
            ELSE Unref(open_files[kq])
    /\ UNCHANGED <<announced, readers, mutex, calls>>

\* kqueue1 fails (EMFILE).
CreateKqueueFails(t) ==
    /\ Return(t, "create_wr")
    /\ WriteLocked(t)
    /\ UnlockWrite
    /\ UNCHANGED <<open_files, refcount, vtable, mutex, nodes, kernel, calls>>

\* file_description_create; the caller still has to set the vtable.
CreateDesc(t) ==
    /\ Goto(t, "create_desc", "created")
    /\ \E d \in Descs :
         /\ refcount[d] = 0
         /\ refcount' = [refcount EXCEPT ![d] = 1]
         /\ loc' = [loc EXCEPT ![t].desc = d]
    /\ UNCHANGED <<announced, readers, open_files, vtable, mutex, nodes, kernel, calls>>

\* malloc or realloc fails: the new kqueue is closed again.
CreateDescFails(t) ==
    /\ Return(t, "create_desc")
    /\ KernelClose(loc[t].fd)
    /\ UnlockWrite
    /\ UNCHANGED <<open_files, refcount, vtable, mutex, nodes, calls>>

InstallDesc(t) ==
    /\ Return(t, "created")
    /\ \E kind \in Kinds : vtable' = [vtable EXCEPT ![loc[t].desc] = kind]
    /\ open_files' = [open_files EXCEPT ![loc[t].fd] = loc[t].desc]
    /\ UnlockWrite
    /\ UNCHANGED <<refcount, mutex, nodes, kernel, calls>>

\* The context's init failed: epoll_shim_ctx_drop_desc.
DropDesc(t) ==
    /\ Goto(t, "created", "drop_close")
    /\ Unref(loc[t].desc)
    /\ loc' = [loc EXCEPT ![t].desc = NULL]
    /\ UNCHANGED <<announced, readers, open_files, mutex, kernel, calls>>

DropClose(t) ==
    /\ Return(t, "drop_close")
    /\ KernelClose(loc[t].fd)
    /\ UnlockWrite
    /\ UNCHANGED <<open_files, refcount, vtable, mutex, nodes, calls>>

-----------------------------------------------------------------------------
(* epoll_shim_close: epoll_shim_ctx_remove_desc *)

CallClose(t) == \E f \in Fds :
    /\ MayClose(t, f)
    /\ StartCall(t, "close", "close", [NoLocals EXCEPT !.fd = f])

CloseAnnounce(t) ==
    /\ Goto(t, "close", "close_wr")
    /\ Announce(t)
    /\ UNCHANGED <<open_files, refcount, vtable, mutex, nodes, kernel, loc, calls>>

\* Mutant: the slot keeps the description until the fd number is used again.
ClearSlotLate(t) ==
    /\ Goto(t, "close_wr", "lock_epollfds")
    /\ WriteLocked(t)
    /\ loc' = [loc EXCEPT ![t].desc = open_files[loc[t].fd]]
    /\ announced' = NoThread
    /\ readers' = readers \cup {t}
    /\ UNCHANGED <<open_files, refcount, vtable, mutex, nodes, kernel, calls>>

\* Mutant: the lock is released instead of downgraded.
ClearSlotUnlock(t) ==
    /\ Goto(t, "close_wr", "lock_epollfds")
    /\ WriteLocked(t)
    /\ loc' = [loc EXCEPT ![t].desc = open_files[loc[t].fd]]
    /\ open_files' = [open_files EXCEPT ![loc[t].fd] = NULL]
    /\ UnlockWrite
    /\ UNCHANGED <<refcount, vtable, mutex, nodes, kernel, calls>>

\* The critical section of the write lock, up to and including the downgrade.
ClearSlot(t) ==
    /\ Goto(t, "close_wr", "lock_epollfds")
    /\ WriteLocked(t)
    /\ loc' = [loc EXCEPT ![t].desc = open_files[loc[t].fd]]
    /\ open_files' = [open_files EXCEPT ![loc[t].fd] = NULL]
    /\ announced' = NoThread
    /\ readers' = readers \cup {t}
    /\ UNCHANGED <<refcount, vtable, mutex, nodes, kernel, calls>>

IsEpollfd(d) == d # NULL /\ vtable[d] = "epoll"
Installed == {d \in Descs : IsEpollfd(d) /\ \E f \in Fds : open_files[f] = d}

\* The walk that locks every epollfd, in table order.
LockEpollfd(t) ==
    /\ pc[t] = "lock_epollfds"
    /\ LET f == loc[t].cur
       IN  IF f = NFds
           THEN /\ Goto(t, "lock_epollfds", "remove_fd")
                /\ UNCHANGED <<mutex, loc>>
           ELSE /\ IF IsEpollfd(open_files[f])
                   THEN /\ mutex[open_files[f]] = NoThread
                        /\ mutex' = [mutex EXCEPT ![open_files[f]] = t]
                   ELSE UNCHANGED mutex
                /\ loc' = [loc EXCEPT ![t].cur = f + 1]
                /\ UNCHANGED pc
    /\ UNCHANGED <<announced, readers, open_files, refcount, vtable, nodes, kernel, calls>>

\* Mutant: the epollfds are unlocked before the fd is really closed.
RemoveFdUnlock(t) ==
    /\ Goto(t, "remove_fd", "unref_closed")
    /\ RemoveNodes(Installed, loc[t].fd)
    /\ mutex' = [d \in Descs |-> IF d \in Installed THEN NoThread ELSE mutex[d]]
    /\ UNCHANGED <<announced, readers, open_files, kernel, loc, calls>>

\* Mutant: a closed fd stays registered.
RemoveFdForgotten(t) ==
    /\ Goto(t, "remove_fd", "unref_closed")
    /\ UNCHANGED <<announced, readers, open_files, refcount, vtable, nodes, mutex, kernel, loc, calls>>

\* The walk that removes fd from every epollfd, all of which t has locked.
RemoveFd(t) ==
    /\ Goto(t, "remove_fd", "unref_closed")
    /\ RemoveNodes(Installed, loc[t].fd)
    /\ UNCHANGED <<announced, readers, open_files, mutex, kernel, loc, calls>>

UnrefClosed(t) ==
    /\ Goto(t, "unref_closed", "real_close")
    /\ IF loc[t].desc = NULL THEN UNCHANGED <<refcount, vtable, nodes>> ELSE Unref(loc[t].desc)
    /\ loc' = [loc EXCEPT ![t].desc = NULL]
    /\ UNCHANGED <<announced, readers, open_files, mutex, kernel, calls>>

RealClose(t) ==
    /\ Goto(t, "real_close", "unlock_epollfds")
    /\ KernelClose(loc[t].fd)
    /\ nodes' = [d \in Descs |->
           {IF n.fd = loc[t].fd THEN [n EXCEPT !.fresh = FALSE] ELSE n : n \in nodes[d]}]
    /\ UNCHANGED <<announced, readers, open_files, refcount, vtable, mutex, loc, calls>>

\* Mutant: the epollfds stay locked.
UnlockNothing(t) ==
    /\ Return(t, "unlock_epollfds")
    /\ UnlockRead(t)
    /\ UNCHANGED <<open_files, refcount, vtable, mutex, nodes, kernel, calls>>

\* The walk that unlocks every epollfd, then the read lock.
UnlockEpollfds(t) ==
    /\ Return(t, "unlock_epollfds")
    /\ mutex' = [d \in Descs |-> IF d \in Installed THEN NoThread ELSE mutex[d]]
    /\ UnlockRead(t)
    /\ UNCHANGED <<open_files, refcount, vtable, nodes, kernel, calls>>

-----------------------------------------------------------------------------
(* epoll_shim_ctx_find_desc: look up under the read lock, then take a       *)
(* reference and unlock.                                                    *)

Lookup(t, from, to, found) ==
    /\ Goto(t, from, to)
    /\ LockRead(t)
    /\ loc' = [loc EXCEPT ![t] = found]
    /\ UNCHANGED <<open_files, refcount, vtable, mutex, nodes, kernel, calls>>

TakeRef(t, d) ==
    /\ refcount' = [refcount EXCEPT ![d] = @ + 1]
    /\ UnlockRead(t)
    /\ UNCHANGED <<open_files, vtable, mutex, nodes, kernel, loc, calls>>

\* Not a shimmed descriptor: the real call is made, or EBADF/EINVAL returned.
FindNothing(t) ==
    /\ Return(t, "found")
    /\ loc[t].desc = NULL
    /\ UnlockRead(t)
    /\ UNCHANGED <<open_files, refcount, vtable, mutex, nodes, kernel, calls>>

Find(t) == Lookup(t, "find", "found", [loc[t] EXCEPT !.desc = open_files[loc[t].fd]])

DropRef(t) ==
    /\ Return(t, "unref")
    /\ Unref(loc[t].desc)
    /\ UNCHANGED <<announced, readers, open_files, mutex, kernel, calls>>

-----------------------------------------------------------------------------
(* epoll_shim_read, _write, _fcntl and epoll_wait *)

CallUse(t) == \E f \in Fds :
    /\ MayUse(t, f)
    /\ StartCall(t, "use", "find", [NoLocals EXCEPT !.fd = f])

FoundForUse(t) ==
    /\ Goto(t, "found", "use")
    /\ loc[t].op = "none" /\ loc[t].desc # NULL
    /\ TakeRef(t, loc[t].desc)

\* epoll_wait may go on to poll the pollable description of one of its nodes.
UseLock(t) ==
    LET d == loc[t].desc
    IN  /\ Goto(t, "use", "in_use")
        /\ mutex[d] = NoThread
        /\ mutex' = [mutex EXCEPT ![d] = t]
        /\ \E p \in {NULL} \cup {n.desc : n \in nodes[d]} : loc' = [loc EXCEPT ![t].desc2 = p]
        /\ UNCHANGED <<announced, readers, open_files, refcount, vtable, nodes, kernel, calls>>

\* The operation on the description; epoll_wait locks the one it polls and
\* removes poll-only nodes whose fd turns out to be closed (POLLNVAL).
UseDone(t) ==
    LET d == loc[t].desc
    IN  /\ Goto(t, "in_use", "unref")
        /\ loc[t].desc2 # NULL => mutex[loc[t].desc2] = NoThread
        /\ loc' = [loc EXCEPT ![t].desc2 = NULL]
        /\ \E gone \in SUBSET {n \in nodes[d] : n.desc = NULL /\ kernel[n.fd] = "closed"} :
               nodes' = [nodes EXCEPT ![d] = @ \ gone]
        /\ mutex' = [mutex EXCEPT ![d] = NoThread]
        /\ UNCHANGED <<announced, readers, open_files, refcount, vtable, kernel, calls>>

-----------------------------------------------------------------------------
(* epoll_ctl *)

CallCtl(t) == \E f, f2 \in Fds, op \in {"ADD", "MOD", "DEL"} :
    /\ MayUse(t, f) /\ MayUse(t, f2)
    /\ StartCall(t, "ctl", "find", [NoLocals EXCEPT !.fd = f, !.fd2 = f2, !.op = op])

FoundForCtl(t) ==
    /\ loc[t].op # "none" /\ loc[t].desc # NULL
    /\ Goto(t, "found", IF vtable[loc[t].desc] # "epoll" THEN "unref"
                        ELSE IF loc[t].op = "ADD" THEN "find2" ELSE "ctl_lock")
    /\ TakeRef(t, loc[t].desc)

Find2(t) == Lookup(t, "find2", "found2", [loc[t] EXCEPT !.desc2 = open_files[loc[t].fd2]])

Found2(t) ==
    /\ Goto(t, "found2", "ctl_lock")
    /\ IF loc[t].desc2 # NULL
       THEN TakeRef(t, loc[t].desc2)
       ELSE /\ UnlockRead(t)
            /\ UNCHANGED <<open_files, refcount, vtable, mutex, nodes, kernel, loc, calls>>

CtlLock(t) ==
    /\ Goto(t, "ctl_lock", "ctl")
    /\ mutex[loc[t].desc] = NoThread
    /\ mutex' = [mutex EXCEPT ![loc[t].desc] = t]
    /\ UNCHANGED <<announced, readers, open_files, refcount, vtable, nodes, kernel, loc, calls>>

\* Mutant: an epollfd can be polled through another one's node as well.
PollableDescAny(t) ==
    LET d == loc[t].desc2
    IN  IF d # NULL /\ kernel[loc[t].fd2] = "kqueue" THEN d ELSE NULL

\* What a new node references: only kqueues have a pollable description.
PollableDesc(t) ==
    LET d == loc[t].desc2
    IN  IF d # NULL /\ vtable[d] = "pollable" /\ kernel[loc[t].fd2] = "kqueue" THEN d ELSE NULL

\* Mutant: add_node forgets pollable_desc_ref.
AddNodeNoRef(t) ==
    /\ nodes' = [nodes EXCEPT ![loc[t].desc] =
           @ \cup {[fd |-> loc[t].fd2, desc |-> PollableDesc(t), fresh |-> TRUE]}]
    /\ UNCHANGED <<refcount, vtable>>

\* epollfd_ctx_ctl adds a node, which takes a reference and, to poll the
\* description once, its mutex.
AddNode(t) ==
    LET d == loc[t].desc
        p == PollableDesc(t)
    IN  /\ nodes' = [nodes EXCEPT ![d] = @ \cup {[fd |-> loc[t].fd2, desc |-> p, fresh |-> TRUE]}]
        /\ p # NULL => mutex[p] = NoThread
        /\ refcount' = IF p = NULL THEN refcount ELSE [refcount EXCEPT ![p] = @ + 1]
        /\ UNCHANGED vtable

\* epollfd_ctx_ctl, to the unlock of desc->mutex.  Registering with the kqueue
\* can fail, which leaves no node behind but comes after the poll of the new node's
\* description; a failing fstat removes the node.
Ctl(t) ==
    LET d == loc[t].desc
        f2 == loc[t].fd2
        p == PollableDesc(t)
        registered == \E n \in nodes[d] : n.fd = f2
    IN  /\ Goto(t, "ctl", "unref2")
        /\ \/ /\ f2 = loc[t].fd
              /\ UNCHANGED <<refcount, vtable, nodes>>
           \/ /\ f2 # loc[t].fd
              /\ \/ kernel[f2] = "closed"
                 \/ loc[t].op = "DEL"
                 \/ loc[t].op = "MOD"
              /\ RemoveNodes({d}, f2)
           \/ /\ f2 # loc[t].fd /\ kernel[f2] # "closed"
              /\ loc[t].op = "ADD" /\ ~registered
              /\ AddNode(t)
           \/ /\ f2 # loc[t].fd /\ kernel[f2] # "closed" /\ loc[t].op # "DEL"
              /\ loc[t].op = "ADD" /\ ~registered /\ p # NULL => mutex[p] = NoThread
              /\ UNCHANGED <<refcount, vtable, nodes>>
        /\ mutex' = [mutex EXCEPT ![d] = NoThread]
        /\ UNCHANGED <<announced, readers, open_files, kernel, loc, calls>>

DropRef2(t) ==
    /\ Goto(t, "unref2", "unref")
    /\ IF loc[t].desc2 = NULL THEN UNCHANGED <<refcount, vtable, nodes>> ELSE Unref(loc[t].desc2)
    /\ loc' = [loc EXCEPT ![t].desc2 = NULL]
    /\ UNCHANGED <<announced, readers, open_files, mutex, kernel, calls>>

-----------------------------------------------------------------------------
(* Walks under the read lock that take no references: the poll_funs of      *)
(* epoll_shim_ppoll_deadline and realtime_step_detection's notifications.   *)

CallWalk(t) == StartCall(t, "walk", "walk", NoLocals)

WalkLock(t) ==
    /\ Goto(t, "walk", "walking")
    /\ LockRead(t)
    /\ UNCHANGED <<open_files, refcount, vtable, mutex, nodes, kernel, loc, calls>>

\* Visit the next description; a pollable one's function locks its mutex.
WalkNext(t) ==
    /\ pc[t] = "walking" /\ loc[t].cur < NFds
    /\ LET d == open_files[loc[t].cur]
       IN  /\ d # NULL /\ vtable[d] = "pollable" => mutex[d] = NoThread
           /\ loc' = [loc EXCEPT ![t] = [loc[t] EXCEPT !.desc = d, !.cur = loc[t].cur + 1]]
    /\ UNCHANGED <<announced, readers, open_files, refcount, vtable, mutex, nodes, kernel, pc, calls>>

WalkEnd(t) ==
    /\ Return(t, "walking")
    /\ loc[t].cur = NFds
    /\ UnlockRead(t)
    /\ UNCHANGED <<open_files, refcount, vtable, mutex, nodes, kernel, calls>>

-----------------------------------------------------------------------------
(* The rest of the program *)

\* open, pipe, socket, ...
OpenFile(f) ==
    /\ kernel[f] = "closed"
    /\ kernel' = [kernel EXCEPT ![f] = "file"]
    /\ UNCHANGED <<announced, readers, open_files, refcount, vtable, mutex, nodes, pc, loc, calls>>

\* A close that does not go through epoll_shim_close.
RawClose(f) ==
    /\ RawCloses
    /\ kernel[f] # "closed"
    /\ KernelClose(f)
    /\ UNCHANGED <<announced, readers, open_files, refcount, vtable, mutex, nodes, pc, loc, calls>>

Done == /\ \A t \in Threads : pc[t] = "idle" /\ calls[t] = MaxCalls
        /\ UNCHANGED vars

Call(t) == CallCreate(t) \/ CallClose(t) \/ CallUse(t) \/ CallCtl(t) \/ CallWalk(t)

Step(t) == \/ CreateAnnounce(t) \/ CreateKqueue(t) \/ CreateKqueueFails(t) \/ CreateDesc(t)
           \/ CreateDescFails(t) \/ InstallDesc(t) \/ DropDesc(t) \/ DropClose(t)
           \/ CloseAnnounce(t) \/ ClearSlot(t) \/ LockEpollfd(t) \/ RemoveFd(t)
           \/ UnrefClosed(t) \/ RealClose(t) \/ UnlockEpollfds(t)
           \/ Find(t) \/ FindNothing(t) \/ DropRef(t)
           \/ FoundForUse(t) \/ UseLock(t) \/ UseDone(t)
           \/ FoundForCtl(t) \/ Find2(t) \/ Found2(t) \/ CtlLock(t) \/ Ctl(t) \/ DropRef2(t)
           \/ WalkLock(t) \/ WalkNext(t) \/ WalkEnd(t)

Next == \/ \E t \in Threads : Call(t) \/ Step(t)
        \/ \E f \in Fds : OpenFile(f) \/ RawClose(f)
        \/ Done

\* A thread inside a call keeps running.
Fairness == \A t \in Threads : WF_vars(Step(t))

Spec == Init /\ [][Next]_vars

FairSpec == Spec /\ Fairness
-----------------------------------------------------------------------------
\* The types of the variables; file_description_unref never takes a count below
\* zero.
TypeOK == /\ announced \in Threads \cup {NoThread}
          /\ readers \subseteq Threads
          /\ open_files \in [Fds -> Descs \cup {NULL}]
          /\ refcount \in [Descs -> Nat]
          /\ vtable \in [Descs -> Kinds \cup {"none"}]
          /\ mutex \in [Descs -> Threads \cup {NoThread}]
          /\ nodes \in [Descs -> SUBSET Node]
          /\ kernel \in [Fds -> {"closed", "kqueue", "file"}]
          /\ pc \in [Threads -> Locations]
          /\ loc \in [Threads -> Locals]
          /\ calls \in [Threads -> 0 .. MaxCalls]

\* The references a thread owns through its local variables.
OwnsDesc == {"created", "lock_epollfds", "remove_fd", "unref_closed", "use", "in_use",
             "find2", "found2", "ctl_lock", "ctl", "unref2", "unref"}
OwnsDesc2 == {"ctl_lock", "ctl", "unref2"}

ThreadRefs(d) ==
    Cardinality({t \in Threads : loc[t].desc = d /\ pc[t] \in OwnsDesc})
      + Cardinality({t \in Threads : loc[t].desc2 = d /\ pc[t] \in OwnsDesc2})

SlotRefs(d) == Cardinality({f \in Fds : open_files[f] = d})

\* Whatever calls overlap, a description's count is the number of table slots,
\* epoll nodes and calls in progress that reference it: it is neither freed
\* under one of them nor leaked after the last.
RefCountExact == \A d \in Descs :
    refcount[d] = SlotRefs(d) + NodeRefs(Descs, Fds, d) + ThreadRefs(d)

\* No call works with a freed description, also where it has no reference of its
\* own: between a lookup and file_description_ref, during a walk, and when
\* epoll_wait polls a node's description.
NoUseAfterFree == \A t \in Threads :
    /\ loc[t].desc # NULL => refcount[loc[t].desc] > 0
    /\ loc[t].desc2 # NULL => refcount[loc[t].desc2] > 0
    /\ pc[t] \in {"found", "walking"} /\ loc[t].desc # NULL => vtable[loc[t].desc] # "none"

\* remove_desc's three walks see the same epollfds: it unlocks exactly the
\* mutexes it locked, and no mutex is destroyed or left while locked.
MutexesPaired ==
    /\ \A t \in Threads :
         pc[t] \in {"remove_fd", "unref_closed", "real_close", "unlock_epollfds"} =>
             {d \in Descs : mutex[d] = t} = Installed
    /\ \A d \in Descs : mutex[d] # NoThread =>
         /\ refcount[d] > 0
         /\ \/ Closing(mutex[d])
            \/ pc[mutex[d]] \in {"in_use", "ctl"}

\* The descriptions whose mutexes a thread locks next.
Needs(t) ==
    LET d == loc[t].desc
        here == IF loc[t].cur < NFds THEN open_files[loc[t].cur] ELSE NULL
    IN  {e \in Descs :
           \/ pc[t] \in {"use", "ctl_lock"} /\ e = d
           \/ pc[t] = "in_use" /\ e = loc[t].desc2
           \/ pc[t] = "ctl" /\ loc[t].op = "ADD" /\ loc[t].fd2 # loc[t].fd /\ e = PollableDesc(t)
           \/ pc[t] = "lock_epollfds" /\ e = here /\ vtable[e] = "epoll"
           \/ pc[t] = "walking" /\ e = here /\ vtable[e] = "pollable"}

\* Thread t cannot go on before u has: u owns a mutex that t locks next, has the
\* write lock or waits for it, or has the read lock that t as a writer waits for.
WaitsFor(t, u) ==
    \/ \E d \in Needs(t) : mutex[d] = u
    \/ pc[t] \in {"create", "close", "find", "find2", "walk"} /\ announced = u
    \/ pc[t] \in {"create_wr", "close_wr"} /\ u \in readers

\* No threads wait for each other, nor one for itself, over the lock of the table
\* and the descriptions' mutexes: close locks all epollfds while it holds the lock,
\* epoll_wait, epoll_ctl and the walks lock a second description, and an announced
\* writer stops readers.
NoCircularWait == \A S \in SUBSET Threads :
    S # {} => \E t \in S : \A u \in S : ~WaitsFor(t, u)

\* Closing an fd through the shim removes it from every epoll instance in the
\* table, also when epoll_ctl adds it at the same time: no instance is left
\* with a node that was added before the close.
ClosedFdsLeaveEpoll == \A d \in Installed : \A n \in nodes[d] : n.fresh

\* In a disciplined program a node's poll function is that of the description
\* now in the table under its fd.
NodeDescCurrent == \A d \in Installed : \A n \in nodes[d] :
    LET cur == open_files[n.fd]
        expected == IF cur # NULL /\ vtable[cur] = "pollable" THEN cur ELSE NULL
    IN  n.desc = expected \/ \E t \in Threads : Closing(t) /\ loc[t].fd = n.fd

\* No call waits for ever on the rwlock or on the epollfds' mutexes.
EveryCallReturns == \A t \in Threads : pc[t] # "idle" ~> pc[t] = "idle"
=============================================================================
