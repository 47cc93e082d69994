# epoll-shim in TLA+

epoll-shim implements Linux's `epoll`, `eventfd`, `timerfd` and `signalfd` on
BSD systems: every descriptor it creates is a kqueue, and the library keeps the
rest of the descriptor's state in a table of its own, shared by all threads of
the process. This directory specifies the parts of `src/src/` where threads,
signals, closes and clock changes meet, model-checks them with TLC and proves
their safety invariants with TLAPS, for any number of threads, fds and values (those
of the finite `EpollNode` are left to TLC).

## Inventory

| Component | State | Operations | What makes it correct |
|---|---|---|---|
| Readers-writer lock, `rwlock.c` | two atomic counters, two semaphores, a mutex | lock and unlock for reading and writing, downgrade | exclusion; no token is left over for a later writer; a writer that has announced itself gets in, readers behind it are released |
| Description table, `epoll_shim_ctx.c` | `open_files`, a reference count and mutex per description | create, install, drop, find, close, the walks of `ppoll` and of the step detector | counts equal references; nothing is used after it is freed; close leaves no epoll registration; no deadlock |
| Realtime step detector, `epoll_shim_ctx.c` and `timerfd.c` | number of absolute realtime timers, generation, detached threads | count up and down, detector loop | one detector while it is needed, old ones end, a step of the clock reaches all timers |
| eventfd, `eventfd.c`, `eventfd_ctx.c` | counter, flags, the kqueue event | read, write, blocking read loop | nothing written is lost; readable exactly when a read succeeds |
| kqueue event, `kqueue_event.c` | `is_triggered_` and a user event (or pipe) | trigger, clear | the flag agrees with the kernel |
| signalfd, `signalfd.c`, `signalfd_ctx.c` | the mask and the kqueue event; the pending signals are the kernel's | read, poll, clear and recheck | a pending signal always shows; no spinning when another thread took it |
| timerfd, `timerfd.c`, `timerfd_ctx.c` | timer type, times, expirations, the clock offset last seen | settime, gettime, read, realtime_change | counts every expiration once, follows or reports clock steps |
| epoll, `epoll.c`, `epollfd_ctx.c` | registered nodes, the poll list, pending kernel events, threads in `ppoll` | ctl, wait, remove on close, repoll | no thread polls an outdated list; no event for a removed node; a ready fd ends a wait |
| epoll nodes, `epollfd_ctx.c` | per registered fd: type, events asked for, `eof_state`, filters in the kqueue | needed filters, registration, translation of kevents, completion, one-shot | what `poll` reports is reported, once or as long as it holds; nothing else is |
| ppoll, `epoll_shim_ctx.c`, `compat_ppoll.c` | signal mask, a kqueue for signals, what is left of the timeout | walk, emulated `ppoll`, retry | no signal is slept through; ends with the timeout; a true count |
| `timespec_util.c` | none | safe arithmetic | no overflow |
| other `compat_*.c`, `wrap.c`, `epoll_shim_interpose.c` | none | one system call each | as the call they stand for |

How they interact. `epoll_shim_close`, `_read`, `_write`, `_poll` and the
`epoll_*` and `timerfd_*` calls find a description in the table under the read
lock and take a reference; `create` and `close` take the write lock. Each
description has a mutex under which its object is used; `close` locks the
mutexes of all epoll descriptions while it removes the fd from them and closes
it. An epoll node of a timerfd or signalfd keeps a reference on that
description and calls its poll function. `epoll_wait` gives the mutex up while
it blocks in `ppoll` on a copy of the poll list. The detector thread walks over
the table under the read lock and calls into every timerfd.

What is hard here: two atomics that have to be read together in the lock; a
lookup that races a close; signals that arrive between a clear and a check; a
list that is polled without a lock; a condition variable waited for with a mutex
held; a clock that steps between two readings; an end-of-file that comes in two
halves through two filters; a signal between a change of the mask and `poll`.
`PROJECT.json` lists these as hazards, each at its line.

## Modules

| Module | Models | State and steps |
|---|---|---|
| `RWLock` | `rwlock.c` | one step per atomic operation, semaphore or mutex call |
| `AbstractRWLock` | what callers of the lock rely on | the sets of readers and writers |
| `RWLockRefinement` | the refinement mapping | |
| `RWLock_proofs` | theorems about `RWLock` | |
| `EventFD` | `eventfd.c`, `eventfd_ctx.c`, `kqueue_event.c` | counter, `is_triggered_`, and whether the kernel shows the kqueue readable; the addition and the trigger, and the subtraction and the clear, are separate steps under the mutex |
| `AbstractEventFD` | what callers of an eventfd rely on | one counter, and the call each thread is in; every call takes effect in one step |
| `EventFDRefinement` | the refinement mapping: a write counts when its trigger is done | |
| `EventFD_proofs` | theorems about `EventFD` | |
| `DescTable` | `epoll_shim_ctx.c`, `epoll_ctl` in `epoll.c` | table, counts, mutexes, nodes and what the kernel has open per number; one step per critical section or per call that frees, closes or locks |
| `DescTable_proofs` | theorems about `DescTable` | |
| `SignalFD` | `signalfd.c`, `signalfd_ctx.c` | pending signals, the kqueue's events, the clear and the recheck as separate steps |
| `SignalFD_proofs` | theorems about `SignalFD` | |
| `EpollPoll` | `epoll_wait`, `epoll_ctl` and removal on close for fds kqueue cannot watch | poll list, pending user events, `nr_polling_threads`, the copies in `ppoll` |
| `EpollPoll_proofs` | theorems about `EpollPoll` | |
| `StepDetector` | the step detection of `epoll_shim_ctx.c` and its callers | count, generation, detector threads, the timers' offsets |
| `StepDetector_proofs` | theorems about `StepDetector` | |
| `TimerFD` | `timerfd_ctx.c` | the monotonic clock and its offset to the realtime one, the context, the two one-shot timers of the kqueue; a step between any two system calls of settime, read and realtime_change |
| `TimerFD_proofs` | theorems about `TimerFD` | |
| `EpollNode` | the nodes of `epollfd_ctx.c` that kqueue watches | the descriptor, the node, its knotes; `epoll_ctl` is a step, `epoll_wait` one per `kevent` call and per kevent fed |
| `PPoll` | `epoll_shim_ppoll` on top of `compat_ppoll.c` | signals, mask, fds, the emulation's kqueue; one step per system call and per fd of a walk |
| `PPoll_proofs` | theorems about `PPoll` | |
| `MC*` | | instances for TLC: symmetry sets and sets of arguments only |

`DescTable` uses the lock as `AbstractRWLock` describes it, with the writer's
announcement, which `RWLock` has, kept as a step because it stops new readers.
`RWLock_proofs!Refinement` shows that the lock of the code permits no more.

Variables and definitions carry the names of the code; `PROJECT.json` maps each
definition to its lines. Control state is `pc`, with one location per point at
which another thread can run; local variables are `loc` or named after the
code's. Definitions introduced by "Mutant:" are variants with a plausible bug,
used to see that a property can fail; no specification contains them.

### Abstractions

* `EventFD`: the counter's width is a constant. A failing `kevent` or `write` in
  `kqueue_event_trigger` is left out.
* `SignalFD`: signals are a set (standard signals do not queue), siginfos are
  counted but not filled. A failing `sigpending` is left out.
* `DescTable`: read, write, fcntl and `epoll_wait` are one "use" under the
  description's mutex (an `epoll_wait` also uses the description of a node). Two
  kinds of descriptions are told apart, epoll and pollable (timerfd, signalfd);
  an eventfd behaves here as a plain file does. A failing `EPOLL_CTL_ADD` has
  waited for the new node's description; one that fails earlier, for want of
  memory, is not told apart from it.
* `EpollPoll`: one epoll fd, and nodes of type poll only. A failing
  `clock_gettime` in `epollfd_ctx_wait_or_block` acts as a failing `ppoll`.
  Re-adding a user event may or may not clear a pending one: BSDs differ.
  `POLLHUP` and `POLLERR`, which `poll` reports unasked
  (`epollfd_ctx.c:307-315`), are not told apart from the events asked for, so an
  entry that asks for none is never ready.
* `StepDetector`: a timer's times are left out; `timer_type` and the noted
  offset are kept. What runs under `step_detector_mutex` is one step. Reading
  the boot time may fail in the detector, not in the timers. Each clock step
  leads to a fresh offset: one that is undone within the detector's second is
  invisible to any code that polls. The history variable `overlooked` marks the
  timers of the first known limitation below.
* `TimerFD`: operations on one timerfd exclude each other by `desc->mutex`, so
  there is one `pc`. Time is counted in the kernel timer's ticks, and the timer
  is not early: `register_event` rounds up. A kernel timer may ring late. `kevent`
  and clock failures are left out; `is_abstime` and the count of timers are in
  `StepDetector`. A blocking read is a read that is tried again. No two steps of
  the clock lead to the same offset. `hist` is history for the properties.
* `EpollNode`: the build is one without `EVFILT_EXCEPT`, where urgent data comes
  with the read filter and a `poll` for `POLLPRI`. The translation of
  `EPOLLRDHUP` to the system's number is left out, and so are `kevent` failures
  other than the `EPIPE` of a FIFO. A call of `epoll_wait` has room for one
  kevent or for all. What the filters and `poll` report of a socket, FIFO or
  other file is external; for a node of type KQUEUE `data` stands for the answer
  of the description's poll function.
* `PPoll`: the timeout is zero, positive, infinite or too long for `poll`
  (`huge`); its rounding to
  milliseconds is up, so `poll` does not end before the deadline. Signals without
  a handler, or with one that restarts system calls, are `Signals \ handled`. A
  signal that a new mask lets through is delivered before `pthread_sigmask`
  returns. A call that `epoll_shim_ppoll` refuses with `EINVAL`, for its timeout
  (`epoll_shim_ctx.c:749-759`), does nothing and is left out. An fd of the shim is one whose kqueue can be readable with nothing to
  read (`SignalFds`). The build has `EVFILT_USER`.

## Runs

| Run | Instance | Shows |
|---|---|---|
| `rwlock` | 5 threads, MAX_READERS 6 | `MutualExclusion`, `NoStrayWriterToken`, no lost wakeup (`SomeoneAwake`), the refinement `AbstractSpec`, and the liveness of writers and readers |
| `eventfd` | 3 threads, UINT64_MAX 3, values 1 to 3 | the refinement of `AbstractEventFD`, no lost wakeup, truthful readiness, blocked readers are woken; overflow and EINVAL happen |
| `eventfd_zero` | as above, values 0 and 1 | **violation**: see Findings |
| `desc_table` | 3 threads with a call each, 2 fds, 3 addresses, raw closes | exact counts, no use after free, paired mutexes, close removes registrations |
| `desc_table_disciplined` | 2 threads with 2 calls each, no close of an fd another call names | nodes have the current description; no circular wait; every call returns |
| `signalfd` | 2 threads, 2 signals, reads of up to 2 siginfos | no lost signal, no false readiness, no blocked and no spinning reader |
| `epoll_poll` | 3 threads with a call each, 2 fds, user events | poll copies are current, events have nodes and fit the caller's array |
| `epoll_poll_live` | 2 threads with a call each, 2 fds, room for one event, self pipes | calls return; a ready fd wakes the waiting thread, also when more are ready than it has room for |
| `step_detector` | 2 timers, 4 calls, 2 detectors, 2 steps | exact count, one detector, old ones end, steps are noticed wherever they come |
| `timerfd` | 4 ticks, 3 offsets (2 steps), values near, past and beyond ten years, one-shot, an interval and one that overflows | the asserts of read, exact expirations, the right kernel timer, corrected steps, no lost cancellation |
| `epoll_node` | one node of each of 6 types, all 16 event sets, edge triggered or not, one-shot or not | the asserts of the node, current filters, the inner loop ends, complete and true reports |
| `ppoll` | 2 signals, a signalfd and another fd, all masks and handlers, any number of calls | no missed signal, true results, calls end |

Why these bounds are enough. In the lock the cases differ by a departing reader,
a waiting reader, a downgrading writer and a second writer at once, which takes
four threads; the fifth is another reader. A counter that ends at 2 has an
overflow, a partial and a full read, and a value that only fits after a read.
Races in the table are between two calls on one fd with a third thread that
holds or looks up a reference; 2 fds are an epoll fd and one it has registered,
and the third address lets a number be given to a new description while the old
one is still in use. A repoll needs one thread that changes the list and two
that poll it. Two detectors exist only across a change of generation. Three
offsets are a clock that is stepped twice, forwards and backwards past a timer's
time in either order; four ticks let an interval timer expire twice and be read
in between. `EpollNode` and `PPoll` have no bound: a node's state and a call's
are finite. Two signals are one that is watched and one that is not, or a second
that comes while the first is handled; two fds are one that the retry is about
and one that is not. Runs for liveness are smaller in threads, since a wait that
fails to end needs a cycle and not a crowd. `Done`,
`AtRest` and the disabled deadlock check of `step_detector` stand for a program
that makes no more calls (or waits for ever by request); everywhere else a
deadlock is an error.

`desc_table` uses symmetry in threads and addresses. `Init` names two addresses
with `CHOOSE`; as next-state relation and invariants do not, any other choice
gives the permuted state space. `epoll_poll` uses symmetry in threads and fds.
The runs with liveness properties use none.

Bounds in the specifications: `MaxCalls` (calls per thread, or in all for
`StepDetector`), `MaxChanges` (changes of files), `MaxSteps` (clock steps),
`MaxInfos` (siginfos of a read), `MaxMono` (ticks of `TimerFD`, whose
`TenYears`, `MaxNanos` and `MaxTime` stand for the code's limits), `UINT64_MAX`,
`NFds`, and the finite sets.

## Fairness

`FairSpec` is `Spec` with weak fairness of the steps of a thread that is inside
a call: the system schedules it, critical sections end, and `poll` returns when
its fd is ready. No call has to be made, no signal or failure has to come, no
caller has to release what the program may keep. `RWLock` assumes that callers
leave their critical sections, as those of `epoll_shim_ctx.c` do. `EpollPoll`
assumes that time passes; `StepDetector` that the detector's `nanosleep` ends.
`PPoll` assumes that the calling thread runs and that its deadline passes;
signals and fds may change for ever or never. Mutexes and semaphores are not
assumed to be fair: the properties say what still holds (for example that some
waiting reader, not each, is released).

## Properties worth a comment

* `NoStrayWriterToken`: readers may leave between `lock_write`'s two atomics, so
  `readers_departing` goes negative and the decision who posts the semaphore is
  made from two sides. One post too many lets the *next* writer in early.
* `RefCountExact` with `NoUseAfterFree`: counts are right under every overlap of
  calls, also where the code uses a description without a reference of its own
  (walks, and the poll of a node from `epoll_wait`).
* `ClosedFdsLeaveEpoll`: the mutexes of all epoll fds are held over the actual
  `close`, so an `epoll_ctl` that looked the fd up before either finds it closed
  or adds whatever the number then names.
* `NodeDescCurrent` is checked for disciplined programs only. `epoll_ctl` finds
  the description of `fd2` before it has the mutex; if another thread closes
  `fd2` and the number is used again, the node gets the old description. It
  holds a reference, so the memory stays valid.
* `NoCircularWait`: `close` locks all epoll fds while it holds the table's lock,
  `epoll_wait` and `epoll_ctl` lock the description of a node after that of the
  epoll fd, walks lock one under the read lock, and a writer that has announced
  itself stops readers. The property is about every set of threads, and is not
  a deadlock check: one thread that runs on does not hide two that block each other.
  Its mutant lets a node refer to an epoll fd, and two epoll fds that register
  each other deadlock.
* `SomeoneAwake` of `RWLock`: in no state are all threads that are inside the lock
  asleep, so no token is missing. `WriterNotStarved` and `ReadersReleased` say
  more, but under fairness.
* `AbstractSpec` of `EventFD`: the counter is changed, then the kqueue; seen from
  outside both happen at once. The abstract counter is therefore `owed`, what has
  been written and announced, and not `counter_`.
* `PollSetsCurrent`: with the mutex free, every thread inside `ppoll` polls the
  list as it is, events included.
* `NoSpuriousReadiness` of `SignalFD` and `NoBusyRead`: readiness may be stale
  only because someone else took the signal, and then the next read clears it.
* `KernelTimerRight` and `StepCorrectedUnlessOverlooked`: three places set the
  kernel timer, two more forget it or take its event, and the clock moves between
  each reading and its use. The first property is about time under the offset the
  timer was set with, the second about that offset being the noted one. The
  exceptions in them are named by history variables, each set at one place of the
  code, and listed under Known limitations.
* `CancelNotLost`: after `realtime_change` has noted a step, only `force_cancel`
  and the second kernel timer remember it.
* `FiltersCurrent` and `NextWaitsReport`: which filters a node needs depends on
  the end-of-file conditions it has seen, and it sees them through those filters.
  `NextWaitsReport` evaluates the next two calls of `epoll_wait` on the state as
  it is (`Waited`) and compares them with what `poll` reports: two, because a
  socket's first end-of-file brings in the filter that sees the second. It also
  says that a call ends: after four passes of the inner loop there is an event or
  the kqueue is empty. `FiltersCurrent` excuses nodes that a completion
  put ahead, edge-triggered nodes at full end-of-file, which the code leaves as
  they are, and FIFOs there, which have the trigger in place of the write filter.
* `NoMissedSignal`: `kq` must be active whenever a handler has run that should end
  `poll`, however the signal fell among filters, `sigpending` and the new mask.

## Findings

`eventfd_zero`: a write of 0 to an empty eventfd triggers the kqueue
(`eventfd_ctx.c:80`). `poll` then reports the fd readable, `read` returns
`EAGAIN` before it could clear the event, and a blocking read spins. The tests
require that an eventfd with nothing to read does not poll as readable
(`src/test/eventfd-ctx-test.c:245-247`).

## Known limitations of the code

Each was met as a counterexample to a stronger property. The properties except
exactly these cases, and so show that there are no others of their kind.

1. `timerfd_settime` notes the clock offset in the timer and then starts the
   detector, which takes its own baseline (`epoll_shim_ctx.c:499`). A step in
   between is in the detector's baseline and not in the timer: nobody corrects
   it (`overlooked` in `StepNoticed`). Equally a step between settime's reading
   of the clock and its look at the offset (`timerfd_ctx.c:558`).
2. A read that finds no expiration after a step stores the new offset
   (`timerfd_ctx.c:216`) and returns `EAGAIN` without setting the kernel timer;
   `realtime_change` then sees no difference (`StepCorrectedUnlessOverlooked`).
   `src/README.md:129-130` promises the correction. It takes a read of a timer
   that is not due within the second before the detector looks.
3. `timerfd_gettime` on an expired one-shot timer disarms it; its event stays,
   `poll` reports the fd readable and `read` fails with `EAGAIN` (`collected` in
   `KernelTimerRight`).
4. A cancelled read that took the expiration's event returns without setting the
   timer again (`spent`); a timer more than ten years away has no kernel timer
   until something sets it again (`far`).
5. With an interval beyond the range of `int64_t` nanoseconds (292 years), which
   `itimerspec_is_valid` admits, `update_to_current_time` disarms the timer
   without counting (`timerfd_ctx.c:246-250`). A read that took the event then
   fails its `assert(timerfd_ctx_can_jump(timerfd))` (`timerfd_ctx.c:689`), and
   one that comes before the event leaves the kernel timer behind. The run has
   such an interval (70, with `MaxNanos` 60): `ReadAssertions` and
   `KernelTimerRight` except a timer that a read has disarmed in this way
   (`overflowed`), and no other.
6. Level-triggered `EPOLLPRI` without `EPOLLIN` is reported only once when
   `EPOLLRDHUP` is asked for too, or `EPOLLOUT` at full end-of-file
   (`epollfd_ctx.c:120-139`, `PriHidden`), in builds without `EVFILT_EXCEPT`.
7. A completion may change `eof_state` and `pollpri_active` after the needed
   filters were compared (`epollfd_ctx.c:640`, `ahead`), and the node is not
   registered again. If it was for `EPOLLPRI` without `EPOLLIN`, level triggered,
   and the completion finds the urgent data gone, the read filter stays level
   triggered: while ordinary data is there, `epoll_wait` goes round its inner loop
   (`epollfd_ctx.c:1463`) with the mutex held (`PriSpins` in `NextWaitsReport`).
8. An edge-triggered write end of a FIFO that had no reader when it was
   registered reports its error once and is then left without filters (`Due`).
9. `epoll_shim_ppoll` waits again, without `EINTR`, when a handler ran and at the
   same time a signalfd was readable with nothing to read.
10. `compat_ppoll` turns a timeout of more than `INT_MAX` milliseconds (24 days)
    into an infinite one (`compat_ppoll.c:35-38`, `huge` in `CallEnds`).

## Proofs

`RWLock_proofs` is about any finite set of threads and any MAX_READERS larger
than their number (`ThreadsAssumption`, `MaxReadersAssumption`). Mutual
exclusion is not inductive: whether a writer may enter depends on what the
counters stand for. `LockInv` says it. `num_pending` is the number of readers
that hold the lock or wait, less MAX_READERS while a writer is announced
(`PendingInv`); the readers' tokens, posted and to be posted, are matched by
waiting readers, exactly so while no writer is announced (`TokenInv`); and
`readers_departing`, with the writer's local `r` before it is added, is the
number of readers the writer must outlast, where a token is a reader that may
enter at any time (`DepartInv`). Per action there is one lemma; the lemmas
`CountMove`, `CountSum` and `Move` say how the numbers of threads per location
change when one thread moves. From the invariant follow `Exclusion`,
`NoLostWakeup` (were all threads asleep, the numbers per location would make the
counters disagree with the tokens), `TokenMeetsWriter`, `NoOverflow` (that the counters stay in the range where
their sign is meaningful, `CountersBounded`) and, step by step, `Refinement`:
entering and leaving map to the abstract steps, everything else to stuttering.

`EventFD_proofs` is about any set of threads and any counter width
(`EventFDAssumption`). `EventInv` adds to the types who holds the mutex, that
only a writer between its addition and its trigger has the counter ahead of the
event and of the history of values (`CountInv`, `TriggerInv`), and that a
reader about to clear will leave zero. From it follow `WakeupsKept`,
`Conservation` (what was written and not read is in the counter,
`NothingLost`) and, for programs that never write 0, `ReadinessTruthful`; the
run `eventfd_zero` shows that this premise is needed. `Refinement`: with
`owed` as the abstract counter every step is a step of the call it belongs to, or
stutters. A read that clears the event takes effect at the clear and a write at
its trigger; as both are inside the mutex, no other read or write sees a
`counter_` that differs from `owed`.

`DescTable_proofs` is about any finite sets of threads and addresses, at least
two fds and two addresses (those of `Init`), and any bound on the calls. A count
alone is not inductive: that a step drops a reference it has, and that a lookup
finds a living description, depend on where every thread is. `ThreadInv(t)` says
for each place in a call who holds the lock (`LockInv`), what the local variables
are worth (`LocalInv`, a looked-up description is still in its slot while the
lock is held), of which kind the descriptions are (`KindInv`), exactly which
mutexes the thread has (`MutexInv`) and which nodes there are (`NodeInv`);
`HeapInv` that a free description has no kind and only epollfds have nodes;
`TableInv` adds the exact counts and `ClosedFdsLeaveEpoll`. `SameButOne` counts
two sets that differ in one element, and from it come the changes of the three
sums in `RefCountExact` (`ThreadRefsMove`, `SlotRefsMove`, `NodeRefsLess`,
`NodeRefsMore`). `UnrefEffect` and `RemoveNodesEffect` say what dropping a
reference does, the freed epollfd's nodes included. `OthersKeep` is what makes
the proof modular: the table changes only under the write lock, nodes only under
their epollfd's mutex, a kind only of a description nobody else refers to, so the
`ThreadInv` of all other threads holds on; one lemma per action remains.
`NoFreedDescUsed` and `MutexesMatch` follow: whatever is referred to has a
positive count (`Referenced`).

`NoDeadlock` needs two facts more (`WaitInv`): a description is in one slot, and
as the downgraded lock keeps writers out, at most one close locks epoll fds.
`SomeoneGoes` then takes a set of threads each of which waits for another of the
set and empties it. Nobody in it waits for the mutex of a pollable description,
whose owner needs nothing more; so nobody holds one epoll fd and waits for a
second lock; so nobody owns a mutex; so nobody holds the table's lock; so
nobody waits.

`NodesCurrent` is for programs that close no fd which another call names
(`Disciplined`) and none behind the shim (`~RawCloses`); the model admits a
close or a use only if it keeps this rule. `CurrentInv`: the fds a call uses stay
open and are neither closed nor created by others (`UsesOpen`), hence what
`epoll_ctl` looked up is still in the table when it adds the node (`CtlCurrent`);
a new fd is in no epoll instance (`CreateFresh`); and a node is right unless the
close of its fd is about to remove it (`NodesRight`). TLC checked it with two
threads and three fds as well.

`SignalFD_proofs` is about any threads, signals and size of a read. `SignalInv`
says at which places inside the mutex the kqueue may be silent about a pending
signal (between a clear and its recheck, `PendingInv`) or tell of a signal that
was read (before the clear, `ReadyInv`). With the mutex free nobody is there:
`SignalsShow` and `ReadinessTruthful`.

`PPoll_proofs` is about any signals and number of fds. The argument follows a
signal that the caller blocks and `sigmask` lets through. Until the new mask is
set its handler cannot run, so it is pending where `sigpending` finds it or
arrives where a filter notices it (`MissedInv`); conversely the kqueue is awake
only for such a signal (`WokenInv`), so a count or an `EINTR` that comes from it
is accounted for (`AnswerInv`, through any number of retries).

`StepDetector_proofs` is about any finite set of timers, any detector threads
and bounds. `StepInv`: the count is that of the timers that can jump, a call in
progress counting as before it; no thread is of a generation to come; and at most
one is of the current one. As a generation is left for good when the count drops
to 0, a sleeping thread of an old one cannot become current again.

`NoStepLost` is the safety half of `StepNoticed`: `StepSeen` says that while an
absolute timer has not seen the last step, the current detector has yet to find
that step or to visit the timer, the cases of limitation 1 and a detector that
failed apart. `SeenInv` adds to `StepInv` that no detector knows an offset the
clock has yet to take, so that a step is new to every detector, and that the
statement holds for timers inside a call too. What is left to liveness is that
the detector keeps running.

`EpollPoll_proofs` is about any threads, fds and events. `PollInv`: the copies
that threads poll differ from the list only while the owner of the mutex is in
`trigger_repoll` (`CopiesInv`), which it leaves when `nr_polling_threads`, the
exact number of those threads (`CountInv`), is 0; and a pending event whose node
is off the list is about to be deleted by the owner (`EventInv`). `RepollWoken`
is the safety half of `CallsReturn`: `trigger_repoll` waits with the epoll fd's
mutex held only while a thread is counted that will count itself out, and its
user event stays pending, so that no such thread can block in `poll`
(`RepollHeard`). Only the owner of the mutex reads the kqueue, and nobody is
counted in meanwhile (`HeardInv`). That what `epoll_wait` reports fits the caller's
array is an invariant of its own (`FitInv`): a pending event has a registered node
(`EventInv`), so either there are no more nodes than entries, or no more kevents
are fetched than entries.

`TimerFD_proofs` is about any times, offsets and limits. `TimerInv` says where
the two kernel timers are (set, pending, or taken by a read in progress:
`OnceInv`, `ForceInv`, `KernelInv`), what the clock that an operation has read is
worth when it sets a timer by it (`ClockInv`), and what the context knows of the
steps (`CancelInv`, `StepInv`, `SeenInv`). `CountsExactly`, `StepsCorrected` and
`CancelsReported` follow for all values: where the arithmetic overflows, the
timer is disarmed. `NoAssertFails` and `KernelTimers` rest on `QuietInv`: an
assert fails only in a read whose arithmetic has just overflowed, and a timer that
is disarmed otherwise, gettime apart, has nothing left in the kqueue. No premise on
the intervals is needed, since the history variable `overflowed` names the case.

TLC checked each inductive invariant, and `StepSeen` and `RepollHeard`, on the
instance of its component's run before it was proved.

Only model-checked:

* all liveness: it needs `ENABLED` and fairness, which the prover does not handle.
  `SomeoneAwake`, `NoCircularWait`, `NoLostWakeup`, `StepSeen` and `RepollHeard`
  are what the liveness properties rest on and are proved;
* `NodeAssertions`, `FiltersCurrent` and `NextWaitsReport` of `EpollNode`. The
  model is finite and the run gives its constants the largest values they may
  have, so nothing is left to prove.

## Not modelled

`timespec_util.c` is arithmetic without state; the overflow guards its callers
build on it are in `TimerFD`. Builds with `EVFILT_EXCEPT`, and the variants of
`compat_ppoll.c` without `EVFILT_USER`, take other system calls for the same
steps. The other `compat_*.c` files, `wrap.c` and the interposition forward
single system calls and keep no state.

## Plan

In this order, the first eleven being done:

1. `RWLock`, its abstraction and proofs: all else depends on the lock.
2. `DescTable` on top of the abstract lock.
3. `EventFD` with proofs, `SignalFD`.
4. `EpollPoll`: waiting and the repoll protocol.
5. `StepDetector`.
6. `TimerFD`.
7. `EpollNode`.
8. `PPoll`.
9. Theorems about `SignalFD`, `StepDetector`, `PPoll`, `TimerFD`, `EpollPoll` and
   `DescTable`.
10. A theorem for `NodeDescCurrent` of disciplined programs.
11. The abstract eventfd, and the absence of deadlock and of lost wakeups as theorems.
12. Timespec arithmetic as operators with lemmas.
13. Failure paths of `kqueue_event_trigger` in `EventFD`.
