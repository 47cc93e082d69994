------------------------------ MODULE TimerFD ------------------------------
(***************************************************************************)
(* A timerfd: src/src/timerfd_ctx.c and its callers in src/src/timerfd.c.  *)
(* The context keeps the next expiration on the timer's own clock; the     *)
(* descriptor's kqueue holds two one-shot EVFILT_TIMERs that run on the    *)
(* monotonic clock: ident 0 rings for the expiration, ident 1 wakes        *)
(* readers of a cancelled timer.  A step of CLOCK_REALTIME moves one       *)
(* against the other, and can happen between any two system calls.         *)
(*                                                                         *)
(* Every operation runs under desc->mutex, so one is in progress at a time *)
(* and pc is that of its holder.  A state between operations has pc idle.  *)
(***************************************************************************)
EXTENDS Integers

CONSTANTS Values,        \* it_value arguments of settime other than 0, which disarms
          Intervals,     \* it_interval arguments of settime
          Offsets,       \* what CLOCK_REALTIME may be ahead of CLOCK_MONOTONIC
          MaxMono,       \* bound: the monotonic clock stops here
          TenYears,      \* a timer further away gets no kernel timer
          MaxNanos,      \* the largest duration that fits into int64_t nanoseconds
          MaxTime        \* the largest time that fits into a timespec

ASSUME TimerFDAssumption ==
    /\ Values \subseteq Nat \ {0} /\ Intervals \subseteq Nat
    /\ Offsets \subseteq Nat /\ Offsets # {}
    /\ MaxMono \in Nat \ {0} /\ TenYears \in Nat \ {0}
    /\ MaxNanos \in Nat /\ MaxTime \in Nat

VARIABLES mono,      \* CLOCK_MONOTONIC
          offset,    \* CLOCK_REALTIME is mono + offset; sysctl reports it
          unused,    \* the offsets that the clock has not had yet
          ctx,       \* TimerFDCtx
          timer,     \* kernel: when ident 0 and ident 1 are due, or NotSet
          fired,     \* kernel: the idents whose event the kqueue holds
          pc,        \* of the operation in progress
          local,     \* its local variables
          hist       \* history, see NoHistory

vars == <<mono, offset, unused, ctx, timer, fired, pc, local, hist>>
clocks == <<mono, offset, unused>>
kernel == <<timer, fired>>

NotSet == 0
Idents == {0, 1}

\* now, read_at: the time of the timer's clock, and when it was read;
\* under: the offset it was read under;  got: what kevent returned;
\* new: the argument of settime, absolute.
NoLocals == [now |-> 0, read_at |-> 0, under |-> 0, got |-> {}, is_cancelled |-> FALSE,
             new |-> [it_value |-> 0, it_interval |-> 0, timer_type |-> "UNSPECIFIED",
                      is_cancel_on_set |-> FALSE]]

\* start: the first expiration that settime asked for;  reported: expirations read;
\* base: the offset when settime or a read last told of a step;  stepped: since then;
\* under, lag: the offset, and the time that passed, when ident 0 was last set;
\* far: it was more than ten years away;  spent: a cancelled read took its event;
\* overlooked: where a step was noted without setting ident 0 again, if anywhere;
\* collected: gettime has disarmed the timer;  overflowed: arithmetic in a read has.
NoHistory == [start |-> 0, reported |-> 0, base |-> 0, stepped |-> FALSE, under |-> 0,
              lag |-> 0, far |-> FALSE, spent |-> FALSE, overlooked |-> "no",
              collected |-> FALSE, overflowed |-> FALSE]

Init == /\ mono = 1
        /\ offset \in Offsets
        /\ unused = Offsets \ {offset}
        /\ ctx \in [clockid : {"MONOTONIC", "REALTIME"}, timer_type : {"UNSPECIFIED"},
                    is_cancel_on_set : {FALSE}, force_cancel : {FALSE},
                    monotonic_offset : {0}, it_value : {0}, it_interval : {0},
                    nr_expirations : {0}]
        /\ timer = [i \in Idents |-> NotSet]
        /\ fired = {}
        /\ pc = "idle"
        /\ local = NoLocals
        /\ hist = NoHistory

-----------------------------------------------------------------------------
(* The clocks and the kernel's timers. *)

Tick == /\ mono < MaxMono
        /\ mono' = mono + 1
        /\ UNCHANGED <<offset, unused, ctx, timer, fired, pc, local, hist>>

\* clock_settime(CLOCK_REALTIME), by any process.  No two steps lead to the same
\* offset: the code could not tell a clock that is back where it was from one that
\* was never stepped.
Step == /\ \E o \in unused : offset' = o /\ unused' = unused \ {o}
        /\ hist' = [hist EXCEPT !.stepped = TRUE]
        /\ UNCHANGED <<mono, ctx, timer, fired, pc, local>>

\* A one-shot timer may ring late, but not early.
Fire(i) == /\ timer[i] # NotSet /\ mono >= timer[i]
           /\ timer' = [timer EXCEPT ![i] = NotSet]
           /\ fired' = fired \cup {i}
           /\ UNCHANGED <<clocks, ctx, pc, local, hist>>

-----------------------------------------------------------------------------
(* The helpers of timerfd_ctx.c.  c is a TimerFDCtx. *)

Max0(n) == IF n < 0 THEN 0 ELSE n

is_disarmed(c) == c.it_value = 0

disarm(c) == [c EXCEPT !.it_value = 0, !.timer_type = "UNSPECIFIED"]

can_jump(c) == c.clockid = "REALTIME" /\ c.timer_type = "ABSOLUTE"

\* The offset that get_clocktime's clock has for a timer of type ty.
ClockOffset(clockid, ty) == IF clockid = "REALTIME" /\ ty = "ABSOLUTE" THEN offset ELSE 0

get_clocktime(clockid, ty) == mono + ClockOffset(clockid, ty)

\* Mutant: the expiration that is due now is not counted.
UpdateShort(c, now) ==
    IF is_disarmed(c) \/ now < c.it_value THEN c
    ELSE IF c.it_interval = 0 THEN disarm([c EXCEPT !.nr_expirations = @ + 1])
    ELSE LET n == (now - c.it_value) \div c.it_interval
         IN  [c EXCEPT !.nr_expirations = @ + n, !.it_value = @ + (n + 1) * c.it_interval]

\* What an interval timer has to count when its time has come.
Expirations(c, now) == (now - c.it_value) \div c.it_interval + 1

\* Arithmetic of update_to_current_time does not fit.  An interval of more than 292
\* years does it, and itimerspec_is_valid admits one.
Overflows(c, now) ==
    /\ ~is_disarmed(c) /\ now >= c.it_value /\ c.it_interval # 0
    /\ LET nanos_to_add == Expirations(c, now) * c.it_interval
       IN  \/ now - c.it_value > MaxNanos \/ c.it_interval > MaxNanos
           \/ nanos_to_add > MaxNanos \/ c.it_value + nanos_to_add > MaxTime

\* An interval timer moves on to its first expiration after now; arithmetic
\* that does not fit disarms it.
update_to_current_time(c, now) ==
    IF is_disarmed(c) \/ now < c.it_value THEN c
    ELSE IF c.it_interval = 0 THEN disarm([c EXCEPT !.nr_expirations = @ + 1])
    ELSE IF Overflows(c, now) THEN disarm(c)
    ELSE LET n == Expirations(c, now)
         IN  [c EXCEPT !.nr_expirations = @ + n, !.it_value = @ + n * c.it_interval]

\* Mutant: a kernel timer that may ring a tick early.
RegisterEarly(value, l) ==
    /\ timer' = [timer EXCEPT ![0] = IF value - l.now >= TenYears THEN NotSet
                                     ELSE mono + Max0(value - l.now - 1)]
    /\ fired' = fired \ {0}

\* timerfd_ctx_register_event: ident 0 is deleted, and set again to ring when
\* the clock shows value.
register_event(value, l) ==
    /\ timer' = [timer EXCEPT ![0] = IF value - l.now >= TenYears THEN NotSet
                                     ELSE mono + Max0(value - l.now)]
    /\ fired' = fired \ {0}

Registered(h, value, l) ==
    [h EXCEPT !.under = l.under, !.lag = mono - l.read_at, !.overlooked = "no",
              !.spent = FALSE, !.far = value - l.now >= TenYears]

delete_event == timer' = [timer EXCEPT ![0] = NotSet] /\ fired' = fired \ {0}

\* Mutant: only a timer that is disarmed is looked after.
RearmNever(c, l, need_kevent_delete_on_disarmed_timer) ==
    /\ hist' = hist
    /\ IF is_disarmed(c) /\ need_kevent_delete_on_disarmed_timer THEN delete_event
       ELSE UNCHANGED kernel

\* timerfd_ctx_rearm_kevent; register_event does not fail.
rearm_kevent(c, l, need_kevent_delete_on_disarmed_timer) ==
    IF ~is_disarmed(c)
    THEN register_event(c.it_value, l) /\ hist' = Registered(hist, c.it_value, l)
    ELSE /\ hist' = hist
         /\ IF need_kevent_delete_on_disarmed_timer THEN delete_event ELSE UNCHANGED kernel

\* check_for_cancel notes the offset and clears a forced cancellation ...
Noted(c) == [c EXCEPT !.monotonic_offset = IF can_jump(c) THEN offset ELSE @,
                      !.force_cancel = FALSE]

\* ... whose event goes with it ...
clear_force_cancel(c) ==
    IF c.force_cancel THEN timer' = [timer EXCEPT ![1] = NotSet] /\ fired' = fired \ {1}
    ELSE UNCHANGED kernel

\* ... and tells whether the clock has been stepped ...
is_stepped(c) == can_jump(c) /\ (c.force_cancel \/ c.monotonic_offset # offset)

\* ... to those who asked for it.
check_for_cancel(c) == is_stepped(c) /\ c.is_cancel_on_set

Return == pc' = "idle" /\ local' = NoLocals

-----------------------------------------------------------------------------
(* timerfd_ctx_gettime *)

\* A one-shot timer that has expired is disarmed; its kernel timer is not touched.
Gettime ==
    /\ pc = "idle" /\ ctx.timer_type # "UNSPECIFIED"
    /\ ctx' = update_to_current_time(ctx, get_clocktime(ctx.clockid, ctx.timer_type))
    /\ hist' = [hist EXCEPT !.collected = is_disarmed(ctx')]
    /\ UNCHANGED <<clocks, kernel, pc, local>>

-----------------------------------------------------------------------------
(* timerfd_ctx_settime; old tells whether the caller wants the old setting,  *)
(* which is brought up to date first.                                        *)

BroughtUpToDate(old) ==
    IF old /\ ctx.timer_type # "UNSPECIFIED"
    THEN update_to_current_time(ctx, get_clocktime(ctx.clockid, ctx.timer_type))
    ELSE ctx

\* it_value 0: both events are deleted.
SettimeDisarm(old) ==
    /\ pc = "idle"
    /\ ctx' = Noted([disarm(BroughtUpToDate(old)) EXCEPT !.is_cancel_on_set = FALSE,
                                                        !.nr_expirations = 0])
    /\ timer' = [timer EXCEPT ![0] = NotSet, ![1] = IF ctx.force_cancel THEN NotSet ELSE @]
    /\ fired' = fired \ IF ctx.force_cancel THEN {0, 1} ELSE {0}
    /\ hist' = NoHistory
    /\ UNCHANGED <<clocks, pc, local>>

\* The clock is read; a relative time that overflows is refused.
Settime(value, interval, is_abstime, is_cancel_on_set, old) ==
    LET ty == IF is_abstime THEN "ABSOLUTE" ELSE "RELATIVE"
        now == get_clocktime(ctx.clockid, ty)
        absolute == IF is_abstime THEN value ELSE now + value
        is_valid == absolute <= MaxTime
    IN  /\ pc = "idle"
        /\ ctx' = BroughtUpToDate(old)
        /\ pc' = IF is_valid THEN "st_register" ELSE "idle"
        /\ local' = IF ~is_valid THEN NoLocals
                    ELSE [NoLocals EXCEPT !.now = now, !.read_at = mono,
                            !.under = ClockOffset(ctx.clockid, ty),
                            !.new = [it_value |-> absolute, it_interval |-> interval,
                                     timer_type |-> ty,
                                     is_cancel_on_set |-> /\ is_cancel_on_set
                                                          /\ ctx.clockid = "REALTIME"
                                                          /\ is_abstime]]
        /\ hist' = IF is_valid THEN hist
                   ELSE [hist EXCEPT !.collected = @ \/ (ctx' # ctx /\ is_disarmed(ctx'))]
        /\ UNCHANGED <<clocks, kernel>>

SettimeRegister ==
    /\ pc = "st_register"
    /\ register_event(local.new.it_value, local)
    /\ ctx' = [ctx EXCEPT !.it_value = local.new.it_value, !.it_interval = local.new.it_interval,
                          !.timer_type = local.new.timer_type,
                          !.is_cancel_on_set = local.new.is_cancel_on_set,
                          !.nr_expirations = 0]
    /\ hist' = [Registered(NoHistory, local.new.it_value, local)
                  EXCEPT !.start = local.new.it_value, !.stepped = hist.stepped]
    /\ pc' = "st_check"
    /\ UNCHANGED <<clocks, local>>

\* The offset is noted only now: a step since the clock was read is overlooked.
SettimeCheck ==
    /\ pc = "st_check"
    /\ ctx' = Noted(ctx)
    /\ clear_force_cancel(ctx)
    /\ hist' = [hist EXCEPT !.base = offset, !.stepped = FALSE,
                            !.overlooked = IF can_jump(ctx) /\ hist.under # offset
                                           THEN "settime" ELSE "no"]
    /\ Return
    /\ UNCHANGED clocks

-----------------------------------------------------------------------------
(* timerfd_ctx_read.  A blocking read polls the kqueue and tries again after *)
(* EAGAIN, which is another read.                                            *)

\* What kevent returns is gone from the kqueue.
Read == /\ pc = "idle" /\ ctx.timer_type # "UNSPECIFIED"
        /\ local' = [local EXCEPT !.got = fired]
        /\ fired' = {}
        /\ pc' = "rd_check"
        /\ UNCHANGED <<clocks, ctx, timer, hist>>

\* A cancelled timer whose expiration was taken returns here, without rearming.
ReadCheck ==
    LET cancelled == check_for_cancel(ctx)
        returns == cancelled /\ 0 \in local.got
    IN  /\ pc = "rd_check"
        /\ ctx' = Noted(ctx)
        /\ clear_force_cancel(ctx)
        /\ hist' = [hist EXCEPT !.base = IF cancelled THEN offset ELSE @,
                                !.stepped = ~cancelled /\ @,
                                !.spent = @ \/ returns,
                                !.overlooked = IF ~cancelled /\ is_stepped(ctx) THEN "read" ELSE @]
        /\ IF returns THEN Return
           ELSE pc' = "rd_clock" /\ local' = [local EXCEPT !.is_cancelled = cancelled]
        /\ UNCHANGED clocks

\* EAGAIN when nothing has expired and no event was there.  An event without an
\* expiration means that the clock was stepped; pc abort is an assert that fails, and
\* the end of the process.
ReadClock ==
    LET now == get_clocktime(ctx.clockid, ctx.timer_type)
        c == IF local.is_cancelled THEN ctx ELSE update_to_current_time(ctx, now)
        n == IF local.is_cancelled THEN 0 ELSE c.nr_expirations
        taken == [c EXCEPT !.nr_expirations = IF local.is_cancelled THEN @ ELSE 0]
        early == ~local.is_cancelled /\ n = 0
        one_shot == early /\ ~c.is_cancel_on_set /\ c.it_interval = 0
        h == [hist EXCEPT !.overflowed = ~local.is_cancelled /\ Overflows(ctx, now)]
    IN  /\ pc = "rd_clock"
        /\ IF early /\ local.got = {}
           THEN ctx' = taken /\ Return /\ hist' = h
           ELSE /\ ctx' = IF one_shot THEN disarm(taken) ELSE taken
                /\ pc' = IF early /\ ~(0 \in local.got /\ can_jump(c)) THEN "abort" ELSE "rd_rearm"
                /\ local' = [local EXCEPT !.now = now, !.read_at = mono,
                                !.under = ClockOffset(ctx.clockid, ctx.timer_type)]
                /\ hist' = [h EXCEPT !.reported = @ + (IF one_shot THEN 1 ELSE n)]
        /\ UNCHANGED <<clocks, kernel>>

\* The process is gone.
Aborted == pc = "abort" /\ UNCHANGED vars

ReadRearm ==
    /\ pc = "rd_rearm"
    /\ rearm_kevent(ctx, local, 0 \notin local.got)
    /\ Return
    /\ UNCHANGED <<clocks, ctx>>

-----------------------------------------------------------------------------
(* timerfd_ctx_realtime_change, called by the step detector and, through     *)
(* timerfd_ctx_poll without revents, by epoll_ctl's EPOLL_CTL_ADD and the    *)
(* first walk of ppoll.  epoll_wait asks for revents: it gets POLLIN at once *)
(* and does not come here.                                                   *)

\* Mutant: a step is noted, and nobody is told of the cancellation.
RealtimeChangeNoForce ==
    /\ pc = "idle" /\ can_jump(ctx) /\ ctx.monotonic_offset # offset
    /\ ctx' = [ctx EXCEPT !.monotonic_offset = offset]
    /\ pc' = IF ctx.is_cancel_on_set \/ fired # {} THEN "idle" ELSE "rc_clock"
    /\ UNCHANGED <<clocks, kernel, local, hist>>

\* Mutant: the step is noted, and the kernel timer left as it was.
RealtimeChangeNoRearm ==
    /\ pc = "idle" /\ can_jump(ctx) /\ ctx.monotonic_offset # offset
    /\ ctx' = [ctx EXCEPT !.monotonic_offset = offset, !.force_cancel = @ \/ ctx.is_cancel_on_set]
    /\ IF ctx.is_cancel_on_set
       THEN timer' = [timer EXCEPT ![1] = mono] /\ fired' = fired \ {1}
       ELSE UNCHANGED kernel
    /\ UNCHANGED <<clocks, pc, local, hist>>

\* A timer whose event is there already is left alone.
RealtimeChange ==
    /\ pc = "idle" /\ can_jump(ctx) /\ ctx.monotonic_offset # offset
    /\ ctx' = [ctx EXCEPT !.monotonic_offset = offset, !.force_cancel = @ \/ ctx.is_cancel_on_set]
    /\ IF ctx.is_cancel_on_set
       THEN timer' = [timer EXCEPT ![1] = mono] /\ fired' = fired \ {1}
       ELSE UNCHANGED kernel
    /\ pc' = IF ctx.is_cancel_on_set \/ fired # {} THEN "idle" ELSE "rc_clock"
    /\ UNCHANGED <<clocks, local, hist>>

RealtimeChangeClock ==
    /\ pc = "rc_clock"
    /\ local' = [local EXCEPT !.now = get_clocktime(ctx.clockid, ctx.timer_type),
                              !.read_at = mono, !.under = offset]
    /\ pc' = "rc_rearm"
    /\ UNCHANGED <<clocks, ctx, kernel, hist>>

\* The timer may have rung since the poll: its event is deleted and set again.
RealtimeChangeRearm ==
    /\ pc = "rc_rearm"
    /\ rearm_kevent(ctx, local, TRUE)
    /\ Return
    /\ UNCHANGED <<clocks, ctx>>

-----------------------------------------------------------------------------
(* The whole descriptor. *)

Next == \/ Tick \/ Step \/ \E i \in Idents : Fire(i)
        \/ Gettime
        \/ \E old \in BOOLEAN : SettimeDisarm(old)
        \/ \E value \in Values, interval \in Intervals, a, c, old \in BOOLEAN :
             Settime(value, interval, a, c, old)
        \/ SettimeRegister \/ SettimeCheck
        \/ Read \/ ReadCheck \/ ReadClock \/ Aborted \/ ReadRearm
        \/ RealtimeChange \/ RealtimeChangeClock \/ RealtimeChangeRearm

Spec == Init /\ [][Next]_vars

-----------------------------------------------------------------------------
(* Properties *)

armed == ctx.timer_type # "UNSPECIFIED"

\* The asserts of timerfd_ctx_read hold: an event without an expiration is that of
\* ident 0, and of a timer that a step of the clock can have moved.  The one exception
\* is named: an interval so long that the next expiration overflows.  Then
\* update_to_current_time disarms the timer without counting the expiration that has
\* rung, and the assert that the timer can jump does fail.
ReadAssertions == pc = "abort" => hist.overflowed

\* The expirations counted and reported so far are those from the first expiration
\* to the next one: update_to_current_time neither skips nor repeats one, whatever
\* the order of reads, gettimes and steps of the clock.
ExpirationsExact ==
    pc = "idle" /\ armed =>
        IF ctx.it_interval = 0 THEN hist.reported + ctx.nr_expirations = 0
        ELSE ctx.it_value = hist.start + ctx.it_interval * (hist.reported + ctx.nr_expirations)

\* An armed timer has its kernel timer.  By the clock it was set under it rings no
\* earlier than it_value, unless an expiration is waiting to be read, and later by no
\* more than settime, read or realtime_change took to set it.  The exceptions are a
\* timer more than ten years away, and one whose event a cancelled read has taken.
\* A timer that is not armed leaves none behind, so that a blocking read sleeps, unless
\* it was gettime that found it expired, or a read disarmed it because the next
\* expiration overflows.
KernelTimerRight ==
    pc = "idle" =>
        /\ armed /\ 0 \notin fired /\ ~hist.spent /\ ~hist.far =>
             LET due == ctx.it_value - hist.under
             IN  /\ timer[0] # NotSet
                 /\ ctx.nr_expirations = 0 => timer[0] >= due
                 /\ timer[0] <= hist.lag + IF due < mono THEN mono ELSE due
        /\ ~armed /\ ~hist.collected /\ ~hist.overflowed =>
             fired = {} /\ timer = [i \in Idents |-> NotSet]

\* Once the offset is noted, the kernel timer has been set under it: realtime_change
\* and read correct an absolute CLOCK_REALTIME timer before they forget the step.
\* Two places do forget it, and are excepted: a read that finds nothing expired, and
\* settime when the clock is stepped inside it.
StepCorrectedUnlessOverlooked ==
    pc = "idle" /\ hist.overlooked = "no" /\ can_jump(ctx) /\ ~ctx.force_cancel
        /\ 0 \notin fired /\ ~hist.spent /\ ctx.monotonic_offset = offset => hist.under = offset

\* A step of the clock is reported to a TFD_TIMER_CANCEL_ON_SET timer, and nothing
\* else is: the step is still visible, or force_cancel holds and ident 1 wakes the reader.
CancelNotLost ==
    pc = "idle" /\ can_jump(ctx) /\ ctx.is_cancel_on_set =>
        /\ offset # hist.base => is_stepped(ctx)
        /\ is_stepped(ctx) => hist.stepped
        /\ ctx.force_cancel => timer[1] # NotSet \/ 1 \in fired
=============================================================================
