--------------------------- MODULE TimerFD_proofs ---------------------------
(***************************************************************************)
(* Proofs about TimerFD for any times, offsets and limits.                 *)
(*                                                                         *)
(* TimerInv says where ident 0 and ident 1 are (armed, pending, or taken   *)
(* by a read in progress), what the clock that an operation has read is    *)
(* worth when it sets ident 0 by it, and what the timer knows of the       *)
(* steps of the clock.  It needs no bound on the times: where arithmetic   *)
(* overflows, update_to_current_time disarms the timer.  QuietInv adds     *)
(* that nothing is left in the kqueue of a timer that is not armed, and    *)
(* that no assert of read fails, except after such an overflow: a timer    *)
(* disarmed by it has no expiration to report, and timerfd_ctx_read        *)
(* asserts that there is one.                                              *)
(***************************************************************************)
EXTENDS TimerFD, TLAPS

USE TimerFDAssumption

TimerTypes == {"UNSPECIFIED", "RELATIVE", "ABSOLUTE"}

Ctx == [clockid : {"MONOTONIC", "REALTIME"}, timer_type : TimerTypes,
        is_cancel_on_set : BOOLEAN, force_cancel : BOOLEAN, monotonic_offset : Nat,
        it_value : Nat, it_interval : Nat, nr_expirations : Nat]

Locals == [now : Nat, read_at : Nat, under : Nat, got : SUBSET Idents, is_cancelled : BOOLEAN,
           new : [it_value : Nat, it_interval : Nat, timer_type : TimerTypes,
                  is_cancel_on_set : BOOLEAN]]

History == [start : Nat, reported : Nat, base : Nat, stepped : BOOLEAN, under : Nat, lag : Nat,
            far : BOOLEAN, spent : BOOLEAN, overlooked : {"no", "settime", "read"},
            collected : BOOLEAN, overflowed : BOOLEAN]

Locations == {"idle", "st_register", "st_check", "rd_check", "rd_clock", "rd_rearm", "abort",
              "rc_clock", "rc_rearm"}

TypeOK == /\ mono \in 1 .. MaxMono
          /\ offset \in Offsets /\ unused \subseteq Offsets
          /\ ctx \in Ctx
          /\ timer \in [Idents -> Nat]
          /\ fired \subseteq Idents
          /\ pc \in Locations
          /\ local \in Locals
          /\ hist \in History

\* A timer without a type has no time.  An operation goes on with the timer it
\* began with.
ArmedInv ==
    /\ armed <=> ~is_disarmed(ctx)
    /\ pc \in {"st_check", "rd_check", "rd_clock"} => armed
    /\ pc \in {"rc_clock", "rc_rearm"} => can_jump(ctx) /\ ~ctx.is_cancel_on_set
    /\ pc = "st_register" => local.new.it_value # 0 /\ local.new.timer_type # "UNSPECIFIED"

\* Ident 0 is a one-shot timer: it is set, or its event is pending, or a read took it.
Taken(i) == pc \in {"rd_check", "rd_clock", "rd_rearm", "abort"} /\ i \in local.got

OnceInv == /\ timer[0] # NotSet => 0 \notin fired /\ ~Taken(0)
           /\ 0 \in fired => ~Taken(0)

\* Ident 1 is there exactly for a forced cancellation, and only a timer that asked for
\* it is cancelled.
ForceInv ==
    /\ ctx.force_cancel <=> timer[1] # NotSet \/ 1 \in fired \/ (pc = "rd_check" /\ 1 \in local.got)
    /\ ctx.force_cancel => /\ ctx.is_cancel_on_set \/ pc = "st_check"
                           /\ pc \notin {"rd_clock", "rd_rearm", "abort", "rc_clock", "rc_rearm"}
    /\ ctx.is_cancel_on_set => ctx.clockid = "REALTIME" /\ ctx.timer_type # "RELATIVE"
    /\ pc = "st_register" /\ local.new.is_cancel_on_set =>
           ctx.clockid = "REALTIME" /\ local.new.timer_type = "ABSOLUTE"
    /\ pc = "rd_clock" => IF local.is_cancelled THEN 0 \notin local.got ELSE 1 \notin local.got

\* The timer knows the offset that was last reported, or has a cancellation to report.
CancelInv ==
    can_jump(ctx) /\ ctx.is_cancel_on_set /\ pc # "st_check" =>
        /\ ctx.force_cancel \/ ctx.monotonic_offset = hist.base
        /\ ~hist.stepped => /\ offset = hist.base /\ ctx.monotonic_offset = hist.base
                            /\ ~ctx.force_cancel

\* Each expiration has been counted once.
CountInv == armed =>
    IF ctx.it_interval = 0 THEN hist.reported + ctx.nr_expirations = 0
    ELSE ctx.it_value = hist.start + ctx.it_interval * (hist.reported + ctx.nr_expirations)

\* The offset that is known is none of those to come.
SeenInv == /\ offset \notin unused
           /\ can_jump(ctx) /\ pc # "st_check" => ctx.monotonic_offset \notin unused

\* A timer set under u has been set under the offset that is known, or the clock has
\* been stepped since.
UpToDate(u) == u = ctx.monotonic_offset \/ ctx.monotonic_offset # offset

\* The clock that an operation has read.
ClockInv ==
    /\ pc \in {"st_register", "rd_rearm", "rc_rearm"} =>
           local.now = local.read_at + local.under /\ local.read_at <= mono
    /\ pc = "st_register" /\ ~(ctx.clockid = "REALTIME" /\ local.new.timer_type = "ABSOLUTE") =>
           local.under = 0
    /\ pc = "rd_rearm" /\ armed /\ ~can_jump(ctx) => local.under = 0
    /\ pc \in {"rd_rearm", "rc_rearm"} /\ can_jump(ctx) => UpToDate(local.under)

\* The kernel timer of an armed timer, until a read is about to set it again.
due == ctx.it_value - hist.under

KernelInv == armed /\ pc \notin {"rd_rearm", "abort"} =>
    /\ ~can_jump(ctx) => hist.under = 0
    /\ timer[0] # NotSet \/ 0 \in fired \/ Taken(0) \/ hist.spent \/ hist.far
    /\ ctx.nr_expirations = 0 => /\ timer[0] # NotSet => timer[0] >= due
                                 /\ 0 \in fired \/ Taken(0) => mono >= due
    /\ timer[0] # NotSet => timer[0] <= hist.lag + IF due < mono THEN mono ELSE due

\* Noting a step and setting the kernel timer again go together.
StepInv ==
    /\ pc \in {"idle", "st_register", "rd_check", "rd_clock"}
    /\ pc = "rd_clock" => ~local.is_cancelled
    /\ hist.overlooked = "no" /\ can_jump(ctx) /\ ~ctx.force_cancel
    /\ 0 \notin fired /\ ~Taken(0) /\ ~hist.spent
    => UpToDate(hist.under)

TimerInv == /\ TypeOK /\ ArmedInv /\ OnceInv /\ ForceInv /\ CancelInv /\ CountInv /\ SeenInv
            /\ ClockInv /\ KernelInv /\ StepInv

\* A timer that was disarmed leaves nothing in the kqueue.
DisarmedInv ==
    ~armed /\ ~hist.collected /\ ~hist.overflowed /\ pc \notin {"st_register", "rd_rearm"} =>
        timer[0] = NotSet /\ 0 \notin fired /\ ~ctx.force_cancel

QuietInv == ReadAssertions /\ DisarmedInv

-----------------------------------------------------------------------------
(* Arithmetic, and what update_to_current_time does. *)

\* Division rounds down.
LEMMA Division ==
    ASSUME NEW a \in Nat, NEW b \in Nat, b # 0
    PROVE  a \div b \in Nat /\ (a \div b) * b <= a
BY SMT

\* Products of naturals.
LEMMA Product ==
    ASSUME NEW a \in Nat, NEW b \in Nat, NEW c \in Nat
    PROVE  /\ a * b \in Nat /\ a * b = b * a
           /\ a * (b + c) = a * b + a * c
           /\ (a + 1) * b = a * b + b
           /\ a # 0 /\ b # 0 => a * b # 0
BY SMT

\* What disarming leaves alone.
LEMMA Disarmed ==
    ASSUME NEW c \in Ctx
    PROVE  /\ disarm(c) \in Ctx /\ disarm(c).it_value = 0
           /\ disarm(c).timer_type = "UNSPECIFIED" /\ disarm(c).clockid = c.clockid
           /\ disarm(c).is_cancel_on_set = c.is_cancel_on_set
           /\ disarm(c).force_cancel = c.force_cancel
           /\ disarm(c).monotonic_offset = c.monotonic_offset
           /\ disarm(c).it_interval = c.it_interval
           /\ disarm(c).nr_expirations = c.nr_expirations
BY DEF disarm, Ctx, TimerTypes

\* d is the timer c at some later time: the same, or disarmed, or moved on by the
\* expirations that it counts.
Moved(c, d) == /\ c.it_value # 0 /\ d.timer_type = c.timer_type /\ c.it_interval # 0
               /\ \E n \in Nat : /\ n # 0 /\ d.nr_expirations = c.nr_expirations + n
                                 /\ d.it_value = c.it_value + c.it_interval * n
                                 /\ d.it_value > c.it_value

Kept(c, d) == /\ d.clockid = c.clockid /\ d.is_cancel_on_set = c.is_cancel_on_set
              /\ d.force_cancel = c.force_cancel /\ d.monotonic_offset = c.monotonic_offset
              /\ d.it_interval = c.it_interval

Aged(c, d) == /\ d \in Ctx /\ Kept(c, d)
              /\ d = c \/ (d.it_value = 0 /\ d.timer_type = "UNSPECIFIED") \/ Moved(c, d)

\* A timer ages when its time has come.
LEMMA UpdateResult ==
    ASSUME NEW c \in Ctx, NEW now \in Nat
    PROVE  LET d == update_to_current_time(c, now)
           IN  /\ Aged(c, d)
               /\ c.it_value = 0 \/ now < c.it_value => d = c
<1> USE DEF Kept, Moved
<1> DEFINE d == update_to_current_time(c, now)
           diff == now - c.it_value
           n == Expirations(c, now)
           moved == [c EXCEPT !.nr_expirations = @ + n, !.it_value = @ + n * c.it_interval]
           counted == [c EXCEPT !.nr_expirations = @ + 1]
<1>1. CASE is_disarmed(c) \/ now < c.it_value
  BY <1>1 DEF update_to_current_time, is_disarmed, Aged
<1> SUFFICES ASSUME ~(is_disarmed(c) \/ now < c.it_value)
             PROVE  /\ d \in Ctx /\ Kept(c, d)
                    /\ (d.it_value = 0 /\ d.timer_type = "UNSPECIFIED") \/ Moved(c, d)
  BY <1>1 DEF is_disarmed, Aged
<1>2. CASE c.it_interval = 0
  <2>1. d = disarm(counted)
    BY <1>2 DEF update_to_current_time
  <2>2. counted \in Ctx
    BY DEF Ctx
  <2>3. /\ counted.clockid = c.clockid /\ counted.is_cancel_on_set = c.is_cancel_on_set
        /\ counted.force_cancel = c.force_cancel
        /\ counted.monotonic_offset = c.monotonic_offset
        /\ counted.it_interval = c.it_interval
    BY DEF Ctx
  <2> HIDE DEF counted, d
  <2> QED
    BY <2>1, <2>2, <2>3, Disarmed
<1>3. CASE c.it_interval # 0 /\ d = disarm(c)
  <2> HIDE DEF d
  <2> QED
    BY <1>3, Disarmed
<1>4. CASE c.it_interval # 0 /\ d # disarm(c)
  <2>1. d = moved
    BY <1>4 DEF update_to_current_time
  <2>2. diff \in Nat /\ c.it_interval \in Nat /\ c.it_value \in Nat /\ c.nr_expirations \in Nat
    BY DEF Ctx, is_disarmed
  <2>3. n \in Nat /\ n # 0
    BY <2>2, <1>4, Division DEF Expirations
  <2> HIDE DEF n
  <2>4. n * c.it_interval \in Nat /\ n * c.it_interval # 0 /\ n * c.it_interval = c.it_interval * n
    BY <2>2, <2>3, <1>4, Product
  <2>5. moved \in Ctx
    <3> DEFINE nr == c.nr_expirations + n
               value == c.it_value + n * c.it_interval
    <3>1. nr \in Nat /\ value \in Nat
      BY <2>2, <2>3, <2>4
    <3>2. moved = [c EXCEPT !.nr_expirations = nr, !.it_value = value]
      OBVIOUS
    <3> HIDE DEF nr, value, moved
    <3> QED
      BY <3>1, <3>2 DEF Ctx
  <2>6. /\ moved.nr_expirations = c.nr_expirations + n
        /\ moved.it_value = c.it_value + n * c.it_interval
        /\ moved.timer_type = c.timer_type /\ moved.clockid = c.clockid
        /\ moved.is_cancel_on_set = c.is_cancel_on_set /\ moved.force_cancel = c.force_cancel
        /\ moved.monotonic_offset = c.monotonic_offset /\ moved.it_interval = c.it_interval
    BY DEF Ctx
  <2> HIDE DEF moved, d
  <2>7. d.it_value = c.it_value + c.it_interval * n /\ d.it_value > c.it_value
    BY <2>1, <2>2, <2>4, <2>6
  <2> QED
    BY <2>1, <2>3, <2>5, <2>6, <2>7, <1>4 DEF is_disarmed
<1> QED
  BY <1>2, <1>3, <1>4

-----------------------------------------------------------------------------
(* TimerInv holds initially, and the clocks and the kernel keep it. *)

\* A timerfd that was just created satisfies TimerInv.
LEMMA InitTimer == Init => TimerInv
<1> SUFFICES ASSUME Init PROVE TimerInv
  OBVIOUS
<1>1. /\ ctx \in Ctx /\ ctx.timer_type = "UNSPECIFIED" /\ ctx.it_value = 0
      /\ ctx.is_cancel_on_set = FALSE /\ ctx.force_cancel = FALSE
  <2>1. PICK id \in {"MONOTONIC", "REALTIME"} :
             ctx = [clockid |-> id, timer_type |-> "UNSPECIFIED", is_cancel_on_set |-> FALSE,
                    force_cancel |-> FALSE, monotonic_offset |-> 0, it_value |-> 0,
                    it_interval |-> 0, nr_expirations |-> 0]
    BY Zenon DEF Init
  <2> QED
    BY <2>1 DEF Ctx, TimerTypes
<1>2. local \in Locals
  BY DEF Init, NoLocals, Locals, TimerTypes, Idents
<1>3. hist \in History
  BY DEF Init, NoHistory, History
<1>4. timer \in [Idents -> Nat] /\ timer[0] = NotSet /\ timer[1] = NotSet
  BY DEF Init, Idents, NotSet
<1>5. /\ mono \in 1 .. MaxMono /\ offset \in Offsets /\ unused \subseteq Offsets
      /\ offset \notin unused /\ fired = {} /\ pc = "idle"
  BY DEF Init
<1>6. TypeOK
  BY <1>1, <1>2, <1>3, <1>4, <1>5 DEF TypeOK, Locations
<1> QED
  BY <1>1, <1>4, <1>5, <1>6
  DEF TimerInv, ArmedInv, OnceInv, ForceInv, CancelInv, CountInv, SeenInv, ClockInv, KernelInv,
      StepInv, armed, is_disarmed, can_jump, Taken

\* Time passing changes neither the timer nor the kqueue.
LEMMA TickStep == TimerInv /\ Tick => TimerInv'
<1> SUFFICES ASSUME TimerInv, Tick PROVE TimerInv'
  OBVIOUS
<1>1. UNCHANGED <<offset, unused, ctx, timer, fired, pc, local, hist>> /\ mono' = mono + 1
  BY DEF Tick
<1>2. TypeOK /\ TypeOK'
  BY <1>1 DEF TimerInv, TypeOK, Tick
<1>3. ArmedInv' /\ OnceInv' /\ ForceInv' /\ CancelInv' /\ CountInv' /\ SeenInv' /\ StepInv'
  BY <1>1 DEF TimerInv, ArmedInv, OnceInv, ForceInv, CancelInv, CountInv, SeenInv, StepInv, armed,
              is_disarmed, can_jump, Taken, UpToDate
<1>4. mono \in Nat /\ local.read_at \in Nat /\ timer[0] \in Nat
      /\ due \in Int /\ hist.lag \in Nat
  BY <1>2 DEF TypeOK, Locals, Ctx, History, Idents, due
<1>5. ClockInv'
  BY <1>1, <1>4 DEF TimerInv, ClockInv, armed, can_jump, UpToDate
<1>6. due' = due /\ (armed <=> armed') /\ (can_jump(ctx) <=> can_jump(ctx)')
      /\ (Taken(0) <=> Taken(0)')
  BY <1>1 DEF due, armed, can_jump, Taken
<1>7. KernelInv'
  BY <1>1, <1>4, <1>6 DEF TimerInv, KernelInv
<1> QED
  BY <1>2, <1>3, <1>5, <1>7 DEF TimerInv

\* A step of the clock is one that the timer has not noted.
LEMMA StepStep == TimerInv /\ Step => TimerInv'
<1> SUFFICES ASSUME TimerInv, Step PROVE TimerInv'
  OBVIOUS
<1>1. UNCHANGED <<mono, ctx, timer, fired, pc, local>>
  BY DEF Step
<1>2. PICK o \in unused : offset' = o /\ unused' = unused \ {o}
  BY DEF Step
<1>3. TypeOK
  BY DEF TimerInv
<1>4. /\ hist' \in History /\ hist'.stepped = TRUE
      /\ hist'.start = hist.start /\ hist'.reported = hist.reported /\ hist'.base = hist.base
      /\ hist'.under = hist.under /\ hist'.lag = hist.lag /\ hist'.far = hist.far
      /\ hist'.spent = hist.spent /\ hist'.overlooked = hist.overlooked
      /\ hist'.collected = hist.collected /\ hist'.overflowed = hist.overflowed
  BY <1>3 DEF Step, TypeOK, History
<1>5. TypeOK'
  BY <1>1, <1>2, <1>3, <1>4 DEF TypeOK
<1>6. (armed <=> armed') /\ (can_jump(ctx) <=> can_jump(ctx)') /\ (Taken(0) <=> Taken(0)')
      /\ due' = due
  BY <1>1, <1>4 DEF armed, can_jump, Taken, due
<1>7. ArmedInv' /\ OnceInv' /\ ForceInv' /\ CancelInv' /\ CountInv'
  BY <1>1, <1>4, <1>6 DEF TimerInv, ArmedInv, OnceInv, ForceInv, CancelInv, CountInv, is_disarmed,
                          Taken
<1>8. SeenInv'
  BY <1>1, <1>2, <1>6 DEF TimerInv, SeenInv
<1>9. can_jump(ctx) /\ pc # "st_check" => ctx.monotonic_offset # offset'
  BY <1>2 DEF TimerInv, SeenInv
<1>10. ClockInv'
  BY <1>1, <1>4, <1>6, <1>9 DEF TimerInv, ClockInv, UpToDate
<1>11. KernelInv'
  BY <1>1, <1>4, <1>6 DEF TimerInv, KernelInv
<1>12. StepInv'
  BY <1>1, <1>6, <1>9 DEF StepInv, UpToDate
<1> QED
  BY <1>5, <1>7, <1>8, <1>10, <1>11, <1>12 DEF TimerInv

\* A kernel timer that rings is due by the clock it was set under.
LEMMA FireStep == ASSUME NEW i \in Idents PROVE TimerInv /\ Fire(i) => TimerInv'
<1> SUFFICES ASSUME TimerInv, Fire(i) PROVE TimerInv'
  OBVIOUS
<1>1. UNCHANGED <<mono, offset, unused, ctx, pc, local, hist>> /\ fired' = fired \cup {i}
  BY DEF Fire, clocks
<1>2. TypeOK
  BY DEF TimerInv
<1>3. /\ timer[i] # NotSet /\ mono >= timer[i] /\ timer'[i] = NotSet /\ timer' \in [Idents -> Nat]
      /\ \A j \in Idents \ {i} : timer'[j] = timer[j]
  BY <1>2 DEF Fire, TypeOK, NotSet
<1>4. TypeOK'
  BY <1>1, <1>2, <1>3 DEF TypeOK
<1>5. /\ (armed <=> armed') /\ (can_jump(ctx) <=> can_jump(ctx)') /\ (Taken(0) <=> Taken(0)')
      /\ due' = due
  BY <1>1 DEF armed, can_jump, Taken, due
<1>6. /\ timer'[0] # NotSet \/ 0 \in fired' <=> timer[0] # NotSet \/ 0 \in fired
      /\ timer'[1] # NotSet \/ 1 \in fired' <=> timer[1] # NotSet \/ 1 \in fired
      /\ timer'[0] # NotSet => timer'[0] = timer[0]
      /\ 0 \in fired => 0 \in fired'
  BY <1>1, <1>3 DEF Idents
<1>7. ArmedInv' /\ CancelInv' /\ CountInv' /\ SeenInv'
  BY <1>1, <1>5 DEF TimerInv, ArmedInv, CancelInv, CountInv, SeenInv, is_disarmed
<1>8. OnceInv'
  BY <1>1, <1>3, <1>5 DEF TimerInv, OnceInv, Idents
<1>9. ForceInv'
  BY <1>1, <1>6 DEF TimerInv, ForceInv
<1>10. ClockInv'
  BY <1>1, <1>5 DEF TimerInv, ClockInv, UpToDate
<1>11. mono \in Nat /\ timer[0] \in Nat /\ due \in Int /\ hist.lag \in Nat
  BY <1>2 DEF TypeOK, Ctx, History, Idents, due
<1>12. KernelInv'
  <2> SUFFICES ASSUME armed, pc \notin {"rd_rearm", "abort"} PROVE KernelInv'
    BY <1>1, <1>5 DEF KernelInv
  <2>1. ctx.nr_expirations = 0 /\ (0 \in fired' \/ Taken(0)) => mono >= due
    <3>1. CASE i = 0
      BY <1>1, <1>3, <1>11, <3>1 DEF TimerInv, KernelInv
    <3>2. CASE i = 1
      BY <1>1, <3>2 DEF TimerInv, KernelInv
    <3> QED
      BY <3>1, <3>2 DEF Idents
  <2> QED
    BY <2>1, <1>1, <1>5, <1>6 DEF TimerInv, KernelInv
<1>13. StepInv'
  BY <1>1, <1>5, <1>6 DEF TimerInv, StepInv, UpToDate
<1> QED
  BY <1>4, <1>7, <1>8, <1>9, <1>10, <1>12, <1>13 DEF TimerInv

-----------------------------------------------------------------------------
(* gettime and settime keep TimerInv. *)

\* Ageing counts each expiration once.
LEMMA AgedCount ==
    ASSUME ctx \in Ctx, hist \in History, armed, CountInv,
           NEW d, Aged(ctx, d), d.timer_type # "UNSPECIFIED"
    PROVE  IF d.it_interval = 0 THEN hist.reported + d.nr_expirations = 0
           ELSE d.it_value = hist.start + d.it_interval * (hist.reported + d.nr_expirations)
<1>1. CASE d = ctx
  BY <1>1 DEF CountInv
<1>2. CASE Moved(ctx, d)
  <2>1. PICK n \in Nat : /\ n # 0 /\ d.nr_expirations = ctx.nr_expirations + n
                         /\ d.it_value = ctx.it_value + ctx.it_interval * n
    BY <1>2 DEF Moved
  <2> DEFINE r == hist.reported + ctx.nr_expirations
  <2>2. /\ ctx.it_interval \in Nat /\ ctx.it_value \in Nat /\ hist.start \in Nat
        /\ ctx.nr_expirations \in Nat /\ hist.reported \in Nat
    BY DEF Ctx, History
  <2>3. ctx.it_value = hist.start + ctx.it_interval * r /\ ctx.it_interval # 0
    BY <1>2 DEF CountInv, Moved
  <2>4. r \in Nat /\ hist.reported + d.nr_expirations = r + n
    BY <2>1, <2>2
  <2> HIDE DEF r
  <2>5. ctx.it_interval * (r + n) = ctx.it_interval * r + ctx.it_interval * n
        /\ ctx.it_interval * r \in Nat /\ ctx.it_interval * n \in Nat
    BY <2>2, <2>4, Product
  <2>6. d.it_value = hist.start + ctx.it_interval * (r + n)
    BY <2>1, <2>2, <2>3, <2>5
  <2> QED
    BY <2>3, <2>4, <2>6 DEF Aged, Kept
<1> QED
  BY <1>1, <1>2 DEF Aged

\* Bringing the timer up to date between two operations, or as one begins.
LEMMA AgeStep ==
    ASSUME TimerInv, pc = "idle", Aged(ctx, ctx'), UNCHANGED <<mono, offset, unused, timer, fired>>,
           hist' \in History, local' \in Locals, pc' \in {"idle", "st_register"},
           hist' = [hist EXCEPT !.collected = hist'.collected],
           pc' = "st_register" =>
               /\ local'.new.it_value # 0 /\ local'.new.timer_type # "UNSPECIFIED"
               /\ local'.new.is_cancel_on_set => /\ ctx.clockid = "REALTIME"
                                                 /\ local'.new.timer_type = "ABSOLUTE"
               /\ local'.now = local'.read_at + local'.under /\ local'.read_at <= mono
               /\ ~(ctx.clockid = "REALTIME" /\ local'.new.timer_type = "ABSOLUTE") =>
                      local'.under = 0
    PROVE  TimerInv'
<1>1. TypeOK
  BY DEF TimerInv
<1>2. TypeOK'
  BY <1>1 DEF TypeOK, Aged, Locations
<1>3. /\ hist'.start = hist.start /\ hist'.reported = hist.reported /\ hist'.base = hist.base
      /\ hist'.under = hist.under /\ hist'.lag = hist.lag /\ hist'.far = hist.far
      /\ hist'.spent = hist.spent /\ hist'.overlooked = hist.overlooked
      /\ hist'.stepped = hist.stepped
  BY <1>1 DEF TypeOK, History
<1>4. /\ ctx \in Ctx /\ ctx' \in Ctx /\ ctx.it_value \in Nat /\ ctx.nr_expirations \in Nat
      /\ ctx'.it_value \in Nat /\ ctx'.nr_expirations \in Nat /\ ctx.it_interval \in Nat
      /\ mono \in Nat /\ hist.under \in Nat /\ hist.lag \in Nat /\ timer[0] \in Nat
      /\ hist.start \in Nat /\ hist.reported \in Nat
  BY <1>1, <1>2 DEF TypeOK, Ctx, History, Idents
<1>5. Kept(ctx, ctx')
  BY DEF Aged
<1>6. /\ ~Taken(0) /\ ~Taken(0)'
      /\ armed' => armed /\ ctx'.timer_type = ctx.timer_type
      /\ can_jump(ctx)' => can_jump(ctx)
      /\ armed' /\ can_jump(ctx) => can_jump(ctx)'
  BY <1>5 DEF Taken, armed, can_jump, Kept, Aged, Moved, TimerInv, ArmedInv, is_disarmed
<1>7. ArmedInv'
  BY <1>4 DEF TimerInv, ArmedInv, Aged, Moved, armed, is_disarmed
<1>8. OnceInv' /\ SeenInv'
  BY <1>5, <1>6 DEF TimerInv, OnceInv, SeenInv, Kept
<1>9. ForceInv'
  BY <1>5 DEF TimerInv, ForceInv, Kept, Aged, Moved
<1>10. CancelInv'
  BY <1>3, <1>5, <1>6 DEF TimerInv, CancelInv, Kept
<1>11. CountInv' /\ KernelInv'
  <2>1. CASE armed' /\ Moved(ctx, ctx')
    <3>1. PICK n \in Nat : /\ n # 0 /\ ctx'.nr_expirations = ctx.nr_expirations + n
                           /\ ctx'.it_value = ctx.it_value + ctx.it_interval * n
                           /\ ctx'.it_value > ctx.it_value
      BY <2>1 DEF Moved
    <3>2. CountInv'
      BY <1>1, <1>3, <1>6, <2>1, AgedCount DEF TimerInv, TypeOK, CountInv, armed
    <3>3. ctx'.nr_expirations # 0 /\ due' > due /\ due \in Int /\ due' \in Int
      BY <3>1, <1>3, <1>4 DEF due
    <3>4. KernelInv'
      BY <3>3, <1>3, <1>4, <1>6 DEF TimerInv, KernelInv
    <3> QED
      BY <3>2, <3>4
  <2>2. CASE ~armed' \/ ctx' = ctx
    BY <2>2, <1>3, <1>6 DEF TimerInv, CountInv, KernelInv, armed, due, can_jump
  <2> QED
    BY <2>1, <2>2 DEF Aged, armed
<1>12. ClockInv'
  BY <1>5 DEF ClockInv, Kept
<1>13. StepInv'
  BY <1>3, <1>5, <1>6 DEF TimerInv, StepInv, Kept, UpToDate
<1> QED
  BY <1>2, <1>7, <1>8, <1>9, <1>10, <1>11, <1>12, <1>13 DEF TimerInv

\* The clock is a natural number.
LEMMA ClockIsNat ==
    ASSUME TypeOK, NEW id, NEW ty
    PROVE  /\ ClockOffset(id, ty) \in Nat /\ get_clocktime(id, ty) \in Nat
           /\ get_clocktime(id, ty) = mono + ClockOffset(id, ty)
BY DEF TypeOK, ClockOffset, get_clocktime

\* gettime ages the timer and leaves its kernel timer.
LEMMA GettimeStep == TimerInv /\ Gettime => TimerInv'
<1> SUFFICES ASSUME TimerInv, Gettime PROVE TimerInv'
  OBVIOUS
<1>1. TypeOK /\ ctx \in Ctx
  BY DEF TimerInv, TypeOK
<1>2. Aged(ctx, ctx')
  BY <1>1, ClockIsNat, UpdateResult DEF Gettime
<1>3. is_disarmed(ctx') \in BOOLEAN
  BY DEF is_disarmed
<1>4. hist' \in History /\ hist' = [hist EXCEPT !.collected = hist'.collected]
  <2>1. hist \in History
    BY <1>1 DEF TypeOK
  <2> QED
    BY <1>3, <2>1 DEF Gettime, History
<1>5. /\ UNCHANGED <<mono, offset, unused, timer, fired>> /\ local' \in Locals
      /\ pc = "idle" /\ pc' = "idle"
  BY <1>1 DEF Gettime, clocks, kernel, TypeOK
<1> QED
  BY <1>2, <1>4, <1>5, AgeStep

\* What check_for_cancel writes into the context.
LEMMA NotedResult ==
    ASSUME TypeOK, NEW c \in Ctx
    PROVE  /\ Noted(c) \in Ctx
           /\ Noted(c).monotonic_offset = (IF can_jump(c) THEN offset ELSE c.monotonic_offset)
           /\ Noted(c).force_cancel = FALSE
           /\ Noted(c).clockid = c.clockid /\ Noted(c).timer_type = c.timer_type
           /\ Noted(c).is_cancel_on_set = c.is_cancel_on_set
           /\ Noted(c).it_value = c.it_value /\ Noted(c).it_interval = c.it_interval
           /\ Noted(c).nr_expirations = c.nr_expirations
<1> DEFINE o == IF can_jump(c) THEN offset ELSE c.monotonic_offset
<1>1. o \in Nat
  BY DEF TypeOK, Ctx
<1>2. Noted(c) = [c EXCEPT !.monotonic_offset = o, !.force_cancel = FALSE]
  BY DEF Noted
<1> HIDE DEF o
<1>3. /\ Noted(c) \in Ctx
      /\ Noted(c).monotonic_offset = o
      /\ Noted(c).force_cancel = FALSE
      /\ Noted(c).clockid = c.clockid /\ Noted(c).timer_type = c.timer_type
      /\ Noted(c).is_cancel_on_set = c.is_cancel_on_set
      /\ Noted(c).it_value = c.it_value /\ Noted(c).it_interval = c.it_interval
      /\ Noted(c).nr_expirations = c.nr_expirations
  BY <1>1, <1>2 DEF Ctx
<1> QED
  BY <1>3 DEF o

\* A forced cancellation goes together with the event of ident 1.
LEMMA ForceCleared ==
    ASSUME TypeOK, clear_force_cancel(ctx)
    PROVE  /\ timer' \in [Idents -> Nat] /\ timer'[0] = timer[0]
           /\ fired' \subseteq fired /\ (0 \in fired' <=> 0 \in fired)
           /\ ctx.force_cancel => timer'[1] = NotSet /\ 1 \notin fired'
           /\ ~ctx.force_cancel => UNCHANGED <<timer, fired>>
BY DEF TypeOK, clear_force_cancel, kernel, Idents, NotSet

\* The old setting that settime returns is the aged timer.
LEMMA BroughtUpToDateAged ==
    ASSUME TypeOK, NEW old \in BOOLEAN
    PROVE  Aged(ctx, BroughtUpToDate(old))
<1>1. ctx \in Ctx
  BY DEF TypeOK
<1>2. Aged(ctx, ctx)
  BY <1>1 DEF Aged, Kept
<1>3. Aged(ctx, update_to_current_time(ctx, get_clocktime(ctx.clockid, ctx.timer_type)))
  BY <1>1, ClockIsNat, UpdateResult
<1> QED
  BY <1>2, <1>3 DEF BroughtUpToDate

\* The history of a timer that was just disarmed.
LEMMA HistoryStart ==
    /\ NoHistory \in History /\ NoHistory.reported = 0 /\ NoHistory.base = 0
    /\ NoHistory.stepped = FALSE /\ NoHistory.collected = FALSE
BY DEF NoHistory, History

\* Between operations the locals are reset.
LEMMA NoLocalsType == NoLocals \in Locals
BY DEF NoLocals, Locals, TimerTypes

\* settime with it_value 0 deletes both kernel timers.
LEMMA SettimeDisarmStep ==
    ASSUME NEW old \in BOOLEAN PROVE TimerInv /\ SettimeDisarm(old) => TimerInv'
<1> SUFFICES ASSUME TimerInv, SettimeDisarm(old) PROVE TimerInv'
  OBVIOUS
<1>1. TypeOK
  BY DEF TimerInv
<1> DEFINE b == BroughtUpToDate(old)
           e == [disarm(b) EXCEPT !.is_cancel_on_set = FALSE, !.nr_expirations = 0]
<1>2. b \in Ctx
  BY <1>1, BroughtUpToDateAged DEF Aged
<1> HIDE DEF b
<1>3. e \in Ctx /\ e.it_value = 0 /\ e.timer_type = "UNSPECIFIED" /\ e.is_cancel_on_set = FALSE
  <2>1. disarm(b) \in Ctx /\ disarm(b).it_value = 0 /\ disarm(b).timer_type = "UNSPECIFIED"
    BY <1>2, Disarmed
  <2> QED
    BY <2>1 DEF Ctx
<1>4. ctx' = Noted(e)
  BY DEF SettimeDisarm, b
<1> HIDE DEF e
<1>5. /\ ctx' \in Ctx /\ ctx'.it_value = 0 /\ ctx'.timer_type = "UNSPECIFIED"
      /\ ctx'.is_cancel_on_set = FALSE /\ ctx'.force_cancel = FALSE
  BY <1>1, <1>3, <1>4, NotedResult
<1>6. /\ UNCHANGED <<mono, offset, unused, local>> /\ pc = "idle" /\ pc' = "idle"
      /\ hist' = NoHistory
  BY DEF SettimeDisarm, clocks
<1>7. /\ timer' \in [Idents -> Nat] /\ timer'[0] = NotSet /\ 0 \notin fired' /\ fired' \subseteq fired
      /\ ctx.force_cancel => timer'[1] = NotSet /\ 1 \notin fired'
      /\ ~ctx.force_cancel => timer'[1] = timer[1]
  BY <1>1 DEF SettimeDisarm, TypeOK, Idents, NotSet
<1>8. timer'[1] = NotSet /\ 1 \notin fired'
  BY <1>6, <1>7 DEF TimerInv, ForceInv
<1>9. TypeOK'
  BY <1>1, <1>5, <1>6, <1>7, HistoryStart DEF TypeOK, Locations
<1> QED
  BY <1>5, <1>6, <1>7, <1>8, <1>9
  DEF TimerInv, ArmedInv, OnceInv, ForceInv, CancelInv, CountInv, SeenInv, ClockInv, KernelInv,
      StepInv, armed, is_disarmed, can_jump, Taken

\* settime reads the clock that the new timer runs on.
LEMMA SettimeStep ==
    ASSUME NEW value \in Values, NEW interval \in Intervals, NEW is_abstime \in BOOLEAN,
           NEW is_cancel_on_set \in BOOLEAN, NEW old \in BOOLEAN
    PROVE  TimerInv /\ Settime(value, interval, is_abstime, is_cancel_on_set, old) => TimerInv'
<1> SUFFICES ASSUME TimerInv, Settime(value, interval, is_abstime, is_cancel_on_set, old)
             PROVE  TimerInv'
  OBVIOUS
<1> DEFINE ty == IF is_abstime THEN "ABSOLUTE" ELSE "RELATIVE"
           now == get_clocktime(ctx.clockid, ty)
           absolute == IF is_abstime THEN value ELSE now + value
           is_valid == absolute <= MaxTime
           asked == [it_value |-> absolute, it_interval |-> interval, timer_type |-> ty,
                     is_cancel_on_set |-> /\ is_cancel_on_set
                                          /\ ctx.clockid = "REALTIME"
                                          /\ is_abstime]
           l == [NoLocals EXCEPT !.now = now, !.read_at = mono,
                                 !.under = ClockOffset(ctx.clockid, ty), !.new = asked]
<1>1. TypeOK
  BY DEF TimerInv
<1>2. /\ UNCHANGED <<mono, offset, unused, timer, fired>> /\ pc = "idle"
      /\ ctx' = BroughtUpToDate(old)
      /\ pc' = (IF is_valid THEN "st_register" ELSE "idle")
      /\ local' = (IF ~is_valid THEN NoLocals ELSE l)
      /\ hist' = (IF is_valid THEN hist
                  ELSE [hist EXCEPT !.collected =
                            hist.collected \/ (ctx' # ctx /\ is_disarmed(ctx'))])
  BY DEF Settime, clocks, kernel
<1>3. Aged(ctx, ctx')
  BY <1>1, <1>2, BroughtUpToDateAged
<1>4. hist' \in History /\ hist' = [hist EXCEPT !.collected = hist'.collected]
  <2>1. hist \in History
    BY <1>1 DEF TypeOK
  <2> DEFINE col == hist.collected \/ (ctx' # ctx /\ is_disarmed(ctx'))
  <2>2. col \in BOOLEAN
    OBVIOUS
  <2>3. hist' = hist \/ hist' = [hist EXCEPT !.collected = col]
    BY <1>2
  <2> HIDE DEF col
  <2> QED
    BY <2>1, <2>2, <2>3 DEF History
<1>5. now \in Nat /\ mono \in Nat /\ ClockOffset(ctx.clockid, ty) \in Nat
      /\ now = mono + ClockOffset(ctx.clockid, ty)
  BY <1>1, ClockIsNat DEF TypeOK
<1>6. ~(ctx.clockid = "REALTIME" /\ ty = "ABSOLUTE") => ClockOffset(ctx.clockid, ty) = 0
  BY DEF ClockOffset
<1>7. absolute \in Nat /\ absolute # 0 /\ interval \in Nat
      /\ ty \in {"RELATIVE", "ABSOLUTE"}
  BY <1>5
<1>8. asked \in [it_value : Nat, it_interval : Nat, timer_type : TimerTypes,
                 is_cancel_on_set : BOOLEAN]
  <2> DEFINE can == /\ is_cancel_on_set
                    /\ ctx.clockid = "REALTIME"
                    /\ is_abstime
  <2>1. can \in BOOLEAN
    OBVIOUS
  <2>2. asked = [it_value |-> absolute, it_interval |-> interval, timer_type |-> ty,
                 is_cancel_on_set |-> can]
    OBVIOUS
  <2> HIDE DEF can, absolute, ty, asked
  <2> QED
    BY <1>7, <2>1, <2>2 DEF TimerTypes
<1>9. /\ asked.it_value # 0 /\ asked.timer_type = ty
      /\ asked.is_cancel_on_set => ctx.clockid = "REALTIME" /\ ty = "ABSOLUTE"
  BY <1>7
<1> HIDE DEF asked, now, ty, is_valid
<1>10. l \in Locals /\ l.now = now /\ l.read_at = mono /\ l.under = ClockOffset(ctx.clockid, ty)
       /\ l.new = asked
  BY <1>5, <1>8, NoLocalsType DEF Locals
<1> HIDE DEF l
<1>11. local' \in Locals /\ pc' \in {"idle", "st_register"}
  BY <1>2, <1>10, NoLocalsType
<1>12. pc' = "st_register" =>
               /\ local'.new.it_value # 0 /\ local'.new.timer_type # "UNSPECIFIED"
               /\ local'.new.is_cancel_on_set => /\ ctx.clockid = "REALTIME"
                                                 /\ local'.new.timer_type = "ABSOLUTE"
               /\ local'.now = local'.read_at + local'.under /\ local'.read_at <= mono
               /\ ~(ctx.clockid = "REALTIME" /\ local'.new.timer_type = "ABSOLUTE") =>
                      local'.under = 0
  BY <1>2, <1>5, <1>6, <1>7, <1>9, <1>10
<1> QED
  BY <1>2, <1>3, <1>4, <1>11, <1>12, AgeStep

\* The kernel timer that register_event sets: not before value by the clock that was
\* read, and later by no more than passed since then.
LEMMA Registration ==
    ASSUME TypeOK, NEW l \in Locals, NEW value \in Nat, register_event(value, l),
           l.now = l.read_at + l.under, l.read_at <= mono
    PROVE  /\ timer' \in [Idents -> Nat] /\ timer'[1] = timer[1]
           /\ fired' \subseteq fired /\ 0 \notin fired' /\ (1 \in fired' <=> 1 \in fired)
           /\ timer'[0] # NotSet <=> ~(value - l.now >= TenYears)
           /\ timer'[0] # NotSet =>
                  /\ timer'[0] >= value - l.under
                  /\ timer'[0] <= (mono - l.read_at) +
                         IF value - l.under < mono THEN mono ELSE value - l.under
<1> DEFINE at == IF value - l.now >= TenYears THEN NotSet ELSE mono + Max0(value - l.now)
<1>1. /\ timer' = [timer EXCEPT ![0] = at] /\ fired' = fired \ {0}
  BY DEF register_event
<1>2. /\ l.now \in Nat /\ l.read_at \in Nat /\ l.under \in Nat /\ mono \in Nat /\ mono # 0
      /\ timer \in [Idents -> Nat]
  BY DEF Locals, TypeOK
<1>3. /\ at \in Nat
      /\ at # NotSet <=> ~(value - l.now >= TenYears)
      /\ at # NotSet =>
             /\ at >= value - l.under
             /\ at <= (mono - l.read_at) +
                    IF value - l.under < mono THEN mono ELSE value - l.under
  BY <1>2 DEF Max0, NotSet
<1> HIDE DEF at
<1>4. timer' \in [Idents -> Nat] /\ timer'[0] = at /\ timer'[1] = timer[1]
  BY <1>1, <1>2, <1>3 DEF Idents
<1> QED
  BY <1>1, <1>3, <1>4

\* What is noted of the registration, and what is kept.
LEMMA RegistrationNoted ==
    ASSUME NEW l \in Locals, NEW value, NEW h \in History, NEW r, r = Registered(h, value, l)
    PROVE  /\ r.lag = mono - l.read_at /\ r.overlooked = "no" /\ r.spent = FALSE
           /\ r.far <=> value - l.now >= TenYears
BY DEF Registered, History

\* The offset that the clock had when it was read.
LEMMA RegistrationUnder ==
    ASSUME NEW l \in Locals, NEW value, NEW h \in History, NEW r, r = Registered(h, value, l)
    PROVE  r.under = l.under
BY DEF Registered, History

\* The history stays one.
LEMMA RegistrationType ==
    ASSUME TypeOK, NEW l \in Locals, NEW value, NEW h \in History, l.read_at <= mono,
           NEW r, r = Registered(h, value, l)
    PROVE  r \in History
<1> DEFINE f == value - l.now >= TenYears
           g == mono - l.read_at
<1>1. f \in BOOLEAN
  OBVIOUS
<1>2. g \in Nat /\ l.under \in Nat
  BY DEF TypeOK, Locals
<1>3. r = [h EXCEPT !.under = l.under, !.lag = g, !.overlooked = "no", !.spent = FALSE, !.far = f]
  BY DEF Registered
<1> HIDE DEF f, g
<1> QED
  BY <1>1, <1>2, <1>3 DEF History

\* What setting the kernel timer does not touch.
LEMMA RegistrationKept ==
    ASSUME NEW l \in Locals, NEW value \in Nat, NEW h \in History,
           NEW r, r = Registered(h, value, l)
    PROVE  /\ r.start = h.start /\ r.reported = h.reported /\ r.base = h.base
           /\ r.stepped = h.stepped /\ r.collected = h.collected
BY DEF Registered, History

\* settime sets ident 0 by the clock it read, and starts to count.
LEMMA SettimeRegisterStep == TimerInv /\ SettimeRegister => TimerInv'
<1> SUFFICES ASSUME TimerInv, SettimeRegister PROVE TimerInv'
  OBVIOUS
<1>1. TypeOK /\ local \in Locals /\ ctx \in Ctx /\ hist \in History
  BY DEF TimerInv, TypeOK
<1>2. UNCHANGED <<mono, offset, unused, local>> /\ pc = "st_register" /\ pc' = "st_check"
  BY DEF SettimeRegister, clocks
<1> DEFINE new == local.new
<1>3. /\ new.it_value \in Nat /\ new.it_interval \in Nat /\ new.timer_type \in TimerTypes
      /\ new.is_cancel_on_set \in BOOLEAN
      /\ new.it_value # 0 /\ new.timer_type # "UNSPECIFIED"
      /\ new.is_cancel_on_set => ctx.clockid = "REALTIME" /\ new.timer_type = "ABSOLUTE"
  BY <1>1, <1>2 DEF Locals, TimerInv, ArmedInv, ForceInv
<1>4. ctx' = [ctx EXCEPT !.it_value = new.it_value, !.it_interval = new.it_interval,
                         !.timer_type = new.timer_type,
                         !.is_cancel_on_set = new.is_cancel_on_set, !.nr_expirations = 0]
  BY DEF SettimeRegister
<1>5. register_event(new.it_value, local)
  BY DEF SettimeRegister
<1> DEFINE r == Registered(NoHistory, new.it_value, local)
<1>6. hist' = [r EXCEPT !.start = new.it_value, !.stepped = hist.stepped]
  BY DEF SettimeRegister
<1>7. /\ local.now = local.read_at + local.under /\ local.read_at <= mono
      /\ ~(ctx.clockid = "REALTIME" /\ new.timer_type = "ABSOLUTE") => local.under = 0
  BY <1>2 DEF TimerInv, ClockInv
<1> HIDE DEF new
<1>8. /\ ctx' \in Ctx /\ ctx'.it_value = new.it_value /\ ctx'.it_interval = new.it_interval
      /\ ctx'.timer_type = new.timer_type /\ ctx'.is_cancel_on_set = new.is_cancel_on_set
      /\ ctx'.nr_expirations = 0 /\ ctx'.clockid = ctx.clockid
      /\ ctx'.force_cancel = ctx.force_cancel
  BY <1>1, <1>3, <1>4 DEF Ctx
<1>9. /\ r \in History /\ r.under = local.under /\ r.lag = mono - local.read_at
      /\ r.far <=> new.it_value - local.now >= TenYears
      /\ r.reported = 0
  <2>1. NoHistory \in History /\ new.it_value \in Nat /\ local \in Locals /\ local.read_at <= mono
    BY <1>1, <1>3, <1>7, HistoryStart
  <2>2. r = Registered(NoHistory, new.it_value, local)
    OBVIOUS
  <2> HIDE DEF r
  <2>3. /\ r \in History /\ r.under = local.under /\ r.lag = mono - local.read_at
        /\ r.far <=> new.it_value - local.now >= TenYears
    <3>1. r.under = local.under
      BY <2>1, <2>2, RegistrationUnder
    <3>2. r \in History
      BY <1>1, <2>1, <2>2, RegistrationType
    <3>3. r.lag = mono - local.read_at /\ (r.far <=> new.it_value - local.now >= TenYears)
      BY <2>1, <2>2, RegistrationNoted
    <3> QED
      BY <3>1, <3>2, <3>3
  <2>4. r.reported = 0
    BY <2>1, <2>2, RegistrationKept, HistoryStart
  <2> QED
    BY <2>3, <2>4
<1> HIDE DEF r
<1>10. /\ hist' \in History /\ hist'.under = local.under /\ hist'.lag = mono - local.read_at
       /\ hist'.far <=> new.it_value - local.now >= TenYears
       /\ hist'.reported = 0 /\ hist'.start = new.it_value
  <2>1. hist.stepped \in BOOLEAN
    BY <1>1 DEF History
  <2> QED
    BY <1>3, <1>6, <1>9, <2>1 DEF History
<1>11. /\ timer' \in [Idents -> Nat] /\ timer'[1] = timer[1]
       /\ fired' \subseteq fired /\ 0 \notin fired' /\ (1 \in fired' <=> 1 \in fired)
       /\ timer'[0] # NotSet <=> ~(new.it_value - local.now >= TenYears)
       /\ timer'[0] # NotSet =>
              /\ timer'[0] >= new.it_value - local.under
              /\ timer'[0] <= (mono - local.read_at) +
                     IF new.it_value - local.under < mono THEN mono
                     ELSE new.it_value - local.under
  BY <1>1, <1>3, <1>5, <1>7, Registration
<1>12. TypeOK'
  BY <1>1, <1>2, <1>8, <1>10, <1>11 DEF TypeOK, Locations
<1>13. ArmedInv'
  BY <1>2, <1>3, <1>8 DEF ArmedInv, armed, is_disarmed
<1>14. OnceInv' /\ SeenInv'
  BY <1>2, <1>11 DEF OnceInv, Taken, TimerInv, SeenInv
<1>15. ForceInv'
  BY <1>2, <1>3, <1>8, <1>11 DEF TimerInv, ForceInv
<1>16. CancelInv' /\ ClockInv' /\ StepInv'
  BY <1>2 DEF CancelInv, ClockInv, StepInv
<1>17. CountInv'
  <2>1. new.it_interval * (0 + 0) = 0
    BY <1>3
  <2> QED
    BY <2>1, <1>3, <1>8, <1>10 DEF CountInv
<1>18. due' = new.it_value - local.under /\ (can_jump(ctx)' <=> (ctx.clockid = "REALTIME" /\ new.timer_type = "ABSOLUTE"))
  BY <1>8, <1>10 DEF due, can_jump
<1>19. KernelInv'
  BY <1>2, <1>7, <1>8, <1>10, <1>11, <1>18 DEF KernelInv, Taken
<1> QED
  BY <1>12, <1>13, <1>14, <1>15, <1>16, <1>17, <1>19 DEF TimerInv

\* settime notes the offset, and whether a step was overlooked.
LEMMA SettimeCheckStep == TimerInv /\ SettimeCheck => TimerInv'
<1> SUFFICES ASSUME TimerInv, SettimeCheck PROVE TimerInv'
  OBVIOUS
<1>1. TypeOK /\ ctx \in Ctx /\ hist \in History
  BY DEF TimerInv, TypeOK
<1>2. /\ UNCHANGED <<mono, offset, unused>> /\ pc = "st_check" /\ pc' = "idle"
      /\ ctx' = Noted(ctx) /\ local' = NoLocals /\ clear_force_cancel(ctx)
  BY DEF SettimeCheck, clocks, Return
<1>3. /\ ctx' \in Ctx
      /\ ctx'.monotonic_offset = (IF can_jump(ctx) THEN offset ELSE ctx.monotonic_offset)
      /\ ctx'.force_cancel = FALSE
      /\ ctx'.clockid = ctx.clockid /\ ctx'.timer_type = ctx.timer_type
      /\ ctx'.is_cancel_on_set = ctx.is_cancel_on_set
      /\ ctx'.it_value = ctx.it_value /\ ctx'.it_interval = ctx.it_interval
      /\ ctx'.nr_expirations = ctx.nr_expirations
  BY <1>1, <1>2, NotedResult
<1>4. /\ timer' \in [Idents -> Nat] /\ timer'[0] = timer[0]
      /\ fired' \subseteq fired /\ (0 \in fired' <=> 0 \in fired)
      /\ timer'[1] = NotSet /\ 1 \notin fired'
  BY <1>1, <1>2, ForceCleared DEF TimerInv, ForceInv
<1> DEFINE ov == IF can_jump(ctx) /\ hist.under # offset THEN "settime" ELSE "no"
<1>5. /\ hist' \in History /\ hist'.base = offset /\ hist'.stepped = FALSE /\ hist'.overlooked = ov
      /\ hist'.start = hist.start /\ hist'.reported = hist.reported
      /\ hist'.under = hist.under /\ hist'.lag = hist.lag /\ hist'.far = hist.far
      /\ hist'.spent = hist.spent
  <2>1. hist' = [hist EXCEPT !.base = offset, !.stepped = FALSE, !.overlooked = ov]
    BY DEF SettimeCheck
  <2>2. ov \in {"no", "settime", "read"} /\ offset \in Nat
    BY <1>1 DEF TypeOK
  <2> HIDE DEF ov
  <2> QED
    BY <1>1, <2>1, <2>2 DEF History
<1>6. TypeOK'
  BY <1>1, <1>2, <1>3, <1>4, <1>5, NoLocalsType DEF TypeOK, Locations
<1>7. (armed <=> armed') /\ (can_jump(ctx) <=> can_jump(ctx)') /\ due' = due
      /\ ~Taken(0) /\ ~Taken(0)'
  BY <1>2, <1>3, <1>5 DEF armed, can_jump, due, Taken
<1>8. ArmedInv' /\ OnceInv' /\ SeenInv'
  BY <1>2, <1>3, <1>4, <1>7 DEF TimerInv, ArmedInv, OnceInv, SeenInv, is_disarmed
<1>9. ForceInv' /\ CancelInv' /\ ClockInv'
  BY <1>2, <1>3, <1>4, <1>5, <1>7 DEF TimerInv, ForceInv, CancelInv, ClockInv
<1>10. CountInv' /\ KernelInv'
  BY <1>2, <1>3, <1>4, <1>5, <1>7 DEF TimerInv, CountInv, KernelInv
<1>11. StepInv'
  BY <1>2, <1>3, <1>5, <1>7 DEF StepInv, UpToDate
<1> QED
  BY <1>6, <1>8, <1>9, <1>10, <1>11 DEF TimerInv

-----------------------------------------------------------------------------
(* read and realtime_change keep TimerInv. *)

\* What kevent returned is with the reader now.
LEMMA ReadStep == TimerInv /\ Read => TimerInv'
<1> SUFFICES ASSUME TimerInv, Read PROVE TimerInv'
  OBVIOUS
<1>1. TypeOK /\ local \in Locals
  BY DEF TimerInv, TypeOK
<1>2. /\ UNCHANGED <<mono, offset, unused, ctx, timer, hist>> /\ fired' = {}
      /\ pc = "idle" /\ pc' = "rd_check" /\ armed
  BY DEF Read, clocks, armed
<1>3. local' \in Locals /\ local'.got = fired
  BY <1>1 DEF Read, Locals, TypeOK
<1>4. TypeOK'
  BY <1>1, <1>2, <1>3 DEF TypeOK, Locations
<1>5. /\ (armed <=> armed') /\ (can_jump(ctx) <=> can_jump(ctx)') /\ due' = due
      /\ ~Taken(0) /\ (Taken(0)' <=> 0 \in fired)
  BY <1>2, <1>3 DEF armed, can_jump, due, Taken
<1>6. ArmedInv' /\ OnceInv' /\ SeenInv'
  BY <1>2, <1>5 DEF TimerInv, ArmedInv, OnceInv, SeenInv, is_disarmed
<1>7. ForceInv'
  BY <1>2, <1>3 DEF TimerInv, ForceInv
<1>8. CancelInv' /\ CountInv' /\ ClockInv'
  BY <1>2, <1>5 DEF TimerInv, CancelInv, CountInv, ClockInv
<1>9. KernelInv'
  BY <1>2, <1>5 DEF TimerInv, KernelInv
<1>10. StepInv'
  BY <1>2, <1>5 DEF TimerInv, StepInv, UpToDate
<1> QED
  BY <1>4, <1>6, <1>7, <1>8, <1>9, <1>10 DEF TimerInv

\* A read that finds the clock stepped reports it and forgets it.
LEMMA ReadCheckStep == TimerInv /\ ReadCheck => TimerInv'
<1> SUFFICES ASSUME TimerInv, ReadCheck PROVE TimerInv'
  OBVIOUS
<1> DEFINE cancelled == check_for_cancel(ctx)
           returns == cancelled /\ 0 \in local.got
<1>1. TypeOK /\ ctx \in Ctx /\ hist \in History /\ local \in Locals
  BY DEF TimerInv, TypeOK
<1>2. /\ UNCHANGED <<mono, offset, unused>> /\ pc = "rd_check"
      /\ ctx' = Noted(ctx) /\ clear_force_cancel(ctx)
      /\ hist' = [hist EXCEPT !.base = IF cancelled THEN offset ELSE hist.base,
                              !.stepped = ~cancelled /\ hist.stepped,
                              !.spent = hist.spent \/ returns,
                              !.overlooked = IF ~cancelled /\ is_stepped(ctx) THEN "read"
                                             ELSE hist.overlooked]
      /\ IF returns THEN Return
         ELSE pc' = "rd_clock" /\ local' = [local EXCEPT !.is_cancelled = cancelled]
  BY DEF ReadCheck, clocks
<1>3. /\ ctx' \in Ctx
      /\ ctx'.monotonic_offset = (IF can_jump(ctx) THEN offset ELSE ctx.monotonic_offset)
      /\ ctx'.force_cancel = FALSE
      /\ ctx'.clockid = ctx.clockid /\ ctx'.timer_type = ctx.timer_type
      /\ ctx'.is_cancel_on_set = ctx.is_cancel_on_set
      /\ ctx'.it_value = ctx.it_value /\ ctx'.it_interval = ctx.it_interval
      /\ ctx'.nr_expirations = ctx.nr_expirations
  BY <1>1, <1>2, NotedResult
<1>4. /\ timer' \in [Idents -> Nat] /\ timer'[0] = timer[0]
      /\ fired' \subseteq fired /\ (0 \in fired' <=> 0 \in fired)
      /\ timer'[1] = NotSet /\ 1 \notin fired'
  BY <1>1, <1>2, ForceCleared DEF TimerInv, ForceInv
<1>5. /\ hist' \in History
      /\ hist'.base = (IF cancelled THEN offset ELSE hist.base)
      /\ hist'.stepped <=> ~cancelled /\ hist.stepped
      /\ hist'.spent <=> hist.spent \/ returns
      /\ hist'.overlooked = "no" => hist.overlooked = "no" /\ (cancelled \/ ~is_stepped(ctx))
      /\ hist'.start = hist.start /\ hist'.reported = hist.reported
      /\ hist'.under = hist.under /\ hist'.lag = hist.lag /\ hist'.far = hist.far
  <2> DEFINE ba == IF cancelled THEN offset ELSE hist.base
             st == ~cancelled /\ hist.stepped
             sp == hist.spent \/ returns
             ov == IF ~cancelled /\ is_stepped(ctx) THEN "read" ELSE hist.overlooked
  <2>1. st \in BOOLEAN /\ sp \in BOOLEAN
    BY Zenon
  <2>2. ba \in Nat /\ ov \in {"no", "settime", "read"}
    BY <1>1 DEF TypeOK, History
  <2>3. ov = "no" => hist.overlooked = "no" /\ (cancelled \/ ~is_stepped(ctx))
    OBVIOUS
  <2>4. hist' = [hist EXCEPT !.base = ba, !.stepped = st, !.spent = sp, !.overlooked = ov]
    BY <1>2
  <2> HIDE DEF ba, st, sp, ov, returns, cancelled
  <2>5. /\ hist' \in History
        /\ hist'.base = ba /\ hist'.stepped = st /\ hist'.spent = sp /\ hist'.overlooked = ov
        /\ hist'.start = hist.start /\ hist'.reported = hist.reported
        /\ hist'.under = hist.under /\ hist'.lag = hist.lag /\ hist'.far = hist.far
    BY <1>1, <2>1, <2>2, <2>4 DEF History
  <2>6. hist'.base = (IF cancelled THEN offset ELSE hist.base)
    BY <2>5 DEF ba
  <2>7. (hist'.stepped <=> ~cancelled /\ hist.stepped) /\ (hist'.spent <=> hist.spent \/ returns)
    BY <2>5 DEF st, sp
  <2> QED
    BY <2>3, <2>5, <2>6, <2>7
<1>6. /\ local' \in Locals
      /\ pc' = (IF returns THEN "idle" ELSE "rd_clock")
      /\ ~returns => local'.got = local.got /\ (local'.is_cancelled <=> cancelled)
  <2>1. cancelled \in BOOLEAN
    BY Zenon DEF check_for_cancel
  <2> HIDE DEF cancelled
  <2>2. CASE returns
    BY <1>2, <2>2, NoLocalsType DEF Return
  <2>3. CASE ~returns
    BY <1>1, <1>2, <2>1, <2>3 DEF Locals
  <2> QED
    BY <2>2, <2>3
<1>7. TypeOK'
  BY <1>1, <1>2, <1>3, <1>4, <1>5, <1>6 DEF TypeOK, Locations
<1>8. /\ (armed <=> armed') /\ (can_jump(ctx) <=> can_jump(ctx)') /\ due' = due
      /\ (Taken(0) <=> 0 \in local.got)
      /\ (Taken(0)' <=> ~returns /\ 0 \in local.got)
  BY <1>2, <1>3, <1>5, <1>6 DEF armed, can_jump, due, Taken
<1>9. armed /\ (ctx.is_cancel_on_set => can_jump(ctx)) /\ (ctx.force_cancel => ctx.is_cancel_on_set)
  BY <1>1, <1>2 DEF TimerInv, ArmedInv, ForceInv, armed, can_jump, Ctx, TimerTypes
<1>10. cancelled <=> ctx.is_cancel_on_set /\ (ctx.force_cancel \/ ctx.monotonic_offset # offset)
  BY <1>9 DEF check_for_cancel, is_stepped
<1>11. is_stepped(ctx) <=> can_jump(ctx) /\ (ctx.force_cancel \/ ctx.monotonic_offset # offset)
  BY DEF is_stepped
<1> HIDE DEF cancelled
<1>12. ArmedInv' /\ OnceInv' /\ SeenInv'
  BY <1>2, <1>3, <1>4, <1>6, <1>8, <1>9 DEF TimerInv, ArmedInv, OnceInv, SeenInv, is_disarmed
<1>13. ForceInv'
  <2>1. 1 \in local.got => ctx.force_cancel
    BY <1>2 DEF TimerInv, ForceInv
  <2> QED
    BY <1>3, <1>4, <1>6, <1>9, <1>10, <2>1 DEF TimerInv, ForceInv
<1>14. CancelInv'
  BY <1>2, <1>3, <1>5, <1>8, <1>10 DEF TimerInv, CancelInv
<1>15. CountInv' /\ ClockInv'
  BY <1>3, <1>5, <1>6, <1>8 DEF TimerInv, CountInv, ClockInv
<1>16. KernelInv'
  BY <1>2, <1>3, <1>4, <1>5, <1>6, <1>8 DEF TimerInv, KernelInv
<1>17. StepInv'
  BY <1>2, <1>3, <1>4, <1>5, <1>6, <1>8, <1>11 DEF TimerInv, StepInv, UpToDate
<1> QED
  BY <1>7, <1>12, <1>13, <1>14, <1>15, <1>16, <1>17 DEF TimerInv

\* What ReadClock does, read as cases: a cancelled read, one that finds nothing, and
\* one that takes what it has counted.
LEMMA ReadClockCases ==
    ASSUME TypeOK, ReadClock,
           NEW now, now = get_clocktime(ctx.clockid, ctx.timer_type),
           NEW c, c = update_to_current_time(ctx, now)
    PROVE  LET early == ~local.is_cancelled /\ c.nr_expirations = 0
               set == [local EXCEPT !.now = now, !.read_at = mono,
                                    !.under = ClockOffset(ctx.clockid, ctx.timer_type)]
               h == [hist EXCEPT !.overflowed = ~local.is_cancelled /\ Overflows(ctx, now)]
           IN  \/ /\ local.is_cancelled
                  /\ ctx' = ctx /\ pc' = "rd_rearm" /\ local' = set /\ hist' = h
               \/ /\ early /\ local.got = {}
                  /\ ctx' = c /\ pc' = "idle" /\ local' = NoLocals /\ hist' = h
               \/ /\ early /\ local.got # {} /\ ~c.is_cancel_on_set /\ c.it_interval = 0
                  /\ ctx' = disarm(c) /\ local' = set
                  /\ hist' = [h EXCEPT !.reported = h.reported + 1]
                  /\ pc' = (IF 0 \in local.got /\ can_jump(c) THEN "rd_rearm" ELSE "abort")
               \/ /\ early /\ local.got # {} /\ ctx' = c /\ local' = set /\ hist' = h
                  /\ pc' = (IF 0 \in local.got /\ can_jump(c) THEN "rd_rearm" ELSE "abort")
               \/ /\ ~local.is_cancelled /\ c.nr_expirations # 0
                  /\ ctx' = [c EXCEPT !.nr_expirations = 0] /\ pc' = "rd_rearm" /\ local' = set
                  /\ hist' = [h EXCEPT !.reported = h.reported + c.nr_expirations]
<1> DEFINE set == [local EXCEPT !.now = now, !.read_at = mono,
                                !.under = ClockOffset(ctx.clockid, ctx.timer_type)]
           over == ~local.is_cancelled /\ Overflows(ctx, now)
           h == [hist EXCEPT !.overflowed = over]
           cc == IF local.is_cancelled THEN ctx ELSE c
           n == IF local.is_cancelled THEN 0 ELSE cc.nr_expirations
           taken == [cc EXCEPT !.nr_expirations = IF local.is_cancelled THEN @ ELSE 0]
           early == ~local.is_cancelled /\ n = 0
           one_shot == early /\ ~cc.is_cancel_on_set /\ cc.it_interval = 0
<1>1. IF early /\ local.got = {}
      THEN ctx' = taken /\ Return /\ hist' = h
      ELSE /\ ctx' = IF one_shot THEN disarm(taken) ELSE taken
           /\ pc' = IF early /\ ~(0 \in local.got /\ can_jump(cc)) THEN "abort" ELSE "rd_rearm"
           /\ local' = set
           /\ hist' = [h EXCEPT !.reported = h.reported + (IF one_shot THEN 1 ELSE n)]
  BY DEF ReadClock
<1>2. ctx \in Ctx /\ hist \in History /\ c \in Ctx /\ now \in Nat
  BY ClockIsNat, UpdateResult DEF TypeOK, Aged
<1>3. h = [h EXCEPT !.reported = h.reported + 0]
  <2>1. over \in BOOLEAN
    OBVIOUS
  <2> HIDE DEF over
  <2>2. h \in History
    BY <1>2, <2>1 DEF History
  <2> HIDE DEF h
  <2> QED
    BY <2>2 DEF History
<1> HIDE DEF set, h
<1>4. CASE local.is_cancelled
  <2>1. taken = ctx
    BY <1>2, <1>4 DEF Ctx
  <2>2. ~early /\ n = 0 /\ ~one_shot
    BY <1>4
  <2> QED
    BY <1>1, <1>3, <1>4, <2>1, <2>2 DEF set, h
<1>5. CASE ~local.is_cancelled /\ c.nr_expirations = 0
  <2>1. taken = c /\ cc = c
    BY <1>2, <1>5 DEF Ctx
  <2>2. early /\ n = 0 /\ (one_shot <=> ~c.is_cancel_on_set /\ c.it_interval = 0)
    BY <1>5
  <2> HIDE DEF taken, cc, n, early, one_shot
  <2> QED
    BY <1>1, <1>3, <1>5, <2>1, <2>2 DEF set, h, Return
<1>6. CASE ~local.is_cancelled /\ c.nr_expirations # 0
  <2>1. taken = [c EXCEPT !.nr_expirations = 0] /\ cc = c
    BY <1>6
  <2>2. ~early /\ n = c.nr_expirations /\ ~one_shot
    BY <1>6
  <2> HIDE DEF taken, cc, n, early, one_shot
  <2> QED
    BY <1>1, <1>6, <2>1, <2>2 DEF set, h
<1> QED
  BY <1>4, <1>5, <1>6

\* A read takes what it has counted.
LEMMA ReadClockStep == TimerInv /\ ReadClock => TimerInv'
<1> SUFFICES ASSUME TimerInv, ReadClock PROVE TimerInv'
  OBVIOUS
<1> DEFINE now == get_clocktime(ctx.clockid, ctx.timer_type)
           c == update_to_current_time(ctx, now)
           early == ~local.is_cancelled /\ c.nr_expirations = 0
           under == ClockOffset(ctx.clockid, ctx.timer_type)
           set == [local EXCEPT !.now = now, !.read_at = mono, !.under = under]
           over == ~local.is_cancelled /\ Overflows(ctx, now)
           h == [hist EXCEPT !.overflowed = over]
<1>1. TypeOK /\ ctx \in Ctx /\ hist \in History /\ local \in Locals
  BY DEF TimerInv, TypeOK
<1>2. UNCHANGED <<mono, offset, unused, timer, fired>> /\ pc = "rd_clock"
  BY DEF ReadClock, clocks, kernel
<1>3. now \in Nat /\ mono \in Nat /\ under \in Nat /\ now = mono + under
  BY <1>1, ClockIsNat DEF TypeOK
<1>4. Aged(ctx, c)
  BY <1>1, <1>3, UpdateResult
<1>5. \/ /\ local.is_cancelled
         /\ ctx' = ctx /\ pc' = "rd_rearm" /\ local' = set /\ hist' = h
      \/ /\ early /\ local.got = {}
         /\ ctx' = c /\ pc' = "idle" /\ local' = NoLocals /\ hist' = h
      \/ /\ early /\ local.got # {} /\ ~c.is_cancel_on_set /\ c.it_interval = 0
         /\ ctx' = disarm(c) /\ local' = set
         /\ hist' = [h EXCEPT !.reported = h.reported + 1]
         /\ pc' = (IF 0 \in local.got /\ can_jump(c) THEN "rd_rearm" ELSE "abort")
      \/ /\ early /\ local.got # {} /\ ctx' = c /\ local' = set /\ hist' = h
         /\ pc' = (IF 0 \in local.got /\ can_jump(c) THEN "rd_rearm" ELSE "abort")
      \/ /\ ~local.is_cancelled /\ c.nr_expirations # 0
         /\ ctx' = [c EXCEPT !.nr_expirations = 0] /\ pc' = "rd_rearm" /\ local' = set
         /\ hist' = [h EXCEPT !.reported = h.reported + c.nr_expirations]
  BY <1>1, ReadClockCases
<1>6. set \in Locals /\ set.now = now /\ set.read_at = mono /\ set.under = under
      /\ set.got = local.got
  BY <1>1, <1>3 DEF Locals
<1>7. armed /\ ctx.it_value # 0 /\ ctx.it_value \in Nat
  BY <1>1, <1>2 DEF TimerInv, ArmedInv, is_disarmed, Ctx
<1>8. /\ c \in Ctx /\ Kept(ctx, c) /\ c.nr_expirations \in Nat
      /\ \/ c.it_value # 0 /\ c.timer_type = ctx.timer_type
         \/ c.it_value = 0 /\ c.timer_type = "UNSPECIFIED"
      /\ c.nr_expirations = 0 => c = ctx \/ c.timer_type = "UNSPECIFIED"
  BY <1>1, <1>4, <1>7 DEF Aged, Moved, Ctx
<1> HIDE DEF c, set, now, under
<1>8a. /\ h \in History /\ h.reported = hist.reported
      /\ h.start = hist.start /\ h.base = hist.base /\ h.stepped = hist.stepped
      /\ h.under = hist.under /\ h.lag = hist.lag /\ h.far = hist.far
      /\ h.spent = hist.spent /\ h.overlooked = hist.overlooked
  <2>1. over \in BOOLEAN
    OBVIOUS
  <2> HIDE DEF over
  <2> QED
    BY <1>1, <2>1 DEF History
<1> HIDE DEF h
<1>9. /\ ctx' \in Ctx /\ Kept(ctx, ctx')
      /\ \/ ctx'.it_value # 0 /\ ctx'.timer_type = ctx.timer_type
         \/ ctx'.it_value = 0 /\ ctx'.timer_type = "UNSPECIFIED"
  <2>1. CASE ctx' = ctx \/ ctx' = c
    BY <1>1, <1>7, <1>8, <2>1 DEF Kept
  <2>2. CASE ctx' = disarm(c)
    BY <1>8, <2>2, Disarmed DEF Kept
  <2>3. CASE ctx' = [c EXCEPT !.nr_expirations = 0]
    BY <1>8, <2>3 DEF Ctx, Kept
  <2> QED
    BY <1>5, <2>1, <2>2, <2>3
<1>10. /\ pc' \in {"idle", "rd_rearm", "abort"}
       /\ pc' # "idle" => local' = set
       /\ pc' = "idle" => /\ local' = NoLocals /\ local.got = {} /\ ~local.is_cancelled
                          /\ ctx' = ctx \/ ctx'.timer_type = "UNSPECIFIED"
  BY <1>5, <1>8
<1>11. /\ hist' \in History
       /\ hist'.start = hist.start /\ hist'.base = hist.base /\ hist'.stepped = hist.stepped
       /\ hist'.under = hist.under /\ hist'.lag = hist.lag /\ hist'.far = hist.far
       /\ hist'.spent = hist.spent /\ hist'.overlooked = hist.overlooked
  <2>1. \E n \in Nat : hist' = [h EXCEPT !.reported = n]
    <3>1. h.reported \in Nat /\ h = [h EXCEPT !.reported = h.reported]
      BY <1>8a DEF History
    <3> QED
      BY <1>5, <1>8, <3>1
  <2> QED
    BY <1>8a, <2>1 DEF History
<1>12. TypeOK'
  BY <1>1, <1>2, <1>6, <1>9, <1>10, <1>11, NoLocalsType DEF TypeOK, Locations
<1>13. /\ armed' => ctx'.timer_type = ctx.timer_type
       /\ can_jump(ctx)' => can_jump(ctx)
       /\ armed' /\ can_jump(ctx) => can_jump(ctx)'
       /\ Taken(0) <=> 0 \in local.got
       /\ Taken(0)' => 0 \in local.got
  BY <1>2, <1>6, <1>9, <1>10 DEF armed, can_jump, Kept, Taken
<1>14. ArmedInv' /\ OnceInv' /\ SeenInv'
  BY <1>2, <1>9, <1>10, <1>13 DEF TimerInv, ArmedInv, OnceInv, SeenInv, armed, is_disarmed, Kept
<1>15. ForceInv'
  BY <1>2, <1>9, <1>10 DEF TimerInv, ForceInv, Kept
<1>16. CancelInv'
  BY <1>2, <1>9, <1>11, <1>13 DEF TimerInv, CancelInv, Kept
<1>17. CountInv'
  <2> SUFFICES ASSUME armed' PROVE CountInv'
    BY DEF CountInv
  <2>1. ctx'.it_interval = c.it_interval /\ hist.reported \in Nat
    BY <1>1, <1>8, <1>9 DEF Kept, History
  <2>2. c.timer_type # "UNSPECIFIED" =>
            IF c.it_interval = 0 THEN hist.reported + c.nr_expirations = 0
            ELSE c.it_value = hist.start + c.it_interval * (hist.reported + c.nr_expirations)
    BY <1>1, <1>4, <1>7, AgedCount DEF TimerInv
  <2>3. CASE ctx' = ctx /\ hist' = h
    BY <1>7, <1>8a, <2>3 DEF TimerInv, CountInv, armed
  <2>4. CASE ctx' = c /\ hist' = h
    BY <1>8a, <2>2, <2>4 DEF CountInv, armed
  <2>5. CASE /\ ctx' = [c EXCEPT !.nr_expirations = 0]
             /\ hist' = [h EXCEPT !.reported = h.reported + c.nr_expirations]
    <3>1. /\ hist'.reported + ctx'.nr_expirations = hist.reported + c.nr_expirations
          /\ ctx'.it_value = c.it_value /\ ctx'.timer_type = c.timer_type
      BY <1>8a, <1>8, <2>1, <2>5 DEF Ctx, History
    <3> QED
      BY <1>11, <2>1, <2>2, <3>1 DEF CountInv, armed
  <2>6. CASE ctx' = disarm(c)
    BY <1>8, <2>6, Disarmed DEF armed
  <2> QED
    BY <1>5, <2>3, <2>4, <2>5, <2>6
<1>18. ClockInv'
  <2>1. /\ ~can_jump(ctx) => under = 0
        /\ can_jump(ctx) => under = offset
    BY DEF ClockOffset, can_jump, under
  <2> QED
    BY <1>2, <1>3, <1>6, <1>10, <1>13, <2>1 DEF ClockInv, UpToDate
<1>19. KernelInv'
  BY <1>2, <1>10, <1>11, <1>13 DEF TimerInv, KernelInv, armed, due, can_jump
<1>20. StepInv'
  BY <1>2, <1>9, <1>10, <1>11, <1>13 DEF TimerInv, StepInv, UpToDate, Kept
<1> QED
  BY <1>12, <1>14, <1>15, <1>16, <1>17, <1>18, <1>19, <1>20 DEF TimerInv

\* The last step of read and of realtime_change.
LEMMA RearmStep ==
    ASSUME TimerInv, pc \in {"rd_rearm", "rc_rearm"}, NEW need \in BOOLEAN,
           rearm_kevent(ctx, local, need), Return, UNCHANGED <<mono, offset, unused, ctx>>
    PROVE  TimerInv'
<1>1. TypeOK /\ ctx \in Ctx /\ hist \in History /\ local \in Locals
  BY DEF TimerInv, TypeOK
<1>2. pc' = "idle" /\ local' = NoLocals
  BY DEF Return
<1>3. (armed <=> armed') /\ (can_jump(ctx) <=> can_jump(ctx)') /\ ~Taken(0)'
  BY <1>2 DEF armed, can_jump, Taken
<1>4. ~ctx.force_cancel /\ timer[1] = NotSet /\ 1 \notin fired
  BY DEF TimerInv, ForceInv
<1>5. SeenInv' /\ ClockInv' /\ ArmedInv'
  BY <1>2, <1>3 DEF TimerInv, SeenInv, ClockInv, ArmedInv, is_disarmed
<1>6. CASE ~is_disarmed(ctx)
  <2>1. register_event(ctx.it_value, local) /\ hist' = Registered(hist, ctx.it_value, local)
    BY <1>6 DEF rearm_kevent
  <2>2. /\ local.now = local.read_at + local.under /\ local.read_at <= mono
        /\ ~can_jump(ctx) => local.under = 0
        /\ can_jump(ctx) => UpToDate(local.under)
        /\ armed
    BY <1>6 DEF TimerInv, ClockInv, ArmedInv
  <2>3. ctx.it_value \in Nat
    BY <1>1 DEF Ctx
  <2>4. /\ timer' \in [Idents -> Nat] /\ timer'[1] = timer[1]
        /\ fired' \subseteq fired /\ 0 \notin fired' /\ (1 \in fired' <=> 1 \in fired)
        /\ timer'[0] # NotSet <=> ~(ctx.it_value - local.now >= TenYears)
        /\ timer'[0] # NotSet =>
               /\ timer'[0] >= ctx.it_value - local.under
               /\ timer'[0] <= (mono - local.read_at) +
                      IF ctx.it_value - local.under < mono THEN mono
                      ELSE ctx.it_value - local.under
    BY <1>1, <2>1, <2>2, <2>3, Registration
  <2>5. hist' \in History
    BY <1>1, <2>1, <2>2, RegistrationType
  <2>6. hist'.lag = mono - local.read_at /\ (hist'.far <=> ctx.it_value - local.now >= TenYears)
    BY <1>1, <2>1, RegistrationNoted
  <2>7. hist'.under = local.under
    BY <1>1, <2>1, RegistrationUnder
  <2>8. /\ hist'.start = hist.start /\ hist'.reported = hist.reported /\ hist'.base = hist.base
        /\ hist'.stepped = hist.stepped
    BY <1>1, <2>1, <2>3, RegistrationKept
  <2>9. TypeOK'
    BY <1>1, <1>2, <2>4, <2>5, NoLocalsType DEF TypeOK, Locations
  <2>10. OnceInv' /\ ForceInv' /\ CancelInv' /\ CountInv'
    BY <1>2, <1>3, <1>4, <2>4, <2>8 DEF TimerInv, OnceInv, ForceInv, CancelInv, CountInv
  <2>11. due' = ctx.it_value - local.under
    BY <2>7 DEF due
  <2>12. KernelInv'
    BY <1>2, <1>3, <2>2, <2>4, <2>6, <2>7, <2>11 DEF KernelInv
  <2>13. StepInv'
    BY <1>2, <1>3, <2>2, <2>7 DEF StepInv, UpToDate
  <2> QED
    BY <1>5, <2>9, <2>10, <2>12, <2>13 DEF TimerInv
<1>7. CASE is_disarmed(ctx)
  <2>1. ~armed /\ ~can_jump(ctx)
    BY <1>7 DEF TimerInv, ArmedInv, armed, can_jump
  <2>2. hist' = hist
    BY <1>7 DEF rearm_kevent
  <2>3. /\ timer' \in [Idents -> Nat] /\ timer'[1] = timer[1]
        /\ fired' \subseteq fired /\ (1 \in fired' <=> 1 \in fired)
        /\ timer'[0] # NotSet => timer'[0] = timer[0]
    BY <1>1, <1>7 DEF rearm_kevent, delete_event, kernel, TypeOK, Idents, NotSet
  <2>4. TypeOK'
    BY <1>1, <1>2, <2>2, <2>3, NoLocalsType DEF TypeOK, Locations
  <2>5. OnceInv' /\ ForceInv'
    BY <1>2, <1>3, <1>4, <2>3 DEF TimerInv, OnceInv, ForceInv
  <2>6. CancelInv' /\ CountInv' /\ KernelInv' /\ StepInv'
    BY <1>3, <2>1 DEF CancelInv, CountInv, KernelInv, StepInv
  <2> QED
    BY <1>5, <2>4, <2>5, <2>6 DEF TimerInv
<1> QED
  BY <1>6, <1>7

\* A read sets ident 0 by the clock it read.
LEMMA ReadRearmStep == TimerInv /\ ReadRearm => TimerInv'
<1> SUFFICES ASSUME TimerInv, ReadRearm PROVE TimerInv'
  OBVIOUS
<1> DEFINE need == 0 \notin local.got
<1>1. need \in BOOLEAN
  OBVIOUS
<1>2. /\ pc = "rd_rearm" /\ rearm_kevent(ctx, local, need) /\ Return
      /\ UNCHANGED <<mono, offset, unused, ctx>>
  BY DEF ReadRearm, clocks
<1> QED
  BY <1>1, <1>2, RearmStep

\* realtime_change sets ident 0 by the clock it read.
LEMMA RealtimeChangeRearmStep == TimerInv /\ RealtimeChangeRearm => TimerInv'
<1> SUFFICES ASSUME TimerInv, RealtimeChangeRearm PROVE TimerInv'
  OBVIOUS
<1>1. /\ pc = "rc_rearm" /\ rearm_kevent(ctx, local, TRUE) /\ Return
      /\ UNCHANGED <<mono, offset, unused, ctx>>
  BY DEF RealtimeChangeRearm, clocks
<1> QED
  BY <1>1, RearmStep

\* A step is noted together with a cancellation, or before rearming.
LEMMA RealtimeChangeStep == TimerInv /\ RealtimeChange => TimerInv'
<1> SUFFICES ASSUME TimerInv, RealtimeChange PROVE TimerInv'
  OBVIOUS
<1>1. TypeOK /\ ctx \in Ctx
  BY DEF TimerInv, TypeOK
<1>2. /\ UNCHANGED <<mono, offset, unused, local, hist>>
      /\ pc = "idle" /\ can_jump(ctx) /\ ctx.monotonic_offset # offset
      /\ pc' = IF ctx.is_cancel_on_set \/ fired # {} THEN "idle" ELSE "rc_clock"
  BY DEF RealtimeChange, clocks
<1> DEFINE f == ctx.force_cancel \/ ctx.is_cancel_on_set
<1>3. f \in BOOLEAN
  BY Zenon
<1>4. ctx' = [ctx EXCEPT !.monotonic_offset = offset, !.force_cancel = f]
  BY DEF RealtimeChange
<1>5. f <=> ctx.is_cancel_on_set
  BY <1>2 DEF TimerInv, ForceInv
<1> HIDE DEF f
<1>6. /\ ctx' \in Ctx /\ ctx'.monotonic_offset = offset /\ ctx'.force_cancel = f
      /\ ctx'.clockid = ctx.clockid /\ ctx'.timer_type = ctx.timer_type
      /\ ctx'.is_cancel_on_set = ctx.is_cancel_on_set
      /\ ctx'.it_value = ctx.it_value /\ ctx'.it_interval = ctx.it_interval
      /\ ctx'.nr_expirations = ctx.nr_expirations
  <2>1. offset \in Nat
    BY <1>1 DEF TypeOK
  <2> QED
    BY <1>1, <1>3, <1>4, <2>1 DEF Ctx
<1>7. /\ timer' \in [Idents -> Nat] /\ timer'[0] = timer[0]
      /\ fired' \subseteq fired /\ (0 \in fired' <=> 0 \in fired)
      /\ ctx.is_cancel_on_set => timer'[1] # NotSet
      /\ ~ctx.is_cancel_on_set => timer'[1] = timer[1] /\ fired' = fired
  BY <1>1 DEF RealtimeChange, kernel, TypeOK, Idents, NotSet
<1>8. TypeOK'
  BY <1>1, <1>2, <1>6, <1>7 DEF TypeOK, Locations
<1>9. (armed <=> armed') /\ (can_jump(ctx) <=> can_jump(ctx)') /\ due' = due
      /\ ~Taken(0) /\ ~Taken(0)' /\ armed
  BY <1>2, <1>6 DEF armed, can_jump, due, Taken
<1>10. ArmedInv' /\ OnceInv' /\ SeenInv'
  BY <1>2, <1>6, <1>7, <1>9 DEF TimerInv, ArmedInv, OnceInv, SeenInv, is_disarmed
<1>11. ForceInv'
  BY <1>2, <1>5, <1>6, <1>7, <1>9 DEF TimerInv, ForceInv
<1>12. CancelInv'
  BY <1>2, <1>5, <1>6, <1>9 DEF TimerInv, CancelInv
<1>13. CountInv' /\ ClockInv'
  BY <1>2, <1>6, <1>9 DEF TimerInv, CountInv, ClockInv
<1>14. KernelInv'
  BY <1>2, <1>6, <1>7, <1>9 DEF TimerInv, KernelInv
<1>15. StepInv'
  <2>1. ~ctx.is_cancel_on_set => 1 \notin fired
    BY <1>2, <1>5 DEF TimerInv, ForceInv
  <2>2. fired # {} => 0 \in fired \/ 1 \in fired
    BY <1>1 DEF TypeOK, Idents
  <2> QED
    BY <1>2, <1>5, <1>6, <1>7, <2>1, <2>2 DEF StepInv
<1> QED
  BY <1>8, <1>10, <1>11, <1>12, <1>13, <1>14, <1>15 DEF TimerInv

\* realtime_change reads the clock under the offset of that moment.
LEMMA RealtimeChangeClockStep == TimerInv /\ RealtimeChangeClock => TimerInv'
<1> SUFFICES ASSUME TimerInv, RealtimeChangeClock PROVE TimerInv'
  OBVIOUS
<1>1. TypeOK /\ local \in Locals
  BY DEF TimerInv, TypeOK
<1>2. /\ UNCHANGED <<mono, offset, unused, ctx, timer, fired, hist>>
      /\ pc = "rc_clock" /\ pc' = "rc_rearm"
  BY DEF RealtimeChangeClock, clocks, kernel
<1> DEFINE now == get_clocktime(ctx.clockid, ctx.timer_type)
<1>3. local' = [local EXCEPT !.now = now, !.read_at = mono, !.under = offset]
  BY DEF RealtimeChangeClock
<1>4. now \in Nat /\ mono \in Nat /\ offset \in Nat /\ now = mono + offset
  <2>1. can_jump(ctx)
    BY <1>2 DEF TimerInv, ArmedInv
  <2> QED
    BY <1>1, <2>1, ClockIsNat DEF TypeOK, ClockOffset, can_jump
<1> HIDE DEF now
<1>5. local' \in Locals /\ local'.now = now /\ local'.read_at = mono /\ local'.under = offset
  BY <1>1, <1>3, <1>4 DEF Locals
<1>6. TypeOK'
  BY <1>1, <1>2, <1>5 DEF TypeOK, Locations
<1>7. (armed <=> armed') /\ (can_jump(ctx) <=> can_jump(ctx)') /\ due' = due
      /\ ~Taken(0) /\ ~Taken(0)'
  BY <1>2 DEF armed, can_jump, due, Taken
<1>8. ArmedInv' /\ OnceInv' /\ SeenInv' /\ ForceInv' /\ CancelInv' /\ CountInv'
  BY <1>2, <1>7 DEF TimerInv, ArmedInv, OnceInv, SeenInv, ForceInv, CancelInv, CountInv,
                    is_disarmed
<1>9. ClockInv'
  BY <1>2, <1>4, <1>5 DEF ClockInv, UpToDate
<1>10. KernelInv' /\ StepInv'
  BY <1>2, <1>7 DEF TimerInv, KernelInv, StepInv
<1> QED
  BY <1>6, <1>8, <1>9, <1>10 DEF TimerInv

\* The inductive invariant of the timerfd.
THEOREM TimerInvariant == Spec => []TimerInv
<1>1. Init => TimerInv
  BY InitTimer
<1>2. TimerInv /\ [Next]_vars => TimerInv'
  <2> SUFFICES ASSUME TimerInv, [Next]_vars PROVE TimerInv'
    OBVIOUS
  <2>1. CASE Tick
    BY <2>1, TickStep
  <2>2. CASE Step
    BY <2>2, StepStep
  <2>3. CASE \E i \in Idents : Fire(i)
    BY <2>3, FireStep
  <2>4. CASE Gettime
    BY <2>4, GettimeStep
  <2>5. CASE \E old \in BOOLEAN : SettimeDisarm(old)
    BY <2>5, SettimeDisarmStep
  <2>6. CASE \E value \in Values, interval \in Intervals, a, c, old \in BOOLEAN :
               Settime(value, interval, a, c, old)
    BY <2>6, SettimeStep
  <2>7. CASE SettimeRegister
    BY <2>7, SettimeRegisterStep
  <2>8. CASE SettimeCheck
    BY <2>8, SettimeCheckStep
  <2>9. CASE Read
    BY <2>9, ReadStep
  <2>10. CASE ReadCheck
    BY <2>10, ReadCheckStep
  <2>11. CASE ReadClock
    BY <2>11, ReadClockStep
  <2>12. CASE ReadRearm
    BY <2>12, ReadRearmStep
  <2>13. CASE RealtimeChange
    BY <2>13, RealtimeChangeStep
  <2>14. CASE RealtimeChangeClock
    BY <2>14, RealtimeChangeClockStep
  <2>15. CASE RealtimeChangeRearm
    BY <2>15, RealtimeChangeRearmStep
  <2>16. CASE UNCHANGED vars
    BY <2>16 DEF vars, TimerInv, TypeOK, ArmedInv, OnceInv, ForceInv, CancelInv, CountInv, SeenInv,
                 ClockInv, KernelInv, StepInv, armed, is_disarmed, can_jump, Taken, UpToDate, due
  <2> QED
    BY <2>1, <2>2, <2>3, <2>4, <2>5, <2>6, <2>7, <2>8, <2>9, <2>10, <2>11, <2>12, <2>13, <2>14,
       <2>15, <2>16 DEF Next, Aborted
<1> QED
  BY <1>1, <1>2, PTL DEF Spec

\* Every variable of the timerfd keeps its type.
THEOREM TypeCorrect == Spec => []TypeOK
<1>1. TimerInv => TypeOK
  BY DEF TimerInv
<1> QED
  BY <1>1, TimerInvariant, PTL

\* update_to_current_time neither skips nor repeats an expiration, whatever the order of
\* reads, gettimes and steps of the clock.
THEOREM CountsExactly == Spec => []ExpirationsExact
<1>1. TimerInv => ExpirationsExact
  BY DEF TimerInv, CountInv, ExpirationsExact
<1> QED
  BY <1>1, TimerInvariant, PTL

\* Outside the two places that overlook a step, a step whose offset is noted has moved
\* the kernel timer.
THEOREM StepsCorrected == Spec => []StepCorrectedUnlessOverlooked
<1>1. TimerInv => StepCorrectedUnlessOverlooked
  BY DEF TimerInv, StepInv, StepCorrectedUnlessOverlooked, Taken, UpToDate
<1> QED
  BY <1>1, TimerInvariant, PTL

\* A TFD_TIMER_CANCEL_ON_SET timer tells of each step of the clock, and of nothing else.
THEOREM CancelsReported == Spec => []CancelNotLost
<1>1. TimerInv => CancelNotLost
  BY DEF TimerInv, CancelInv, ForceInv, CancelNotLost, is_stepped
<1> QED
  BY <1>1, TimerInvariant, PTL

-----------------------------------------------------------------------------
(* QuietInv. *)

\* A timer whose time has come has an expiration to report, unless the next one overflows.
LEMMA UpdateCounts ==
    ASSUME NEW c \in Ctx, NEW now \in Nat, ~Overflows(c, now)
    PROVE  \/ update_to_current_time(c, now) = c /\ (c.it_value = 0 \/ now < c.it_value)
           \/ update_to_current_time(c, now).nr_expirations # 0
<1> DEFINE d == update_to_current_time(c, now)
           n == Expirations(c, now)
           counted == [c EXCEPT !.nr_expirations = c.nr_expirations + 1]
           moved == [c EXCEPT !.nr_expirations = c.nr_expirations + n,
                              !.it_value = c.it_value + n * c.it_interval]
<1>1. CASE is_disarmed(c) \/ now < c.it_value
  BY <1>1 DEF update_to_current_time, is_disarmed
<1>2. CASE ~(is_disarmed(c) \/ now < c.it_value) /\ c.it_interval = 0
  <2>1. d = disarm(counted)
    BY <1>2 DEF update_to_current_time
  <2>2. counted \in Ctx /\ counted.nr_expirations # 0
    BY DEF Ctx
  <2> HIDE DEF counted, d
  <2>3. d.nr_expirations # 0
    BY <2>1, <2>2, Disarmed
  <2> QED
    BY <2>3 DEF d
<1>3. CASE ~(is_disarmed(c) \/ now < c.it_value) /\ c.it_interval # 0
  <2>1. d = moved
    BY <1>3 DEF update_to_current_time
  <2>2. /\ now - c.it_value \in Nat /\ c.it_interval \in Nat /\ c.nr_expirations \in Nat
    BY <1>3 DEF Ctx, is_disarmed
  <2>3. n \in Nat /\ n # 0
    BY <1>3, <2>2, Division DEF Expirations
  <2>4. moved.nr_expirations = c.nr_expirations + n
    BY DEF Ctx
  <2> HIDE DEF moved, d, n
  <2>5. d.nr_expirations # 0
    BY <2>1, <2>2, <2>3, <2>4
  <2> QED
    BY <2>5 DEF d
<1> QED
  BY <1>1, <1>2, <1>3

\* An event that a read took without an expiration is that of ident 0, of a timer that a
\* step can have moved.
LEMMA ReadClockQuiet ==
    ASSUME TimerInv, QuietInv, ReadClock
    PROVE  QuietInv'
<1> DEFINE now == get_clocktime(ctx.clockid, ctx.timer_type)
           c == update_to_current_time(ctx, now)
           early == ~local.is_cancelled /\ c.nr_expirations = 0
           under == ClockOffset(ctx.clockid, ctx.timer_type)
           set == [local EXCEPT !.now = now, !.read_at = mono, !.under = under]
           over == ~local.is_cancelled /\ Overflows(ctx, now)
           h == [hist EXCEPT !.overflowed = over]
<1>1. TypeOK /\ ctx \in Ctx /\ local \in Locals /\ hist \in History
  BY DEF TimerInv, TypeOK
<1>2. pc = "rd_clock" /\ armed /\ ctx.it_value # 0
  BY DEF ReadClock, TimerInv, ArmedInv, is_disarmed
<1>3. /\ now \in Nat /\ now = mono + under /\ mono \in Nat
      /\ ~can_jump(ctx) => under = 0
  <2>1. now \in Nat /\ now = mono + under /\ mono \in Nat
    BY <1>1, ClockIsNat DEF TypeOK
  <2>2. ~can_jump(ctx) => under = 0
    BY DEF ClockOffset, can_jump
  <2> QED
    BY <2>1, <2>2
<1>4. Aged(ctx, c)
  BY <1>1, <1>3, UpdateResult
<1>5. (c = ctx /\ now < ctx.it_value) \/ c.nr_expirations # 0 \/ Overflows(ctx, now)
  BY <1>1, <1>2, <1>3, UpdateCounts
<1>6. \/ /\ local.is_cancelled
         /\ ctx' = ctx /\ pc' = "rd_rearm" /\ local' = set /\ hist' = h
      \/ /\ early /\ local.got = {}
         /\ ctx' = c /\ pc' = "idle" /\ local' = NoLocals /\ hist' = h
      \/ /\ early /\ local.got # {} /\ ~c.is_cancel_on_set /\ c.it_interval = 0
         /\ ctx' = disarm(c) /\ local' = set
         /\ hist' = [h EXCEPT !.reported = h.reported + 1]
         /\ pc' = (IF 0 \in local.got /\ can_jump(c) THEN "rd_rearm" ELSE "abort")
      \/ /\ early /\ local.got # {} /\ ctx' = c /\ local' = set /\ hist' = h
         /\ pc' = (IF 0 \in local.got /\ can_jump(c) THEN "rd_rearm" ELSE "abort")
      \/ /\ ~local.is_cancelled /\ c.nr_expirations # 0
         /\ ctx' = [c EXCEPT !.nr_expirations = 0] /\ pc' = "rd_rearm" /\ local' = set
         /\ hist' = [h EXCEPT !.reported = h.reported + c.nr_expirations]
  BY <1>1, ReadClockCases
<1> HIDE DEF c, now, under, set
<1>7. early /\ ~over /\ local.got # {} => 0 \in local.got /\ can_jump(c)
  <2> SUFFICES ASSUME early, ~over, local.got # {} PROVE 0 \in local.got /\ can_jump(c)
    OBVIOUS
  <2>1. c = ctx /\ now < ctx.it_value /\ ctx.nr_expirations = 0
    BY <1>5
  <2>2. 0 \in local.got
    BY <1>1, <1>2 DEF TimerInv, ForceInv, Locals, Idents
  <2>3. mono >= ctx.it_value - hist.under
    BY <1>2, <2>1, <2>2 DEF TimerInv, KernelInv, Taken, due
  <2>4. ~can_jump(ctx) => hist.under = 0
    BY <1>2 DEF TimerInv, KernelInv
  <2>5. ctx.it_value \in Nat
    BY <1>1 DEF Ctx
  <2>6. can_jump(ctx)
    BY <1>3, <2>1, <2>3, <2>4, <2>5
  <2> QED
    BY <2>1, <2>2, <2>6
<1>8. ~over => pc' # "abort" /\ (pc' = "idle" => ctx' = ctx)
  BY <1>5, <1>6, <1>7
<1>9. hist'.overflowed = over
  <2>1. h \in History /\ h.overflowed = over
    <3>1. over \in BOOLEAN
      OBVIOUS
    <3> HIDE DEF over
    <3> QED
      BY <1>1, <3>1 DEF History
  <2> HIDE DEF h, over
  <2>2. CASE hist' = h
    BY <2>1, <2>2
  <2>3. CASE \E n : hist' = [h EXCEPT !.reported = n]
    BY <2>1, <2>3 DEF History
  <2> QED
    BY <1>6, <2>2, <2>3
<1>10. pc' \in {"idle", "rd_rearm", "abort"}
  BY <1>6
<1> HIDE DEF over
<1> QED
  BY <1>2, <1>8, <1>9, <1>10 DEF QuietInv, ReadAssertions, DisarmedInv, armed

\* A read that disarmed the timer has taken its event, or deletes it.
LEMMA ReadRearmQuiet ==
    ASSUME TimerInv, QuietInv, ReadRearm
    PROVE  QuietInv'
<1>1. TypeOK
  BY DEF TimerInv
<1>2. /\ pc = "rd_rearm" /\ pc' = "idle" /\ ctx' = ctx /\ (armed <=> armed')
      /\ rearm_kevent(ctx, local, 0 \notin local.got)
  BY DEF ReadRearm, Return, armed
<1>3. CASE armed
  BY <1>2, <1>3 DEF QuietInv, ReadAssertions, DisarmedInv
<1>4. CASE ~armed
  <2>1. is_disarmed(ctx)
    BY <1>4 DEF TimerInv, ArmedInv
  <2>2. ~ctx.force_cancel
    BY <1>2 DEF TimerInv, ForceInv
  <2>3. timer'[0] = NotSet /\ 0 \notin fired'
    <3>1. CASE 0 \in local.got
      <4>1. timer[0] = NotSet /\ 0 \notin fired
        BY <1>2, <3>1 DEF TimerInv, OnceInv, Taken
      <4> QED
        BY <1>2, <2>1, <3>1, <4>1 DEF rearm_kevent, kernel
    <3>2. CASE 0 \notin local.got
      BY <1>1, <1>2, <2>1, <3>2 DEF rearm_kevent, delete_event, TypeOK, Idents, NotSet
    <3> QED
      BY <3>1, <3>2
  <2> QED
    BY <1>2, <1>4, <2>2, <2>3 DEF QuietInv, ReadAssertions, DisarmedInv
<1> QED
  BY <1>3, <1>4

\* A settime that is refused leaves the timer, or has noted that it expired.
LEMMA SettimeQuiet ==
    ASSUME NEW value \in Values, NEW interval \in Intervals, NEW is_abstime \in BOOLEAN,
           NEW is_cancel_on_set \in BOOLEAN, NEW old \in BOOLEAN, TimerInv, TimerInv', QuietInv,
           Settime(value, interval, is_abstime, is_cancel_on_set, old)
    PROVE  QuietInv'
<1>1. TypeOK /\ ctx \in Ctx /\ hist \in History
  BY DEF TimerInv, TypeOK
<1>2. pc = "idle" /\ UNCHANGED <<timer, fired>> /\ ctx' = BroughtUpToDate(old)
  BY DEF Settime, kernel
<1>5. CASE pc' = "st_register"
  BY <1>5 DEF QuietInv, ReadAssertions, DisarmedInv
<1>6. CASE pc' = "idle"
  <2>1. hist' = [hist EXCEPT !.collected =
                     hist.collected \/ (ctx' # ctx /\ is_disarmed(ctx'))]
    BY <1>6 DEF Settime
  <2>2. /\ hist'.collected <=> hist.collected \/ (ctx' # ctx /\ is_disarmed(ctx'))
        /\ hist'.overflowed = hist.overflowed
    BY <1>1, <2>1 DEF History
  <2>3. ~armed' => is_disarmed(ctx')
    BY DEF TimerInv, ArmedInv, is_disarmed
  <2>4. ~armed' /\ ~hist'.collected => ctx' = ctx /\ ~hist.collected
    BY <2>2, <2>3
  <2> QED
    BY <1>2, <1>6, <2>2, <2>4 DEF QuietInv, ReadAssertions, DisarmedInv, armed
<1> QED
  BY <1>5, <1>6 DEF Settime

\* Every step keeps QuietInv.
LEMMA QuietStep == TimerInv /\ TimerInv' /\ QuietInv /\ [Next]_vars => QuietInv'
<1> SUFFICES ASSUME TimerInv, TimerInv', QuietInv, [Next]_vars PROVE QuietInv'
  OBVIOUS
<1> USE DEF QuietInv, ReadAssertions
<1>1. /\ TypeOK /\ TypeOK' /\ ctx \in Ctx /\ hist \in History /\ local \in Locals
      /\ ctx' \in Ctx /\ timer \in [Idents -> Nat]
  BY DEF TimerInv, TypeOK
<1>2. CASE Tick \/ Aborted \/ UNCHANGED vars
  BY <1>2 DEF Tick, Aborted, vars, DisarmedInv, armed
<1>3. CASE Step
  <2>1. hist'.collected = hist.collected /\ hist'.overflowed = hist.overflowed
    BY <1>1, <1>3 DEF Step, History
  <2> QED
    BY <1>3, <2>1 DEF Step, DisarmedInv, armed
<1>4. CASE \E i \in Idents : Fire(i)
  <2>1. PICK i \in Idents : Fire(i)
    BY <1>4
  <2>2. timer[0] = NotSet /\ 0 \notin fired => timer'[0] = NotSet /\ 0 \notin fired'
    BY <1>1, <2>1 DEF Fire, Idents
  <2> QED
    BY <2>1, <2>2 DEF Fire, DisarmedInv, armed
<1>5. CASE Gettime
  <2>2. hist' = [hist EXCEPT !.collected = is_disarmed(ctx')] /\ pc = "idle" /\ pc' = "idle"
    BY <1>5 DEF Gettime
  <2>3. hist'.collected <=> is_disarmed(ctx')
    BY <1>1, <2>2 DEF History
  <2>4. ~armed' => is_disarmed(ctx')
    BY DEF TimerInv, ArmedInv, is_disarmed
  <2> QED
    BY <2>2, <2>3, <2>4 DEF DisarmedInv
<1>6. CASE \E old \in BOOLEAN : SettimeDisarm(old)
  <2>1. PICK old \in BOOLEAN : SettimeDisarm(old)
    BY <1>6
  <2>2. pc' = "idle" /\ timer'[0] = NotSet /\ 0 \notin fired'
    BY <1>1, <2>1 DEF SettimeDisarm, Idents, NotSet
  <2> DEFINE b == BroughtUpToDate(old)
             e == [disarm(b) EXCEPT !.is_cancel_on_set = FALSE, !.nr_expirations = 0]
  <2>3. b \in Ctx
    BY <1>1, BroughtUpToDateAged DEF Aged
  <2>4. ctx' = Noted(e)
    BY <2>1 DEF SettimeDisarm
  <2> HIDE DEF b
  <2>5. e \in Ctx /\ e.timer_type = "UNSPECIFIED"
    <3>1. disarm(b) \in Ctx /\ disarm(b).timer_type = "UNSPECIFIED"
      BY <2>3, Disarmed
    <3> QED
      BY <3>1 DEF Ctx
  <2> HIDE DEF e
  <2>6. ~armed' /\ ctx'.force_cancel = FALSE
    BY <1>1, <2>4, <2>5, NotedResult DEF armed
  <2> QED
    BY <2>2, <2>6 DEF DisarmedInv
<1>7. CASE \E value \in Values, interval \in Intervals, a, c, old \in BOOLEAN :
               Settime(value, interval, a, c, old)
  BY <1>7, SettimeQuiet
<1>8. CASE SettimeRegister
  <2>1. pc = "st_register" /\ pc' = "st_check" /\ armed'
    BY <1>8 DEF SettimeRegister, TimerInv, ArmedInv
  <2> QED
    BY <2>1 DEF DisarmedInv
<1>9. CASE SettimeCheck \/ ReadCheck
  <2>1. armed /\ ctx' = Noted(ctx) /\ pc' \in {"idle", "rd_clock"}
    BY <1>9 DEF SettimeCheck, ReadCheck, Return, TimerInv, ArmedInv
  <2>2. ctx'.timer_type = ctx.timer_type
    BY <1>1, <2>1, NotedResult
  <2> QED
    BY <2>1, <2>2 DEF DisarmedInv, armed
<1>10. CASE Read
  BY <1>10 DEF Read, DisarmedInv, armed
<1>11. CASE ReadClock
  BY <1>11, ReadClockQuiet
<1>12. CASE ReadRearm
  BY <1>12, ReadRearmQuiet
<1>13. CASE RealtimeChange
  <2>1. ctx'.timer_type = ctx.timer_type
        /\ ctx.timer_type = "ABSOLUTE" /\ pc' \in {"idle", "rc_clock"}
    BY <1>1, <1>13 DEF RealtimeChange, Ctx, can_jump
  <2> QED
    BY <2>1 DEF DisarmedInv, armed
<1>14. CASE RealtimeChangeClock \/ RealtimeChangeRearm
  <2>1. ctx' = ctx /\ ctx.timer_type = "ABSOLUTE" /\ pc' \in {"idle", "rc_rearm"}
    BY <1>14 DEF RealtimeChangeClock, RealtimeChangeRearm, Return, TimerInv, ArmedInv, can_jump
  <2> QED
    BY <2>1 DEF DisarmedInv, armed
<1> QED
  BY <1>2, <1>3, <1>4, <1>5, <1>6, <1>7, <1>8, <1>9, <1>10, <1>11, <1>12, <1>13, <1>14 DEF Next

\* A timer that is not armed leaves nothing in the kqueue that a read would trip over,
\* unless gettime or an overflow disarmed it.
THEOREM QuietInvariant == Spec => [](TimerInv /\ QuietInv)
<1>1. Init => QuietInv
  BY DEF Init, QuietInv, ReadAssertions, DisarmedInv, armed, NotSet, Idents
<1> QED
  BY <1>1, QuietStep, TimerInvariant, PTL DEF Spec

\* No assert of timerfd_ctx_read fails, except on a timer that an overflow disarmed.
THEOREM NoAssertFails == Spec => []ReadAssertions
<1>1. QuietInv => ReadAssertions
  BY DEF QuietInv
<1> QED
  BY <1>1, QuietInvariant, PTL

\* The kernel timer of an armed timer is there and on time, and a timer that is not armed
\* leaves none behind, unless it was gettime that found it expired, or an overflow that
\* disarmed it.
THEOREM KernelTimers == Spec => []KernelTimerRight
<1>1. TimerInv /\ QuietInv => KernelTimerRight
  <2> SUFFICES ASSUME TimerInv, QuietInv, pc = "idle" PROVE KernelTimerRight
    BY DEF KernelTimerRight
  <2>1. armed /\ 0 \notin fired /\ ~hist.spent /\ ~hist.far =>
            /\ timer[0] # NotSet
            /\ ctx.nr_expirations = 0 => timer[0] >= ctx.it_value - hist.under
            /\ timer[0] <= hist.lag + IF ctx.it_value - hist.under < mono THEN mono
                                      ELSE ctx.it_value - hist.under
    BY DEF TimerInv, KernelInv, Taken, due
  <2>2. ~armed /\ ~hist.collected /\ ~hist.overflowed => fired = {} /\ timer = [i \in Idents |-> NotSet]
    <3> SUFFICES ASSUME ~armed, ~hist.collected, ~hist.overflowed
                 PROVE  fired = {} /\ timer = [i \in Idents |-> NotSet]
      OBVIOUS
    <3>1. timer[0] = NotSet /\ 0 \notin fired /\ ~ctx.force_cancel
      BY DEF QuietInv, DisarmedInv
    <3>2. timer[1] = NotSet /\ 1 \notin fired
      BY <3>1 DEF TimerInv, ForceInv
    <3> QED
      BY <3>1, <3>2 DEF TimerInv, TypeOK, Idents
  <2> QED
    BY <2>1, <2>2 DEF KernelTimerRight
<1> QED
  BY <1>1, QuietInvariant, PTL
=============================================================================
