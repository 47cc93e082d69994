---------------------------- MODULE StepDetector ----------------------------
(***************************************************************************)
(* The threads that watch CLOCK_REALTIME for timerfds: the counting and    *)
(* the detector thread of src/src/epoll_shim_ctx.c and its callers in      *)
(* src/src/timerfd.c.  timerfd_settime and close count the absolute        *)
(* realtime timers; the first one starts a detector thread, and when the   *)
(* last one goes the generation changes, which ends the thread at its next *)
(* look.  A detector compares the offset between the clocks once a second  *)
(* and tells all timerfds when it has changed.                             *)
(*                                                                         *)
(* What runs under step_detector_mutex is one step.  A timer's arithmetic  *)
(* is not modelled, only its type and the offset it was set under.         *)
(***************************************************************************)
EXTENDS Naturals, FiniteSets

CONSTANTS Timers,           \* timerfds created with CLOCK_REALTIME
          Detectors,        \* threads that pthread_create can give
          MaxCalls,         \* bound: calls to settime and close
          MaxSteps          \* bound: steps of the clock

ASSUME StepDetectorAssumption ==
    /\ IsFiniteSet(Timers)
    /\ MaxCalls \in Nat /\ MaxSteps \in Nat

VARIABLES clock,        \* the offset as sysctl reports it
          nr_fds,       \* nr_fds_for_realtime_step_detector
          generation,   \* realtime_step_detector_generation
          detector,     \* the detector threads: pc and local variables
          is_abstime, timer_type, monotonic_offset,   \* of each timerfd
          pc,           \* "idle", or "update" inside settime or close
          was_abstime,  \* old_can_jump of a settime or close in progress
          best_effort,  \* history: this generation's thread could not start or gave up
          overlooked,   \* history: timers whose step came before their detector's first look
          calls, steps

timer_vars == <<is_abstime, timer_type, monotonic_offset>>
bounds == <<calls, steps>>
history == <<best_effort, overlooked>>
vars == <<clock, nr_fds, generation, detector, is_abstime, timer_type, monotonic_offset,
          pc, was_abstime, best_effort, overlooked, calls, steps>>

\* todo: the timerfds a walk over the table has still to visit.
NoDetector == [pc |-> "none", generation |-> 0, offset |-> 0, new_offset |-> 0, todo |-> {}]

Offsets == 0 .. MaxSteps

Init == /\ clock = 0
        /\ nr_fds = 0
        /\ generation = 0
        /\ detector = [d \in Detectors |-> NoDetector]
        /\ is_abstime = [t \in Timers |-> FALSE]
        /\ timer_type = [t \in Timers |-> "UNSPECIFIED"]
        /\ monotonic_offset = [t \in Timers |-> 0]
        /\ pc = [t \in Timers |-> "idle"]
        /\ was_abstime = [t \in Timers |-> FALSE]
        /\ best_effort = FALSE /\ overlooked = {}
        /\ calls = 0 /\ steps = 0

-----------------------------------------------------------------------------
(* timerfd_settime and close, up to the call that updates the count.  From   *)
(* here on the caller holds the timer's mutex, or its last reference.        *)

StartCall(t) == /\ calls < MaxCalls
                /\ calls' = calls + 1
                /\ pc[t] = "idle"
                /\ pc' = [pc EXCEPT ![t] = "update"]
                /\ was_abstime' = [was_abstime EXCEPT ![t] = is_abstime[t]]
                /\ overlooked' = overlooked \ {t}
                /\ UNCHANGED <<clock, nr_fds, generation, detector, best_effort, steps>>

\* The offset after timerfd_ctx_check_for_cancel or _realtime_change: only timers
\* that can jump note it (timerfd_ctx_can_jump).
Noted(t, type) == IF type = "ABSOLUTE" THEN [monotonic_offset EXCEPT ![t] = clock]
                  ELSE monotonic_offset

\* A new time is set; an absolute timer notes the offset (check_for_cancel).
Settime(t, type) ==
    /\ StartCall(t)
    /\ timer_type' = [timer_type EXCEPT ![t] = type]
    /\ is_abstime' = [is_abstime EXCEPT ![t] = (type = "ABSOLUTE")]
    /\ monotonic_offset' = Noted(t, type)

Walking(d) == detector[d].pc = "walk"

\* The last unref of a closed timerfd.  close has taken it out of the table under the
\* write lock: a walk may go on, but not to this timer.  The number is then used for
\* a new timerfd.
Close(t) ==
    /\ StartCall(t)
    /\ \A d \in Detectors : Walking(d) => t \notin detector[d].todo
    /\ timer_type' = [timer_type EXCEPT ![t] = "UNSPECIFIED"]
    /\ is_abstime' = [is_abstime EXCEPT ![t] = FALSE]
    /\ monotonic_offset' = [monotonic_offset EXCEPT ![t] = 0]

-----------------------------------------------------------------------------
(* epoll_shim_ctx_update_realtime_change_monitoring *)

Updated(t) == /\ pc[t] = "update"
              /\ pc' = [pc EXCEPT ![t] = "idle"]
              /\ was_abstime' = [was_abstime EXCEPT ![t] = FALSE]
              /\ UNCHANGED <<clock, timer_vars, bounds>>

NoChange(t) == /\ Updated(t)
               /\ is_abstime[t] = was_abstime[t]
               /\ UNCHANGED <<nr_fds, generation, detector, history>>

\* Mutant: the last timer's leaving does not start a new generation.
CountDownOnly(t) == /\ Updated(t)
                    /\ was_abstime[t] /\ ~is_abstime[t]
                    /\ nr_fds' = nr_fds - 1
                    /\ UNCHANGED <<generation, detector, history>>

\* change < 0
CountDown(t) ==
    /\ Updated(t)
    /\ was_abstime[t] /\ ~is_abstime[t]
    /\ nr_fds' = nr_fds - 1
    /\ generation' = IF nr_fds' = 0 THEN generation + 1 ELSE generation
    /\ best_effort' = (best_effort /\ nr_fds' # 0)
    /\ UNCHANGED <<detector, overlooked>>

\* epoll_shim_ctx_start_realtime_step_detection; sysctl, malloc or pthread_create
\* can fail, which the caller ignores.  The detector begins with the offset as it is
\* now: a step since a timer noted its own is not one for it.
Start == \/ /\ \E d \in Detectors :
                 /\ detector[d].pc = "none"
                 /\ detector' = [detector EXCEPT ![d] =
                        [NoDetector EXCEPT !.pc = "sleep", !.generation = generation, !.offset = clock]]
            /\ overlooked' = {t \in Timers : timer_type[t] = "ABSOLUTE" /\ monotonic_offset[t] # clock}
            /\ UNCHANGED best_effort
         \/ /\ UNCHANGED <<detector, overlooked>>
            /\ best_effort' = TRUE

\* Mutant: an absolute timer that is set again counts again.
CountUpAlways(t) ==
    /\ Updated(t)
    /\ is_abstime[t]
    /\ nr_fds' = nr_fds + 1
    /\ IF nr_fds = 0 THEN Start ELSE UNCHANGED <<detector, history>>
    /\ UNCHANGED generation

\* change > 0
CountUp(t) ==
    /\ Updated(t)
    /\ is_abstime[t] /\ ~was_abstime[t]
    /\ nr_fds' = nr_fds + 1
    /\ IF nr_fds = 0 THEN Start ELSE UNCHANGED <<detector, history>>
    /\ UNCHANGED generation

-----------------------------------------------------------------------------
(* realtime_step_detection *)

Set(d, new) == detector' = [detector EXCEPT ![d] = new]

\* The nanosleep ends and the offset is read.
Wake(d) ==
    /\ detector[d].pc = "sleep"
    /\ Set(d, [detector[d] EXCEPT !.pc = "check", !.new_offset = clock])
    /\ UNCHANGED <<clock, nr_fds, generation, timer_vars, pc, was_abstime, history, bounds>>

\* The offset cannot be read: the thread ends.
WakeFails(d) ==
    /\ detector[d].pc = "sleep"
    /\ Set(d, NoDetector)
    /\ best_effort' = (best_effort \/ detector[d].generation = generation)
    /\ UNCHANGED <<clock, nr_fds, generation, timer_vars, pc, was_abstime, overlooked, bounds>>

\* Mutant: the generation is not looked at.
CheckAnyGeneration(d) ==
    /\ detector[d].pc = "check"
    /\ Set(d, IF detector[d].new_offset = detector[d].offset
              THEN [detector[d] EXCEPT !.pc = "sleep"]
              ELSE [detector[d] EXCEPT !.pc = "walk", !.offset = detector[d].new_offset, !.todo = Timers])
    /\ UNCHANGED <<clock, nr_fds, generation, timer_vars, pc, was_abstime, history, bounds>>

\* Mutant: a changed offset is noted and nobody told.
CheckNoWalk(d) ==
    /\ detector[d].pc = "check"
    /\ Set(d, IF detector[d].generation # generation THEN NoDetector
              ELSE [detector[d] EXCEPT !.pc = "sleep", !.offset = detector[d].new_offset])
    /\ UNCHANGED <<clock, nr_fds, generation, timer_vars, pc, was_abstime, history, bounds>>

\* The generation, under the mutex, and then the comparison.
Check(d) ==
    LET self == detector[d]
    IN  /\ self.pc = "check"
        /\ Set(d, IF self.generation # generation THEN NoDetector
                  ELSE IF self.new_offset = self.offset THEN [self EXCEPT !.pc = "sleep"]
                  ELSE [self EXCEPT !.pc = "walk", !.offset = self.new_offset, !.todo = Timers])
        /\ UNCHANGED <<clock, nr_fds, generation, timer_vars, pc, was_abstime, history, bounds>>

\* timerfd_ctx_realtime_change, under the timer's mutex.
RealtimeChange(t) ==
    /\ pc[t] = "idle"
    /\ monotonic_offset' = Noted(t, timer_type[t])
    /\ UNCHANGED <<is_abstime, timer_type>>

Notify(d) ==
    /\ Walking(d)
    /\ \E t \in detector[d].todo :
         /\ RealtimeChange(t)
         /\ Set(d, [detector[d] EXCEPT !.todo = @ \ {t}])
    /\ UNCHANGED <<clock, nr_fds, generation, pc, was_abstime, history, bounds>>

WalkEnd(d) ==
    /\ Walking(d)
    /\ detector[d].todo = {}
    /\ Set(d, [detector[d] EXCEPT !.pc = "sleep"])
    /\ UNCHANGED <<clock, nr_fds, generation, timer_vars, pc, was_abstime, history, bounds>>

-----------------------------------------------------------------------------
(* The rest of the program *)

\* gettime, or settime for the old time, finds that a one-shot timer has expired
\* (timerfd_ctx_update_to_current_time disarms it); is_abstime stays.
Expire(t) ==
    /\ pc[t] = "idle"
    /\ timer_type[t] # "UNSPECIFIED"
    /\ timer_type' = [timer_type EXCEPT ![t] = "UNSPECIFIED"]
    /\ UNCHANGED <<clock, nr_fds, generation, detector, is_abstime, monotonic_offset, pc,
                   was_abstime, history, bounds>>

\* timerfd_ctx_read notes the offset too (check_for_cancel), and then may disarm.
Read(t) ==
    /\ pc[t] = "idle"
    /\ timer_type[t] # "UNSPECIFIED"
    /\ monotonic_offset' = Noted(t, timer_type[t])
    /\ timer_type' \in {timer_type, [timer_type EXCEPT ![t] = "UNSPECIFIED"]}
    /\ UNCHANGED <<clock, nr_fds, generation, detector, is_abstime, pc, was_abstime,
                   history, bounds>>

\* clock_settime(CLOCK_REALTIME).  The offset has a resolution of microseconds:
\* every step leads to one that was not there before.
StepClock ==
    /\ steps < MaxSteps
    /\ steps' = steps + 1
    /\ clock' = clock + 1
    /\ overlooked' = {}
    /\ UNCHANGED <<nr_fds, generation, detector, timer_vars, pc, was_abstime, best_effort, calls>>

Update(t) == NoChange(t) \/ CountDown(t) \/ CountUp(t)

Look(d) == Wake(d) \/ Check(d) \/ Notify(d) \/ WalkEnd(d)

Next == \/ \E t \in Timers : \/ \E type \in {"UNSPECIFIED", "RELATIVE", "ABSOLUTE"} : Settime(t, type)
                             \/ Close(t) \/ Update(t) \/ Expire(t) \/ Read(t)
        \/ \E d \in Detectors : Look(d) \/ WakeFails(d)
        \/ StepClock

\* Calls that have begun return, and the detector threads keep running.
Fairness == /\ \A t \in Timers : WF_vars(Update(t))
            /\ \A d \in Detectors : WF_vars(Look(d))

Spec == Init /\ [][Next]_vars

FairSpec == Spec /\ Fairness

-----------------------------------------------------------------------------
\* The types of the variables; the count of realtime timers never drops below 0.
TypeOK == /\ clock \in Offsets
          /\ nr_fds \in Nat
          /\ generation \in Nat
          /\ detector \in [Detectors -> [pc : {"none", "sleep", "check", "walk"}, generation : Nat,
                                         offset : Offsets, new_offset : Offsets,
                                         todo : SUBSET Timers]]
          /\ is_abstime \in [Timers -> BOOLEAN]
          /\ timer_type \in [Timers -> {"UNSPECIFIED", "RELATIVE", "ABSOLUTE"}]
          /\ monotonic_offset \in [Timers -> Offsets]
          /\ pc \in [Timers -> {"idle", "update"}]
          /\ was_abstime \in [Timers -> BOOLEAN]
          /\ best_effort \in BOOLEAN /\ overlooked \subseteq Timers
          /\ calls \in 0 .. MaxCalls
          /\ steps \in 0 .. MaxSteps

Counted == {t \in Timers : IF pc[t] = "update" THEN was_abstime[t] ELSE is_abstime[t]}

Live == {d \in Detectors : detector[d].pc # "none" /\ detector[d].generation = generation}

\* The count is that of the realtime timers that the clock can make jump, also
\* for timers that are set again, disarmed, expired or closed: the subtraction
\* that epoll_shim_ctx_update_realtime_change_monitoring asserts does not wrap.
CountExact == TypeOK /\ nr_fds = Cardinality(Counted)

\* While there are such timers exactly one detector thread of the current
\* generation runs, unless it could not be started or gave up; without timers
\* every thread that still runs belongs to an old generation and will end.
OneDetector == /\ nr_fds > 0 => Cardinality(Live) = IF best_effort THEN 0 ELSE 1
               /\ nr_fds = 0 => Live = {}

\* The detector d has still to tell timer t: it has yet to find the step, or to visit t.
WillTell(d, t) == detector[d].offset # clock \/ (Walking(d) /\ t \in detector[d].todo)

\* No step is lost between a detector and its timers, however settimes, reads, walks
\* and further steps of the clock overlap: while an absolute timer has not seen the
\* last step, the detector of the current generation is still on its way to it.
StepSeen == \A t \in Timers :
    /\ pc[t] = "idle" /\ timer_type[t] = "ABSOLUTE" /\ monotonic_offset[t] # clock
    /\ ~best_effort /\ t \notin overlooked
    => \E d \in Live : WillTell(d, t)

\* A thread of an old generation does not run on for ever.
OldDetectorsEnd == \A d \in Detectors :
    detector[d].pc # "none" /\ d \notin Live ~> detector[d].pc = "none" \/ d \in Live

\* A step of the clock reaches every absolute timer, unless the detector fails, or the
\* step came between a settime's look at the offset and that of the detector it starts.
StepNoticed == \A t \in Timers :
    LET stale == pc[t] = "idle" /\ timer_type[t] = "ABSOLUTE" /\ monotonic_offset[t] # clock
    IN  stale ~> ~stale \/ best_effort \/ t \in overlooked
=============================================================================
