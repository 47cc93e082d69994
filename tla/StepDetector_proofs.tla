------------------------ MODULE StepDetector_proofs ------------------------
(***************************************************************************)
(* Proofs about StepDetector for any timers, detector threads and bounds.  *)
(* The count is that of the timers that can jump, a call in progress       *)
(* counting as before it; and as a generation is left for good when the    *)
(* count drops to 0, no thread of an old one can become current again.     *)
(***************************************************************************)
EXTENDS StepDetector, FiniteSetTheorems, TLAPS

USE StepDetectorAssumption

Locals == [pc : {"none", "sleep", "check", "walk"}, generation : Nat,
           offset : Offsets, new_offset : Offsets, todo : SUBSET Timers]

\* The clock has moved as often as it was stepped.
ClockInv == clock = steps

CountInv == nr_fds = Cardinality(Counted)

\* No thread is of a generation to come.
GenerationInv == \A d \in Detectors :
    detector[d].pc # "none" => detector[d].generation <= generation

\* At most one thread is current, one is unless it failed, and none is when
\* there is nothing to detect.
LiveInv == /\ \A d, e \in Live : d = e
           /\ nr_fds > 0 => (best_effort <=> Live = {})
           /\ nr_fds = 0 => Live = {} /\ ~best_effort

StepInv == TypeOK /\ ClockInv /\ CountInv /\ GenerationInv /\ LiveInv

-----------------------------------------------------------------------------
\* There are finitely many timers that can jump.
LEMMA CountedFinite == IsFiniteSet(Counted) /\ Cardinality(Counted) \in Nat
BY FS_Subset, FS_CardinalityType DEF Counted

\* Nothing is counted and nobody runs.
LEMMA InitInv == Init => StepInv
<1> SUFFICES ASSUME Init PROVE StepInv
    OBVIOUS
<1>1. NoDetector \in Locals
    BY DEF NoDetector, Locals, Offsets
<1>2. TypeOK
  <2>1. detector \in [Detectors -> Locals]
      BY <1>1 DEF Init
  <2>2. is_abstime \in [Timers -> BOOLEAN] /\ was_abstime \in [Timers -> BOOLEAN] /\ best_effort \in BOOLEAN
      BY DEF Init
  <2>3. /\ timer_type \in [Timers -> {"UNSPECIFIED", "RELATIVE", "ABSOLUTE"}]
        /\ monotonic_offset \in [Timers -> Offsets] /\ pc \in [Timers -> {"idle", "update"}]
        /\ clock \in Offsets
      BY DEF Init, Offsets
  <2> QED
      BY <2>1, <2>2, <2>3 DEF Init, TypeOK, Locals
<1>3. Counted = {} /\ Live = {}
    BY DEF Init, Counted, Live, NoDetector
<1> QED
    BY <1>2, <1>3, FS_EmptySet DEF Init, StepInv, ClockInv, CountInv, GenerationInv, LiveInv, NoDetector

-----------------------------------------------------------------------------
(* The timers *)

\* A step that leaves the detectors, the generation and the count alone.
LEMMA DetectorsStay ==
    ASSUME StepInv, UNCHANGED <<nr_fds, generation, detector, best_effort>>
    PROVE  GenerationInv' /\ LiveInv'
BY DEF StepInv, GenerationInv, LiveInv, Live

\* timerfd_settime and close up to the update: the timer counts as before.
LEMMA StartCallInv ==
    ASSUME StepInv, NEW t \in Timers, StartCall(t),
           is_abstime' \in [Timers -> BOOLEAN], \A u \in Timers : u # t => is_abstime'[u] = is_abstime[u],
           timer_type' \in [Timers -> {"UNSPECIFIED", "RELATIVE", "ABSOLUTE"}],
           monotonic_offset' \in [Timers -> Offsets]
    PROVE  StepInv'
<1>1. /\ calls < MaxCalls /\ calls' = calls + 1 /\ pc[t] = "idle" /\ pc' = [pc EXCEPT ![t] = "update"]
      /\ was_abstime' = [was_abstime EXCEPT ![t] = is_abstime[t]]
      /\ overlooked' = overlooked \ {t}
      /\ UNCHANGED <<clock, nr_fds, generation, detector, best_effort, steps>>
    BY DEF StartCall
<1>2. TypeOK'
  <2>1. was_abstime' \in [Timers -> BOOLEAN]
      BY <1>1 DEF StepInv, TypeOK
  <2>2. pc' \in [Timers -> {"idle", "update"}] /\ calls' \in 0 .. MaxCalls
      BY <1>1 DEF StepInv, TypeOK
  <2> QED
      BY <1>1, <2>1, <2>2 DEF StepInv, TypeOK
<1>3. Counted' = Counted
  <2>1. pc'[t] = "update" /\ (was_abstime'[t] <=> is_abstime[t])
      BY <1>1 DEF StepInv, TypeOK
  <2>2. \A u \in Timers : u # t => pc'[u] = pc[u] /\ was_abstime'[u] = was_abstime[u]
      BY <1>1 DEF StepInv, TypeOK
  <2> QED
      BY <1>1, <2>1, <2>2 DEF Counted
<1> QED
    BY <1>1, <1>2, <1>3, DetectorsStay DEF StepInv, ClockInv, CountInv

\* Offsets that are noted are those of the clock.
LEMMA NotedType ==
    ASSUME TypeOK, NEW t \in Timers, NEW type PROVE Noted(t, type) \in [Timers -> Offsets]
BY DEF TypeOK, Noted

\* Arming or disarming a timer.
LEMMA SettimeInv ==
    ASSUME StepInv, NEW t \in Timers, NEW type \in {"UNSPECIFIED", "RELATIVE", "ABSOLUTE"}, Settime(t, type)
    PROVE  StepInv'
<1>1. is_abstime' \in [Timers -> BOOLEAN] /\ \A u \in Timers : u # t => is_abstime'[u] = is_abstime[u]
    BY DEF Settime, StepInv, TypeOK
<1>2. timer_type' \in [Timers -> {"UNSPECIFIED", "RELATIVE", "ABSOLUTE"}]
    BY DEF Settime, StepInv, TypeOK
<1>3. monotonic_offset' \in [Timers -> Offsets]
    BY NotedType DEF Settime, StepInv
<1> QED
    BY <1>1, <1>2, <1>3, StartCallInv DEF Settime

\* Closing a timer.
LEMMA CloseInv == ASSUME StepInv, NEW t \in Timers, Close(t) PROVE StepInv'
<1>1. is_abstime' \in [Timers -> BOOLEAN] /\ \A u \in Timers : u # t => is_abstime'[u] = is_abstime[u]
    BY DEF Close, StepInv, TypeOK
<1>2. timer_type' \in [Timers -> {"UNSPECIFIED", "RELATIVE", "ABSOLUTE"}]
    BY DEF Close, StepInv, TypeOK
<1>3. monotonic_offset' \in [Timers -> Offsets]
    BY DEF Close, StepInv, TypeOK, Offsets
<1> QED
    BY <1>1, <1>2, <1>3, StartCallInv DEF Close

\* The rest of a timerfd's life: its offset and its type, not its count.
LEMMA TimerInv == ASSUME StepInv, NEW t \in Timers, Expire(t) \/ Read(t) PROVE StepInv'
<1>1. UNCHANGED <<clock, nr_fds, generation, detector, is_abstime, pc, was_abstime, best_effort,
                  overlooked, calls, steps>>
    BY DEF Expire, Read, history, bounds
<1>2. timer_type' \in [Timers -> {"UNSPECIFIED", "RELATIVE", "ABSOLUTE"}]
    BY DEF Expire, Read, StepInv, TypeOK
<1>3. monotonic_offset' \in [Timers -> Offsets]
    BY NotedType DEF Expire, Read, StepInv, TypeOK
<1>4. TypeOK'
    BY <1>1, <1>2, <1>3 DEF StepInv, TypeOK
<1>5. Counted' = Counted
    BY <1>1 DEF Counted
<1> QED
    BY <1>1, <1>4, <1>5, DetectorsStay DEF StepInv, ClockInv, CountInv

-----------------------------------------------------------------------------
(* epoll_shim_ctx_update_realtime_change_monitoring *)

\* The end of the call, whatever became of the count.
LEMMA UpdatedPc ==
    ASSUME TypeOK, NEW t \in Timers, Updated(t)
    PROVE  /\ pc[t] = "update" /\ pc'[t] = "idle"
           /\ pc' \in [Timers -> {"idle", "update"}] /\ was_abstime' \in [Timers -> BOOLEAN]
           /\ \A u \in Timers : u # t => pc'[u] = pc[u] /\ was_abstime'[u] = was_abstime[u]
           /\ UNCHANGED <<clock, is_abstime, timer_type, monotonic_offset, calls, steps>>
<1>1. was_abstime' \in [Timers -> BOOLEAN]
    BY DEF TypeOK, Updated
<1> QED
    BY <1>1 DEF TypeOK, Updated, timer_vars, bounds

\* A notice that nothing changed.
LEMMA NoChangeInv == ASSUME StepInv, NEW t \in Timers, NoChange(t) PROVE StepInv'
<1>1. UNCHANGED <<nr_fds, generation, detector, best_effort, overlooked>> /\ is_abstime[t] = was_abstime[t]
    BY DEF NoChange, history
<1>2. TypeOK'
    BY <1>1, UpdatedPc DEF StepInv, TypeOK, NoChange
<1>3. Counted' = Counted
    BY <1>1, UpdatedPc DEF Counted, NoChange, StepInv
<1> QED
    BY <1>1, <1>2, <1>3, UpdatedPc, DetectorsStay DEF StepInv, ClockInv, CountInv, NoChange

\* One less: the assertion before the subtraction holds, and the last one's leaving
\* makes every detector thread one of an old generation.
LEMMA CountDownInv == ASSUME StepInv, NEW t \in Timers, CountDown(t) PROVE StepInv'
<1>1. /\ Updated(t) /\ was_abstime[t] /\ ~is_abstime[t] /\ nr_fds' = nr_fds - 1
      /\ generation' = IF nr_fds' = 0 THEN generation + 1 ELSE generation
      /\ UNCHANGED <<detector, overlooked>>
    BY DEF CountDown
<1>2. best_effort' \in BOOLEAN /\ (best_effort' <=> best_effort /\ nr_fds' # 0)
    BY Zenon DEF CountDown
<1>3. t \in Counted /\ Counted' = Counted \ {t}
    BY <1>1, UpdatedPc DEF Counted, StepInv
<1>4. nr_fds \in Nat \ {0} /\ nr_fds' \in Nat /\ nr_fds' = Cardinality(Counted')
  <2>1. Cardinality(Counted \ {t}) = Cardinality(Counted) - 1
      BY <1>3, CountedFinite, FS_RemoveElement
  <2>2. Cardinality(Counted) # 0
      BY <1>3, CountedFinite, FS_EmptySet
  <2>3. nr_fds = Cardinality(Counted)
      BY DEF StepInv, CountInv
  <2> QED
      BY <1>1, <1>3, <2>1, <2>2, <2>3, CountedFinite
<1>5. TypeOK'
    BY <1>1, <1>2, <1>4, UpdatedPc DEF StepInv, TypeOK
<1>6. GenerationInv'
    BY <1>1, <1>5 DEF StepInv, GenerationInv, TypeOK
<1>7. LiveInv'
  <2>1. CASE nr_fds' = 0
    <3>1. Live' = {}
        BY <1>1, <2>1 DEF StepInv, GenerationInv, TypeOK, Live
    <3> QED
        BY <1>2, <2>1, <3>1 DEF LiveInv
  <2>2. CASE nr_fds' # 0
    <3>1. Live' = Live
        BY <1>1, <2>2 DEF Live
    <3> QED
        BY <1>2, <1>4, <2>2, <3>1 DEF StepInv, LiveInv
  <2> QED
      BY <2>1, <2>2
<1> QED
    BY <1>1, <1>4, <1>5, <1>6, <1>7, UpdatedPc DEF StepInv, ClockInv, CountInv

\* One more: the first one starts a thread, which is then the current one.
LEMMA CountUpInv == ASSUME StepInv, NEW t \in Timers, CountUp(t) PROVE StepInv'
<1>1. /\ Updated(t) /\ is_abstime[t] /\ ~was_abstime[t] /\ nr_fds' = nr_fds + 1
      /\ UNCHANGED generation
    BY DEF CountUp
<1>2. t \notin Counted /\ Counted' = Counted \cup {t}
    BY <1>1, UpdatedPc DEF Counted, StepInv
<1>3. nr_fds \in Nat /\ nr_fds' \in Nat \ {0} /\ nr_fds' = Cardinality(Counted')
  <2>1. Cardinality(Counted \cup {t}) = Cardinality(Counted) + 1
      BY <1>2, CountedFinite, FS_AddElement
  <2>2. nr_fds = Cardinality(Counted)
      BY DEF StepInv, CountInv
  <2> QED
      BY <1>1, <1>2, <2>1, <2>2, CountedFinite
<1>4. ASSUME detector' \in [Detectors -> Locals], best_effort' \in BOOLEAN, overlooked' \subseteq Timers,
             GenerationInv', LiveInv'
      PROVE  StepInv'
    BY <1>1, <1>3, <1>4, UpdatedPc DEF StepInv, ClockInv, CountInv, TypeOK, Locals
<1>5. CASE nr_fds # 0
  <2>1. UNCHANGED <<detector, best_effort, overlooked>>
      BY <1>5 DEF CountUp, history
  <2>2. Live' = Live
      BY <1>1, <2>1 DEF Live
  <2>3. GenerationInv' /\ LiveInv'
      BY <1>1, <1>3, <1>5, <2>1, <2>2 DEF StepInv, GenerationInv, LiveInv
  <2> QED
      BY <1>4, <2>1, <2>3 DEF StepInv, TypeOK, Locals
<1>6. CASE nr_fds = 0
  <2>1. Start
      BY <1>6 DEF CountUp
  <2>2. Live = {} /\ ~best_effort
      BY <1>6 DEF StepInv, LiveInv
  <2>3. CASE UNCHANGED <<detector, overlooked>> /\ best_effort' = TRUE
    <3>1. Live' = {}
        BY <1>1, <2>2, <2>3 DEF Live
    <3>2. GenerationInv' /\ LiveInv'
        BY <1>1, <1>3, <2>3, <3>1 DEF StepInv, GenerationInv, LiveInv
    <3> QED
        BY <1>4, <2>3, <3>2 DEF StepInv, TypeOK, Locals
  <2>4. ASSUME NEW d \in Detectors, detector[d].pc = "none", UNCHANGED best_effort, overlooked' \subseteq Timers,
               detector' = [detector EXCEPT ![d] =
                   [NoDetector EXCEPT !.pc = "sleep", !.generation = generation, !.offset = clock]]
        PROVE  StepInv'
    <3>1. /\ detector' \in [Detectors -> Locals]
          /\ detector'[d].pc = "sleep" /\ detector'[d].generation = generation
          /\ \A e \in Detectors : e # d => detector'[e] = detector[e]
      <4> DEFINE new == [NoDetector EXCEPT !.pc = "sleep", !.generation = generation, !.offset = clock]
      <4>1. NoDetector \in Locals
          BY DEF NoDetector, Locals, Offsets
      <4>2. generation \in Nat /\ clock \in Offsets /\ detector \in [Detectors -> Locals]
          BY DEF StepInv, TypeOK, Locals
      <4>3. new \in Locals /\ new.pc = "sleep" /\ new.generation = generation
          BY <4>1, <4>2 DEF Locals
      <4>4. detector' = [detector EXCEPT ![d] = new]
          BY <2>4
      <4> HIDE DEF new
      <4> QED
          BY <4>2, <4>3, <4>4
    <3>2. Live' = {d}
        BY <1>1, <2>2, <3>1 DEF Live
    <3>3. GenerationInv'
        BY <1>1, <3>1 DEF StepInv, TypeOK, GenerationInv
    <3>4. LiveInv'
        BY <1>3, <2>2, <2>4, <3>2 DEF LiveInv
    <3> QED
        BY <1>4, <2>4, <3>1, <3>3, <3>4 DEF StepInv, TypeOK
  <2> QED
      BY <2>1, <2>3, <2>4 DEF Start
<1> QED
    BY <1>5, <1>6

-----------------------------------------------------------------------------
(* realtime_step_detection *)

\* The counting does not see what a detector thread does.
LEMMA CountStays ==
    ASSUME StepInv, UNCHANGED <<clock, steps, nr_fds, is_abstime, pc, was_abstime>>
    PROVE  ClockInv' /\ CountInv'
<1>1. Counted' = Counted
    BY DEF Counted
<1> QED
    BY <1>1 DEF StepInv, ClockInv, CountInv

\* A look at the clock: the thread stays of its generation, or ends being of an old one.
LEMMA LookInv == ASSUME StepInv, NEW d \in Detectors, Look(d) PROVE StepInv'
<1>1. UNCHANGED <<clock, nr_fds, generation, is_abstime, timer_type, pc, was_abstime, best_effort,
                  overlooked, calls, steps>>
    BY DEF Look, Wake, Check, Notify, WalkEnd, RealtimeChange, timer_vars, history, bounds
<1>2. detector[d] \in Locals
    BY DEF StepInv, TypeOK, Locals
<1>3. PICK new \in Locals : /\ Set(d, new) /\ detector[d].pc # "none"
                            /\ \/ new.pc # "none" /\ new.generation = detector[d].generation
                               \/ new.pc = "none" /\ detector[d].generation # generation
  <2>1. CASE Wake(d)
    <3>1. [detector[d] EXCEPT !.pc = "check", !.new_offset = clock] \in Locals
        BY <1>2 DEF Locals, StepInv, TypeOK
    <3> QED
        BY <1>2, <2>1, <3>1 DEF Wake, Locals
  <2>2. CASE Check(d)
    <3> DEFINE self == detector[d]
               quit == NoDetector
               sleep == [self EXCEPT !.pc = "sleep"]
               walk == [self EXCEPT !.pc = "walk", !.offset = self.new_offset, !.todo = Timers]
    <3>1. /\ quit \in Locals /\ quit.pc = "none"
          /\ sleep \in Locals /\ sleep.pc = "sleep" /\ sleep.generation = self.generation
          /\ walk \in Locals /\ walk.pc = "walk" /\ walk.generation = self.generation
      <4>1. quit \in Locals /\ quit.pc = "none"
          BY DEF NoDetector, Locals, Offsets
      <4>2. sleep \in Locals /\ sleep.pc = "sleep" /\ sleep.generation = self.generation
          BY <1>2 DEF Locals
      <4>3. walk \in Locals /\ walk.pc = "walk" /\ walk.generation = self.generation
          BY <1>2 DEF Locals
      <4> QED
          BY <4>1, <4>2, <4>3
    <3>2. /\ self.pc = "check"
          /\ \/ Set(d, quit) /\ self.generation # generation
             \/ Set(d, sleep) \/ Set(d, walk)
        BY <2>2 DEF Check
    <3> HIDE DEF quit, sleep, walk, self
    <3>3. self.pc # "none"
        BY <3>2
    <3> QED
        BY <3>1, <3>2, <3>3 DEF self
  <2>3. CASE Notify(d)
      BY <1>2, <2>3 DEF Notify, Walking, Locals
  <2>4. CASE WalkEnd(d)
      BY <1>2, <2>4 DEF WalkEnd, Walking, Locals
  <2> QED
      BY <2>1, <2>2, <2>3, <2>4 DEF Look
<1>4. /\ detector' \in [Detectors -> Locals] /\ detector'[d] = new
      /\ \A e \in Detectors : e # d => detector'[e] = detector[e]
    BY <1>3 DEF Set, StepInv, TypeOK, Locals
<1>5. monotonic_offset' \in [Timers -> Offsets]
  <2>1. CASE Notify(d)
    <3>1. PICK t \in detector[d].todo : RealtimeChange(t)
        BY <2>1 DEF Notify
    <3>2. t \in Timers
        BY <1>2 DEF Locals
    <3> QED
        BY <3>1, <3>2, NotedType DEF RealtimeChange, StepInv
  <2>2. CASE ~Notify(d)
      BY <2>2 DEF Look, Wake, Check, WalkEnd, timer_vars, StepInv, TypeOK
  <2> QED
      BY <2>1, <2>2
<1>6. TypeOK'
    BY <1>1, <1>4, <1>5 DEF StepInv, TypeOK, Locals
<1>7. Live' = Live
    BY <1>1, <1>3, <1>4 DEF Live
<1>8. GenerationInv' /\ LiveInv'
    BY <1>1, <1>3, <1>4, <1>7 DEF StepInv, GenerationInv, LiveInv
<1> QED
    BY <1>1, <1>6, <1>8, CountStays DEF StepInv

\* A thread that cannot read the offset ends; the current one leaves no other.
LEMMA WakeFailsInv == ASSUME StepInv, NEW d \in Detectors, WakeFails(d) PROVE StepInv'
<1>1. /\ UNCHANGED <<clock, nr_fds, generation, is_abstime, timer_type, monotonic_offset, pc, was_abstime,
                     overlooked, calls, steps>>
      /\ detector[d].pc = "sleep" /\ detector' = [detector EXCEPT ![d] = NoDetector]
    BY DEF WakeFails, Set, timer_vars, bounds
<1>2. best_effort' \in BOOLEAN /\ (best_effort' <=> best_effort \/ detector[d].generation = generation)
    BY Zenon DEF WakeFails
<1>3. /\ detector' \in [Detectors -> Locals] /\ detector'[d].pc = "none"
      /\ \A e \in Detectors : e # d => detector'[e] = detector[e]
    BY <1>1 DEF StepInv, TypeOK, Locals, NoDetector, Offsets
<1>4. TypeOK'
    BY <1>1, <1>2, <1>3 DEF StepInv, TypeOK, Locals
<1>5. GenerationInv'
    BY <1>1, <1>3 DEF StepInv, GenerationInv
<1>6. Live' = Live \ {d} /\ (d \in Live <=> detector[d].generation = generation)
    BY <1>1, <1>3 DEF Live
<1>7. LiveInv'
    BY <1>1, <1>2, <1>6 DEF StepInv, LiveInv, TypeOK
<1> QED
    BY <1>1, <1>4, <1>5, <1>7, CountStays DEF StepInv

\* The clock is stepped.
LEMMA StepClockInv == ASSUME StepInv, StepClock PROVE StepInv'
<1>1. /\ steps < MaxSteps /\ steps' = steps + 1 /\ clock' = clock + 1 /\ overlooked' = {}
      /\ UNCHANGED <<nr_fds, generation, detector, is_abstime, timer_type, monotonic_offset, pc,
                     was_abstime, best_effort, calls>>
    BY DEF StepClock, timer_vars
<1>2. TypeOK' /\ ClockInv'
    BY <1>1 DEF StepInv, TypeOK, ClockInv, Offsets
<1>3. Counted' = Counted
    BY <1>1 DEF Counted
<1> QED
    BY <1>1, <1>2, <1>3, DetectorsStay DEF StepInv, CountInv

-----------------------------------------------------------------------------
\* Every step preserves the invariant.
LEMMA NextInv == StepInv /\ [Next]_vars => StepInv'
<1> SUFFICES ASSUME StepInv, [Next]_vars PROVE StepInv'
    OBVIOUS
<1>1. CASE UNCHANGED vars
    BY <1>1 DEF vars, StepInv, TypeOK, ClockInv, CountInv, Counted, GenerationInv, LiveInv, Live
<1> QED
    BY <1>1, SettimeInv, CloseInv, NoChangeInv, CountDownInv, CountUpInv, TimerInv, LookInv,
       WakeFailsInv, StepClockInv DEF Next, Update

\* The inductive invariant holds for every set of timers and of detector threads.
THEOREM StepInvariant == Spec => []StepInv
BY InitInv, NextInv, PTL DEF Spec

\* nr_fds_for_realtime_step_detector is the number of the timers that can jump, through
\* every order of settime, expiry and close: the subtraction never wraps.
THEOREM CountsExactly == Spec => []CountExact
<1>1. StepInv => CountExact
    BY DEF StepInv, CountInv, CountExact
<1> QED
    BY <1>1, StepInvariant, PTL

\* However late the threads of old generations look, one thread detects steps while
\* there are timers to tell, unless it could not start or gave up, and none otherwise.
THEOREM DetectsOnce == Spec => []OneDetector
<1>1. StepInv => OneDetector
  <2> SUFFICES ASSUME StepInv PROVE OneDetector
      OBVIOUS
  <2>1. CASE Live = {}
      BY <2>1, FS_EmptySet DEF StepInv, LiveInv, OneDetector, TypeOK
  <2>2. ASSUME NEW d \in Live PROVE OneDetector
    <3>1. Live = {d}
        BY DEF StepInv, LiveInv
    <3>2. Cardinality(Live) = 1
        BY <3>1, FS_Singleton
    <3> QED
        BY <3>1, <3>2 DEF StepInv, LiveInv, OneDetector
  <2> QED
      BY <2>1, <2>2
<1> QED
    BY <1>1, StepInvariant, PTL

-----------------------------------------------------------------------------
(* Steps that have still to be told.  No detector knows an offset that the   *)
(* clock has yet to take, so that a step is one for every detector; and a    *)
(* detector that takes over a new offset has all timers to visit.            *)

OffsetsPast == \A d \in Detectors : detector[d].offset <= clock /\ detector[d].new_offset <= clock

AbsoluteCounts == \A t \in Timers : timer_type[t] = "ABSOLUTE" => is_abstime[t]

Missed(t) == timer_type[t] = "ABSOLUTE" /\ monotonic_offset[t] # clock /\ t \notin overlooked

EveryoneTold == \A t \in Timers, d \in Live : Missed(t) => WillTell(d, t)

SeenInv == StepInv /\ OffsetsPast /\ AbsoluteCounts /\ EveryoneTold

\* Nobody is armed and nobody runs.
LEMMA InitSeen == Init => SeenInv
<1> SUFFICES ASSUME Init PROVE SeenInv
    OBVIOUS
<1>1. OffsetsPast /\ AbsoluteCounts /\ Live = {}
    BY DEF Init, OffsetsPast, AbsoluteCounts, Live, NoDetector
<1> QED
    BY <1>1, InitInv DEF SeenInv, EveryoneTold

\* Nobody misses a step by a call: what becomes absolute has just noted the offset.
LEMMA CallSeen ==
    ASSUME SeenInv, NEW t \in Timers, NEW type \in {"UNSPECIFIED", "RELATIVE", "ABSOLUTE"},
           Settime(t, type) \/ Close(t)
    PROVE  OffsetsPast' /\ AbsoluteCounts' /\ EveryoneTold'
<1>1. UNCHANGED <<clock, generation, detector>> /\ overlooked' = overlooked \ {t}
    BY DEF Settime, Close, StartCall
<1>2. /\ timer_type'[t] = "ABSOLUTE" => is_abstime'[t] /\ monotonic_offset'[t] = clock
      /\ \A u \in Timers : u # t => /\ timer_type'[u] = timer_type[u] /\ is_abstime'[u] = is_abstime[u]
                                    /\ monotonic_offset'[u] = monotonic_offset[u]
  <2>1. CASE Settime(t, type)
      BY <2>1 DEF Settime, Noted, SeenInv, StepInv, TypeOK
  <2>2. CASE Close(t)
      BY <2>2 DEF Close, SeenInv, StepInv, TypeOK
  <2> QED
      BY <2>1, <2>2
<1>3. \A u \in Timers : Missed(u)' => Missed(u)
    BY <1>1, <1>2 DEF Missed
<1>4. \A d \in Detectors, u \in Timers : WillTell(d, u)' <=> WillTell(d, u)
    BY <1>1 DEF WillTell, Walking
<1> QED
    BY <1>1, <1>2, <1>3, <1>4 DEF SeenInv, OffsetsPast, AbsoluteCounts, EveryoneTold, Live

\* An expiry and a read only take timers out of those to be told.
LEMMA TimerSeen ==
    ASSUME SeenInv, NEW t \in Timers, Expire(t) \/ Read(t)
    PROVE  OffsetsPast' /\ AbsoluteCounts' /\ EveryoneTold'
<1>1. UNCHANGED <<clock, generation, detector, is_abstime, overlooked>>
    BY DEF Expire, Read, history
<1>2. \A u \in Timers : /\ timer_type'[u] = "ABSOLUTE" => timer_type[u] = "ABSOLUTE"
                        /\ \/ monotonic_offset'[u] = monotonic_offset[u]
                           \/ monotonic_offset'[u] = clock
    BY DEF Expire, Read, Noted, SeenInv, StepInv, TypeOK
<1>3. \A u \in Timers : Missed(u)' => Missed(u)
    BY <1>1, <1>2 DEF Missed
<1>4. \A d \in Detectors, u \in Timers : WillTell(d, u)' <=> WillTell(d, u)
    BY <1>1 DEF WillTell, Walking
<1> QED
    BY <1>1, <1>2, <1>3, <1>4 DEF SeenInv, OffsetsPast, AbsoluteCounts, EveryoneTold, Live

\* The count: a detector that starts overlooks what it cannot know of, and the
\* last timer's leaving retires every detector.
LEMMA UpdateSeen ==
    ASSUME SeenInv, NEW t \in Timers, Update(t)
    PROVE  OffsetsPast' /\ AbsoluteCounts' /\ EveryoneTold'
<1>1. UNCHANGED <<clock, is_abstime, timer_type, monotonic_offset>>
    BY UpdatedPc DEF Update, NoChange, CountDown, CountUp, SeenInv, StepInv
<1>2. AbsoluteCounts'
    BY <1>1 DEF SeenInv, AbsoluteCounts
<1>3. ASSUME UNCHANGED <<detector, overlooked>>, Live' \subseteq Live PROVE OffsetsPast' /\ EveryoneTold'
    BY <1>1, <1>3 DEF SeenInv, OffsetsPast, EveryoneTold, Missed, WillTell, Walking, Live
<1>4. CASE NoChange(t)
  <2>1. UNCHANGED <<detector, overlooked, generation>>
      BY <1>4 DEF NoChange, history
  <2> QED
      BY <1>2, <1>3, <2>1 DEF Live
<1>5. CASE CountDown(t)
  <2>1. UNCHANGED <<detector, overlooked>> /\ generation' \in {generation, generation + 1}
      BY <1>5 DEF CountDown
  <2>2. Live' \subseteq Live
      BY <2>1 DEF SeenInv, StepInv, GenerationInv, TypeOK, Live
  <2> QED
      BY <1>2, <1>3, <2>1, <2>2
<1>6. CASE CountUp(t)
  <2>1. UNCHANGED generation
      BY <1>6 DEF CountUp
  <2>2. CASE UNCHANGED <<detector, overlooked>>
      BY <1>2, <1>3, <2>1, <2>2 DEF Live
  <2>3. ASSUME NEW d \in Detectors,
               detector' = [detector EXCEPT ![d] =
                   [NoDetector EXCEPT !.pc = "sleep", !.generation = generation, !.offset = clock]],
               overlooked' = {u \in Timers : timer_type[u] = "ABSOLUTE" /\ monotonic_offset[u] # clock}
        PROVE  OffsetsPast' /\ EveryoneTold'
    <3>1. \A u \in Timers : ~Missed(u)'
        BY <1>1, <2>3 DEF Missed
    <3>2. \A e \in Detectors :
             \/ detector'[e] = detector[e]
             \/ detector'[e].offset = clock /\ detector'[e].new_offset = 0
        BY <2>3 DEF NoDetector, SeenInv, StepInv, TypeOK
    <3>3. 0 <= clock /\ clock <= clock
        BY DEF SeenInv, StepInv, TypeOK, Offsets
    <3> QED
        BY <1>1, <3>1, <3>2, <3>3 DEF SeenInv, OffsetsPast, EveryoneTold
  <2> QED
      BY <1>2, <1>6, <2>2, <2>3 DEF CountUp, Start, history
<1> QED
    BY <1>4, <1>5, <1>6 DEF Update

\* A detector's look: it forgets no timer that it has to tell.
LEMMA LookSeen ==
    ASSUME SeenInv, NEW d \in Detectors, Look(d) \/ WakeFails(d)
    PROVE  OffsetsPast' /\ AbsoluteCounts' /\ EveryoneTold'
<1>1. UNCHANGED <<clock, generation, is_abstime, timer_type, overlooked>>
    BY DEF Look, Wake, Check, Notify, WalkEnd, WakeFails, RealtimeChange, timer_vars, history
<1>2. detector \in [Detectors -> Locals] /\ detector[d] \in Locals /\ clock \in Nat
    BY DEF SeenInv, StepInv, TypeOK, Locals, Offsets
<1>3. AbsoluteCounts'
    BY <1>1 DEF SeenInv, AbsoluteCounts
<1>4. \A e \in Detectors : e # d => detector'[e] = detector[e]
    BY <1>2 DEF Look, Wake, Check, Notify, WalkEnd, WakeFails, Set
<1>5. \A u \in Timers : Missed(u)' => Missed(u)
  <2>1. CASE UNCHANGED monotonic_offset
      BY <1>1, <2>1 DEF Missed
  <2>2. CASE Notify(d)
    <3>1. PICK t \in detector[d].todo : RealtimeChange(t)
        BY <2>2 DEF Notify
    <3>2. \A u \in Timers : monotonic_offset'[u] \in {monotonic_offset[u], clock}
        BY <3>1 DEF RealtimeChange, Noted, SeenInv, StepInv, TypeOK
    <3> QED
        BY <1>1, <3>2 DEF Missed
  <2> QED
      BY <2>1, <2>2 DEF Look, Wake, Check, WalkEnd, WakeFails, timer_vars
<1>6. ASSUME detector'[d].offset <= clock, detector'[d].new_offset <= clock,
             d \in Live' => d \in Live,
             \A u \in Timers : d \in Live /\ d \in Live' /\ Missed(u)' /\ WillTell(d, u) => WillTell(d, u)'
      PROVE  OffsetsPast' /\ EveryoneTold'
  <2>1. OffsetsPast'
      BY <1>1, <1>4, <1>6 DEF SeenInv, OffsetsPast
  <2>2. ASSUME NEW u \in Timers, NEW e \in Live', Missed(u)' PROVE WillTell(e, u)'
    <3>1. CASE e = d
        BY <1>5, <1>6, <2>2, <3>1 DEF SeenInv, EveryoneTold
    <3>2. CASE e # d
      <4>1. e \in Detectors /\ e \in Live /\ detector'[e] = detector[e]
          BY <1>1, <1>4, <3>2 DEF Live
      <4> QED
          BY <1>1, <1>5, <2>2, <4>1 DEF SeenInv, EveryoneTold, WillTell, Walking
    <3> QED
        BY <3>1, <3>2
  <2> QED
      BY <2>1, <2>2 DEF EveryoneTold
<1>7. detector[d].offset <= clock /\ detector[d].new_offset <= clock
    BY DEF SeenInv, OffsetsPast
<1>8. CASE Wake(d)
  <2>1. detector'[d] = [detector[d] EXCEPT !.pc = "check", !.new_offset = clock] /\ detector[d].pc = "sleep"
      BY <1>2, <1>8 DEF Wake, Set
  <2>2. /\ detector'[d].offset = detector[d].offset /\ detector'[d].new_offset = clock
        /\ detector'[d].generation = detector[d].generation
      BY <1>2, <2>1 DEF Locals
  <2>3. d \in Live' => d \in Live
      BY <1>1, <2>1, <2>2 DEF Live
  <2>4. \A u \in Timers : WillTell(d, u) => WillTell(d, u)'
      BY <1>1, <2>1, <2>2 DEF WillTell, Walking
  <2>5. detector'[d].offset <= clock /\ detector'[d].new_offset <= clock
      BY <1>2, <1>7, <2>2
  <2> QED
      BY <1>3, <1>6, <2>3, <2>4, <2>5
<1>9. CASE Check(d)
  <2> DEFINE self == detector[d]
  <2>1. CASE self.generation # generation
    <3>1. detector'[d] = NoDetector
        BY <1>2, <1>9, <2>1 DEF Check, Set
    <3>2. detector'[d].pc = "none" /\ detector'[d].offset = 0 /\ detector'[d].new_offset = 0
        BY <3>1 DEF NoDetector
    <3> QED
        BY <1>2, <1>3, <1>6, <3>2 DEF Live
  <2>2. CASE self.generation = generation /\ self.new_offset = self.offset
    <3>1. detector'[d] = [self EXCEPT !.pc = "sleep"] /\ self.pc = "check"
        BY <1>2, <1>9, <2>2 DEF Check, Set
    <3>2. /\ detector'[d].offset = self.offset /\ detector'[d].new_offset = self.new_offset
          /\ detector'[d].generation = self.generation
        BY <1>2, <3>1 DEF Locals
    <3> QED
        BY <1>1, <1>3, <1>6, <1>7, <3>1, <3>2 DEF WillTell, Walking, Live
  <2>3. CASE self.generation = generation /\ self.new_offset # self.offset
    <3>1. /\ detector'[d] = [self EXCEPT !.pc = "walk", !.offset = self.new_offset, !.todo = Timers]
          /\ self.pc = "check"
        BY <1>2, <1>9, <2>3 DEF Check, Set
    <3>2. /\ detector'[d].pc = "walk" /\ detector'[d].todo = Timers
          /\ detector'[d].offset = self.new_offset /\ detector'[d].new_offset = self.new_offset
        BY <1>2, <3>1 DEF Locals
    <3>3. d \in Live
        BY <2>3, <3>1 DEF Live
    <3> QED
        BY <1>3, <1>6, <1>7, <3>2, <3>3 DEF WillTell, Walking
  <2> QED
      BY <2>1, <2>2, <2>3
<1>10. CASE Notify(d)
  <2>1. PICK t \in detector[d].todo :
            RealtimeChange(t) /\ detector'[d] = [detector[d] EXCEPT !.todo = @ \ {t}]
      BY <1>2, <1>10 DEF Notify, Set
  <2>2. /\ detector'[d].offset = detector[d].offset /\ detector'[d].new_offset = detector[d].new_offset
        /\ detector'[d].pc = detector[d].pc /\ detector'[d].generation = detector[d].generation
        /\ detector'[d].todo = detector[d].todo \ {t} /\ t \in Timers
      BY <1>2, <2>1 DEF Locals
  <2>3. ~Missed(t)'
      BY <1>1, <2>1, <2>2 DEF RealtimeChange, Noted, Missed, SeenInv, StepInv, TypeOK
  <2> QED
      BY <1>1, <1>3, <1>6, <1>7, <2>2, <2>3 DEF WillTell, Walking, Live
<1>11. CASE WalkEnd(d)
  <2>1. detector'[d] = [detector[d] EXCEPT !.pc = "sleep"] /\ detector[d].todo = {} /\ Walking(d)
      BY <1>2, <1>11 DEF WalkEnd, Set
  <2>2. /\ detector'[d].offset = detector[d].offset /\ detector'[d].new_offset = detector[d].new_offset
        /\ detector'[d].generation = detector[d].generation
      BY <1>2, <2>1 DEF Locals
  <2> QED
      BY <1>1, <1>3, <1>6, <1>7, <2>1, <2>2 DEF WillTell, Walking, Live
<1>12. CASE WakeFails(d)
  <2>1. detector'[d] = NoDetector
      BY <1>2, <1>12 DEF WakeFails, Set
  <2>2. detector'[d].pc = "none" /\ detector'[d].offset = 0 /\ detector'[d].new_offset = 0
      BY <2>1 DEF NoDetector
  <2> QED
      BY <1>2, <1>3, <1>6, <2>2 DEF Live
<1> QED
    BY <1>8, <1>9, <1>10, <1>11, <1>12 DEF Look

\* A step of the clock is one that every detector has yet to find.
LEMMA StepClockSeen ==
    ASSUME SeenInv, StepClock PROVE OffsetsPast' /\ AbsoluteCounts' /\ EveryoneTold'
<1>1. clock' = clock + 1 /\ UNCHANGED <<detector, is_abstime, timer_type>>
    BY DEF StepClock, timer_vars
<1>2. clock \in Nat /\ \A d \in Detectors : detector[d].offset \in Nat /\ detector[d].new_offset \in Nat
    BY DEF SeenInv, StepInv, TypeOK, Offsets
<1>3. OffsetsPast' /\ \A d \in Detectors : detector'[d].offset # clock'
    BY <1>1, <1>2 DEF SeenInv, OffsetsPast
<1> QED
    BY <1>1, <1>3 DEF SeenInv, AbsoluteCounts, EveryoneTold, WillTell, Live

\* Every step preserves the invariant.
LEMMA NextSeen == SeenInv /\ [Next]_vars => SeenInv'
<1> SUFFICES ASSUME SeenInv, [Next]_vars PROVE SeenInv'
    OBVIOUS
<1>1. StepInv'
    BY NextInv DEF SeenInv
<1>2. CASE UNCHANGED vars
  <2>1. OffsetsPast' /\ AbsoluteCounts' /\ EveryoneTold'
      BY <1>2 DEF vars, SeenInv, OffsetsPast, AbsoluteCounts, EveryoneTold, Missed, WillTell, Walking, Live
  <2> QED
      BY <1>1, <2>1 DEF SeenInv
<1> QED
    BY <1>1, <1>2, CallSeen, TimerSeen, UpdateSeen, LookSeen, StepClockSeen DEF Next, SeenInv

\* Every step of the clock that a running detector could know of is on its way to every
\* absolute timer: the walk over the table and a settime cannot miss each other.
THEOREM NoStepLost == Spec => []StepSeen
<1>1. SeenInv => StepSeen
  <2> SUFFICES ASSUME SeenInv, NEW t \in Timers, pc[t] = "idle", timer_type[t] = "ABSOLUTE",
                      monotonic_offset[t] # clock, ~best_effort, t \notin overlooked
               PROVE  \E d \in Live : WillTell(d, t)
      BY DEF StepSeen
  <2>1. t \in Counted
      BY DEF SeenInv, AbsoluteCounts, Counted
  <2>2. nr_fds > 0
      BY <2>1, CountedFinite, FS_EmptySet DEF SeenInv, StepInv, CountInv
  <2>3. PICK d \in Live : TRUE
      BY <2>2 DEF SeenInv, StepInv, LiveInv
  <2> QED
      BY <2>3 DEF SeenInv, EveryoneTold, Missed
<1>2. Spec => []SeenInv
    BY InitSeen, NextSeen, PTL DEF Spec
<1> QED
    BY <1>1, <1>2, PTL
=============================================================================
