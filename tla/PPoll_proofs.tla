---------------------------- MODULE PPoll_proofs ----------------------------
(***************************************************************************)
(* Proofs about PPoll for any signals and any number of descriptors.  The  *)
(* argument follows a signal that the caller blocks and sigmask lets       *)
(* through: until the mask is set its handler cannot run, so it stays      *)
(* pending where sigpending finds it, or arrives where a filter notices    *)
(* it; from then on every handler that runs has woken the kqueue, and a    *)
(* kqueue that is awake has had a handler run, or another thread take the  *)
(* signal.                                                                 *)
(***************************************************************************)
EXTENDS PPoll, FiniteSetTheorems, TLAPS

USE PPollAssumption

Locations == {"idle", "walk", "watch", "kqueue", "sigpending", "set_mask", "poll", "restore",
              "check", "decide"}

Timeouts == {"zero", "positive", "huge", "infinite"}

TypeOK == /\ handled \subseteq Signals /\ mask \subseteq Signals
          /\ state \in [Fds -> {"no", "ready", "stale"}]
          /\ passed \in BOOLEAN /\ taken \in BOOLEAN
          /\ pc \in Locations
          /\ args \in [timeout : Timeouts, sigmask : (SUBSET Signals) \cup {NULL}, mask : SUBSET Signals]
          /\ timeout \in Timeouts
          /\ i \in Fds
          /\ kq \in {"closed", "idle", "active"}
          /\ polled \in [ec : {"0", "EINTR"}, kq : BOOLEAN]
          /\ revents \subseteq Fds
          /\ n \in Nat
          /\ ran \subseteq handled

\* The caller's mask holds outside of compat_ppoll's poll.
MaskInv == mask = IF pc \in {"poll", "restore"} /\ args.sigmask # NULL THEN args.sigmask
                  ELSE args.mask

\* What Watched was when the call looked at the mask.
ToWatch == IF timeout = "zero" \/ args.sigmask = NULL THEN {}
           ELSE (args.mask \ args.sigmask) \cap handled

\* The kqueue exists between its creation and the restoring of the mask.
KqueueInv ==
    IF pc \in {"sigpending", "set_mask", "poll", "restore"} THEN knotes = ToWatch
    ELSE kq = "closed" /\ knotes = {}

\* The signals that were let through have woken the kqueue ...
MissedInv ==
    /\ pc \in {"kqueue", "sigpending", "set_mask"} => ran \cap args.mask = {}
    /\ pc = "set_mask" /\ pending \cap knotes # {} => kq = "active"
    /\ pc = "poll" /\ ran \cap knotes # {} => kq = "active"

\* ... and nothing else has.
WokenInv ==
    /\ pc \in {"sigpending", "set_mask"} /\ kq = "active" => pending \cap knotes # {} \/ taken
    /\ pc \in {"poll", "restore"} /\ kq = "active" => ran # {} \/ taken
    /\ pc = "restore" /\ polled.kq => kq = "active"
    /\ pc = "restore" /\ polled.ec = "EINTR" => ran # {} \/ taken

\* The deadline of the call has passed, or it did not want to wait.
Over == passed \/ args.timeout = "zero"

\* The counts are those of the fds, the kqueue of the emulation apart, and none
\* is 0 too early.
AnswerInv ==
    /\ timeout = "zero" => Over
    /\ pc = "restore" /\ polled.ec = "0" => /\ n = Cardinality(revents) + IF polled.kq THEN 1 ELSE 0
                                            /\ n = 0 => Over
    /\ pc \in {"check", "decide"} => n = Cardinality(revents)
    /\ pc # "idle" => result = "0"
    /\ pc = "idle" /\ result = "EINTR" => ran # {} \/ taken
    /\ pc = "idle" /\ result = "0" => n = Cardinality(revents) /\ (n = 0 => Over)

PPollInv == TypeOK /\ MaskInv /\ KqueueInv /\ MissedInv /\ WokenInv /\ AnswerInv

-----------------------------------------------------------------------------
\* There are finitely many descriptors, and so of those with revents.
LEMMA FdsFinite ==
    /\ IsFiniteSet(Fds)
    /\ \A S \in SUBSET Fds : IsFiniteSet(S) /\ Cardinality(S) \in Nat
<1>1. IsFiniteSet(Fds)
    BY FS_Interval DEF Fds
<1> QED
    BY <1>1, FS_Subset, FS_CardinalityType

\* No call, no kqueue, nothing arrived.
LEMMA InitInv == Init => PPollInv
<1> SUFFICES ASSUME Init PROVE PPollInv
    OBVIOUS
<1>1. TypeOK
  <2>1. args \in [timeout : Timeouts, sigmask : (SUBSET Signals) \cup {NULL}, mask : SUBSET Signals]
      BY DEF Init, Timeouts
  <2>2. polled \in [ec : {"0", "EINTR"}, kq : BOOLEAN]
      BY DEF Init, NotPolled
  <2>3. state \in [Fds -> {"no", "ready", "stale"}] /\ i \in Fds
      BY DEF Init, Fds
  <2> QED
      BY <2>1, <2>2, <2>3 DEF Init, TypeOK, Locations, Timeouts
<1>2. MaskInv /\ KqueueInv /\ MissedInv /\ WokenInv
    BY DEF Init, MaskInv, KqueueInv, MissedInv, WokenInv
<1>3. AnswerInv
    BY FS_EmptySet DEF Init, AnswerInv, Over
<1> QED
    BY <1>1, <1>2, <1>3 DEF PPollInv

-----------------------------------------------------------------------------
(* The world *)

\* A signal arrives: a blocked one becomes pending; the handler of another runs,
\* and wakes the kqueue if it is one of those that were looked out for.
LEMMA ArriveInv == ASSUME PPollInv, NEW s \in Signals, Arrive(s) PROVE PPollInv'
<1>1. /\ UNCHANGED <<handled, mask, state, passed, knotes, taken, args, timeout, i, revents, n, result>>
      /\ kq' = IF s \in knotes THEN "active" ELSE kq
    BY DEF Arrive, Noticed, call
<1>2. \/ s \in mask /\ pending' = pending \cup {s} /\ UNCHANGED <<ran, pc, polled>>
      \/ /\ s \notin mask /\ ran' = ran \cup ({s} \cap handled) /\ pending' = pending
         /\ \/ UNCHANGED <<pc, polled>>
            \/ pc = "poll" /\ s \in handled /\ pc' = "restore" /\ polled' = [ec |-> "EINTR", kq |-> FALSE]
    BY DEF Arrive, NotPolled
<1>3. TypeOK'
  <2>1. polled' \in [ec : {"0", "EINTR"}, kq : BOOLEAN]
    <3>1. [ec |-> "EINTR", kq |-> FALSE] \in [ec : {"0", "EINTR"}, kq : BOOLEAN]
        OBVIOUS
    <3>2. polled \in [ec : {"0", "EINTR"}, kq : BOOLEAN]
        BY DEF PPollInv, TypeOK
    <3> QED
        BY <1>2, <3>1, <3>2, Zenon
  <2>2. pc' \in Locations /\ kq' \in {"closed", "idle", "active"} /\ ran' \subseteq handled
      BY <1>1, <1>2 DEF PPollInv, TypeOK, Locations
  <2> QED
      BY <1>1, <2>1, <2>2 DEF PPollInv, TypeOK
<1>4. MaskInv'
    BY <1>1, <1>2 DEF PPollInv, MaskInv
<1>5. KqueueInv'
    BY <1>1, <1>2 DEF PPollInv, KqueueInv, ToWatch
<1>6. MissedInv'
    BY <1>1, <1>2 DEF PPollInv, MissedInv, MaskInv, KqueueInv, ToWatch, TypeOK
<1>7. WokenInv'
    BY <1>1, <1>2 DEF PPollInv, WokenInv, MaskInv, KqueueInv, ToWatch, TypeOK
<1>8. AnswerInv'
    BY <1>1, <1>2 DEF PPollInv, AnswerInv, Over
<1> QED
    BY <1>3, <1>4, <1>5, <1>6, <1>7, <1>8 DEF PPollInv

\* Another thread takes a signal, a descriptor changes, time passes.
LEMMA WorldInv ==
    ASSUME PPollInv,
           (\E s \in Signals : TakenByOther(s)) \/ (\E f \in Fds : FdChanges(f)) \/ DeadlinePasses
    PROVE  PPollInv'
<1>1. /\ UNCHANGED <<handled, mask, pc, args, timeout, i, revents, n, result, kq, knotes, polled, ran>>
      /\ \/ pending' \subseteq pending /\ taken' = TRUE /\ UNCHANGED <<state, passed>>
         \/ (\E f \in Fds : FdChanges(f)) /\ UNCHANGED <<pending, passed, taken>>
         \/ passed' = TRUE /\ UNCHANGED <<pending, state, taken>>
    BY DEF TakenByOther, FdChanges, DeadlinePasses, call, emulation
<1>2. state' \in [Fds -> {"no", "ready", "stale"}]
    BY <1>1 DEF PPollInv, TypeOK, FdChanges
<1>3. TypeOK'
    BY <1>1, <1>2 DEF PPollInv, TypeOK
<1>4. MaskInv' /\ KqueueInv' /\ MissedInv'
    BY <1>1 DEF PPollInv, MaskInv, KqueueInv, MissedInv, ToWatch
<1>5. WokenInv'
    BY <1>1 DEF PPollInv, WokenInv
<1>6. AnswerInv'
    BY <1>1 DEF PPollInv, AnswerInv, Over
<1> QED
    BY <1>3, <1>4, <1>5, <1>6 DEF PPollInv

-----------------------------------------------------------------------------
(* The shim's walks and decisions *)

\* A call starts with its own deadline.
LEMMA CallInv ==
    ASSUME PPollInv, NEW to \in Timeouts, NEW m \in (SUBSET Signals) \cup {NULL}, Call(to, m)
    PROVE  PPollInv'
<1>1. /\ pc = "idle" /\ pc' = "walk" /\ i' = 1
      /\ args' = [timeout |-> to, sigmask |-> m, mask |-> mask] /\ timeout' = to
      /\ revents' = {} /\ n' = 0 /\ result' = "0" /\ passed' = FALSE /\ ran' = {} /\ taken' = FALSE
      /\ UNCHANGED <<handled, mask, pending, state, kq, knotes, polled>>
    BY DEF Call, emulation
<1>2. TypeOK'
  <2>1. args' \in [timeout : Timeouts, sigmask : (SUBSET Signals) \cup {NULL}, mask : SUBSET Signals]
      BY <1>1 DEF PPollInv, TypeOK
  <2>2. i' \in Fds
      BY <1>1 DEF Fds
  <2> QED
      BY <1>1, <2>1, <2>2 DEF PPollInv, TypeOK, Locations
<1>3. MaskInv' /\ KqueueInv' /\ MissedInv' /\ WokenInv'
    BY <1>1 DEF PPollInv, MaskInv, KqueueInv, MissedInv, WokenInv, ToWatch
<1>4. AnswerInv'
    BY <1>1 DEF PPollInv, AnswerInv, Over
<1> QED
    BY <1>2, <1>3, <1>4 DEF PPollInv

\* Clearing a signalfd leaves the others alone.
LEMMA ClearedType ==
    ASSUME TypeOK PROVE Cleared(i) \in [Fds -> {"no", "ready", "stale"}]
BY DEF TypeOK, Cleared

\* The walk before real_ppoll.
LEMMA WalkInv == ASSUME PPollInv, Walk PROVE PPollInv'
<1>1. /\ pc = "walk" /\ pc' \in {"walk", "watch"} /\ i' \in Fds /\ state' = Cleared(i)
      /\ UNCHANGED <<handled, mask, pending, passed, args, timeout, revents, n, result, kq, knotes,
                     polled, ran, taken>>
    BY DEF Walk, emulation, PPollInv, TypeOK, Fds
<1>2. TypeOK'
    BY <1>1, ClearedType DEF PPollInv, TypeOK, Locations
<1>3. MaskInv' /\ KqueueInv' /\ MissedInv' /\ WokenInv'
    BY <1>1 DEF PPollInv, MaskInv, KqueueInv, MissedInv, WokenInv, ToWatch
<1>4. AnswerInv'
    BY <1>1 DEF PPollInv, AnswerInv, Over
<1> QED
    BY <1>2, <1>3, <1>4 DEF PPollInv

\* The walk after real_ppoll takes as many fds as counts away.
LEMMA CheckInv == ASSUME PPollInv, Check PROVE PPollInv'
<1>1. /\ pc = "check" /\ pc' \in {"check", "decide"} /\ i' \in Fds
      /\ state' \in {Cleared(i), state}
      /\ UNCHANGED <<handled, mask, pending, passed, args, timeout, result, kq, knotes, polled, ran, taken>>
    BY DEF Check, emulation, PPollInv, TypeOK, Fds
<1>2. \/ i \in revents /\ revents' = revents \ {i} /\ n' = n - 1
      \/ UNCHANGED <<revents, n>>
    BY DEF Check
<1>3. n = Cardinality(revents) /\ IsFiniteSet(revents) /\ n \in Nat
    BY <1>1, FdsFinite DEF PPollInv, AnswerInv, TypeOK
<1>4. n' \in Nat /\ revents' \subseteq Fds /\ n' = Cardinality(revents')
    BY <1>2, <1>3, FdsFinite, FS_RemoveElement DEF PPollInv, TypeOK
<1>5. TypeOK'
    BY <1>1, <1>4, ClearedType DEF PPollInv, TypeOK, Locations
<1>6. MaskInv' /\ KqueueInv' /\ MissedInv' /\ WokenInv'
    BY <1>1 DEF PPollInv, MaskInv, KqueueInv, MissedInv, WokenInv, ToWatch
<1>7. AnswerInv'
    BY <1>1, <1>4 DEF PPollInv, AnswerInv, Over
<1> QED
    BY <1>5, <1>6, <1>7 DEF PPollInv

\* What is left of a timeout is nothing only when the deadline has passed.
LEMMA RetryInv == ASSUME PPollInv, Retry PROVE PPollInv'
<1>1. /\ pc = "decide" /\ pc' = "walk" /\ timeout # "zero" /\ timeout' \in Left(timeout)
      /\ UNCHANGED <<handled, state, passed, taken, mask, pending, args, i, revents, n, result, kq,
                     knotes, polled, ran>>
    BY DEF Retry, world, emulation
<1>2. timeout' \in Timeouts /\ (timeout' = "zero" => passed)
    BY <1>1 DEF Left, PPollInv, TypeOK, Timeouts
<1>3. TypeOK'
    BY <1>1, <1>2 DEF PPollInv, TypeOK, Locations
<1>4. MaskInv' /\ KqueueInv' /\ MissedInv' /\ WokenInv'
    BY <1>1 DEF PPollInv, MaskInv, KqueueInv, MissedInv, WokenInv, ToWatch
<1>5. AnswerInv'
    BY <1>1, <1>2 DEF PPollInv, AnswerInv, Over
<1> QED
    BY <1>3, <1>4, <1>5 DEF PPollInv

\* The shim returns a count of its own fds, or 0 to a caller that does not wait on.
LEMMA ReturnInv == ASSUME PPollInv, Return PROVE PPollInv'
<1>1. /\ pc = "decide" /\ pc' = "idle" /\ result' = "0" /\ (n # 0 \/ timeout = "zero")
      /\ UNCHANGED <<handled, state, passed, taken, mask, pending, args, timeout, i, revents, n, kq,
                     knotes, polled, ran>>
    BY DEF Return, Finish, world, emulation
<1>2. TypeOK'
    BY <1>1 DEF PPollInv, TypeOK, Locations
<1>3. MaskInv' /\ KqueueInv' /\ MissedInv' /\ WokenInv'
    BY <1>1 DEF PPollInv, MaskInv, KqueueInv, MissedInv, WokenInv, ToWatch
<1>4. AnswerInv'
    BY <1>1 DEF PPollInv, AnswerInv, Over
<1> QED
    BY <1>2, <1>3, <1>4 DEF PPollInv

-----------------------------------------------------------------------------
(* compat_ppoll_impl *)

\* The look at the mask: without signals to look out for there is no kqueue.
LEMMA WatchInv == ASSUME PPollInv, Watch PROVE PPollInv'
<1>1. /\ pc = "watch" /\ ran' = {}
      /\ UNCHANGED <<handled, state, passed, taken, mask, pending, args, timeout, i, revents, n,
                     result, kq, knotes, polled>>
    BY DEF Watch, world, call, emulation
<1>2. mask = args.mask /\ kq = "closed" /\ knotes = {}
    BY <1>1 DEF PPollInv, MaskInv, KqueueInv
<1>3. \/ pc' = "set_mask" /\ ToWatch = {}
      \/ pc' = "kqueue"
    BY <1>2 DEF Watch, Watched, ToWatch
<1>4. TypeOK'
    BY <1>1, <1>3 DEF PPollInv, TypeOK, Locations
<1>5. MaskInv' /\ KqueueInv'
    BY <1>1, <1>2, <1>3 DEF MaskInv, KqueueInv, ToWatch
<1>6. MissedInv' /\ WokenInv'
    BY <1>1, <1>2, <1>3 DEF MissedInv, WokenInv
<1>7. AnswerInv'
    BY <1>1, <1>3 DEF PPollInv, AnswerInv, Over
<1> QED
    BY <1>4, <1>5, <1>6, <1>7 DEF PPollInv

\* The kqueue with its filters, or none.
LEMMA KqueueStep == ASSUME PPollInv, Kqueue PROVE PPollInv'
<1>1. /\ pc = "kqueue"
      /\ \/ kq' = "idle" /\ knotes' = Watched /\ pc' = "sigpending" /\ result' = result
         \/ pc' = "idle" /\ result' = "EMFILE" /\ UNCHANGED <<kq, knotes>>
      /\ UNCHANGED <<handled, state, passed, taken, mask, pending, args, timeout, i, revents, n,
                     polled, ran>>
    BY DEF Kqueue, Finish, world
<1>2. mask = args.mask /\ Watched = ToWatch
    BY <1>1 DEF PPollInv, MaskInv, Watched, ToWatch
<1>3. TypeOK'
    BY <1>1 DEF PPollInv, TypeOK, Locations
<1>4. MaskInv' /\ KqueueInv'
    BY <1>1, <1>2 DEF PPollInv, MaskInv, KqueueInv, ToWatch
<1>5. MissedInv' /\ WokenInv'
    BY <1>1 DEF PPollInv, MissedInv, WokenInv
<1>6. AnswerInv'
    BY <1>1 DEF PPollInv, AnswerInv, Over
<1> QED
    BY <1>3, <1>4, <1>5, <1>6 DEF PPollInv

\* What arrived before the filters is asked for: from here on nothing is missed.
LEMMA SigpendingInv == ASSUME PPollInv, Sigpending PROVE PPollInv'
<1>1. /\ pc = "sigpending"
      /\ \/ /\ kq' = IF pending \cap knotes # {} THEN "active" ELSE kq
            /\ pc' = "set_mask" /\ UNCHANGED <<knotes, result>>
         \/ kq' = "closed" /\ knotes' = {} /\ pc' = "idle" /\ result' = "ENOMEM"
      /\ UNCHANGED <<handled, state, passed, taken, mask, pending, args, timeout, i, revents, n,
                     polled, ran>>
    BY DEF Sigpending, Finish, world
<1>2. TypeOK'
    BY <1>1 DEF PPollInv, TypeOK, Locations
<1>3. MaskInv' /\ KqueueInv'
    BY <1>1 DEF PPollInv, MaskInv, KqueueInv, ToWatch
<1>4. MissedInv' /\ WokenInv'
    BY <1>1 DEF PPollInv, MissedInv, WokenInv
<1>5. AnswerInv'
    BY <1>1 DEF PPollInv, AnswerInv, Over
<1> QED
    BY <1>2, <1>3, <1>4, <1>5 DEF PPollInv

\* The handlers that the new mask lets run are those of signals whose kqueue is
\* awake, and an awake kqueue has its handler run now.
LEMMA SetMaskInv == ASSUME PPollInv, SetMask PROVE PPollInv'
<1>1. /\ pc = "set_mask" /\ pc' = "poll"
      /\ mask' = IF args.sigmask = NULL THEN mask ELSE args.sigmask
      /\ pending' = pending \cap mask' /\ ran' = ran \cup ((pending \ mask') \cap handled)
      /\ UNCHANGED <<handled, state, passed, taken, args, timeout, i, revents, n, result, kq,
                     knotes, polled>>
    BY DEF SetMask, SigMask, world, call, emulation
<1>2. mask = args.mask /\ knotes = ToWatch
    BY <1>1 DEF PPollInv, MaskInv, KqueueInv
<1>3. TypeOK'
    BY <1>1 DEF PPollInv, TypeOK, Locations
<1>4. MaskInv' /\ KqueueInv'
    BY <1>1, <1>2 DEF MaskInv, KqueueInv, ToWatch
<1>5. MissedInv'
    BY <1>1, <1>2 DEF PPollInv, MissedInv, ToWatch
<1>6. WokenInv'
    BY <1>1, <1>2 DEF PPollInv, WokenInv, ToWatch
<1>7. AnswerInv'
    BY <1>1 DEF PPollInv, AnswerInv, Over
<1> QED
    BY <1>3, <1>4, <1>5, <1>6, <1>7 DEF PPollInv

\* poll returns what is ready, or that the deadline has passed.
LEMMA PollInv == ASSUME PPollInv, Poll PROVE PPollInv'
<1>1. /\ pc = "poll" /\ pc' = "restore"
      /\ Ready # {} \/ kq = "active" \/ timeout = "zero" \/ passed
      /\ polled' = [ec |-> "0", kq |-> kq = "active"]
      /\ revents' = Ready
      /\ n' = Cardinality(Ready) + IF kq = "active" THEN 1 ELSE 0
      /\ UNCHANGED <<handled, state, passed, taken, mask, pending, args, timeout, i, result, kq, knotes, ran>>
    BY DEF Poll, world
<1>2. Ready \subseteq Fds /\ Cardinality(Ready) \in Nat /\ IsFiniteSet(Ready)
    BY FdsFinite DEF Ready
<1>3. polled'.kq <=> kq = "active"
    BY <1>1
<1>4. polled' \in [ec : {"0", "EINTR"}, kq : BOOLEAN] /\ polled'.ec = "0"
    BY <1>1
<1>5. TypeOK'
    BY <1>1, <1>2, <1>4 DEF PPollInv, TypeOK, Locations
<1>6. MaskInv' /\ KqueueInv' /\ MissedInv'
    BY <1>1 DEF PPollInv, MaskInv, KqueueInv, MissedInv, ToWatch
<1>7. WokenInv'
    BY <1>1, <1>3, <1>4 DEF PPollInv, WokenInv
<1>8. AnswerInv'
  <2>1. Cardinality(Ready) = 0 => Ready = {}
      BY <1>2, FS_EmptySet
  <2>2. n' = Cardinality(revents') + IF polled'.kq THEN 1 ELSE 0
      BY <1>1, <1>3
  <2>3. n' = 0 => passed \/ timeout = "zero"
      BY <1>1, <1>2, <2>1
  <2> QED
      BY <1>1, <2>2, <2>3 DEF PPollInv, AnswerInv, Over
<1> QED
    BY <1>5, <1>6, <1>7, <1>8 DEF PPollInv

\* The caller's mask again, and the answer without the emulation's own kqueue.
LEMMA RestoreInv == ASSUME PPollInv, Restore PROVE PPollInv'
<1> DEFINE ready == IF polled.kq THEN n - 1 ELSE n
           ec == IF polled.ec = "0" /\ polled.kq /\ ready = 0 THEN "EINTR" ELSE polled.ec
<1>1. /\ pc = "restore" /\ kq' = "closed" /\ knotes' = {} /\ polled' = NotPolled
      /\ mask' = IF args.sigmask = NULL THEN mask ELSE args.mask
      /\ ran \subseteq ran' /\ (TypeOK => ran' \subseteq handled)
      /\ \/ ec # "0" /\ pc' = "idle" /\ result' = ec /\ UNCHANGED <<revents, n>>
         \/ /\ ec = "0" /\ n' = ready /\ revents' = revents
            /\ \/ ready = 0 /\ pc' = "idle" /\ result' = "0"
               \/ ready # 0 /\ pc' = "check" /\ result' = result
      /\ UNCHANGED <<handled, state, passed, taken, args, timeout, i>>
    BY DEF Restore, SigMask, Finish, world, TypeOK
<1>2. mask' = args.mask
    BY <1>1 DEF PPollInv, MaskInv
<1>3. /\ polled.ec \in {"0", "EINTR"} /\ polled.kq \in BOOLEAN /\ revents \subseteq Fds
      /\ Cardinality(revents) \in Nat
    BY FdsFinite DEF PPollInv, TypeOK
<1>4. polled.ec = "0" => /\ ready = Cardinality(revents) /\ ready \in Nat
                         /\ ready = 0 /\ ~polled.kq => Over
    BY <1>1, <1>3 DEF PPollInv, AnswerInv
<1>5. ec \in {"0", "EINTR"} /\ (ec = "0" => polled.ec = "0" /\ ~(polled.kq /\ ready = 0))
    BY <1>3
<1>6. ec = "EINTR" => ran # {} \/ taken
    BY <1>1, <1>3 DEF PPollInv, WokenInv
<1> HIDE DEF ec, ready
<1>7. TypeOK'
  <2>1. n' \in Nat /\ revents' \subseteq Fds
      BY <1>1, <1>3, <1>4, <1>5 DEF PPollInv, TypeOK
  <2>2. polled' \in [ec : {"0", "EINTR"}, kq : BOOLEAN]
      BY <1>1 DEF NotPolled
  <2>3. mask' \subseteq Signals /\ pc' \in Locations
      BY <1>1, <1>2 DEF PPollInv, TypeOK, Locations
  <2> QED
      BY <1>1, <2>1, <2>2, <2>3 DEF PPollInv, TypeOK
<1>8. MaskInv' /\ KqueueInv' /\ MissedInv' /\ WokenInv'
    BY <1>1, <1>2 DEF MaskInv, KqueueInv, MissedInv, WokenInv
<1>9. AnswerInv'
    BY <1>1, <1>4, <1>5, <1>6 DEF PPollInv, AnswerInv, Over
<1> QED
    BY <1>7, <1>8, <1>9 DEF PPollInv

-----------------------------------------------------------------------------
\* Every step preserves the invariant.
LEMMA NextInv == PPollInv /\ [Next]_vars => PPollInv'
<1> SUFFICES ASSUME PPollInv, [Next]_vars PROVE PPollInv'
    OBVIOUS
<1>1. CASE UNCHANGED vars
    BY <1>1 DEF vars, PPollInv, TypeOK, MaskInv, KqueueInv, ToWatch, MissedInv, WokenInv, AnswerInv, Over
<1>2. CASE Thread
    BY <1>2, WalkInv, WatchInv, KqueueStep, SigpendingInv, SetMaskInv, PollInv, RestoreInv, CheckInv,
       RetryInv, ReturnInv DEF Thread
<1> QED
    BY <1>1, <1>2, ArriveInv, WorldInv, CallInv DEF Next, Timeouts

\* The inductive invariant holds for every set of signals and array of fds.
THEOREM PPollInvariant == Spec => []PPollInv
BY InitInv, NextInv, PTL DEF Spec

\* At whatever point between the look at the old mask and poll a signal arrives that
\* the caller blocks and sigmask lets through: once its handler has run, compat_ppoll's
\* poll does not sleep.
THEOREM NoSignalMissed == Spec => []NoMissedSignal
<1>1. PPollInv => NoMissedSignal
    BY DEF PPollInv, NoMissedSignal, MissedInv, KqueueInv, ToWatch, TypeOK
<1> QED
    BY <1>1, PPollInvariant, PTL

\* epoll_shim_ppoll gives the caller its signal mask back, closes the kqueue, and
\* returns EINTR, a count or 0 only for the reason the caller takes it for.
THEOREM AnswersTrue == Spec => []ResultTrue
<1>1. PPollInv => ResultTrue
    BY DEF PPollInv, ResultTrue, MaskInv, KqueueInv, AnswerInv, Over
<1> QED
    BY <1>1, PPollInvariant, PTL
=============================================================================
