-------------------------- MODULE AbstractEventFD --------------------------
(***************************************************************************)
(* What an eventfd promises the threads that read and write it: a counter  *)
(* that every call uses in one step.  A read takes the counter, or one of  *)
(* it from a semaphore; it fails or blocks only when there is nothing to   *)
(* take.  A write adds its value, and is refused only when the counter     *)
(* would reach the maximum.                                                *)
(***************************************************************************)
EXTENDS Integers

CONSTANTS Threads, UINT64_MAX, InitVals, Values

VARIABLES value,      \* what was written and not yet read
          semaphore,  \* EFD_SEMAPHORE
          nonblock,   \* O_NONBLOCK
          call,       \* thread -> the call it is in
          arg         \* thread -> the value it writes

vars == <<value, semaphore, nonblock, call, arg>>

Init == /\ value \in InitVals
        /\ semaphore \in BOOLEAN
        /\ nonblock \in BOOLEAN
        /\ call = [t \in Threads |-> "none"]
        /\ arg = [t \in Threads |-> 0]

\* Thread t goes from one call to another.
Turn(t, from, to) == call[t] = from /\ call' = [call EXCEPT ![t] = to]

Read(t) == Turn(t, "none", "read") /\ UNCHANGED <<value, semaphore, nonblock, arg>>

Take(t) == /\ Turn(t, "read", "none")
           /\ value > 0
           /\ value' = IF semaphore THEN value - 1 ELSE 0
           /\ UNCHANGED <<semaphore, nonblock, arg>>

\* EAGAIN, or the reader goes to sleep.
Empty(t) == /\ Turn(t, "read", IF nonblock THEN "none" ELSE "blocked")
            /\ value = 0
            /\ UNCHANGED <<value, semaphore, nonblock, arg>>

\* A sleeping reader looks again, or a signal ends its call.
Wake(t) == /\ Turn(t, "blocked", "read") \/ Turn(t, "blocked", "none")
           /\ UNCHANGED <<value, semaphore, nonblock, arg>>

Write(t, v) == /\ Turn(t, "none", "write")
               /\ arg' = [arg EXCEPT ![t] = v]
               /\ UNCHANGED <<value, semaphore, nonblock>>

Fits(v) == v # UINT64_MAX /\ value + v < UINT64_MAX

Add(t) == /\ Turn(t, "write", "none")
          /\ Fits(arg[t])
          /\ value' = value + arg[t]
          /\ arg' = [arg EXCEPT ![t] = 0]
          /\ UNCHANGED <<semaphore, nonblock>>

Refuse(t) == /\ Turn(t, "write", "none")
             /\ ~Fits(arg[t])
             /\ arg' = [arg EXCEPT ![t] = 0]
             /\ UNCHANGED <<value, semaphore, nonblock>>

SetNonblock == nonblock' = ~nonblock /\ UNCHANGED <<value, semaphore, call, arg>>

Next == \/ \E t \in Threads : \/ Read(t) \/ Take(t) \/ Empty(t) \/ Wake(t)
                              \/ \E v \in Values : Write(t, v)
                              \/ Add(t) \/ Refuse(t)
        \/ SetNonblock

Spec == Init /\ [][Next]_vars
=============================================================================
