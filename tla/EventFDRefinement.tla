------------------------- MODULE EventFDRefinement -------------------------
(* The eventfd of eventfd_ctx.c implements the abstract one.  A write counts *)
(* when it succeeds, not when counter_ is assigned: until its trigger is     *)
(* done no other call sees the counter.                                      *)
EXTENDS EventFD

\* The call that a control state belongs to.
CallOf(p) == IF p = "idle" THEN "none"
             ELSE IF p = "rd_poll" THEN "blocked"
             ELSE IF p \in {"read", "rd_ctx", "rd_clear"} THEN "read"
             ELSE "write"

Calls == [t \in Threads |-> CallOf(pc[t])]

Abstract == INSTANCE AbstractEventFD WITH value <- owed, call <- Calls, arg <- val

\* Whichever calls overlap, each of them takes, adds or fails in one step, as if
\* it were alone: a read returns all there is or one of it, gets EAGAIN or blocks
\* only at 0, and a write is refused only for UINT64_MAX or an overflow.
AbstractSpec == Abstract!Spec
=============================================================================
