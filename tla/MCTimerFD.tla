------------------------------ MODULE MCTimerFD ------------------------------
(* Timerfd models: a clock that can be stepped forwards and back, one-shot and *)
(* interval timers, past, near and far.                                        *)
EXTENDS TimerFD
=============================================================================
