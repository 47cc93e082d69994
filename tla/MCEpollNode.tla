----------------------------- MODULE MCEpollNode -----------------------------
(* Epoll node model: every kind of descriptor, and whatever may be asked of  *)
(* it.  With both sets as large as EpollNodeAssumption admits, the run       *)
(* covers every value of the constants.                                      *)
EXTENDS EpollNode

AllRequests == [events : SUBSET {"IN", "OUT", "RDHUP", "PRI"}, et : BOOLEAN, oneshot : BOOLEAN]
=============================================================================
