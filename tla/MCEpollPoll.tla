---------------------------- MODULE MCEpollPoll ----------------------------
(* Epoll waiting models: a few threads and poll-only fds. *)
EXTENDS EpollPoll, TLC

Symmetry == Permutations(Threads) \cup Permutations(Fds)
=============================================================================
