---------------------------- MODULE MCDescTable ----------------------------
(* DescTable with symmetric threads and addresses. *)
EXTENDS DescTable, TLC

Symmetry == Permutations(Threads) \cup Permutations(Descs)
=============================================================================
