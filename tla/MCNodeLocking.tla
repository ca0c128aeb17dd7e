--------------------------- MODULE MCNodeLocking ---------------------------
(* Small instances of NodeLocking for TLC.                                 *)
EXTENDS NodeLocking, TLC

(* Threads are interchangeable; nodes are not, being addresses.            *)
Symmetric == Permutations(Threads)
=============================================================================
