---------------------------- MODULE MCHNodeTable ----------------------------
(* Small instances of HNodeTable for TLC.                                  *)
EXTENDS HNodeTable, TLC

(* Sound for the invariants; not used for liveness.                        *)
Symmetric ==
  Permutations(Threads) \cup Permutations(Inodes) \cup
  Permutations(Nodes) \cup Permutations(Vnodes)
=============================================================================
