----------------------------- MODULE MCFuseIpc -----------------------------
(* Small instances of FuseIpc and of its refinement mapping for TLC.       *)
EXTENDS FuseIpcRefines, FuseIpcInvariant, TLC

(* Threads and tickets are interchangeable.  Sound for invariants, action  *)
(* properties and the refinement (safety only); not used for liveness.     *)
Symmetric ==
  Permutations(Requesters) \cup Permutations(Daemons) \cup
  Permutations(Tickets)
=============================================================================
