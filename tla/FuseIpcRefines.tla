-------------------------- MODULE FuseIpcRefines ---------------------------
(***************************************************************************)
(* FuseIpc implements FuseRequest.  A requester asks from the moment its   *)
(* operation begins to the moment it has an answer to read or returns; the *)
(* ticket it still has to drop is its own affair.                          *)
(***************************************************************************)
EXTENDS FuseIpc

AbstractPhase ==
  [r \in Requesters |->
     CASE pc[r] \in {"idle", "drop", "refresh"} -> "idle"
       [] pc[r] = "use" -> "served"
       [] OTHER -> "asking"]

AbstractAsked ==
  [r \in Requesters |-> IF AbstractPhase[r] = "idle" THEN 0 ELSE req[r].id]

(* What the caller of fdisp_wait_answ reads is what the ticket holds.      *)
AbstractGot ==
  [r \in Requesters |->
     IF AbstractPhase[r] = "served" THEN tk[tick[r]].resp ELSE 0]

Abstract == INSTANCE FuseRequest WITH
  phase <- AbstractPhase, asked <- AbstractAsked, got <- AbstractGot,
  count <- nreq, answers <- replies

(* Every behaviour of the channel is one the vnode operations expect: an   *)
(* operation that succeeds read the answer the daemon gave to its own      *)
(* request, and the daemon answered no request twice.                      *)
ImplementsFuseRequest == Abstract!Spec
=============================================================================
