---------------------------- MODULE FuseRequest ----------------------------
(***************************************************************************)
(* What the request/answer channel promises to the vnode operations that   *)
(* use it (the comments of fdisp_wait_answ's callers take it for granted): *)
(* a request is asked once, the daemon answers it at most once, and the    *)
(* operation either reads the answer the daemon gave to that very request  *)
(* or fails.  Tickets, queues, locks and the death of the session do not   *)
(* show.  FuseIpc implements this specification.                           *)
(***************************************************************************)
EXTENDS Naturals

CONSTANTS Requesters, MaxRequests

VARIABLES
  phase,     (* what every requester does                                  *)
  asked,     (* the request it waits for; 0 when it does not               *)
  got,       (* the request whose answer it reads; 0 when it reads none    *)
  count,     (* requests ever asked                                        *)
  answers    (* the requests the daemon has answered                       *)

vars == <<phase, asked, got, count, answers>>

TypeOK ==
  /\ phase \in [Requesters -> {"idle", "asking", "served"}]
  /\ asked \in [Requesters -> 0..MaxRequests]
  /\ got \in [Requesters -> 0..MaxRequests]
  /\ count \in 0..MaxRequests
  /\ answers \subseteq 1..MaxRequests

Init ==
  /\ phase = [r \in Requesters |-> "idle"]
  /\ asked = [r \in Requesters |-> 0]
  /\ got = [r \in Requesters |-> 0]
  /\ count = 0 /\ answers = {}

Ask(r) ==
  /\ phase[r] = "idle" /\ count < MaxRequests
  /\ phase' = [phase EXCEPT ![r] = "asking"]
  /\ count' = count + 1
  /\ asked' = [asked EXCEPT ![r] = count + 1]
  /\ UNCHANGED <<got, answers>>

(* The daemon may answer a request whose requester has given up.           *)
DaemonAnswers(q) ==
  /\ q \in 1..count /\ q \notin answers
  /\ answers' = answers \cup {q}
  /\ UNCHANGED <<phase, asked, got, count>>

Serve(r) ==
  /\ phase[r] = "asking" /\ asked[r] \in answers
  /\ phase' = [phase EXCEPT ![r] = "served"]
  /\ got' = [got EXCEPT ![r] = asked[r]]
  /\ UNCHANGED <<asked, count, answers>>

(* The operation fails, has used its answer, or never waited for one.      *)
Return(r) ==
  /\ phase[r] # "idle"
  /\ phase' = [phase EXCEPT ![r] = "idle"]
  /\ asked' = [asked EXCEPT ![r] = 0]
  /\ got' = [got EXCEPT ![r] = 0]
  /\ UNCHANGED <<count, answers>>

Next ==
  \/ \E r \in Requesters : Ask(r) \/ Serve(r) \/ Return(r)
  \/ \E q \in 1..MaxRequests : DaemonAnswers(q)

Spec == Init /\ [][Next]_vars
=============================================================================
