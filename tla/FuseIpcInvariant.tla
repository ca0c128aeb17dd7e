------------------------- MODULE FuseIpcInvariant --------------------------
(***************************************************************************)
(* The inductive invariant of FuseIpc: who is responsible for a ticket.    *)
(*                                                                         *)
(* It holds of sessions that end only with the closing of the device and   *)
(* have no limit on tickets.  After a timeout, the ioctl, the sysctl or    *)
(* fuse_max_tickets it does not: a dead session then still has a daemon    *)
(* that may answer, and tickets are dropped while they wait (MCIpcPanic).  *)
(*                                                                         *)
(* Two more things the code leaves to chance: fticket_alloc counts with a  *)
(* ticketer++ under no lock, and OSMalloc may return the memory of a ticket*)
(* that was destroyed under a requester that still points to it.  Whether  *)
(* they may happen is a matter of the constants, whether they do of the    *)
(* behaviour: the invariant holds until the first of them, whatever the    *)
(* constants.                                                              *)
(***************************************************************************)
EXTENDS FuseIpc

Orderly ==
  /\ DeathCauses \subseteq {"close"}
  /\ MaxTickets = 0

(* No ticketer++ is lost in this step, and no thread has a pointer into the*)
(* memory of a new ticket.                                                 *)
Undisturbed ==
  /\ \A r \in Requesters :
       RacyTicketer /\ pc[r] = "alloc" /\ pc'[r] # "alloc" =>
         mark[r] = ticketer
  /\ \A t \in alltickets' \ alltickets, th \in Threads : tick[th] # t

CalmSpec == Init /\ [][Next /\ Undisturbed]_vars

(* Where a requester is with its ticket.                                   *)
Building == {"make", "callback", "push_aw"}
Sending  == {"message", "push_ms"}
Waiting  == {"wait", "sleep", "woken", "post"}
Leaving  == {"use", "drop", "refresh"}

InHand == \A th \in Threads :
  pc[th] \notin {"idle", "fetch", "alloc"} => tick[th] \in Tickets

Pcs ==
  /\ \A r \in Requesters :
       pc[r] \in Building \cup Sending \cup Waiting \cup Leaving \cup
                 {"idle", "fetch", "alloc", "detach"}
  /\ \A d \in Daemons : pc[d] \in DaemonPcs
  /\ \A th \in Threads : pc[th] \in {"idle", "fetch", "alloc"} => tick[th] = NoTicket
  /\ \A r \in Requesters :
       /\ pc[r] \in {"callback", "push_aw"} => req[r].kind # "forget"
       /\ pc[r] \in Waiting \cup Leaving \cup {"detach"} => req[r].kind = "wait"

(* A dead session has no daemon.                                           *)
DeadIsClosed ==
  /\ dead => closed /\ inbox = {} /\ \A d \in Daemons : pc[d] = "idle"
  /\ drain # "none" => dead

(* Tickets have numbers of their own.                                      *)
Numbered ==
  /\ \A t \in alltickets : tk[t].unique < ticketer
  /\ \A t, u \in alltickets : tk[t].unique = tk[u].unique => t = u

(* The free list and the hands of the threads are disjoint; requesters     *)
(* share no ticket.                                                        *)
Disjoint ==
  /\ IsInjective(freetickets)
  /\ Range(freetickets) \subseteq alltickets
  /\ \A th \in Threads :
       Holds(th) => tick[th] \in alltickets \ Range(freetickets)
  /\ \A r, s \in Requesters :
       Holds(r) /\ Holds(s) /\ tick[r] = tick[s] => r = s

(* A ticket that is free or being built has not been sent.  The close of   *)
(* the device may have marked it answered, with an error.                  *)
Unsent(t) ==
  /\ tk[t].flag \subseteq {"ANSW", "INVAL"}
  /\ "ANSW" \in tk[t].flag => dead /\ tk[t].errno

FreshTicket(r) ==
  /\ pc[r] \in Building \cup {"message"} => Unsent(tick[r])
  /\ pc[r] \in Building => ~Invalid(tick[r])
  /\ pc[r] \in Sending => (Invalid(tick[r]) <=> req[r].kind = "forget")

Fresh ==
  /\ \A t \in Range(freetickets) : Unsent(t) /\ ~Invalid(t)
  /\ \A r \in Requesters : FreshTicket(r)

(* The ticket carries the request of the thread that holds it, and the     *)
(* answer, once there, is the one to it.                                   *)
CarriesOwn(r) ==
  /\ pc[r] \in {"callback", "push_aw"} \cup Sending \cup Waiting =>
       tk[tick[r]].ms = req[r].id
  /\ pc[r] \in Sending \cup {"wait", "sleep", "woken"} /\ Answered(tick[r]) =>
       tk[tick[r]].errno \/ tk[tick[r]].resp = req[r].id
  /\ pc[r] = "use" => tk[tick[r]].resp = req[r].id
  /\ pc[r] = "push_aw" =>
       (req[r].kind = "wait" <=> tk[tick[r]].handler = "standard")

Carries == \A r \in Requesters : CarriesOwn(r)

(* A requester on its way out still knows whether its ticket was recycled. *)
Abandoned(r) ==
  pc[r] = "detach" /\ tick[r] \in alltickets =>
    /\ mark[r] <= tk[tick[r]].age
    /\ mark[r] = tk[tick[r]].age =>
         /\ tick[r] \notin Range(freetickets)
         /\ \A s \in Requesters : Holds(s) => tick[s] # tick[r]
         /\ tk[tick[r]].ms = req[r].id
         /\ Answered(tick[r])

Aging == \A r \in Requesters : Abandoned(r)

(* NoLostWakeup for one requester.                                         *)
Asleep(r) == pc[r] = "sleep" => ~Answered(tick[r])

Sleeping == \A r \in Requesters : Asleep(r)

-----------------------------------------------------------------------------
(* In a live session, the queues as well.                                  *)

DaemonHolds(t) == \E d \in Daemons : Holds(d) /\ tick[d] = t
RequesterHolds(t) == \E r \in Requesters : Holds(r) /\ tick[r] = t

(* Nobody but a requester has this ticket.                                 *)
OffQueues(t) == t \notin aw_head /\ t \notin Range(ms_head) /\ ~DaemonHolds(t)

FreeOffQueues ==
  \A t \in Range(freetickets) : OffQueues(t) /\ tk[t].flag = {}

RequesterTicket(r) ==
  /\ pc[r] \in Building => OffQueues(tick[r])
  /\ pc[r] \in Sending =>
       /\ tick[r] \notin Range(ms_head) /\ ~DaemonHolds(tick[r])
       /\ tick[r] \in aw_head <=> req[r].kind # "forget"
  /\ pc[r] \in Sending \cup Waiting /\ Answered(tick[r]) => OffQueues(tick[r])
  /\ pc[r] \in Leaving => OffQueues(tick[r])
  /\ pc[r] \in Waiting => ~Invalid(tick[r])

RequesterTickets == \A r \in Requesters : RequesterTicket(r)

(* A ticket that waits for an answer.                                      *)
WaitingTicket(t) ==
  /\ t \in alltickets /\ ~Invalid(t)
  /\ \A r \in Requesters :
       Holds(r) /\ tick[r] = t =>
         (req[r].kind = "wait" <=> tk[t].handler = "standard")

WaitingTickets == \A t \in aw_head : WaitingTicket(t)

(* A ticket whose message has not been read.                               *)
UnreadTicket(t) ==
  /\ t \in alltickets /\ ~DaemonHolds(t)
  /\ Invalid(t) => t \notin aw_head /\ ~RequesterHolds(t)
  /\ ~Invalid(t) => t \in aw_head

UnreadTickets ==
  /\ IsInjective(ms_head)
  /\ \A t \in Range(ms_head) : UnreadTicket(t)

(* A ticket a daemon thread works on in the kernel.                        *)
DaemonTicket(d) ==
  /\ pc[d] = "copy" =>
       IF Invalid(tick[d])
       THEN tick[d] \notin aw_head /\ ~RequesterHolds(tick[d])
       ELSE tick[d] \in aw_head
  /\ pc[d] \in {"pull", "answer", "answer_error"} =>
       /\ tick[d] \notin aw_head /\ ~Invalid(tick[d])
       /\ tk[tick[d]].resp = tk[tick[d]].ms
  /\ pc[d] \in {"drop", "refresh"} =>
       tick[d] \notin aw_head /\ ~RequesterHolds(tick[d])

DaemonTickets ==
  /\ \A d, e \in Daemons : Holds(d) /\ Holds(e) /\ tick[d] = tick[e] => d = e
  /\ \A d \in Daemons : DaemonTicket(d)

(* A message the daemon has read and not answered.                         *)
Owes(m, t) ==
  /\ tk[t].unique = m.unique /\ tk[t].ms = m.req
  /\ t \notin Range(ms_head) /\ ~DaemonHolds(t)
  /\ \A r \in Requesters : tick[r] = t /\ Holds(r) => pc[r] \in Waiting

ReadMessages == \A m \in inbox : \E t \in aw_head : Owes(m, t)

(* A requester that waits is owed an answer, or has it.                    *)
OwedTicket(r) ==
  pc[r] \in Waiting /\ ~Answered(tick[r]) =>
    tick[r] \in aw_head \/ DaemonHolds(tick[r])

Owed == \A r \in Requesters : OwedTicket(r)

(* Who gets an answer has not left without marking the ticket.             *)
MindedTicket(t) ==
  /\ t \in aw_head /\ tk[t].handler = "standard" /\ ~Answered(t) =>
       RequesterHolds(t)
  /\ ~Answered(t) =>
       \A d \in Daemons :
         pc[d] \in {"pull", "answer", "answer_error"} /\ tick[d] = t =>
           RequesterHolds(t)

Minded == \A t \in Tickets : MindedTicket(t)

(* Every ticket is somewhere (NoLeak).                                     *)
Kept(t) ==
  \/ t \in Range(freetickets) \/ t \in aw_head
  \/ t \in Range(ms_head) /\ Invalid(t)
  \/ RequesterHolds(t) \/ DaemonHolds(t)

NoneLost == \A t \in alltickets : Kept(t)

Live == /\ FreeOffQueues /\ RequesterTickets /\ WaitingTickets
        /\ UnreadTickets /\ DaemonTickets /\ ReadMessages
        /\ Owed /\ Minded /\ NoneLost

Base == /\ Pcs /\ InHand /\ DeadIsClosed /\ Numbered /\ Disjoint /\ Fresh
        /\ Carries /\ Aging /\ Sleeping

(* All of it.                                                              *)
IInv == TypeOK /\ ~panicked /\ Base /\ (dead \/ Live)

-----------------------------------------------------------------------------
(* For FuseRequest: no request is answered twice.                          *)

(* The request has not been put on a queue yet.                            *)
NotSent == {"fetch", "alloc", "make", "callback", "push_aw"}
Early(r) == pc[r] \in NotSent

(* Requests have numbers of their own.                                     *)
OwnRequests ==
  /\ \A r \in Requesters :
       IF pc[r] = "idle" THEN req[r].id = 0 ELSE req[r].id \in 1..nreq
  /\ \A r, s \in Requesters :
       pc[r] # "idle" /\ pc[s] # "idle" /\ req[r].id = req[s].id => r = s

(* The daemon answers what was asked, and tickets hold answers it gave.    *)
GivenAnswers ==
  /\ replies \subseteq 1..nreq
  /\ \A t \in Tickets : tk[t].resp \in replies \cup {0}

(* In a live session, what waits for an answer and what is still to be     *)
(* asked has not been answered, and nothing is asked twice.                *)
AskedOnce ==
  /\ \A t \in aw_head : tk[t].ms \in (1..nreq) \ replies
  /\ \A t, u \in aw_head : tk[t].ms = tk[u].ms => t = u
  /\ \A r \in Requesters : Early(r) =>
       /\ req[r].id \notin replies
       /\ \A t \in aw_head : tk[t].ms # req[r].id

RInv == OwnRequests /\ GivenAnswers /\ (dead \/ AskedOnce)
=============================================================================
