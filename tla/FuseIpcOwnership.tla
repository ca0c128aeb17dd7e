-------------------------- MODULE FuseIpcOwnership --------------------------
(***************************************************************************)
(* The theorems of FuseIpc about tickets.  In sessions that end only with  *)
(* the closing of the device, for any numbers of requesters, daemon        *)
(* threads, tickets and requests and any limit on the free list: every     *)
(* ticket has one owner, so no ticket is reused before it is refreshed, the*)
(* free list is sound, the daemon's answer reaches the request it answers, *)
(* and giving up disarms the handler of one's own request only.  It takes a*)
(* lost ticketer++ or the reuse of memory somebody points to to end that   *)
(* (CalmSpec): nothing else in the code does.                              *)
(*                                                                         *)
(* One lemma per action, in FuseIpcSteps, shows that it preserves the      *)
(* inductive invariant IInv.  With it, and with RInv, which says that no   *)
(* request is answered twice, every step of the channel is a step of       *)
(* FuseRequest or one that FuseRequest does not see.                       *)
(***************************************************************************)
EXTENDS FuseIpcSteps, FuseIpcRefines

USE IpcAssumption

-----------------------------------------------------------------------------
(* The inductive invariant.                                                *)

(* At the start there is at most one ticket, on the free list.             *)
LEMMA OwnershipInit == ASSUME Orderly, Init PROVE IInv
<1>1. TypeOK /\ InHand
  BY TypeInit DEF TypeInv
<1>2. PICK t \in Tickets :
        \/ alltickets = {} /\ freetickets = <<>>
        \/ alltickets = {t} /\ freetickets = <<t>>
  BY DEF Init
<1>3. /\ IsInjective(freetickets) /\ Range(freetickets) = alltickets
      /\ alltickets \in SUBSET {t}
  BY <1>2 DEF IsInjective, Range
<1>4. IsInjective(ms_head) /\ Range(ms_head) = {}
  BY DEF Init, IsInjective, Range
<1>5. /\ \A th \in Threads : pc[th] = "idle" /\ tick[th] = NoTicket
      /\ \A u \in Tickets : tk[u] = NewTicket(0)
  BY DEF Init
<1>6. \A u \in Tickets : tk[u].unique = 0 /\ tk[u].flag = {}
  BY <1>5 DEF NewTicket
<1>7. ~dead /\ drain = "none" /\ ticketer = 1 /\ aw_head = {} /\ inbox = {} /\ ~panicked
  BY DEF Init
<1>8. \A r \in Requesters : r \in Threads
  BY DEF Threads
<1>9. \A d \in Daemons : d \in Threads
  BY DEF Threads
<1>10. Pcs /\ DeadIsClosed
  BY <1>5, <1>7, <1>8, <1>9
    DEF Pcs, DeadIsClosed, DaemonPcs, Building, Sending, Waiting, Leaving, Threads
<1>11. Numbered
  BY <1>3, <1>6, <1>7 DEF Numbered
<1>12. Disjoint
  BY <1>3, <1>5, <1>8 DEF Disjoint, Holds
<1>13. Fresh /\ Carries /\ Aging /\ Sleeping
  <2>1. Fresh
    BY <1>3, <1>5, <1>6, <1>8 DEF Fresh, Unsent, Invalid, FreshTicket, Building, Sending
  <2>2. Carries /\ Aging /\ Sleeping
    BY <1>5, <1>8
      DEF Carries, CarriesOwn, Aging, Abandoned, Sleeping, Asleep, Building, Sending, Waiting
  <2>. QED BY <2>1, <2>2
<1>14. FreeOffQueues /\ RequesterTickets /\ DaemonTickets
  <2>1. \A th \in Threads : ~Holds(th)
    BY <1>5 DEF Holds
  <2>2. \A u \in Tickets : OffQueues(u)
    BY <1>4, <1>7, <1>9, <2>1 DEF OffQueues, DaemonHolds
  <2>3. FreeOffQueues
    BY <1>3, <1>6, <2>2 DEF FreeOffQueues
  <2>4. RequesterTickets
    BY <1>5, <1>8 DEF RequesterTickets, RequesterTicket, Building, Sending, Waiting, Leaving
  <2>5. DaemonTickets
    BY <1>5, <1>9, <2>1 DEF DaemonTickets, DaemonTicket
  <2>. QED BY <2>3, <2>4, <2>5
<1>15. WaitingTickets /\ UnreadTickets /\ ReadMessages
  BY <1>4, <1>7 DEF WaitingTickets, UnreadTickets, ReadMessages
<1>16. Owed /\ Minded /\ NoneLost
  BY <1>3, <1>5, <1>7, <1>8, <1>9
    DEF Owed, OwedTicket, Waiting, Minded, MindedTicket, NoneLost, Kept
<1>. QED
  BY <1>1, <1>7, <1>10, <1>11, <1>12, <1>13, <1>14, <1>15, <1>16 DEF IInv, Base, Live

(* What a requester does to build and send a request.                      *)
LEMMA RequestStep ==
  ASSUME Orderly, Undisturbed, IInv, TypeOK', InHand',
         NEW r \in Requesters, Request(r)
  PROVE  IInv'
<1>1. ~FetchOverLimit(r)
  BY DEF IInv, Base, Pcs, FetchOverLimit, Building, Sending, Waiting, Leaving
<1>2. CASE \E k \in Kinds : Begin(r, k)
  BY <1>2, BeginStep
<1>3. CASE FetchFree(r)
  BY <1>3, FetchFreeStep
<1>4. CASE FetchNone(r)
  BY <1>4, FetchNoneStep
<1>5. CASE AllocTicket(r)
  BY <1>5, AllocTicketStep
<1>6. CASE MakeMessage(r)
  BY <1>6, MakeMessageStep
<1>7. CASE MakeFails(r)
  BY <1>7, MakeFailsStep
<1>8. CASE InsertCallback(r)
  BY <1>8, InsertCallbackStep
<1>9. CASE PushAw(r)
  BY <1>9, PushAwStep
<1>10. CASE InsertMessage(r)
  BY <1>10, InsertMessageStep
<1>11. CASE PushMs(r)
  BY <1>11, PushMsStep
<1>. QED BY <1>1, <1>2, <1>3, <1>4, <1>5, <1>6, <1>7, <1>8, <1>9, <1>10, <1>11 DEF Request

(* What it does while it waits and after.                                  *)
LEMMA WakeupStep ==
  ASSUME Orderly, Undisturbed, IInv, TypeOK', InHand',
         NEW r \in Requesters, Wakeup(r)
  PROVE  IInv'
<1>1. ~Timeout(r)
  BY DEF Orderly, Timeout
<1>2. ~Alert(r) /\ ~Eject(r)
  BY DEF IInv, Base, Pcs, Alert, Eject, Building, Sending, Waiting, Leaving
<1>3. CASE Wait(r)
  BY <1>3, WaitStep
<1>4. CASE Interrupted(r)
  BY <1>4, InterruptedReusesStep, InterruptedAllocatesStep
<1>5. CASE Restarted(r)
  BY <1>5, RestartedStep
<1>6. CASE Woken(r)
  BY <1>6, WokenStep
<1>7. CASE UseAnswer(r)
  BY <1>7, UseAnswerStep
<1>8. CASE GiveUp(r)
  BY <1>8, GiveUpStep
<1>9. CASE Detach(r)
  BY <1>9, DetachStep
<1>. QED BY <1>1, <1>2, <1>3, <1>4, <1>5, <1>6, <1>7, <1>8, <1>9 DEF Wakeup

(* Whoever is last to need a ticket drops it.                              *)
LEMMA DropStep ==
  ASSUME Orderly, IInv, TypeOK', InHand', NEW th \in Threads, Drop(th)
  PROVE  IInv'
<1>1. CASE th \in Requesters /\ DropTicket(th)
  BY <1>1, DropTicketKeepsRequesterStep, DropTicketDestroysRequesterStep
<1>2. CASE th \in Requesters /\ PushFree(th)
  BY <1>2, PushFreeRequesterStep
<1>3. CASE th \in Daemons /\ DropTicket(th)
  BY <1>3, DropTicketKeepsDaemonStep, DropTicketDestroysDaemonStep
<1>4. CASE th \in Daemons /\ PushFree(th)
  BY <1>4, PushFreeDaemonStep
<1>. QED BY <1>1, <1>2, <1>3, <1>4 DEF Drop, Threads

(* What a daemon thread does in read(2) and write(2).                      *)
LEMMA DeviceStep ==
  ASSUME Orderly, IInv, TypeOK', InHand', NEW d \in Daemons, Device(d)
  PROVE  IInv'
<1>1. ~ReadShort(d)
  BY DEF Orderly, ReadShort
<1>2. CASE ReadPop(d)
  BY <1>2, ReadPopStep
<1>3. CASE ReadCopy(d)
  BY <1>3, ReadCopyStep
<1>4. ASSUME NEW m \in inbox, WriteFind(d, m) PROVE IInv'
  BY <1>4, WriteFindPullsStep, WriteFindDropsStep
<1>5. ASSUME NEW m \in inbox, WriteIgnored(d, m) PROVE IInv'
  BY <1>5, WriteIgnoredStep
<1>6. CASE Pull(d)
  BY <1>6, PullStep
<1>7. CASE Answer(d)
  BY <1>7, AnswerDropsStep, AnswerWakesStep
<1>. QED BY <1>1, <1>2, <1>3, <1>4, <1>5, <1>6, <1>7 DEF Device

(* A step that changes nothing.                                            *)
LEMMA StutterStep ==
  ASSUME IInv, UNCHANGED vars
  PROVE  IInv'
<1>1. UNCHANGED <<dead, drain, closed, timeout_status, ticketer, deadticket_counter, alltickets,
                 freetickets, ms_head, aw_head, tk, pc, tick, req, mark, nreq, inbox, replies,
                 panicked>>
  BY DEF vars, session, pool, queues, work, locals, daemon
<1>2. TypeOK => TypeOK'
  BY <1>1 DEF TypeOK
<1>3. /\ Pcs /\ InHand /\ DeadIsClosed => Pcs' /\ InHand' /\ DeadIsClosed'
      /\ Numbered /\ Disjoint => Numbered' /\ Disjoint'
  BY <1>1 DEF Pcs, InHand, DeadIsClosed, Numbered, Disjoint, Holds
<1>4. Fresh => Fresh'
  BY <1>1 DEF Fresh, FreshTicket, Unsent, Invalid
<1>5. Carries /\ Aging /\ Sleeping => Carries' /\ Aging' /\ Sleeping'
  BY <1>1 DEF Carries, CarriesOwn, Aging, Abandoned, Sleeping, Asleep, Answered, Holds
<1>6. FreeOffQueues /\ RequesterTickets => FreeOffQueues' /\ RequesterTickets'
  BY <1>1
    DEF FreeOffQueues, OffQueues, DaemonHolds, Holds, RequesterTickets, RequesterTicket,
      Answered, Invalid
<1>7. WaitingTickets /\ UnreadTickets => WaitingTickets' /\ UnreadTickets'
  BY <1>1
    DEF WaitingTickets, WaitingTicket, UnreadTickets, UnreadTicket, DaemonHolds, RequesterHolds,
      Holds, Invalid
<1>8. DaemonTickets /\ ReadMessages => DaemonTickets' /\ ReadMessages'
  BY <1>1
    DEF DaemonTickets, DaemonTicket, ReadMessages, Owes, DaemonHolds, RequesterHolds, Holds,
      Invalid
<1>9. Owed /\ Minded /\ NoneLost => Owed' /\ Minded' /\ NoneLost'
  BY <1>1
    DEF Owed, OwedTicket, Minded, MindedTicket, NoneLost, Kept, Answered, DaemonHolds,
      RequesterHolds, Holds, Invalid
<1>. QED BY <1>1, <1>2, <1>3, <1>4, <1>5, <1>6, <1>7, <1>8, <1>9 DEF IInv, Base, Live

(* Every step of the system preserves the invariant.                       *)
LEMMA OwnershipStep ==
  ASSUME Orderly, IInv, [Next /\ Undisturbed]_vars
  PROVE  IInv'
<1>1. TypeInv
  BY DEF IInv, Base, TypeInv
<1>2. TypeOK' /\ InHand'
  BY <1>1, TypeStep DEF TypeInv
<1>3. CASE UNCHANGED vars
  BY <1>3, StutterStep
<1>4. ASSUME NEW r \in Requesters, Request(r) \/ Wakeup(r), Undisturbed
      PROVE  IInv'
  BY <1>2, <1>4, RequestStep, WakeupStep
<1>5. ASSUME NEW th \in Threads, Drop(th) PROVE IInv'
  BY <1>2, <1>5, DropStep
<1>6. ASSUME NEW d \in Daemons, Device(d) PROVE IInv'
  BY <1>2, <1>6, DeviceStep
<1>7. CASE Close
  BY <1>2, <1>7, CloseStep
<1>8. CASE Drain
  BY <1>2, <1>8, DrainStep
<1>9. ~Kill /\ ~SetDaemonDead
  BY DEF Orderly, Kill, SetDaemonDead
<1>. QED BY <1>3, <1>4, <1>5, <1>6, <1>7, <1>8, <1>9 DEF Next, Death

(* A calm behaviour is one of the channel.                                 *)
LEMMA CalmIsSpec == CalmSpec => Spec
<1>1. [Next /\ Undisturbed]_vars => [Next]_vars
  OBVIOUS
<1>. QED BY <1>1, PTL DEF CalmSpec, Spec

(* Every ticket of an orderly session is where its owner expects it.       *)
THEOREM Ownership == ASSUME Orderly PROVE CalmSpec => []IInv
<1>1. Init => IInv
  BY OwnershipInit
<1>2. IInv /\ [Next /\ Undisturbed]_vars => IInv'
  BY OwnershipStep
<1>. QED BY <1>1, <1>2, PTL DEF CalmSpec

-----------------------------------------------------------------------------
(* What follows from it.                                                   *)

(* fuse_insert_message never panics over a ticket "reused without being    *)
(* refreshed".                                                             *)
THEOREM NoPanic == ASSUME Orderly PROVE CalmSpec => []NoReuseUnrefreshed
<1>1. IInv => NoReuseUnrefreshed
  BY DEF IInv, NoReuseUnrefreshed
<1>. QED BY <1>1, Ownership, PTL

(* A ticket on the free list is on it once, exists and belongs to nobody;  *)
(* in a live session it is clean and on no other queue.                    *)
THEOREM FreeListIsSound == ASSUME Orderly PROVE CalmSpec => []FreeListSound
<1>1. ASSUME IInv PROVE FreeListSound
  <2>1. Disjoint /\ (dead \/ FreeOffQueues)
    BY <1>1 DEF IInv, Base, Live
  <2>. QED BY <2>1 DEF Disjoint, FreeOffQueues, OffQueues, FreeListSound
<1>. QED BY <1>1, Ownership, PTL

(* A requester whose caller reads an answer reads the answer to its own    *)
(* request.                                                                *)
THEOREM AnswersAreOwn == ASSUME Orderly PROVE CalmSpec => []OwnAnswer
<1>1. IInv => OwnAnswer
  BY DEF IInv, Base, Carries, CarriesOwn, OwnAnswer
<1>. QED BY <1>1, Ownership, PTL

(* A message the daemon has read and not answered names one ticket only,   *)
(* which still waits, and for the request the message was of.              *)
THEOREM UniquesAreReserved == ASSUME Orderly PROVE CalmSpec => []UniqueReserved
<1>1. ASSUME IInv, ~dead, NEW m \in inbox
      PROVE  \E t \in aw_head :
               /\ tk[t].ms = m.req
               /\ {u \in alltickets : tk[u].unique = m.unique} = {t}
  <2>1. Numbered /\ WaitingTickets /\ ReadMessages
    BY <1>1 DEF IInv, Base, Live
  <2>2. PICK t \in aw_head : tk[t].unique = m.unique /\ tk[t].ms = m.req
    BY <2>1 DEF ReadMessages, Owes
  <2>3. t \in alltickets
    BY <2>1 DEF WaitingTickets, WaitingTicket
  <2>4. {u \in alltickets : tk[u].unique = m.unique} = {t}
    BY <2>1, <2>2, <2>3 DEF Numbered
  <2>. QED BY <2>2, <2>4
<1>2. IInv => UniqueReserved
  BY <1>1 DEF UniqueReserved
<1>. QED BY <1>2, Ownership, PTL

(* No requester sleeps on a ticket that has been answered.                 *)
THEOREM WakeupsAreKept == ASSUME Orderly PROVE CalmSpec => []NoLostWakeup
<1>1. IInv => NoLostWakeup
  BY DEF IInv, Base, Sleeping, Asleep, NoLostWakeup
<1>. QED BY <1>1, Ownership, PTL

(* No ticket of a live session is lost.                                    *)
THEOREM NoTicketLeaks == ASSUME Orderly PROVE CalmSpec => []NoLeak
<1>1. ASSUME IInv PROVE NoLeak
  <2>1. dead \/ NoneLost
    BY <1>1 DEF IInv, Live
  <2>. QED BY <2>1 DEF NoneLost, Kept, RequesterHolds, DaemonHolds, Threads, NoLeak
<1>. QED BY <1>1, Ownership, PTL

-----------------------------------------------------------------------------
(* Giving up.                                                              *)

(* No other step takes a requester out of the look at aw_head.             *)
LEMMA OnlyDetach ==
  ASSUME TypeOK, [Next]_vars,
         NEW r \in Requesters, pc[r] = "detach", pc'[r] # "detach"
  PROVE  Detach(r)
<1>. SUFFICES ASSUME ~Detach(r) PROVE pc'[r] = pc[r]
  OBVIOUS
<1>1. r \in Threads /\ r \notin Daemons /\ pc \in [Threads -> RequesterPcs \cup DaemonPcs]
  BY DEF Threads, TypeOK
<1>2. ASSUME NEW s \in Requesters, Request(s) PROVE pc'[r] = pc[r]
  <2>1. CASE (\E k \in Kinds : Begin(s, k)) \/ FetchFree(s) \/ FetchNone(s) \/ FetchOverLimit(s)
    BY <1>1, <2>1 DEF Begin, FetchFree, FetchNone, FetchOverLimit, Goto
  <2>2. CASE AllocTicket(s) \/ MakeMessage(s) \/ MakeFails(s) \/ InsertCallback(s)
    BY <1>1, <2>2 DEF AllocTicket, MakeMessage, MakeFails, InsertCallback, Goto, Leave
  <2>3. CASE PushAw(s) \/ InsertMessage(s) \/ PushMs(s)
    BY <1>1, <2>3 DEF PushAw, InsertMessage, PushMs, Sent, Goto, Leave
  <2>. QED BY <1>2, <2>1, <2>2, <2>3 DEF Request
<1>3. ASSUME NEW s \in Requesters, Wakeup(s) PROVE pc'[r] = pc[r]
  <2>1. CASE Wait(s) \/ Interrupted(s) \/ Restarted(s)
    BY <1>1, <2>1 DEF Wait, Interrupted, Restarted, Goto
  <2>2. CASE Timeout(s) \/ Alert(s) \/ Eject(s)
    BY <1>1, <2>2 DEF Timeout, Alert, Eject, Goto
  <2>3. CASE Woken(s) \/ UseAnswer(s) \/ GiveUp(s)
    BY <1>1, <2>3 DEF Woken, UseAnswer, GiveUp, Goto
  <2>4. CASE Detach(s)
    BY <1>1, <2>4 DEF Detach, Leave, Goto
  <2>. QED BY <1>3, <2>1, <2>2, <2>3, <2>4 DEF Wakeup
<1>4. ASSUME NEW th \in Threads, Drop(th) PROVE pc'[r] = pc[r]
  BY <1>1, <1>4 DEF Drop, DropTicket, PushFree, Leave, Goto
<1>5. ASSUME NEW d \in Daemons, Device(d) PROVE pc'[r] = pc[r]
  <2>1. CASE ReadPop(d) \/ ReadCopy(d) \/ ReadShort(d) \/ Pull(d)
    BY <1>1, <2>1 DEF ReadPop, ReadCopy, ReadShort, Pull, DropInvalid, Leave, Goto
  <2>2. ASSUME NEW m \in inbox, WriteFind(d, m) \/ WriteIgnored(d, m) PROVE pc'[r] = pc[r]
    BY <1>1, <2>2 DEF WriteFind, WriteIgnored, Goto
  <2>3. CASE Answer(d)
    BY <1>1, <2>3 DEF Answer, Sleepers, Goto
  <2>. QED BY <1>5, <2>1, <2>2, <2>3 DEF Device
<1>6. CASE Death
  BY <1>1, <1>6 DEF Death, Close, Kill, Drain, SetDaemonDead, Sleepers
<1>7. CASE UNCHANGED vars
  BY <1>7 DEF vars
<1>. QED BY <1>2, <1>3, <1>4, <1>5, <1>6, <1>7 DEF Next

(* A requester that gives up disarms the handler of its own request only.  *)
THEOREM DisarmsOwn == ASSUME Orderly PROVE CalmSpec => DisarmsOwnRequest
<1>1. ASSUME IInv, [Next]_vars, NEW r \in Requesters,
             pc[r] = "detach", pc'[r] # "detach", tk' # tk,
             tick[r] \in alltickets
      PROVE  tk[tick[r]].ms = req[r].id
  <2>1. TypeOK /\ Aging
    BY <1>1 DEF IInv, Base
  <2>2. Detach(r)
    BY <1>1, <2>1, OnlyDetach
  <2>3. mark[r] = tk[tick[r]].age
    BY <1>1, <2>2 DEF Detach, Disarms
  <2>. QED BY <1>1, <2>1, <2>3 DEF Aging, Abandoned
<1>2. IInv /\ [Next]_vars =>
        [\A r \in Requesters :
           pc[r] = "detach" /\ pc'[r] # "detach" /\ tk' # tk /\ tick[r] \in alltickets
             => tk[tick[r]].ms = req[r].id]_vars
  BY <1>1
<1>. QED BY <1>2, Ownership, CalmIsSpec, PTL DEF Spec, DisarmsOwnRequest

-----------------------------------------------------------------------------
(* The channel implements FuseRequest.                                     *)

(* A requester is past Begin, and has neither an answer nor given up.      *)
Asking == RequesterPcs \ {"idle", "drop", "refresh", "use"}

(* No step of a requester, or one that FuseRequest does not see.           *)
Steady(s) ==
  /\ req'[s] = req[s]
  /\ pc'[s] = pc[s] \/ (pc[s] = "sleep" /\ pc'[s] = "woken")

(* A requester goes on with its request, or returns.                       *)
GoesOn(r) ==
  /\ pc[r] \in Asking /\ pc'[r] \in Asking
  /\ pc'[r] \in NotSent => pc[r] \in NotSent

Goes(r) ==
  /\ pc[r] # "idle"
  /\ \/ pc'[r] = "idle" /\ req'[r] = NoRequest
     \/ /\ req'[r] = req[r]
        /\ \/ GoesOn(r)
           \/ pc[r] = "woken" /\ pc'[r] = "use"
           \/ pc'[r] = "drop"
           \/ pc[r] = "drop" /\ pc'[r] = "refresh"

(* Nothing is asked, put on aw_head or answered.                           *)
Quiet ==
  /\ nreq' = nreq /\ replies' = replies
  /\ dead => dead'
  /\ aw_head' \subseteq aw_head
  /\ \A t \in Tickets : tk'[t].resp \in {tk[t].resp, 0}
  /\ ~dead => \A t \in aw_head : tk'[t].ms = tk[t].ms

(* No requester but r, or none at all, makes a move.                       *)
OthersSteady(r) == \A s \in Requesters \ {r} : Steady(s)
AllSteady == \A s \in Requesters : Steady(s)

(* Such a step leaves what is known of requests and answers as it was.     *)
LEMMA QuietKeeps ==
  ASSUME TypeOK, RInv, Quiet, \A s \in Requesters : Steady(s) \/ Goes(s)
  PROVE  RInv'
<1>1. OwnRequests'
  <2>1. ASSUME NEW r \in Requesters
        PROVE  /\ pc'[r] = "idle" => req'[r].id = 0
               /\ pc'[r] # "idle" => pc[r] # "idle" /\ req'[r] = req[r]
    <3>1. CASE Steady(r)
      BY <3>1 DEF RInv, OwnRequests, Steady
    <3>2. CASE Goes(r)
      <4>1. NoRequest.id = 0
        BY DEF NoRequest
      <4>. QED BY <3>2, <4>1 DEF Goes, GoesOn, Asking
    <3>. QED BY <3>1, <3>2
  <2>2. \A r \in Requesters :
          IF pc'[r] = "idle" THEN req'[r].id = 0 ELSE req'[r].id \in 1..nreq'
    BY <2>1 DEF RInv, OwnRequests, Quiet
  <2>3. ASSUME NEW r \in Requesters, NEW s \in Requesters, pc'[r] # "idle",
               pc'[s] # "idle",
               req'[r].id = req'[s].id
        PROVE  r = s
    BY <2>1, <2>3 DEF RInv, OwnRequests
  <2>. QED BY <2>2, <2>3 DEF OwnRequests
<1>2. GivenAnswers'
  BY DEF RInv, GivenAnswers, Quiet
<1>3. ASSUME ~dead' PROVE AskedOnce'
  <2>1. AskedOnce /\ ~dead /\ aw_head \subseteq Tickets
    BY <1>3 DEF RInv, Quiet, TypeOK
  <2>2. ASSUME NEW r \in Requesters, Early(r)'
        PROVE Early(r) /\ req'[r] = req[r]
    BY <2>2 DEF Early, NotSent, Steady, Goes, GoesOn
  <2>3. \A t \in aw_head' : t \in aw_head /\ tk'[t].ms = tk[t].ms
    BY <2>1 DEF Quiet
  <2>. QED BY <2>1, <2>2, <2>3 DEF AskedOnce, Quiet
<1>. QED BY <1>1, <1>2, <1>3 DEF RInv

(* The requests the requesters wait for, and those whose answers they read.*)
Waited ==
  [r \in Requesters |->
     IF pc[r] \in {"idle", "drop", "refresh"} THEN 0 ELSE req[r].id]
Read == [r \in Requesters |-> IF pc[r] = "use" THEN req[r].id ELSE 0]

OwnRead == /\ AbstractAsked = Waited /\ AbstractAsked' = Waited'
           /\ AbstractGot = Read /\ AbstractGot' = Read'

(* The request whose answer a requester reads is its own, before and after *)
(* a step.                                                                 *)
LEMMA GotIsOwn == ASSUME IInv, IInv' PROVE OwnRead
<1>1. \A r \in Requesters : pc[r] = "use" => tk[tick[r]].resp = req[r].id
  BY DEF IInv, Base, Carries, CarriesOwn
<1>2. \A r \in Requesters : pc'[r] = "use" => tk'[tick'[r]].resp = req'[r].id
  BY DEF IInv, Base, Carries, CarriesOwn
<1>. QED BY <1>1, <1>2
  DEF OwnRead, Waited, Read, AbstractAsked, AbstractGot, AbstractPhase

(* A step of FuseRequest, or one it does not see.                          *)
AbstractStep == [Abstract!Next]_Abstract!vars

(* A quiet step in which no requester moves is one FuseRequest does not see.*)
LEMMA SteadyImplements ==
  ASSUME IInv, IInv', Quiet, AllSteady
  PROVE  AbstractStep
<1>1. AbstractPhase' = AbstractPhase
  BY DEF AbstractPhase, AllSteady, Steady
<1>2. OwnRead
  BY GotIsOwn
<1>3. Waited' = Waited /\ Read' = Read
  BY DEF AllSteady, Steady, Waited, Read
<1>. QED BY <1>1, <1>2, <1>3 DEF OwnRead, AbstractStep, Abstract!vars, Quiet

(* A quiet step in which one requester moves is Serve, Return or one       *)
(* FuseRequest does not see.                                               *)
LEMMA GoesImplements ==
  ASSUME IInv, IInv', RInv, Quiet, NEW r \in Requesters,
         Goes(r), OthersSteady(r)
  PROVE  AbstractStep
<1>1. OwnRead
  BY GotIsOwn
<1>2. \A s \in Requesters \ {r} :
        /\ AbstractPhase'[s] = AbstractPhase[s]
        /\ AbstractAsked'[s] = AbstractAsked[s]
        /\ AbstractGot'[s] = AbstractGot[s]
  BY <1>1 DEF OwnRead, Waited, Read, OthersSteady, Steady, AbstractPhase
<1>3. /\ AbstractPhase = [s \in Requesters |-> AbstractPhase[s]]
      /\ AbstractPhase' = [s \in Requesters |-> AbstractPhase'[s]]
      /\ AbstractAsked = [s \in Requesters |-> AbstractAsked[s]]
      /\ AbstractAsked' = [s \in Requesters |-> AbstractAsked'[s]]
      /\ AbstractGot = [s \in Requesters |-> AbstractGot[s]]
      /\ AbstractGot' = [s \in Requesters |-> AbstractGot'[s]]
  BY <1>1 DEF OwnRead, Waited, Read, AbstractPhase
<1>4. replies' = replies /\ nreq' = nreq
  BY DEF Quiet
<1>5. CASE AbstractPhase'[r] = AbstractPhase[r]
           /\ AbstractAsked'[r] = AbstractAsked[r]
           /\ AbstractGot'[r] = AbstractGot[r]
  <2>1. AbstractPhase' = AbstractPhase /\ AbstractAsked' = AbstractAsked
        /\ AbstractGot' = AbstractGot
    BY <1>2, <1>3, <1>5
  <2>. QED BY <1>4, <2>1 DEF AbstractStep, Abstract!vars
<1>6. CASE AbstractPhase[r] # "idle" /\ AbstractPhase'[r] = "idle"
  <2>1. AbstractAsked'[r] = 0 /\ AbstractGot'[r] = 0
    BY <1>1, <1>6 DEF OwnRead, Waited, Read, AbstractPhase
  <2>2. Abstract!Return(r)
    BY <1>2, <1>3, <1>4, <1>6, <2>1 DEF Abstract!Return
  <2>. QED BY <2>2 DEF AbstractStep, Abstract!Next
<1>7. CASE pc[r] = "woken" /\ pc'[r] = "use" /\ req'[r] = req[r]
  <2>1. /\ AbstractPhase[r] = "asking" /\ AbstractPhase'[r] = "served"
        /\ AbstractAsked[r] = req[r].id /\ AbstractAsked'[r] = req[r].id
        /\ AbstractGot'[r] = req[r].id
    BY <1>1, <1>7 DEF OwnRead, Waited, Read, AbstractPhase
  <2>2. req[r].id \in replies
    <3>1. r \in Threads /\ tick' \in [Threads -> Tickets \cup {NoTicket}]
          /\ tick'[r] \in Tickets
      BY <1>7 DEF IInv, Base, TypeOK, InHand, Threads
    <3>2. tk'[tick'[r]].resp = req[r].id
      BY <1>7 DEF IInv, Base, Carries, CarriesOwn
    <3>3. tk'[tick'[r]].resp \in {tk[tick'[r]].resp, 0}
      BY <3>1 DEF Quiet
    <3>4. tk[tick'[r]].resp \in replies \cup {0}
      BY <3>1 DEF RInv, GivenAnswers
    <3>5. req[r].id # 0
      BY <1>7 DEF RInv, OwnRequests
    <3>. QED BY <1>7, <3>2, <3>3, <3>4, <3>5
  <2>3. Abstract!Serve(r)
    BY <1>2, <1>3, <1>4, <2>1, <2>2 DEF Abstract!Serve
  <2>. QED BY <2>3 DEF AbstractStep, Abstract!Next
<1>8. \/ AbstractPhase'[r] = "idle"
      \/ pc[r] = "woken" /\ pc'[r] = "use" /\ req'[r] = req[r]
      \/ /\ AbstractPhase'[r] = AbstractPhase[r]
         /\ AbstractAsked'[r] = AbstractAsked[r]
         /\ AbstractGot'[r] = AbstractGot[r]
  <2>1. CASE pc'[r] \in {"idle", "drop", "refresh"}
    BY <2>1 DEF AbstractPhase
  <2>2. CASE GoesOn(r) /\ req'[r] = req[r]
    <3>1. /\ pc[r] \notin {"idle", "drop", "refresh", "use"}
          /\ pc'[r] \notin {"idle", "drop", "refresh", "use"}
      BY <2>2 DEF GoesOn, Asking
    <3>2. pc[r] # "use" /\ pc'[r] # "use" /\ req'[r] = req[r]
      BY <2>2, <3>1
    <3>3. AbstractPhase[r] = "asking"
      BY <3>1 DEF AbstractPhase
    <3>4. AbstractPhase'[r] = "asking"
      BY <3>1 DEF AbstractPhase
    <3>5. AbstractAsked[r] = req[r].id /\ AbstractGot[r] = 0
      BY <1>1, <3>1 DEF OwnRead, Waited, Read
    <3>6. AbstractAsked'[r] = req'[r].id /\ AbstractGot'[r] = 0
      BY <1>1, <3>1 DEF OwnRead, Waited, Read
    <3>. QED BY <3>2, <3>3, <3>4, <3>5, <3>6
  <2>. QED BY <2>1, <2>2 DEF Goes
<1>9. AbstractPhase'[r] = "idle" /\ AbstractPhase[r] = "idle" =>
         /\ AbstractAsked'[r] = AbstractAsked[r]
         /\ AbstractGot'[r] = AbstractGot[r]
  BY <1>1 DEF OwnRead, Waited, Read, AbstractPhase
<1>. QED BY <1>5, <1>6, <1>7, <1>8, <1>9

-----------------------------------------------------------------------------
(* The quiet steps.                                                        *)

(* What Quiet says of tickets.                                             *)
KeepsTickets ==
  /\ \A t \in Tickets : tk'[t].resp \in {tk[t].resp, 0}
  /\ ~dead => \A t \in aw_head : tk'[t].ms = tk[t].ms

(* A step that changes one ticket and neither its request, if it waits, nor*)
(* the answer in it ...                                                    *)
LEMMA OneTicket ==
  ASSUME TypeOK, NEW t \in Tickets, NEW k, tk' = [tk EXCEPT ![t] = k],
         k.resp \in {tk[t].resp, 0}, dead \/ t \notin aw_head
         \/ k.ms = tk[t].ms
  PROVE  KeepsTickets
<1>1. tk \in [Tickets -> Ticket] /\ aw_head \subseteq Tickets
  BY DEF TypeOK
<1>. QED BY <1>1 DEF KeepsTickets

(* ... or none.                                                            *)
LEMMA NoTicketMoves == ASSUME tk' = tk PROVE KeepsTickets
BY DEF KeepsTickets

(* A new ticket holds no answer.                                           *)
LEMMA NewResp == \A n : NewTicket(n).resp = 0
BY DEF NewTicket

(* A thread that leaves is the only requester to move ...                  *)
LEMMA LeaveSteady ==
  ASSUME TypeOK, NEW th \in Threads, Leave(th)
  PROVE  /\ \A s \in Requesters \ {th} : Steady(s)
         /\ th \in Requesters => pc'[th] = "idle" /\ req'[th] = NoRequest
<1>1. Requesters \subseteq Threads
      /\ pc \in [Threads -> RequesterPcs \cup DaemonPcs]
  BY DEF TypeOK, Threads
<1>. QED BY <1>1 DEF Leave, Goto, Steady

(* ... and so is one that goes elsewhere.                                  *)
LEMMA GotoSteady ==
  ASSUME TypeOK, NEW th \in Threads, NEW to, Goto(th, to), req' = req
  PROVE  /\ \A s \in Requesters \ {th} : Steady(s)
         /\ th \in Requesters => pc'[th] = to /\ req'[th] = req[th]
<1>1. Requesters \subseteq Threads
      /\ pc \in [Threads -> RequesterPcs \cup DaemonPcs]
  BY DEF TypeOK, Threads
<1>. QED BY <1>1 DEF Goto, Steady

Asks(r) == \E k \in Kinds : Begin(r, k)

(* Building and sending a request is quiet, but for its beginning and the  *)
(* push on aw_head.                                                        *)
LEMMA RequestQuiet ==
  ASSUME IInv, NEW r \in Requesters, Request(r), ~Asks(r), ~PushAw(r)
  PROVE  Quiet /\ Goes(r) /\ OthersSteady(r)
<1>1. /\ TypeOK /\ Base /\ (dead \/ Live) /\ r \in Threads
      /\ tk \in [Tickets -> Ticket] /\ aw_head \subseteq Tickets
      /\ req[r] \in [id : 0..MaxRequests, kind : AllKinds]
      /\ ~dead => aw_head \subseteq alltickets
  BY DEF IInv, TypeOK, Threads, Live, WaitingTickets, WaitingTicket
<1>2. pc[r] \in {"make", "callback", "push_aw", "message", "push_ms"} =>
        /\ tick[r] \in Tickets
        /\ pc[r] = "make" => dead \/ tick[r] \notin aw_head
  BY <1>1
  DEF Base, InHand, Live, RequesterTickets, RequesterTicket, Building,
      OffQueues
<1>3. CASE FetchFree(r)
  <2>1. KeepsTickets /\ OthersSteady(r) /\ pc[r] = "fetch" /\ req'[r] = req[r]
        /\ pc'[r] \in {"overlimit", "make"}
    BY <1>1, <1>3, GotoSteady, NoTicketMoves DEF FetchFree, OthersSteady
  <2>2. UNCHANGED <<nreq, replies, dead, aw_head>>
    BY <1>3 DEF FetchFree, session, queues, locals, daemon
  <2>. QED BY <2>1, <2>2
    DEF Quiet, KeepsTickets, Goes, GoesOn, Asking, NotSent, RequesterPcs
<1>4. CASE FetchNone(r)
  <2>1. KeepsTickets /\ OthersSteady(r) /\ pc[r] = "fetch" /\ req'[r] = req[r]
        /\ pc'[r] = "alloc"
    BY <1>1, <1>4, GotoSteady, NoTicketMoves DEF FetchNone, OthersSteady, work
  <2>2. UNCHANGED <<nreq, replies, dead, aw_head>>
    BY <1>4 DEF FetchNone, session, queues, daemon
  <2>. QED BY <2>1, <2>2
    DEF Quiet, KeepsTickets, Goes, GoesOn, Asking, NotSent, RequesterPcs
<1>5. CASE AllocTicket(r)
  <2>. DEFINE n == IF RacyTicketer THEN mark[r] ELSE ticketer
  <2>1. PICK t \in Tickets :
          /\ t \notin alltickets /\ tk' = [tk EXCEPT ![t] = NewTicket(n)]
          /\ \E to \in {"overlimit", "make"} : Goto(r, to)
    BY <1>5 DEF AllocTicket, Unallocated
  <2>. HIDE DEF n
  <2>2. KeepsTickets
    BY <1>1, <2>1, OneTicket, NewResp
  <2>3. OthersSteady(r) /\ pc[r] = "alloc" /\ req'[r] = req[r]
        /\ pc'[r] \in {"overlimit", "make"}
    BY <1>1, <1>5, <2>1, GotoSteady DEF AllocTicket, OthersSteady
  <2>4. UNCHANGED <<nreq, replies, dead, aw_head>>
    BY <1>5 DEF AllocTicket, session, queues, locals, daemon
  <2>. QED BY <2>2, <2>3, <2>4
    DEF Quiet, KeepsTickets, Goes, GoesOn, Asking, NotSent, RequesterPcs
<1>6. CASE MakeMessage(r)
  <2>1. KeepsTickets
    BY <1>1, <1>2, <1>6, FilledFacts, OneTicket DEF MakeMessage
  <2>2. OthersSteady(r) /\ pc[r] = "make" /\ req'[r] = req[r]
        /\ pc'[r] \in {"message", "callback"}
    BY <1>1, <1>6, GotoSteady DEF MakeMessage, OthersSteady, work
  <2>3. UNCHANGED <<nreq, replies, dead, aw_head>>
    BY <1>6 DEF MakeMessage, session, queues, locals, daemon
  <2>. QED BY <2>1, <2>2, <2>3
    DEF Quiet, KeepsTickets, Goes, GoesOn, Asking, NotSent, RequesterPcs
<1>7. CASE MakeFails(r)
  <2>1. KeepsTickets
    BY <1>1, <1>2, <1>7, NewResp, OneTicket DEF MakeFails, Destroy
  <2>2. OthersSteady(r) /\ pc[r] = "make" /\ req'[r] = NoRequest
        /\ pc'[r] = "idle"
    BY <1>1, <1>7, LeaveSteady DEF MakeFails, OthersSteady
  <2>3. UNCHANGED <<nreq, replies, dead, aw_head>>
    BY <1>7 DEF MakeFails, session, queues, locals, daemon
  <2>. QED BY <2>1, <2>2, <2>3 DEF Quiet, KeepsTickets, Goes
<1>8. CASE InsertCallback(r)
  <2>1. KeepsTickets
    <3>1. CASE tk' = tk
      BY <3>1, NoTicketMoves
    <3>2. CASE tk' # tk
      <4>1. PICK h \in {"none", "standard", "callback"} :
               tk' = [tk EXCEPT ![tick[r]] = WithHandler(@, h)]
        BY <1>8, <3>2 DEF InsertCallback
      <4>2. tick[r] \in Tickets
        BY <1>2, <1>8 DEF InsertCallback
      <4>3. tk[tick[r]] \in Ticket
        BY <1>1, <4>2
      <4>4. /\ WithHandler(tk[tick[r]], h).ms = tk[tick[r]].ms
            /\ WithHandler(tk[tick[r]], h).resp = tk[tick[r]].resp
        BY <4>3, HandlerFacts
      <4>. QED BY <1>1, <4>1, <4>2, <4>4, OneTicket
    <3>. QED BY <3>1, <3>2
  <2>2. OthersSteady(r) /\ pc[r] = "callback" /\ req'[r] = req[r]
        /\ pc'[r] \in {"message", "push_aw"}
    BY <1>1, <1>8, GotoSteady DEF InsertCallback, OthersSteady, work
  <2>3. UNCHANGED <<nreq, replies, dead, aw_head>>
    BY <1>8 DEF InsertCallback, session, queues, locals, daemon
  <2>. QED BY <2>1, <2>2, <2>3
    DEF Quiet, KeepsTickets, Goes, GoesOn, Asking, NotSent, RequesterPcs
<1>9. CASE InsertMessage(r)
  <2>1. KeepsTickets
    BY <1>1, <1>2, <1>9, FlagFacts, OneTicket DEF InsertMessage, Flags
  <2>2. \/ Leave(r)
        \/ req' = req /\ \E to \in {"wait", "push_ms"} : Goto(r, to)
    BY <1>9 DEF InsertMessage, Sent, work
  <2>3. OthersSteady(r) /\ pc[r] = "message"
        /\ \/ req'[r] = NoRequest /\ pc'[r] = "idle"
           \/ req'[r] = req[r] /\ pc'[r] \in {"wait", "push_ms"}
    BY <1>1, <1>9, <2>2, GotoSteady, LeaveSteady
    DEF InsertMessage, OthersSteady
  <2>4. UNCHANGED <<nreq, replies, dead, aw_head>>
    BY <1>9 DEF InsertMessage, session, queues, locals, daemon
  <2>. QED BY <2>1, <2>3, <2>4
    DEF Quiet, KeepsTickets, Goes, GoesOn, Asking, NotSent, RequesterPcs
<1>10. CASE PushMs(r)
  <2>1. KeepsTickets
    BY <1>10, NoTicketMoves DEF PushMs
  <2>2. \/ Leave(r)
        \/ req' = req /\ Goto(r, "wait")
    BY <1>10 DEF PushMs, Sent, work
  <2>3. OthersSteady(r) /\ pc[r] = "push_ms"
        /\ \/ req'[r] = NoRequest /\ pc'[r] = "idle"
           \/ req'[r] = req[r] /\ pc'[r] = "wait"
    BY <1>1, <1>10, <2>2, GotoSteady, LeaveSteady DEF PushMs, OthersSteady
  <2>4. UNCHANGED <<nreq, replies, dead, aw_head>>
    BY <1>10 DEF PushMs, session, locals, daemon
  <2>. QED BY <2>1, <2>3, <2>4
    DEF Quiet, KeepsTickets, Goes, GoesOn, Asking, NotSent, RequesterPcs
<1>11. ~FetchOverLimit(r)
  BY <1>1 DEF Base, Pcs, FetchOverLimit, Building, Sending, Waiting, Leaving
<1>. QED BY <1>3, <1>4, <1>5, <1>6, <1>7, <1>8, <1>9, <1>10, <1>11
  DEF Request, Asks

(* So are waiting and what follows it ...                                  *)
LEMMA WakeupQuiet ==
  ASSUME Orderly, IInv, NEW r \in Requesters, Wakeup(r)
  PROVE  Quiet /\ Goes(r) /\ OthersSteady(r)
<1>1. /\ TypeOK /\ Base /\ (dead \/ Live) /\ r \in Threads
      /\ tk \in [Tickets -> Ticket] /\ aw_head \subseteq Tickets
      /\ ~dead => aw_head \subseteq alltickets
      /\ freetickets \in Seq(Tickets) /\ ticketer \in Nat
  BY DEF IInv, TypeOK, Threads, Live, WaitingTickets, WaitingTicket
<1>2. pc[r] \in {"wait", "sleep", "woken", "use", "post", "detach"}
      => tick[r] \in Tickets
  BY <1>1 DEF Base, InHand
<1>3. CASE Wait(r)
  <2>1. KeepsTickets
    BY <1>1, <1>2, <1>3, FlagFacts, OneTicket, NoTicketMoves DEF Wait, Flags
  <2>2. OthersSteady(r) /\ pc[r] = "wait" /\ req'[r] = req[r]
        /\ pc'[r] \in {"woken", "post", "sleep"}
    BY <1>1, <1>3, GotoSteady DEF Wait, OthersSteady, work
  <2>3. UNCHANGED <<nreq, replies, dead, aw_head>>
    BY <1>3 DEF Wait, session, queues, locals, daemon
  <2>. QED BY <2>1, <2>2, <2>3
    DEF Quiet, KeepsTickets, Goes, GoesOn, Asking, NotSent, RequesterPcs
<1>4. CASE Interrupted(r)
  <2>1. PICK t \in Tickets :
          \/ tk' = [tk EXCEPT ![t] = SetFlag(SetFlag(@, "INVAL"), "DIRTY")]
          \/ t \notin alltickets /\ tk' = [tk EXCEPT ![t] =
                          SetFlag(SetFlag(NewTicket(ticketer), "INVAL"),
                          "DIRTY")]
    BY <1>4 DEF Interrupted, Unallocated
  <2>2. KeepsTickets
    <3>1. \A k \in Ticket : LET l == SetFlag(SetFlag(k, "INVAL"), "DIRTY")
                            IN  l.ms = k.ms /\ l.resp = k.resp
      BY FlagFacts DEF Flags
    <3>2. NewTicket(ticketer) \in Ticket
      BY <1>1, NewFacts
    <3>3. PICK k \in Ticket :
            /\ tk' = [tk EXCEPT ![t] = SetFlag(SetFlag(k, "INVAL"), "DIRTY")]
            /\ k.resp \in {tk[t].resp, 0}
            /\ k.ms = tk[t].ms \/ t \notin alltickets
      <4>1. tk[t] \in Ticket
        BY <1>1
      <4>. QED BY <2>1, <3>2, <4>1, NewResp
    <3>. QED BY <1>1, <3>1, <3>3, OneTicket
  <2>3. OthersSteady(r) /\ pc[r] = "sleep" /\ req'[r] = req[r]
        /\ pc'[r] = "post"
    BY <1>1, <1>4, GotoSteady DEF Interrupted, OthersSteady, work
  <2>4. nreq' = nreq /\ replies' = replies /\ (dead => dead')
        /\ aw_head' = aw_head
    BY <1>4 DEF Interrupted, locals, daemon
  <2>. QED BY <2>2, <2>3, <2>4
    DEF Quiet, KeepsTickets, Goes, GoesOn, Asking, NotSent, RequesterPcs
<1>5. CASE Restarted(r)
  <2>1. KeepsTickets /\ OthersSteady(r) /\ pc[r] = "sleep" /\ req'[r] = req[r]
        /\ pc'[r] = "post"
    BY <1>1, <1>5, GotoSteady, NoTicketMoves DEF Restarted, OthersSteady, work
  <2>2. UNCHANGED <<nreq, replies, dead, aw_head>>
    BY <1>5 DEF Restarted, session, queues, locals, daemon
  <2>. QED BY <2>1, <2>2
    DEF Quiet, KeepsTickets, Goes, GoesOn, Asking, NotSent, RequesterPcs
<1>6. CASE Woken(r)
  <2>1. KeepsTickets /\ OthersSteady(r) /\ pc[r] = "woken" /\ req'[r] = req[r]
        /\ pc'[r] \in {"post", "drop", "use"}
    BY <1>1, <1>6, GotoSteady, NoTicketMoves DEF Woken, OthersSteady, work
  <2>2. UNCHANGED <<nreq, replies, dead, aw_head>>
    BY <1>6 DEF Woken, session, queues, locals, daemon
  <2>. QED BY <2>1, <2>2
    DEF Quiet, KeepsTickets, Goes, GoesOn, Asking, NotSent, RequesterPcs
<1>7. CASE UseAnswer(r)
  <2>1. KeepsTickets /\ OthersSteady(r) /\ pc[r] = "use" /\ req'[r] = req[r]
        /\ pc'[r] = "drop"
    BY <1>1, <1>7, GotoSteady, NoTicketMoves DEF UseAnswer, OthersSteady, work
  <2>2. UNCHANGED <<nreq, replies, dead, aw_head>>
    BY <1>7 DEF UseAnswer, session, queues, locals, daemon
  <2>. QED BY <2>1, <2>2 DEF Quiet, KeepsTickets, Goes
<1>8. CASE GiveUp(r)
  <2>1. KeepsTickets
    BY <1>1, <1>2, <1>8, FlagFacts, OneTicket, NoTicketMoves DEF GiveUp, Flags
  <2>2. OthersSteady(r) /\ pc[r] = "post" /\ req'[r] = req[r]
        /\ pc'[r] \in {"drop", "detach"}
    BY <1>1, <1>8, GotoSteady DEF GiveUp, OthersSteady, work
  <2>3. UNCHANGED <<nreq, replies, dead, aw_head>>
    BY <1>8 DEF GiveUp, session, queues, locals, daemon
  <2>. QED BY <2>1, <2>2, <2>3
    DEF Quiet, KeepsTickets, Goes, GoesOn, Asking, NotSent, RequesterPcs
<1>9. CASE Detach(r)
  <2>1. KeepsTickets
    BY <1>1, <1>2, <1>9, HandlerFacts, OneTicket, NoTicketMoves DEF Detach
  <2>2. OthersSteady(r) /\ pc[r] = "detach" /\ req'[r] = NoRequest
        /\ pc'[r] = "idle"
    BY <1>1, <1>9, LeaveSteady DEF Detach, OthersSteady
  <2>3. UNCHANGED <<nreq, replies, dead, aw_head>>
    BY <1>9 DEF Detach, session, queues, locals, daemon
  <2>. QED BY <2>1, <2>2, <2>3 DEF Quiet, KeepsTickets, Goes
<1>10. ~Timeout(r)
  BY DEF Orderly, Timeout
<1>11. ~Alert(r) /\ ~Eject(r)
  BY <1>1 DEF Base, Pcs, Alert, Eject, Building, Sending, Waiting, Leaving
<1>. QED BY <1>3, <1>4, <1>5, <1>6, <1>7, <1>8, <1>9, <1>10, <1>11 DEF Wakeup

(* ... dropping a ticket ...                                               *)
LEMMA DropQuiet ==
  ASSUME IInv, NEW th \in Threads, Drop(th)
  PROVE  Quiet /\ (th \in Requesters => Goes(th)) /\ OthersSteady(th)
<1>1. /\ TypeOK /\ Base /\ (dead \/ Live)
      /\ tk \in [Tickets -> Ticket] /\ aw_head \subseteq Tickets
  BY DEF IInv, TypeOK
<1>2. /\ tick[th] \in Tickets
      /\ dead \/ tick[th] \notin aw_head
  BY <1>1
  DEF Drop, DropTicket, PushFree, Base, InHand, Live, RequesterTickets,
      RequesterTicket,
       Leaving, OffQueues, DaemonTickets, DaemonTicket, Threads
<1>3. CASE DropTicket(th)
  <2>1. KeepsTickets
    BY <1>1, <1>2, <1>3, NewResp, OneTicket, NoTicketMoves
    DEF DropTicket, Destroy
  <2>2. pc[th] = "drop" /\ (Leave(th) \/ (Goto(th, "refresh") /\ req' = req))
    BY <1>3 DEF DropTicket, work
  <2>3. /\ OthersSteady(th)
        /\ th \in Requesters => \/ req'[th] = NoRequest /\ pc'[th] = "idle"
                                \/ req'[th] = req[th] /\ pc'[th] = "refresh"
    BY <1>1, <2>2, GotoSteady, LeaveSteady DEF OthersSteady
  <2>4. UNCHANGED <<nreq, replies, dead, aw_head>>
    BY <1>3 DEF DropTicket, session, queues, locals, daemon
  <2>. QED BY <2>1, <2>2, <2>3, <2>4 DEF Quiet, KeepsTickets, Goes
<1>4. CASE PushFree(th)
  <2>1. KeepsTickets
    <3>1. Refreshed(tk[tick[th]]).resp = 0
      BY DEF Refreshed, NewTicket
    <3>. QED BY <1>1, <1>2, <1>4, <3>1, OneTicket DEF PushFree
  <2>2. /\ OthersSteady(th) /\ pc[th] = "refresh"
        /\ th \in Requesters => req'[th] = NoRequest /\ pc'[th] = "idle"
    BY <1>1, <1>4, LeaveSteady DEF PushFree, OthersSteady
  <2>3. UNCHANGED <<nreq, replies, dead, aw_head>>
    BY <1>4 DEF PushFree, session, queues, locals, daemon
  <2>. QED BY <2>1, <2>2, <2>3 DEF Quiet, KeepsTickets, Goes
<1>. QED BY <1>3, <1>4 DEF Drop

Writes(d) == \E m \in inbox : WriteFind(d, m) \/ WriteIgnored(d, m)

(* ... what a daemon thread does, except when it answers ...               *)
LEMMA DeviceQuiet ==
  ASSUME Orderly, IInv, NEW d \in Daemons, Device(d), ~Writes(d)
  PROVE  Quiet /\ AllSteady
<1>1. /\ TypeOK /\ Base /\ d \in Threads /\ d \notin Requesters
      /\ tk \in [Tickets -> Ticket] /\ aw_head \subseteq Tickets
      /\ Requesters \subseteq Threads
      /\ pc \in [Threads -> RequesterPcs \cup DaemonPcs]
  BY DEF IInv, TypeOK, Threads
<1>2. pc[d] \in {"copy", "pull", "answer", "answer_error"}
      => tick[d] \in Tickets
  BY <1>1 DEF Base, InHand
<1>3. CASE ReadPop(d)
  <2>1. KeepsTickets /\ AllSteady
    BY <1>1, <1>3, GotoSteady, NoTicketMoves DEF ReadPop, AllSteady
  <2>2. UNCHANGED <<nreq, replies, dead, aw_head>>
    BY <1>3 DEF ReadPop, session, locals, daemon
  <2>. QED BY <2>1, <2>2 DEF Quiet, KeepsTickets
<1>4. CASE ReadCopy(d)
  <2>1. Leave(d) \/ (Goto(d, "drop") /\ req' = req)
    BY <1>4 DEF ReadCopy, DropInvalid, work
  <2>2. KeepsTickets /\ AllSteady
    BY <1>1, <1>4, <2>1, GotoSteady, LeaveSteady, NoTicketMoves
    DEF ReadCopy, AllSteady
  <2>3. UNCHANGED <<nreq, replies, dead, aw_head>>
    BY <1>4 DEF ReadCopy, session, queues, locals
  <2>. QED BY <2>2, <2>3 DEF Quiet, KeepsTickets
<1>5. CASE Pull(d)
  <2>1. KeepsTickets
    BY <1>1, <1>2, <1>5, FlagFacts, OneTicket, NoTicketMoves DEF Pull, Flags
  <2>2. AllSteady
    BY <1>1, <1>5, GotoSteady DEF Pull, AllSteady, work
  <2>3. UNCHANGED <<nreq, replies, dead, aw_head>>
    BY <1>5 DEF Pull, session, queues, locals, daemon
  <2>. QED BY <2>1, <2>2, <2>3 DEF Quiet, KeepsTickets
<1>6. CASE Answer(d)
  <2>1. KeepsTickets
    <3>1. PICK e \in BOOLEAN :
            tk' = tk \/ tk' = [tk EXCEPT ![tick[d]] = Settled(@, e)]
      BY <1>6 DEF Answer
    <3>2. tick[d] \in Tickets /\ tk[tick[d]] \in Ticket
      BY <1>1, <1>2, <1>6 DEF Answer
    <3>3. /\ Settled(tk[tick[d]], e).ms = tk[tick[d]].ms
          /\ Settled(tk[tick[d]], e).resp = tk[tick[d]].resp
      BY <3>2, SettledFacts
    <3>. QED BY <1>1, <3>1, <3>2, <3>3, OneTicket, NoTicketMoves
  <2>2. AllSteady
    <3>1. CASE Goto(d, "drop") /\ UNCHANGED work
      BY <1>1, <3>1, GotoSteady DEF AllSteady, work
    <3>2. CASE /\ pc' = [th \in Threads |->
                          IF th \in Sleepers(tick[d]) THEN "woken"
                          ELSE IF th = d THEN "idle" ELSE pc[th]]
               /\ UNCHANGED req
      BY <1>1, <3>2 DEF AllSteady, Steady, Sleepers
    <3>. QED BY <1>6, <3>1, <3>2 DEF Answer
  <2>3. UNCHANGED <<nreq, replies, dead, aw_head>>
    BY <1>6 DEF Answer, session, queues, locals, daemon
  <2>. QED BY <2>1, <2>2, <2>3 DEF Quiet, KeepsTickets
<1>7. ~ReadShort(d)
  BY DEF Orderly, ReadShort
<1>. QED BY <1>3, <1>4, <1>5, <1>6, <1>7 DEF Device, Writes

(* ... and the closing of the device.                                      *)
LEMMA DeathQuiet ==
  ASSUME Orderly, IInv, Death
  PROVE  Quiet /\ AllSteady
<1>1. /\ TypeOK /\ tk \in [Tickets -> Ticket] /\ aw_head \subseteq Tickets
      /\ Requesters \subseteq Threads
      /\ pc \in [Threads -> RequesterPcs \cup DaemonPcs]
  BY DEF IInv, TypeOK, Threads
<1>2. CASE Close
  BY <1>2 DEF Close, Quiet, AllSteady, Steady, queues, work, locals
<1>3. CASE Drain
  <2>1. KeepsTickets
    <3>1. \A t \in Tickets : Settled(tk[t], TRUE).resp = tk[t].resp
                            /\ Settled(tk[t], TRUE).ms = tk[t].ms
      BY <1>1, SettledFacts
    <3>. QED BY <1>1, <1>3, <3>1 DEF Drain, KeepsTickets
  <2>2. AllSteady
    BY <1>1, <1>3 DEF Drain, AllSteady, Steady, Sleepers, work
  <2>3. nreq' = nreq /\ replies' = replies /\ dead' = dead
        /\ aw_head' \subseteq aw_head
    BY <1>3 DEF Drain, locals, daemon
  <2>. QED BY <2>1, <2>2, <2>3 DEF Quiet, KeepsTickets
<1>4. ~Kill /\ ~SetDaemonDead
  BY DEF Orderly, Kill, SetDaemonDead
<1>. QED BY <1>2, <1>3, <1>4 DEF Death

-----------------------------------------------------------------------------
(* The steps that ask and answer.                                          *)

(* An operation that begins asks a request of its own.                     *)
LEMMA AskStep ==
  ASSUME IInv, IInv', RInv, NEW r \in Requesters, NEW k \in Kinds, Begin(r, k)
  PROVE  RInv' /\ AbstractStep
<1>1. /\ TypeOK /\ r \in Threads /\ Requesters \subseteq Threads
      /\ pc \in [Threads -> RequesterPcs \cup DaemonPcs]
      /\ req \in [Requesters -> [id : 0..MaxRequests, kind : AllKinds]]
      /\ nreq \in Nat /\ MaxRequests \in Nat /\ aw_head \subseteq Tickets
  BY SMTT(30) DEF IInv, TypeOK, Threads
<1>2. /\ pc[r] = "idle" /\ pc' = [pc EXCEPT ![r] = "fetch"]
      /\ nreq < MaxRequests /\ nreq' = nreq + 1
      /\ req' = [req EXCEPT ![r] = [id |-> nreq + 1, kind |-> k]]
      /\ UNCHANGED <<dead, aw_head, tk, tick, replies>>
  BY DEF Begin, Goto, session, queues, daemon
<1>3. /\ pc'[r] = "fetch" /\ req'[r].id = nreq + 1
      /\ \A s \in Requesters \ {r} : pc'[s] = pc[s] /\ req'[s] = req[s]
  BY <1>1, <1>2
<1>4. OwnRequests'
  <2>1. \A s \in Requesters \ {r} : pc'[s] # "idle" => req'[s].id # nreq + 1
    BY <1>1, <1>3 DEF RInv, OwnRequests
  <2>2. \A s \in Requesters :
          IF pc'[s] = "idle" THEN req'[s].id = 0 ELSE req'[s].id \in 1..nreq'
    BY <1>1, <1>2, <1>3 DEF RInv, OwnRequests
  <2>3. ASSUME NEW s \in Requesters, NEW u \in Requesters, pc'[s] # "idle",
               pc'[u] # "idle", req'[s].id = req'[u].id
        PROVE  s = u
    BY <1>3, <2>1, <2>3 DEF RInv, OwnRequests
  <2>. QED BY <2>2, <2>3 DEF OwnRequests
<1>5. GivenAnswers'
  BY <1>1, <1>2 DEF RInv, GivenAnswers
<1>6. ASSUME ~dead' PROVE AskedOnce'
  <2>1. AskedOnce
    BY <1>2, <1>6 DEF RInv
  <2>2. nreq + 1 \notin replies /\ \A t \in aw_head : tk[t].ms # nreq + 1
    BY <1>1, <2>1 DEF RInv, GivenAnswers, AskedOnce
  <2>3. \A t \in aw_head : tk[t].ms \in (1..nreq') \ replies
    BY <1>1, <1>2, <2>1 DEF AskedOnce
  <2>4. ASSUME NEW s \in Requesters, Early(s)'
        PROVE  req'[s].id \notin replies
               /\ \A t \in aw_head : tk[t].ms # req'[s].id
    BY <1>3, <2>1, <2>2, <2>4 DEF AskedOnce, Early, NotSent
  <2>. QED BY <1>2, <2>1, <2>3, <2>4 DEF AskedOnce
<1>7. Abstract!Ask(r)
  <2>1. OwnRead
    BY GotIsOwn
  <2>2. /\ AbstractPhase[r] = "idle"
        /\ AbstractPhase' = [AbstractPhase EXCEPT ![r] = "asking"]
    BY <1>2, <1>3 DEF AbstractPhase
  <2>3. Waited' = [Waited EXCEPT ![r] = nreq + 1] /\ Read' = Read
    <3>1. \A s \in Requesters :
            /\ Waited'[s] = IF s = r THEN nreq + 1 ELSE Waited[s]
            /\ Read'[s] = Read[s]
      BY <1>2, <1>3 DEF Waited, Read
    <3>. QED BY <3>1 DEF Waited, Read
  <2>. QED BY <1>2, <2>1, <2>2, <2>3 DEF OwnRead, Abstract!Ask
<1>. QED BY <1>4, <1>5, <1>6, <1>7 DEF RInv, AbstractStep, Abstract!Next

(* The ticket pushed on aw_head is the only one there for its request.     *)
LEMMA PushAwKeeps ==
  ASSUME IInv, IInv', RInv, NEW r \in Requesters, PushAw(r)
  PROVE  RInv' /\ AbstractStep
<1>1. /\ TypeOK /\ Base /\ r \in Threads /\ Requesters \subseteq Threads
      /\ pc \in [Threads -> RequesterPcs \cup DaemonPcs]
  BY DEF IInv, TypeOK, Threads
<1>2. /\ pc[r] = "push_aw" /\ pc'[r] = "message"
      /\ \A s \in Requesters \ {r} : pc'[s] = pc[s]
      /\ aw_head' = aw_head \cup {tick[r]}
      /\ UNCHANGED <<dead, tk, tick, req, nreq, replies>>
  BY <1>1 DEF PushAw, Goto, session, work, locals, daemon
<1>3. OwnRequests' /\ GivenAnswers'
  <2>1. \A s \in Requesters : pc'[s] = "idle" <=> pc[s] = "idle"
    BY <1>2
  <2>. QED BY <1>2, <2>1 DEF RInv, OwnRequests, GivenAnswers
<1>4. ASSUME ~dead' PROVE AskedOnce'
  <2>1. AskedOnce
    BY <1>2, <1>4 DEF RInv
  <2>2. tk[tick[r]].ms = req[r].id
    BY <1>1, <1>2 DEF Base, Carries, CarriesOwn
  <2>3. req[r].id \in (1..nreq) \ replies
        /\ \A t \in aw_head : tk[t].ms # req[r].id
    BY <1>2, <2>1 DEF AskedOnce, Early, NotSent, RInv, OwnRequests
  <2>4. \A s \in Requesters : Early(s)' => Early(s) /\ req[s].id # req[r].id
    BY <1>2 DEF Early, NotSent, RInv, OwnRequests
  <2>. QED BY <1>2, <2>1, <2>2, <2>3, <2>4 DEF AskedOnce
<1>5. AbstractPhase' = AbstractPhase
  BY <1>2 DEF AbstractPhase
<1>6. AbstractAsked' = AbstractAsked /\ AbstractGot' = AbstractGot
  BY <1>2, <1>5 DEF AbstractAsked, AbstractGot
<1>. QED BY <1>2, <1>3, <1>4, <1>5, <1>6 DEF RInv, AbstractStep, Abstract!vars

(* The daemon answers a request that waits, once: what it has read and not *)
(* answered has a ticket on aw_head, which leaves it now.                  *)
LEMMA WriteStep ==
  ASSUME IInv, IInv', RInv, NEW d \in Daemons, NEW m \in inbox,
         WriteFind(d, m) \/ WriteIgnored(d, m)
  PROVE  RInv' /\ AbstractStep
<1>1. /\ TypeOK /\ Base /\ d \in Threads /\ d \notin Requesters
         /\ Requesters \subseteq Threads
      /\ pc \in [Threads -> RequesterPcs \cup DaemonPcs]
      /\ tick \in [Threads -> Tickets \cup {NoTicket}]
      /\ tk \in [Tickets -> Ticket] /\ aw_head \subseteq Tickets
      /\ nreq \in 0..MaxRequests
      /\ inbox \subseteq [unique : Nat, req : 0..MaxRequests]
  BY DEF IInv, TypeOK, Threads
<1>2. ~dead /\ Live /\ AskedOnce
  BY <1>1 DEF IInv, Base, DeadIsClosed, RInv
<1>3. PICK u \in aw_head : tk[u].unique = m.unique /\ tk[u].ms = m.req
  BY <1>2 DEF Live, ReadMessages, Owes
<1>4. WriteFind(d, m)
  BY <1>3 DEF WriteIgnored, Matches
<1>5. PICK t \in aw_head :
        /\ tk[t].unique = m.unique
        /\ aw_head' = aw_head \ {t}
        /\ \/ tk' = tk
           \/ \E e \in BOOLEAN : tk' = [tk EXCEPT ![t] = WithReply(@, m.req,
              e)]
        /\ \E to \in {"pull", "drop"} : Goto(d, to)
  BY <1>4 DEF WriteFind, Matches
<1>6. u = t
  BY <1>1, <1>2, <1>3, <1>5
  DEF Base, Numbered, Live, WaitingTickets, WaitingTicket
<1>7. /\ replies' = replies \cup {m.req} /\ UNCHANGED <<req, nreq, dead>>
      /\ m.req \in (1..nreq) \ replies
      /\ AllSteady
  <2>1. m.req \in (1..nreq) \ replies
    BY <1>2, <1>3 DEF AskedOnce
  <2>2. replies' = replies \cup {m.req} /\ UNCHANGED <<req, nreq, dead>>
    BY <1>4 DEF WriteFind, session, locals
  <2>. QED BY <1>1, <1>5, <2>1, <2>2, GotoSteady DEF AllSteady
<1>8. /\ \A v \in Tickets : tk'[v].resp \in {tk[v].resp, m.req}
      /\ \A v \in Tickets : tk'[v].ms = tk[v].ms
  <2>1. m.req \in 0..MaxRequests
    BY <1>1
  <2>2. CASE tk' = tk
    BY <2>2
  <2>3. ASSUME NEW e \in BOOLEAN, tk' = [tk EXCEPT ![t] = WithReply(@, m.req,
               e)]
        PROVE  /\ \A v \in Tickets : tk'[v].resp \in {tk[v].resp, m.req}
               /\ \A v \in Tickets : tk'[v].ms = tk[v].ms
    <3>1. t \in Tickets /\ tk[t] \in Ticket
      BY <1>1
    <3>2. /\ WithReply(tk[t], m.req, e).ms = tk[t].ms
          /\ WithReply(tk[t], m.req, e).resp = m.req
      BY <3>1 DEF WithReply, Ticket
    <3>. QED BY <1>1, <2>3, <3>1, <3>2
  <2>. QED BY <1>5, <2>2, <2>3
<1>9. OwnRequests' /\ GivenAnswers'
  <2>1. \A s \in Requesters : pc'[s] = "idle" <=> pc[s] = "idle"
    BY <1>7 DEF AllSteady, Steady
  <2>2. OwnRequests'
    BY <1>7, <2>1 DEF RInv, OwnRequests
  <2>3. GivenAnswers'
    BY <1>7, <1>8 DEF RInv, GivenAnswers
  <2>. QED BY <2>2, <2>3
<1>10. AskedOnce'
  <2>1. \A v \in aw_head' : v \in aw_head /\ tk'[v].ms = tk[v].ms
        /\ tk[v].ms # m.req
    BY <1>1, <1>2, <1>3, <1>5, <1>6, <1>8 DEF AskedOnce
  <2>2. \A s \in Requesters : Early(s)' => Early(s) /\ req[s].id # m.req
    BY <1>2, <1>3, <1>7 DEF AskedOnce, Early, NotSent, AllSteady, Steady
  <2>. QED BY <1>2, <1>7, <2>1, <2>2 DEF AskedOnce
<1>11. Abstract!DaemonAnswers(m.req)
  <2>1. AbstractPhase' = AbstractPhase
    BY <1>7 DEF AbstractPhase, AllSteady, Steady
  <2>2. Waited' = Waited /\ Read' = Read
    BY <1>7 DEF AllSteady, Steady, Waited, Read
  <2>. QED BY <1>7, <2>1, <2>2, GotIsOwn DEF OwnRead, Abstract!DaemonAnswers
<1>12. m.req \in 1..MaxRequests
  BY <1>1, <1>7
<1>. QED BY <1>9, <1>10, <1>11, <1>12 DEF RInv, AbstractStep, Abstract!Next

(* At the start nothing has been asked.                                    *)
LEMMA RequestsInit == Init => RInv /\ Abstract!Init
<1>. SUFFICES ASSUME Init PROVE RInv /\ Abstract!Init
  OBVIOUS
<1>1. /\ \A r \in Requesters : pc[r] = "idle" /\ req[r] = NoRequest
      /\ \A t \in Tickets : tk[t] = NewTicket(0)
      /\ aw_head = {} /\ nreq = 0 /\ replies = {}
  BY DEF Init, Threads
<1>2. OwnRequests
  BY <1>1 DEF OwnRequests, NoRequest
<1>3. GivenAnswers
  BY <1>1, NewResp DEF GivenAnswers
<1>4. AskedOnce
  BY <1>1 DEF AskedOnce, Early, NotSent
<1>5. AbstractPhase = [r \in Requesters |-> "idle"]
  BY <1>1 DEF AbstractPhase
<1>6. AbstractAsked = [r \in Requesters |-> 0]
      /\ AbstractGot = [r \in Requesters |-> 0]
  BY <1>5 DEF AbstractAsked, AbstractGot
<1>. QED BY <1>1, <1>2, <1>3, <1>4, <1>5, <1>6 DEF RInv, Abstract!Init

(* Every step keeps RInv and is a step of FuseRequest or none.             *)
LEMMA RequestsStep ==
  ASSUME Orderly, IInv, IInv', RInv, [Next]_vars
  PROVE  RInv' /\ AbstractStep
<1>1. TypeOK
  BY DEF IInv
<1>2. ASSUME Quiet, AllSteady PROVE RInv' /\ AbstractStep
  BY <1>1, <1>2, QuietKeeps, SteadyImplements DEF AllSteady
<1>3. ASSUME NEW r \in Requesters, Quiet, Goes(r), OthersSteady(r)
      PROVE RInv' /\ AbstractStep
  <2>1. \A s \in Requesters : Steady(s) \/ Goes(s)
    BY <1>3 DEF OthersSteady
  <2>. QED BY <1>1, <1>3, <2>1, QuietKeeps, GoesImplements
<1>4. CASE UNCHANGED vars
  <2>1. Quiet /\ AllSteady
    BY <1>4
    DEF vars, session, queues, work, locals, daemon, Quiet, AllSteady, Steady
  <2>. QED BY <1>2, <2>1
<1>5. ASSUME NEW r \in Requesters, Request(r) PROVE RInv' /\ AbstractStep
  <2>1. CASE Asks(r)
    BY <2>1, AskStep DEF Asks
  <2>2. CASE PushAw(r)
    BY <2>2, PushAwKeeps
  <2>3. CASE ~Asks(r) /\ ~PushAw(r)
    BY <1>3, <1>5, <2>3, RequestQuiet
  <2>. QED BY <2>1, <2>2, <2>3
<1>6. ASSUME NEW r \in Requesters, Wakeup(r) PROVE RInv' /\ AbstractStep
  BY <1>3, <1>6, WakeupQuiet
<1>7. ASSUME NEW th \in Threads, Drop(th) PROVE RInv' /\ AbstractStep
  <2>1. CASE th \in Requesters
    BY <1>3, <1>7, <2>1, DropQuiet
  <2>2. CASE th \notin Requesters
    <3>1. Quiet /\ AllSteady
      BY <1>7, <2>2, DropQuiet DEF OthersSteady, AllSteady
    <3>. QED BY <1>2, <3>1
  <2>. QED BY <2>1, <2>2
<1>8. ASSUME NEW d \in Daemons, Device(d) PROVE RInv' /\ AbstractStep
  <2>1. CASE Writes(d)
    BY <2>1, WriteStep DEF Writes
  <2>2. CASE ~Writes(d)
    BY <1>2, <1>8, <2>2, DeviceQuiet
  <2>. QED BY <2>1, <2>2
<1>9. CASE Death
  BY <1>2, <1>9, DeathQuiet
<1>. QED BY <1>4, <1>5, <1>6, <1>7, <1>8, <1>9 DEF Next

(* Requests have numbers of their own, tickets hold answers the daemon gave,*)
(* and in a live session nothing that waits has been answered.             *)
THEOREM AnswersAreAskedFor == ASSUME Orderly PROVE CalmSpec => []RInv
<1>1. IInv /\ IInv' /\ RInv /\ [Next]_vars => RInv'
  BY RequestsStep
<1>2. Init => RInv
  BY RequestsInit
<1>. QED BY <1>1, <1>2, Ownership, CalmIsSpec, PTL DEF Spec

(* Every behaviour of the channel is one FuseRequest allows: a request is  *)
(* asked once and answered at most once, and an operation that succeeds has*)
(* read the answer the daemon gave to its own request.                     *)
THEOREM Refines == ASSUME Orderly PROVE CalmSpec => ImplementsFuseRequest
<1>1. IInv /\ IInv' /\ RInv /\ [Next]_vars => [Abstract!Next]_Abstract!vars
  BY RequestsStep DEF AbstractStep
<1>2. Init => Abstract!Init
  BY RequestsInit
<1>. QED BY <1>1, <1>2, Ownership, AnswersAreAskedFor, CalmIsSpec, PTL
  DEF Spec, ImplementsFuseRequest, Abstract!Spec
=============================================================================
