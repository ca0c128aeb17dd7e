---------------------------- MODULE FuseIpcSteps ----------------------------
(***************************************************************************)
(* Every step of FuseIpc preserves the invariant IInv of FuseIpcInvariant. *)
(* One lemma per action, or per branch of one.  In each, <1>4 says what    *)
(* the action does to the variables, the steps named after the parts of    *)
(* IInv show that each is preserved, and <1>Live does so for the parts     *)
(* that hold in a live session.                                            *)
(***************************************************************************)
EXTENDS FuseIpcProofs

(* What TypeOK says of the parts the proofs reason about.                  *)
LEMMA TypeConsequences ==
  ASSUME TypeOK
  PROVE  /\ ticketer \in Nat /\ alltickets \subseteq Tickets /\ aw_head \subseteq Tickets
         /\ \A s \in Requesters : s \in Threads /\ s \notin Daemons
         /\ Requesters \subseteq Threads /\ Daemons \subseteq Threads
         /\ \A u \in Tickets : tk[u].unique \in Nat /\ tk[u].age \in Nat
         /\ \A s \in Requesters : mark[s] \in Nat
<1>1. ticketer \in Nat /\ alltickets \subseteq Tickets /\ aw_head \subseteq Tickets
  BY DEF TypeOK
<1>2. \A u \in Tickets : tk[u] \in Ticket
  BY DEF TypeOK
<1>3. \A u \in Tickets : tk[u].unique \in Nat /\ tk[u].age \in Nat
  BY <1>2 DEF Ticket
<1>4. \A s \in Requesters : mark[s] \in Nat
  BY DEF TypeOK
<1>. QED BY <1>1, <1>3, <1>4, IpcAssumption DEF Threads

USE IpcAssumption
USE DEF Building, Sending, Waiting, Leaving, DaemonPcs, Holds, Answered, Invalid,
        OffQueues, DaemonHolds, RequesterHolds, Unsent, Threads

-----------------------------------------------------------------------------
(* The steps of a requester.                                               *)

(* A thread that is about to drop a ticket is the only one to hold it.     *)
LEMMA DropperAlone ==
  ASSUME TypeOK, Base, dead \/ Live,
         NEW th \in Threads, pc[th] \in {"drop", "refresh"}
  PROVE  /\ tick[th] \in alltickets \ Range(freetickets)
         /\ \A s \in Threads : s # th => ~Holds(s) \/ tick[s] # tick[th]
<1>1. Pcs /\ InHand /\ DeadIsClosed /\ Disjoint
  BY DEF Base
<1>2. tick[th] \in alltickets \ Range(freetickets) /\ Holds(th)
  BY <1>1 DEF InHand, Disjoint
<1>3. CASE th \in Requesters
  <2>1. ASSUME NEW s \in Requesters, s # th PROVE ~Holds(s) \/ tick[s] # tick[th]
    BY <2>1, <1>1, <1>2, <1>3 DEF Disjoint
  <2>2. ASSUME NEW d \in Daemons, Holds(d) PROVE tick[d] # tick[th]
    <3>1. CASE dead
      BY <3>1, <2>2, <1>1 DEF DeadIsClosed, Pcs
    <3>2. CASE Live
      BY <3>2, <2>2, <1>3 DEF Live, RequesterTickets, RequesterTicket
    <3>. QED BY <3>1, <3>2
  <2>. QED BY <1>2, <2>1, <2>2
<1>4. CASE th \in Daemons
  <2>1. Live
    BY <1>1, <1>4 DEF DeadIsClosed
  <2>2. ASSUME NEW s \in Requesters, Holds(s) PROVE tick[s] # tick[th]
    BY <2>1, <2>2, <1>4 DEF Live, DaemonTickets, DaemonTicket
  <2>3. ASSUME NEW d \in Daemons, Holds(d), d # th PROVE tick[d] # tick[th]
    BY <2>1, <2>3, <1>2, <1>4 DEF Live, DaemonTickets
  <2>. QED BY <1>2, <2>2, <2>3
<1>. QED BY <1>3, <1>4

(* A vnode operation starts.                                               *)
LEMMA BeginStep ==
  ASSUME Orderly, IInv, TypeOK', InHand', NEW r \in Requesters, NEW k \in Kinds, Begin(r, k)
  PROVE  IInv'
<1>1. TypeOK /\ ~panicked /\ Base /\ (dead \/ Live)
  BY DEF IInv
<1>2. Pcs /\ InHand /\ DeadIsClosed /\ Numbered /\ Disjoint /\ Fresh /\ Carries /\ Aging /\
     Sleeping
  BY <1>1 DEF Base
<1>T. /\ ticketer \in Nat /\ alltickets \subseteq Tickets /\ aw_head \subseteq Tickets
      /\ \A s \in Requesters : s \in Threads /\ s \notin Daemons
      /\ Requesters \subseteq Threads /\ Daemons \subseteq Threads
      /\ \A u \in Tickets : tk[u].unique \in Nat /\ tk[u].age \in Nat
      /\ \A s \in Requesters : mark[s] \in Nat
  BY TypeConsequences, <1>1
<1>4. /\ pc[r] = "idle"
      /\ ~dead
      /\ pc'[r] = "fetch"
      /\ \A s \in Threads : s # r => pc'[s] = pc[s]
      /\ \A s \in Requesters : s # r => req'[s] = req[s]
      /\ UNCHANGED <<dead, drain, closed, ticketer, alltickets, freetickets, ms_head, aw_head,
                     tk, tick, mark, inbox, panicked>>
  BY <1>1 DEF Begin, Orderly, TypeOK, Goto, session, pool, queues, work, locals, daemon
<1>Pcs. Pcs'
  BY <1>T, <1>2, <1>4 DEF Pcs
<1>DeadIsClosed. DeadIsClosed'
  BY <1>T, <1>2, <1>4 DEF DeadIsClosed, Pcs
<1>Numbered. Numbered'
  BY <1>T, <1>2, <1>4 DEF Numbered, Disjoint
<1>Disjoint. Disjoint'
  BY <1>T, <1>2, <1>4 DEF Disjoint, Pcs, InHand
<1>Fresh. Fresh'
  BY <1>T, <1>2, <1>4 DEF Fresh, FreshTicket, Disjoint, Pcs, InHand
<1>Carries. Carries'
  BY <1>T, <1>2, <1>4 DEF Carries, CarriesOwn, Disjoint, Pcs, Fresh, FreshTicket, InHand
<1>Aging. Aging'
  BY <1>T, <1>2, <1>4 DEF Aging, Abandoned, Disjoint, Pcs, InHand
<1>Sleeping. Sleeping'
  BY <1>T, <1>2, <1>4 DEF Sleeping, Asleep, Disjoint, Pcs, InHand
<1>Live. ASSUME ~dead PROVE Live'
  <2>0. FreeOffQueues /\ RequesterTickets /\ WaitingTickets /\ UnreadTickets /\
       DaemonTickets /\ ReadMessages /\ Owed /\ Minded /\ NoneLost
    BY <1>1, <1>Live DEF Live
  <2>FreeOffQueues. FreeOffQueues'
    BY <1>T, <1>2, <1>4, <1>Live, <2>0 DEF FreeOffQueues, Disjoint, Pcs, InHand
  <2>RequesterTickets. RequesterTickets'
    BY <1>T, <1>2, <1>4, <1>Live, <2>0
      DEF RequesterTickets, RequesterTicket, Disjoint, Pcs, Fresh, FreshTicket, InHand
  <2>WaitingTickets. WaitingTickets'
    BY <1>T, <1>2, <1>4, <1>Live, <2>0 DEF WaitingTickets, WaitingTicket, Disjoint, Pcs, InHand
  <2>UnreadTickets. UnreadTickets'
    BY <1>T, <1>2, <1>4, <1>Live, <2>0 DEF UnreadTickets, UnreadTicket, Disjoint, Pcs, InHand
  <2>DaemonTickets. DaemonTickets'
    BY <1>T, <1>2, <1>4, <1>Live, <2>0 DEF DaemonTickets, DaemonTicket, Disjoint, Pcs, InHand
  <2>ReadMessages. ReadMessages'
    BY <1>T, <1>2, <1>4, <1>Live, <2>0 DEF ReadMessages, Owes, Disjoint, Pcs
  <2>Owed. Owed'
    BY <1>T, <1>2, <1>4, <1>Live, <2>0 DEF Owed, OwedTicket, Disjoint, Pcs, InHand
  <2>Minded. Minded'
    BY <1>T, <1>2, <1>4, <1>Live, <2>0 DEF Minded, MindedTicket, Disjoint, Pcs, InHand
  <2>NoneLost. NoneLost'
    BY <1>T, <1>2, <1>4, <1>Live, <2>0 DEF NoneLost, Kept, Disjoint, Pcs, InHand
  <2>. QED BY <2>FreeOffQueues, <2>RequesterTickets, <2>WaitingTickets, <2>UnreadTickets,
    <2>DaemonTickets, <2>ReadMessages, <2>Owed, <2>Minded, <2>NoneLost
    DEF Live
<1>P. ~panicked'
  BY <1>1, <1>2, <1>4 DEF Fresh, FreshTicket, Pcs
<1>. QED BY <1>Pcs, <1>DeadIsClosed, <1>Numbered, <1>Disjoint, <1>Fresh, <1>Carries, <1>Aging,
  <1>Sleeping, <1>Live, <1>P, <1>4
  DEF IInv, Base

(* fuse_ticket_fetch takes a ticket off the free list.                     *)
LEMMA FetchFreeStep ==
  ASSUME Orderly, IInv, TypeOK', InHand', NEW r \in Requesters, FetchFree(r)
  PROVE  IInv'
<1>1. TypeOK /\ ~panicked /\ Base /\ (dead \/ Live)
  BY DEF IInv
<1>2. Pcs /\ InHand /\ DeadIsClosed /\ Numbered /\ Disjoint /\ Fresh /\ Carries /\ Aging /\
     Sleeping
  BY <1>1 DEF Base
<1>T. /\ ticketer \in Nat /\ alltickets \subseteq Tickets /\ aw_head \subseteq Tickets
      /\ \A s \in Requesters : s \in Threads /\ s \notin Daemons
      /\ Requesters \subseteq Threads /\ Daemons \subseteq Threads
      /\ \A u \in Tickets : tk[u].unique \in Nat /\ tk[u].age \in Nat
      /\ \A s \in Requesters : mark[s] \in Nat
  BY TypeConsequences, <1>1
<1>4. PICK t \in Tickets :
      /\ pc[r] = "fetch"
      /\ pc'[r] = "make"
      /\ \A s \in Threads : s # r => pc'[s] = pc[s]
      /\ \A s \in Threads : s # r => tick'[s] = tick[s]
      /\ tick'[r] = t
      /\ t \in Range(freetickets)
      /\ IsInjective(freetickets) => IsInjective(freetickets') /\ Range(freetickets') = Range(freetickets) \ {t}
      /\ UNCHANGED <<dead, drain, closed, ticketer, alltickets, ms_head, aw_head, tk, req, mark,
                     inbox, panicked>>
  <2>1. ~OverLimit(ticketer, deadticket_counter)
    BY DEF Orderly, OverLimit
  <2>2. r \in Threads /\ Head(freetickets) \in Tickets
    BY <1>1, PopFacts DEF FetchFree, TypeOK, Threads
  <2>3. /\ Head(freetickets) \in Range(freetickets)
        /\ IsInjective(freetickets) =>
             /\ IsInjective(Tail(freetickets))
             /\ Range(Tail(freetickets)) = Range(freetickets) \ {Head(freetickets)}
    BY <1>1, PopFacts DEF FetchFree, TypeOK
  <2>. QED
    BY <1>1, <2>1, <2>2, <2>3
      DEF FetchFree, TypeOK, Goto, session, pool, queues, work, locals, daemon
<1>Pcs. Pcs'
  BY <1>T, <1>2, <1>4 DEF Pcs
<1>DeadIsClosed. DeadIsClosed'
  BY <1>T, <1>2, <1>4 DEF DeadIsClosed, Pcs
<1>Numbered. Numbered'
  BY <1>T, <1>2, <1>4 DEF Numbered, Disjoint
<1>Disjoint. Disjoint'
  BY <1>T, <1>2, <1>4 DEF Disjoint, Pcs, InHand
<1>Fresh. Fresh'
  BY <1>T, <1>2, <1>4 DEF Fresh, FreshTicket, Disjoint, Pcs, InHand
<1>Carries. Carries'
  BY <1>T, <1>2, <1>4 DEF Carries, CarriesOwn, Disjoint, Pcs, Fresh, FreshTicket, InHand
<1>Aging. Aging'
  BY <1>T, <1>2, <1>4 DEF Aging, Abandoned, Disjoint, Pcs, InHand
<1>Sleeping. Sleeping'
  BY <1>T, <1>2, <1>4 DEF Sleeping, Asleep, Disjoint, Pcs, InHand
<1>Live. ASSUME ~dead PROVE Live'
  <2>0. FreeOffQueues /\ RequesterTickets /\ WaitingTickets /\ UnreadTickets /\
       DaemonTickets /\ ReadMessages /\ Owed /\ Minded /\ NoneLost
    BY <1>1, <1>Live DEF Live
  <2>FreeOffQueues. FreeOffQueues'
    BY <1>T, <1>2, <1>4, <1>Live, <2>0 DEF FreeOffQueues, Disjoint, Pcs, InHand
  <2>RequesterTickets. RequesterTickets'
    <3>1. ASSUME NEW s \in Requesters PROVE RequesterTicket(s)'
      <4>1. CASE s = r
        BY <4>1, <1>T, <1>2, <1>4, <1>Live, <2>0
          DEF RequesterTickets, RequesterTicket, InHand, Pcs, DeadIsClosed, Numbered, Disjoint,
            Fresh, FreshTicket, Carries, CarriesOwn, Aging, Abandoned, Sleeping, Asleep,
            FreeOffQueues, WaitingTickets, WaitingTicket, UnreadTickets, UnreadTicket,
            DaemonTickets, DaemonTicket, ReadMessages, Owes, Owed, OwedTicket, Minded,
            MindedTicket, NoneLost, Kept
      <4>2. CASE s # r
        BY <4>2, <1>T, <1>2, <1>4, <1>Live, <2>0
          DEF RequesterTickets, RequesterTicket, InHand, Pcs, DeadIsClosed, Numbered, Disjoint,
            Fresh, FreshTicket, Carries, CarriesOwn, Aging, Abandoned, Sleeping, Asleep,
            FreeOffQueues, WaitingTickets, WaitingTicket, UnreadTickets, UnreadTicket,
            DaemonTickets, DaemonTicket, ReadMessages, Owes, Owed, OwedTicket, Minded,
            MindedTicket, NoneLost, Kept
      <4>. QED BY <4>1, <4>2
    <3>. QED BY <3>1 DEF RequesterTickets
  <2>WaitingTickets. WaitingTickets'
    <3>1. ASSUME NEW u \in aw_head' PROVE WaitingTicket(u)'
      BY <3>1, <1>T, <1>2, <1>4, <1>Live, <2>0
        DEF WaitingTickets, WaitingTicket, InHand, Pcs, DeadIsClosed, Numbered, Disjoint, Fresh,
          FreshTicket, Carries, CarriesOwn, Aging, Abandoned, Sleeping, Asleep, FreeOffQueues,
          RequesterTickets, RequesterTicket, UnreadTickets, UnreadTicket, DaemonTickets,
          DaemonTicket, ReadMessages, Owes, Owed, OwedTicket, Minded, MindedTicket, NoneLost, Kept
    <3>. QED BY <3>1, <1>T, <1>2, <1>4, <1>Live, <2>0 DEF WaitingTickets, Disjoint
  <2>UnreadTickets. UnreadTickets'
    <3>1. ASSUME NEW u \in Range(ms_head') PROVE UnreadTicket(u)'
      BY <3>1, <1>T, <1>2, <1>4, <1>Live, <2>0
        DEF UnreadTickets, UnreadTicket, InHand, Pcs, DeadIsClosed, Numbered, Disjoint, Fresh,
          FreshTicket, Carries, CarriesOwn, Aging, Abandoned, Sleeping, Asleep, FreeOffQueues,
          RequesterTickets, RequesterTicket, WaitingTickets, WaitingTicket, DaemonTickets,
          DaemonTicket, ReadMessages, Owes, Owed, OwedTicket, Minded, MindedTicket, NoneLost, Kept
    <3>. QED BY <3>1, <1>T, <1>2, <1>4, <1>Live, <2>0
      DEF UnreadTickets, Disjoint, UnreadTicket, FreeOffQueues, RequesterTickets,
        RequesterTicket
  <2>DaemonTickets. DaemonTickets'
    BY <1>T, <1>2, <1>4, <1>Live, <2>0 DEF DaemonTickets, DaemonTicket, Disjoint, Pcs, InHand
  <2>ReadMessages. ReadMessages'
    <3>1. ASSUME NEW q \in inbox' PROVE \E u \in aw_head' : Owes(q, u)'
      <4>1. PICK u \in aw_head : Owes(q, u)
        BY <1>4, <2>0 DEF ReadMessages
      <4>2. u \in aw_head' /\ Owes(q, u)'
        BY <4>1, <1>T, <1>2, <1>4, <1>Live, <2>0
          DEF Owes, InHand, Pcs, DeadIsClosed, Numbered, Disjoint, Fresh, FreshTicket, Carries,
            CarriesOwn, Aging, Abandoned, Sleeping, Asleep, FreeOffQueues, RequesterTickets,
            RequesterTicket, WaitingTickets, WaitingTicket, UnreadTickets, UnreadTicket,
            DaemonTickets, DaemonTicket, Owed, OwedTicket, Minded, MindedTicket, NoneLost, Kept
      <4>. QED BY <4>2
    <3>. QED BY <3>1 DEF ReadMessages
  <2>Owed. Owed'
    BY <1>T, <1>2, <1>4, <1>Live, <2>0 DEF Owed, OwedTicket, Disjoint, Pcs, InHand
  <2>Minded. Minded'
    BY <1>T, <1>2, <1>4, <1>Live, <2>0 DEF Minded, MindedTicket, Disjoint, Pcs, InHand
  <2>NoneLost. NoneLost'
    BY <1>T, <1>2, <1>4, <1>Live, <2>0 DEF NoneLost, Kept, Disjoint, Pcs, InHand
  <2>. QED BY <2>FreeOffQueues, <2>RequesterTickets, <2>WaitingTickets, <2>UnreadTickets,
    <2>DaemonTickets, <2>ReadMessages, <2>Owed, <2>Minded, <2>NoneLost
    DEF Live
<1>P. ~panicked'
  BY <1>1, <1>2, <1>4 DEF Fresh, FreshTicket, Pcs
<1>. QED BY <1>Pcs, <1>DeadIsClosed, <1>Numbered, <1>Disjoint, <1>Fresh, <1>Carries, <1>Aging,
  <1>Sleeping, <1>Live, <1>P, <1>4
  DEF IInv, Base

(* It finds the free list empty.                                           *)
LEMMA FetchNoneStep ==
  ASSUME Orderly, IInv, TypeOK', InHand', NEW r \in Requesters, FetchNone(r)
  PROVE  IInv'
<1>1. TypeOK /\ ~panicked /\ Base /\ (dead \/ Live)
  BY DEF IInv
<1>2. Pcs /\ InHand /\ DeadIsClosed /\ Numbered /\ Disjoint /\ Fresh /\ Carries /\ Aging /\
     Sleeping
  BY <1>1 DEF Base
<1>T. /\ ticketer \in Nat /\ alltickets \subseteq Tickets /\ aw_head \subseteq Tickets
      /\ \A s \in Requesters : s \in Threads /\ s \notin Daemons
      /\ Requesters \subseteq Threads /\ Daemons \subseteq Threads
      /\ \A u \in Tickets : tk[u].unique \in Nat /\ tk[u].age \in Nat
      /\ \A s \in Requesters : mark[s] \in Nat
  BY TypeConsequences, <1>1
<1>4. /\ pc[r] = "fetch"
      /\ pc'[r] = "alloc"
      /\ \A s \in Threads : s # r => pc'[s] = pc[s]
      /\ \A s \in Requesters : s # r => mark'[s] = mark[s]
      /\ UNCHANGED <<dead, drain, closed, ticketer, alltickets, freetickets, ms_head, aw_head,
                     tk, tick, req, inbox, panicked>>
  BY <1>1 DEF FetchNone, Orderly, TypeOK, Goto, session, pool, queues, work, locals, daemon
<1>Pcs. Pcs'
  BY <1>T, <1>2, <1>4 DEF Pcs
<1>DeadIsClosed. DeadIsClosed'
  BY <1>T, <1>2, <1>4 DEF DeadIsClosed, Pcs
<1>Numbered. Numbered'
  BY <1>T, <1>2, <1>4 DEF Numbered, Disjoint
<1>Disjoint. Disjoint'
  BY <1>T, <1>2, <1>4 DEF Disjoint, Pcs, InHand
<1>Fresh. Fresh'
  BY <1>T, <1>2, <1>4 DEF Fresh, FreshTicket, Disjoint, Pcs, InHand
<1>Carries. Carries'
  BY <1>T, <1>2, <1>4 DEF Carries, CarriesOwn, Disjoint, Pcs, Fresh, FreshTicket, InHand
<1>Aging. Aging'
  BY <1>T, <1>2, <1>4 DEF Aging, Abandoned, Disjoint, Pcs, InHand
<1>Sleeping. Sleeping'
  BY <1>T, <1>2, <1>4 DEF Sleeping, Asleep, Disjoint, Pcs, InHand
<1>Live. ASSUME ~dead PROVE Live'
  <2>0. FreeOffQueues /\ RequesterTickets /\ WaitingTickets /\ UnreadTickets /\
       DaemonTickets /\ ReadMessages /\ Owed /\ Minded /\ NoneLost
    BY <1>1, <1>Live DEF Live
  <2>FreeOffQueues. FreeOffQueues'
    BY <1>T, <1>2, <1>4, <1>Live, <2>0 DEF FreeOffQueues, Disjoint, Pcs, InHand
  <2>RequesterTickets. RequesterTickets'
    BY <1>T, <1>2, <1>4, <1>Live, <2>0
      DEF RequesterTickets, RequesterTicket, Disjoint, Pcs, Fresh, FreshTicket, InHand
  <2>WaitingTickets. WaitingTickets'
    BY <1>T, <1>2, <1>4, <1>Live, <2>0 DEF WaitingTickets, WaitingTicket, Disjoint, Pcs, InHand
  <2>UnreadTickets. UnreadTickets'
    BY <1>T, <1>2, <1>4, <1>Live, <2>0 DEF UnreadTickets, UnreadTicket, Disjoint, Pcs, InHand
  <2>DaemonTickets. DaemonTickets'
    BY <1>T, <1>2, <1>4, <1>Live, <2>0 DEF DaemonTickets, DaemonTicket, Disjoint, Pcs, InHand
  <2>ReadMessages. ReadMessages'
    BY <1>T, <1>2, <1>4, <1>Live, <2>0 DEF ReadMessages, Owes, Disjoint, Pcs
  <2>Owed. Owed'
    BY <1>T, <1>2, <1>4, <1>Live, <2>0 DEF Owed, OwedTicket, Disjoint, Pcs, InHand
  <2>Minded. Minded'
    BY <1>T, <1>2, <1>4, <1>Live, <2>0 DEF Minded, MindedTicket, Disjoint, Pcs, InHand
  <2>NoneLost. NoneLost'
    BY <1>T, <1>2, <1>4, <1>Live, <2>0 DEF NoneLost, Kept, Disjoint, Pcs, InHand
  <2>. QED BY <2>FreeOffQueues, <2>RequesterTickets, <2>WaitingTickets, <2>UnreadTickets,
    <2>DaemonTickets, <2>ReadMessages, <2>Owed, <2>Minded, <2>NoneLost
    DEF Live
<1>P. ~panicked'
  BY <1>1, <1>2, <1>4 DEF Fresh, FreshTicket, Pcs
<1>. QED BY <1>Pcs, <1>DeadIsClosed, <1>Numbered, <1>Disjoint, <1>Fresh, <1>Carries, <1>Aging,
  <1>Sleeping, <1>Live, <1>P, <1>4
  DEF IInv, Base

(* fticket_alloc makes a ticket nobody knows of.                           *)
LEMMA AllocTicketStep ==
  ASSUME Orderly, Undisturbed, IInv, TypeOK', InHand',
         NEW r \in Requesters, AllocTicket(r)
  PROVE  IInv'
<1>1. TypeOK /\ ~panicked /\ Base /\ (dead \/ Live)
  BY DEF IInv
<1>2. Pcs /\ InHand /\ DeadIsClosed /\ Numbered /\ Disjoint /\ Fresh /\ Carries /\ Aging /\
     Sleeping
  BY <1>1 DEF Base
<1>T. /\ ticketer \in Nat /\ alltickets \subseteq Tickets /\ aw_head \subseteq Tickets
      /\ \A s \in Requesters : s \in Threads /\ s \notin Daemons
      /\ Requesters \subseteq Threads /\ Daemons \subseteq Threads
      /\ \A u \in Tickets : tk[u].unique \in Nat /\ tk[u].age \in Nat
      /\ \A s \in Requesters : mark[s] \in Nat
  BY TypeConsequences, <1>1
<1>4. PICK t \in Tickets :
      /\ pc[r] = "alloc"
      /\ pc'[r] = "make"
      /\ t \notin alltickets
      /\ \A th \in Threads : tick[th] # t
      /\ tick'[r] = t
      /\ \A s \in Threads : s # r => pc'[s] = pc[s]
      /\ \A s \in Threads : s # r => tick'[s] = tick[s]
      /\ alltickets' = alltickets \cup {t}
      /\ ticketer' = ticketer + 1
      /\ \A u \in Tickets : u # t => tk'[u] = tk[u]
      /\ tk'[t].unique = ticketer
      /\ tk'[t].age = 0
      /\ tk'[t].flag = {}
      /\ tk'[t].handler = "none"
      /\ tk'[t].ms = 0
      /\ tk'[t].resp = 0
      /\ tk'[t].errno = FALSE
      /\ UNCHANGED <<dead, drain, closed, freetickets, ms_head, aw_head, req, mark, inbox,
                     panicked>>
  <2>0. RacyTicketer => mark[r] = ticketer
    <3>1. \E to \in {"overlimit", "make"} : pc[r] = "alloc" /\ Goto(r, to)
      BY DEF AllocTicket
    <3>2. pc[r] = "alloc" /\ pc'[r] # "alloc"
      BY <3>1, <1>1, <1>T DEF TypeOK, Goto
    <3>. QED BY <3>2 DEF Undisturbed
  <2>1. PICK t \in Tickets :
          /\ Unallocated(t)
          /\ tk' = [tk EXCEPT ![t] = NewTicket(ticketer)]
          /\ ticketer' = ticketer + 1
          /\ alltickets' = alltickets \cup {t}
          /\ tick' = [tick EXCEPT ![r] = t]
          /\ Goto(r, IF OverLimit(ticketer + 1, deadticket_counter)
                     THEN "overlimit" ELSE "make")
    BY <2>0 DEF AllocTicket
  <2>2. ~OverLimit(ticketer + 1, deadticket_counter)
    BY DEF Orderly, OverLimit
  <2>3. t \notin alltickets /\ \A th \in Threads : tick[th] # t
    BY <2>1 DEF Unallocated, Undisturbed
  <2>4. tk'[t] = NewTicket(ticketer) /\ \A u \in Tickets : u # t => tk'[u] = tk[u]
    BY <2>1, <1>1 DEF TypeOK
  <2>. QED
    BY <1>1, <2>1, <2>2, <2>3, <2>4
      DEF AllocTicket, NewTicket, TypeOK, Goto, session, queues, work, locals, daemon
<1>Pcs. Pcs'
  BY <1>T, <1>2, <1>4 DEF Pcs
<1>DeadIsClosed. DeadIsClosed'
  BY <1>T, <1>2, <1>4 DEF DeadIsClosed, Pcs
<1>Numbered. Numbered'
  BY <1>T, <1>2, <1>4 DEF Numbered, Disjoint
<1>Disjoint. Disjoint'
  BY <1>T, <1>2, <1>4 DEF Disjoint, Pcs, InHand
<1>Fresh. Fresh'
  BY <1>T, <1>2, <1>4 DEF Fresh, FreshTicket, Disjoint, Pcs, InHand
<1>Carries. Carries'
  BY <1>T, <1>2, <1>4 DEF Carries, CarriesOwn, Disjoint, Pcs, Fresh, FreshTicket, InHand
<1>Aging. Aging'
  BY <1>T, <1>2, <1>4 DEF Aging, Abandoned, Disjoint, Pcs, InHand
<1>Sleeping. Sleeping'
  BY <1>T, <1>2, <1>4 DEF Sleeping, Asleep, Disjoint, Pcs, InHand
<1>Live. ASSUME ~dead PROVE Live'
  <2>0. FreeOffQueues /\ RequesterTickets /\ WaitingTickets /\ UnreadTickets /\
       DaemonTickets /\ ReadMessages /\ Owed /\ Minded /\ NoneLost
    BY <1>1, <1>Live DEF Live
  <2>FreeOffQueues. FreeOffQueues'
    BY <1>T, <1>2, <1>4, <1>Live, <2>0 DEF FreeOffQueues, Disjoint, Pcs, InHand
  <2>RequesterTickets. RequesterTickets'
    <3>1. ASSUME NEW s \in Requesters PROVE RequesterTicket(s)'
      <4>1. CASE s = r
        BY <4>1, <1>T, <1>2, <1>4, <1>Live, <2>0
          DEF RequesterTickets, RequesterTicket, InHand, Pcs, DeadIsClosed, Numbered, Disjoint,
            Fresh, FreshTicket, Carries, CarriesOwn, Aging, Abandoned, Sleeping, Asleep,
            FreeOffQueues, WaitingTickets, WaitingTicket, UnreadTickets, UnreadTicket,
            DaemonTickets, DaemonTicket, ReadMessages, Owes, Owed, OwedTicket, Minded,
            MindedTicket, NoneLost, Kept
      <4>2. CASE s # r
        BY <4>2, <1>T, <1>2, <1>4, <1>Live, <2>0
          DEF RequesterTickets, RequesterTicket, InHand, Pcs, DeadIsClosed, Numbered, Disjoint,
            Fresh, FreshTicket, Carries, CarriesOwn, Aging, Abandoned, Sleeping, Asleep,
            FreeOffQueues, WaitingTickets, WaitingTicket, UnreadTickets, UnreadTicket,
            DaemonTickets, DaemonTicket, ReadMessages, Owes, Owed, OwedTicket, Minded,
            MindedTicket, NoneLost, Kept
      <4>. QED BY <4>1, <4>2
    <3>. QED BY <3>1 DEF RequesterTickets
  <2>WaitingTickets. WaitingTickets'
    BY <1>T, <1>2, <1>4, <1>Live, <2>0 DEF WaitingTickets, WaitingTicket, Disjoint, Pcs, InHand
  <2>UnreadTickets. UnreadTickets'
    BY <1>T, <1>2, <1>4, <1>Live, <2>0 DEF UnreadTickets, UnreadTicket, Disjoint, Pcs, InHand
  <2>DaemonTickets. DaemonTickets'
    BY <1>T, <1>2, <1>4, <1>Live, <2>0 DEF DaemonTickets, DaemonTicket, Disjoint, Pcs, InHand
  <2>ReadMessages. ReadMessages'
    <3>1. ASSUME NEW q \in inbox' PROVE \E u \in aw_head' : Owes(q, u)'
      <4>1. PICK u \in aw_head : Owes(q, u)
        BY <1>4, <2>0 DEF ReadMessages
      <4>2. u \in aw_head' /\ Owes(q, u)'
        BY <4>1, <1>T, <1>2, <1>4, <1>Live, <2>0
          DEF Owes, InHand, Pcs, DeadIsClosed, Numbered, Disjoint, Fresh, FreshTicket, Carries,
            CarriesOwn, Aging, Abandoned, Sleeping, Asleep, FreeOffQueues, RequesterTickets,
            RequesterTicket, WaitingTickets, WaitingTicket, UnreadTickets, UnreadTicket,
            DaemonTickets, DaemonTicket, Owed, OwedTicket, Minded, MindedTicket, NoneLost, Kept
      <4>. QED BY <4>2
    <3>. QED BY <3>1 DEF ReadMessages
  <2>Owed. Owed'
    BY <1>T, <1>2, <1>4, <1>Live, <2>0 DEF Owed, OwedTicket, Disjoint, Pcs, InHand
  <2>Minded. Minded'
    BY <1>T, <1>2, <1>4, <1>Live, <2>0 DEF Minded, MindedTicket, Disjoint, Pcs, InHand
  <2>NoneLost. NoneLost'
    BY <1>T, <1>2, <1>4, <1>Live, <2>0 DEF NoneLost, Kept, Disjoint, Pcs, InHand
  <2>. QED BY <2>FreeOffQueues, <2>RequesterTickets, <2>WaitingTickets, <2>UnreadTickets,
    <2>DaemonTickets, <2>ReadMessages, <2>Owed, <2>Minded, <2>NoneLost
    DEF Live
<1>P. ~panicked'
  BY <1>1, <1>2, <1>4 DEF Fresh, FreshTicket, Pcs
<1>. QED BY <1>Pcs, <1>DeadIsClosed, <1>Numbered, <1>Disjoint, <1>Fresh, <1>Carries, <1>Aging,
  <1>Sleeping, <1>Live, <1>P, <1>4
  DEF IInv, Base

(* fdisp_make fills in the message.                                        *)
LEMMA MakeMessageStep ==
  ASSUME Orderly, IInv, TypeOK', InHand', NEW r \in Requesters, MakeMessage(r)
  PROVE  IInv'
<1>1. TypeOK /\ ~panicked /\ Base /\ (dead \/ Live)
  BY DEF IInv
<1>2. Pcs /\ InHand /\ DeadIsClosed /\ Numbered /\ Disjoint /\ Fresh /\ Carries /\ Aging /\
     Sleeping
  BY <1>1 DEF Base
<1>T. /\ ticketer \in Nat /\ alltickets \subseteq Tickets /\ aw_head \subseteq Tickets
      /\ \A s \in Requesters : s \in Threads /\ s \notin Daemons
      /\ Requesters \subseteq Threads /\ Daemons \subseteq Threads
      /\ \A u \in Tickets : tk[u].unique \in Nat /\ tk[u].age \in Nat
      /\ \A s \in Requesters : mark[s] \in Nat
  BY TypeConsequences, <1>1
<1>3. r \in Threads /\ tick[r] \in Tickets /\ tk[tick[r]] \in Ticket
  BY <1>1, <1>2 DEF MakeMessage, InHand, TypeOK
<1>4. /\ pc[r] = "make"
      /\ pc'[r] = IF req[r].kind = "forget" THEN "message" ELSE "callback"
      /\ \A s \in Threads : s # r => pc'[s] = pc[s]
      /\ \A u \in Tickets : u # tick[r] => tk'[u] = tk[u]
      /\ tk'[tick[r]].unique = tk[tick[r]].unique
      /\ tk'[tick[r]].age = tk[tick[r]].age
      /\ tk'[tick[r]].flag = IF req[r].kind = "forget" THEN tk[tick[r]].flag \cup {"INVAL"} ELSE tk[tick[r]].flag
      /\ tk'[tick[r]].handler = tk[tick[r]].handler
      /\ tk'[tick[r]].ms = req[r].id
      /\ tk'[tick[r]].resp = tk[tick[r]].resp
      /\ tk'[tick[r]].errno = tk[tick[r]].errno
      /\ UNCHANGED <<dead, drain, closed, ticketer, alltickets, freetickets, ms_head, aw_head,
                     tick, req, mark, inbox, panicked>>
  <2>1. req[r] \in [id : 0..MaxRequests, kind : AllKinds]
    BY <1>1 DEF TypeOK
  <2>2. /\ tk'[tick[r]] = Filled(tk[tick[r]], req[r])
        /\ \A u \in Tickets : u # tick[r] => tk'[u] = tk[u]
    BY <1>1, <1>3 DEF MakeMessage, TypeOK
  <2>3. pc[r] = "make" /\ Goto(r, IF req[r].kind = "forget" THEN "message" ELSE "callback")
    BY DEF MakeMessage
  <2>4. UNCHANGED <<dead, drain, closed, ticketer, alltickets, freetickets, ms_head, aw_head,
                    tick, req, mark, inbox, panicked>>
    BY DEF MakeMessage, session, pool, queues, work, locals, daemon
  <2>5. pc'[r] = (IF req[r].kind = "forget" THEN "message" ELSE "callback") /\ \A s \in Threads : s # r => pc'[s] = pc[s]
    BY <2>3, <1>1, <1>3 DEF TypeOK, Goto
  <2>. QED BY <1>3, <2>1, <2>2, <2>3, <2>4, <2>5, FilledFacts
<1>Pcs. Pcs'
  BY <1>T, <1>2, <1>3, <1>4 DEF Pcs
<1>DeadIsClosed. DeadIsClosed'
  BY <1>T, <1>2, <1>3, <1>4 DEF DeadIsClosed, Pcs
<1>Numbered. Numbered'
  BY <1>T, <1>2, <1>3, <1>4 DEF Numbered, Disjoint
<1>Disjoint. Disjoint'
  BY <1>T, <1>2, <1>3, <1>4 DEF Disjoint, Pcs, InHand
<1>Fresh. Fresh'
  BY <1>T, <1>2, <1>3, <1>4 DEF Fresh, FreshTicket, Disjoint, Pcs, InHand
<1>Carries. Carries'
  BY <1>T, <1>2, <1>3, <1>4 DEF Carries, CarriesOwn, Disjoint, Pcs, Fresh, FreshTicket, InHand
<1>Aging. Aging'
  BY <1>T, <1>2, <1>3, <1>4 DEF Aging, Abandoned, Disjoint, Pcs, InHand
<1>Sleeping. Sleeping'
  BY <1>T, <1>2, <1>3, <1>4 DEF Sleeping, Asleep, Disjoint, Pcs, InHand
<1>Live. ASSUME ~dead PROVE Live'
  <2>0. FreeOffQueues /\ RequesterTickets /\ WaitingTickets /\ UnreadTickets /\
       DaemonTickets /\ ReadMessages /\ Owed /\ Minded /\ NoneLost
    BY <1>1, <1>Live DEF Live
  <2>FreeOffQueues. FreeOffQueues'
    BY <1>T, <1>2, <1>3, <1>4, <1>Live, <2>0 DEF FreeOffQueues, Disjoint, Pcs, InHand
  <2>RequesterTickets. RequesterTickets'
    BY <1>T, <1>2, <1>3, <1>4, <1>Live, <2>0
      DEF RequesterTickets, RequesterTicket, Disjoint, Pcs, Fresh, FreshTicket, InHand
  <2>WaitingTickets. WaitingTickets'
    <3>1. ASSUME NEW u \in aw_head' PROVE WaitingTicket(u)'
      BY <3>1, <1>T, <1>2, <1>3, <1>4, <1>Live, <2>0
        DEF WaitingTickets, WaitingTicket, InHand, Pcs, DeadIsClosed, Numbered, Disjoint, Fresh,
          FreshTicket, Carries, CarriesOwn, Aging, Abandoned, Sleeping, Asleep, FreeOffQueues,
          RequesterTickets, RequesterTicket, UnreadTickets, UnreadTicket, DaemonTickets,
          DaemonTicket, ReadMessages, Owes, Owed, OwedTicket, Minded, MindedTicket, NoneLost, Kept
    <3>. QED BY <3>1, <1>T, <1>2, <1>3, <1>4, <1>Live, <2>0 DEF WaitingTickets, Disjoint
  <2>UnreadTickets. UnreadTickets'
    <3>1. ASSUME NEW u \in Range(ms_head') PROVE UnreadTicket(u)'
      BY <3>1, <1>T, <1>2, <1>3, <1>4, <1>Live, <2>0
        DEF UnreadTickets, UnreadTicket, InHand, Pcs, DeadIsClosed, Numbered, Disjoint, Fresh,
          FreshTicket, Carries, CarriesOwn, Aging, Abandoned, Sleeping, Asleep, FreeOffQueues,
          RequesterTickets, RequesterTicket, WaitingTickets, WaitingTicket, DaemonTickets,
          DaemonTicket, ReadMessages, Owes, Owed, OwedTicket, Minded, MindedTicket, NoneLost, Kept
    <3>. QED BY <3>1, <1>T, <1>2, <1>3, <1>4, <1>Live, <2>0
      DEF UnreadTickets, Disjoint, UnreadTicket, FreeOffQueues, RequesterTickets,
        RequesterTicket
  <2>DaemonTickets. DaemonTickets'
    <3>1. ASSUME NEW e \in Daemons PROVE DaemonTicket(e)'
      <4>1. CASE e = r
        BY <4>1, <1>T, <1>2, <1>3, <1>4, <1>Live, <2>0
          DEF DaemonTickets, DaemonTicket, InHand, Pcs, DeadIsClosed, Numbered, Disjoint, Fresh,
            FreshTicket, Carries, CarriesOwn, Aging, Abandoned, Sleeping, Asleep, FreeOffQueues,
            RequesterTickets, RequesterTicket, WaitingTickets, WaitingTicket, UnreadTickets,
            UnreadTicket, ReadMessages, Owes, Owed, OwedTicket, Minded, MindedTicket, NoneLost,
            Kept
      <4>2. CASE e # r
        BY <4>2, <1>T, <1>2, <1>3, <1>4, <1>Live, <2>0
          DEF DaemonTickets, DaemonTicket, InHand, Pcs, DeadIsClosed, Numbered, Disjoint, Fresh,
            FreshTicket, Carries, CarriesOwn, Aging, Abandoned, Sleeping, Asleep, FreeOffQueues,
            RequesterTickets, RequesterTicket, WaitingTickets, WaitingTicket, UnreadTickets,
            UnreadTicket, ReadMessages, Owes, Owed, OwedTicket, Minded, MindedTicket, NoneLost,
            Kept
      <4>. QED BY <4>1, <4>2
    <3>. QED BY <3>1, <1>T, <1>2, <1>3, <1>4, <1>Live, <2>0
      DEF DaemonTickets, InHand, Pcs, DeadIsClosed, Numbered, Disjoint, Fresh, FreshTicket,
        Carries, CarriesOwn, Aging, Abandoned, Sleeping, Asleep, FreeOffQueues, RequesterTickets,
        RequesterTicket, WaitingTickets, WaitingTicket, UnreadTickets, UnreadTicket, ReadMessages,
        Owes, Owed, OwedTicket, Minded, MindedTicket, NoneLost, Kept
  <2>ReadMessages. ReadMessages'
    BY <1>T, <1>2, <1>3, <1>4, <1>Live, <2>0 DEF ReadMessages, Owes, Disjoint, Pcs
  <2>Owed. Owed'
    BY <1>T, <1>2, <1>3, <1>4, <1>Live, <2>0 DEF Owed, OwedTicket, Disjoint, Pcs, InHand
  <2>Minded. Minded'
    BY <1>T, <1>2, <1>3, <1>4, <1>Live, <2>0 DEF Minded, MindedTicket, Disjoint, Pcs, InHand
  <2>NoneLost. NoneLost'
    BY <1>T, <1>2, <1>3, <1>4, <1>Live, <2>0 DEF NoneLost, Kept, Disjoint, Pcs, InHand
  <2>. QED BY <2>FreeOffQueues, <2>RequesterTickets, <2>WaitingTickets, <2>UnreadTickets,
    <2>DaemonTickets, <2>ReadMessages, <2>Owed, <2>Minded, <2>NoneLost
    DEF Live
<1>P. ~panicked'
  BY <1>1, <1>2, <1>3, <1>4 DEF Fresh, FreshTicket, Pcs
<1>. QED BY <1>Pcs, <1>DeadIsClosed, <1>Numbered, <1>Disjoint, <1>Fresh, <1>Carries, <1>Aging,
  <1>Sleeping, <1>Live, <1>P, <1>4
  DEF IInv, Base

(* fdisp_make_canfail kills its ticket.                                    *)
LEMMA MakeFailsStep ==
  ASSUME Orderly, IInv, TypeOK', InHand', NEW r \in Requesters, MakeFails(r)
  PROVE  IInv'
<1>1. TypeOK /\ ~panicked /\ Base /\ (dead \/ Live)
  BY DEF IInv
<1>2. Pcs /\ InHand /\ DeadIsClosed /\ Numbered /\ Disjoint /\ Fresh /\ Carries /\ Aging /\
     Sleeping
  BY <1>1 DEF Base
<1>T. /\ ticketer \in Nat /\ alltickets \subseteq Tickets /\ aw_head \subseteq Tickets
      /\ \A s \in Requesters : s \in Threads /\ s \notin Daemons
      /\ Requesters \subseteq Threads /\ Daemons \subseteq Threads
      /\ \A u \in Tickets : tk[u].unique \in Nat /\ tk[u].age \in Nat
      /\ \A s \in Requesters : mark[s] \in Nat
  BY TypeConsequences, <1>1
<1>3. r \in Threads /\ tick[r] \in Tickets /\ tk[tick[r]] \in Ticket
  BY <1>1, <1>2 DEF MakeFails, InHand, TypeOK
<1>4. /\ pc[r] = "make"
      /\ pc'[r] = "idle"
      /\ tick'[r] = NoTicket
      /\ \A s \in Threads : s # r => pc'[s] = pc[s]
      /\ \A s \in Threads : s # r => tick'[s] = tick[s]
      /\ \A s \in Requesters : s # r => req'[s] = req[s]
      /\ alltickets' = alltickets \ {tick[r]}
      /\ \A u \in Tickets : u # tick[r] => tk'[u] = tk[u]
      /\ UNCHANGED <<dead, drain, closed, ticketer, freetickets, ms_head, aw_head, mark, inbox,
                     panicked>>
  BY <1>1, <1>3
    DEF MakeFails, Orderly, TypeOK, Goto, Leave, Destroy, session, pool, queues, work, locals,
      daemon
<1>A. \A s \in Threads : s # r => ~Holds(s) \/ tick[s] # tick[r]
  <2>1. Holds(r)
    BY <1>3, <1>4
  <2>2. ASSUME NEW s \in Requesters, s # r PROVE ~Holds(s) \/ tick[s] # tick[r]
    BY <2>1, <2>2, <1>2 DEF Disjoint
  <2>3. ASSUME NEW d \in Daemons, Holds(d) PROVE tick[d] # tick[r]
    <3>1. CASE dead
      BY <3>1, <2>3, <1>2 DEF DeadIsClosed, Pcs
    <3>2. CASE Live
      BY <3>2, <2>3, <1>4 DEF Live, RequesterTickets, RequesterTicket
    <3>. QED BY <3>1, <3>2, <1>1
  <2>. QED BY <2>2, <2>3
<1>Pcs. Pcs'
  BY <1>T, <1>2, <1>3, <1>4, <1>A DEF Pcs
<1>DeadIsClosed. DeadIsClosed'
  BY <1>T, <1>2, <1>3, <1>4, <1>A DEF DeadIsClosed, Pcs
<1>Numbered. Numbered'
  BY <1>T, <1>2, <1>3, <1>4, <1>A DEF Numbered, Disjoint
<1>Disjoint. Disjoint'
  BY <1>T, <1>2, <1>3, <1>4, <1>A
    DEF Disjoint, InHand, Pcs, DeadIsClosed, Numbered, Fresh, FreshTicket, Carries, CarriesOwn,
      Aging, Abandoned, Sleeping, Asleep
<1>Fresh. Fresh'
  BY <1>T, <1>2, <1>3, <1>4, <1>A DEF Fresh, FreshTicket, Disjoint, Pcs, InHand
<1>Carries. Carries'
  BY <1>T, <1>2, <1>3, <1>4, <1>A DEF Carries, CarriesOwn, Disjoint, Pcs, Fresh, FreshTicket, InHand
<1>Aging. Aging'
  BY <1>T, <1>2, <1>3, <1>4, <1>A DEF Aging, Abandoned, Disjoint, Pcs, InHand
<1>Sleeping. Sleeping'
  BY <1>T, <1>2, <1>3, <1>4, <1>A DEF Sleeping, Asleep, Disjoint, Pcs, InHand
<1>Live. ASSUME ~dead PROVE Live'
  <2>0. FreeOffQueues /\ RequesterTickets /\ WaitingTickets /\ UnreadTickets /\
       DaemonTickets /\ ReadMessages /\ Owed /\ Minded /\ NoneLost
    BY <1>1, <1>Live DEF Live
  <2>FreeOffQueues. FreeOffQueues'
    BY <1>T, <1>2, <1>3, <1>4, <1>A, <1>Live, <2>0 DEF FreeOffQueues, Disjoint, Pcs, InHand
  <2>RequesterTickets. RequesterTickets'
    BY <1>T, <1>2, <1>3, <1>4, <1>A, <1>Live, <2>0
      DEF RequesterTickets, RequesterTicket, Disjoint, Pcs, Fresh, FreshTicket, InHand
  <2>WaitingTickets. WaitingTickets'
    <3>1. ASSUME NEW u \in aw_head' PROVE WaitingTicket(u)'
      BY <3>1, <1>T, <1>2, <1>3, <1>4, <1>A, <1>Live, <2>0
        DEF WaitingTickets, WaitingTicket, InHand, Pcs, DeadIsClosed, Numbered, Disjoint, Fresh,
          FreshTicket, Carries, CarriesOwn, Aging, Abandoned, Sleeping, Asleep, FreeOffQueues,
          RequesterTickets, RequesterTicket, UnreadTickets, UnreadTicket, DaemonTickets,
          DaemonTicket, ReadMessages, Owes, Owed, OwedTicket, Minded, MindedTicket, NoneLost, Kept
    <3>. QED BY <3>1, <1>T, <1>2, <1>3, <1>4, <1>A, <1>Live, <2>0 DEF WaitingTickets, Disjoint
  <2>UnreadTickets. UnreadTickets'
    <3>1. ASSUME NEW u \in Range(ms_head') PROVE UnreadTicket(u)'
      BY <3>1, <1>T, <1>2, <1>3, <1>4, <1>A, <1>Live, <2>0
        DEF UnreadTickets, UnreadTicket, InHand, Pcs, DeadIsClosed, Numbered, Disjoint, Fresh,
          FreshTicket, Carries, CarriesOwn, Aging, Abandoned, Sleeping, Asleep, FreeOffQueues,
          RequesterTickets, RequesterTicket, WaitingTickets, WaitingTicket, DaemonTickets,
          DaemonTicket, ReadMessages, Owes, Owed, OwedTicket, Minded, MindedTicket, NoneLost, Kept
    <3>. QED BY <3>1, <1>T, <1>2, <1>3, <1>4, <1>A, <1>Live, <2>0
      DEF UnreadTickets, Disjoint, UnreadTicket, FreeOffQueues, RequesterTickets,
        RequesterTicket
  <2>DaemonTickets. DaemonTickets'
    <3>1. ASSUME NEW e \in Daemons PROVE DaemonTicket(e)'
      <4>1. CASE e = r
        BY <4>1, <1>T, <1>2, <1>3, <1>4, <1>A, <1>Live, <2>0
          DEF DaemonTickets, DaemonTicket, InHand, Pcs, DeadIsClosed, Numbered, Disjoint, Fresh,
            FreshTicket, Carries, CarriesOwn, Aging, Abandoned, Sleeping, Asleep, FreeOffQueues,
            RequesterTickets, RequesterTicket, WaitingTickets, WaitingTicket, UnreadTickets,
            UnreadTicket, ReadMessages, Owes, Owed, OwedTicket, Minded, MindedTicket, NoneLost,
            Kept
      <4>2. CASE e # r
        BY <4>2, <1>T, <1>2, <1>3, <1>4, <1>A, <1>Live, <2>0
          DEF DaemonTickets, DaemonTicket, InHand, Pcs, DeadIsClosed, Numbered, Disjoint, Fresh,
            FreshTicket, Carries, CarriesOwn, Aging, Abandoned, Sleeping, Asleep, FreeOffQueues,
            RequesterTickets, RequesterTicket, WaitingTickets, WaitingTicket, UnreadTickets,
            UnreadTicket, ReadMessages, Owes, Owed, OwedTicket, Minded, MindedTicket, NoneLost,
            Kept
      <4>. QED BY <4>1, <4>2
    <3>. QED BY <3>1, <1>T, <1>2, <1>3, <1>4, <1>A, <1>Live, <2>0
      DEF DaemonTickets, InHand, Pcs, DeadIsClosed, Numbered, Disjoint, Fresh, FreshTicket,
        Carries, CarriesOwn, Aging, Abandoned, Sleeping, Asleep, FreeOffQueues, RequesterTickets,
        RequesterTicket, WaitingTickets, WaitingTicket, UnreadTickets, UnreadTicket, ReadMessages,
        Owes, Owed, OwedTicket, Minded, MindedTicket, NoneLost, Kept
  <2>ReadMessages. ReadMessages'
    BY <1>T, <1>2, <1>3, <1>4, <1>A, <1>Live, <2>0 DEF ReadMessages, Owes, Disjoint, Pcs
  <2>Owed. Owed'
    BY <1>T, <1>2, <1>3, <1>4, <1>A, <1>Live, <2>0 DEF Owed, OwedTicket, Disjoint, Pcs, InHand
  <2>Minded. Minded'
    <3>1. ASSUME NEW u \in Tickets PROVE MindedTicket(u)'
      <4>1. MindedTicket(u)
        BY <2>0 DEF Minded
      <4>. QED BY <4>1, <1>T, <1>2, <1>3, <1>4, <1>A, <1>Live, <2>0
        DEF MindedTicket, InHand, Pcs, DeadIsClosed, Numbered, Disjoint, Fresh, FreshTicket,
          Carries, CarriesOwn, Aging, Abandoned, Sleeping, Asleep, FreeOffQueues,
          RequesterTickets, RequesterTicket, WaitingTickets, WaitingTicket, UnreadTickets,
          UnreadTicket, DaemonTickets, DaemonTicket, ReadMessages, Owes, Owed, OwedTicket,
          NoneLost, Kept
    <3>. QED BY <3>1 DEF Minded
  <2>NoneLost. NoneLost'
    BY <1>T, <1>2, <1>3, <1>4, <1>A, <1>Live, <2>0 DEF NoneLost, Kept, Disjoint, Pcs, InHand
  <2>. QED BY <2>FreeOffQueues, <2>RequesterTickets, <2>WaitingTickets, <2>UnreadTickets,
    <2>DaemonTickets, <2>ReadMessages, <2>Owed, <2>Minded, <2>NoneLost
    DEF Live
<1>P. ~panicked'
  BY <1>1, <1>2, <1>3, <1>4 DEF Fresh, FreshTicket, Pcs
<1>. QED BY <1>Pcs, <1>DeadIsClosed, <1>Numbered, <1>Disjoint, <1>Fresh, <1>Carries, <1>Aging,
  <1>Sleeping, <1>Live, <1>P, <1>4
  DEF IInv, Base

(* fuse_insert_callback installs the handler, unless dead.                 *)
LEMMA InsertCallbackStep ==
  ASSUME Orderly, IInv, TypeOK', InHand', NEW r \in Requesters, InsertCallback(r)
  PROVE  IInv'
<1>1. TypeOK /\ ~panicked /\ Base /\ (dead \/ Live)
  BY DEF IInv
<1>2. Pcs /\ InHand /\ DeadIsClosed /\ Numbered /\ Disjoint /\ Fresh /\ Carries /\ Aging /\
     Sleeping
  BY <1>1 DEF Base
<1>T. /\ ticketer \in Nat /\ alltickets \subseteq Tickets /\ aw_head \subseteq Tickets
      /\ \A s \in Requesters : s \in Threads /\ s \notin Daemons
      /\ Requesters \subseteq Threads /\ Daemons \subseteq Threads
      /\ \A u \in Tickets : tk[u].unique \in Nat /\ tk[u].age \in Nat
      /\ \A s \in Requesters : mark[s] \in Nat
  BY TypeConsequences, <1>1
<1>3. r \in Threads /\ tick[r] \in Tickets /\ tk[tick[r]] \in Ticket
  BY <1>1, <1>2 DEF InsertCallback, InHand, TypeOK
<1>4. /\ pc[r] = "callback"
      /\ pc'[r] = IF dead THEN "message" ELSE "push_aw"
      /\ \A s \in Threads : s # r => pc'[s] = pc[s]
      /\ \A u \in Tickets : u # tick[r] => tk'[u] = tk[u]
      /\ tk'[tick[r]].unique = tk[tick[r]].unique
      /\ tk'[tick[r]].age = tk[tick[r]].age
      /\ tk'[tick[r]].flag = tk[tick[r]].flag
      /\ tk'[tick[r]].ms = tk[tick[r]].ms
      /\ tk'[tick[r]].resp = tk[tick[r]].resp
      /\ tk'[tick[r]].errno = tk[tick[r]].errno
      /\ ~dead => (req[r].kind = "wait" <=> tk'[tick[r]].handler = "standard")
      /\ UNCHANGED <<dead, drain, closed, ticketer, alltickets, freetickets, ms_head, aw_head,
                     tick, req, mark, inbox, panicked>>
  BY <1>1, <1>3, HandlerFacts
    DEF InsertCallback, Orderly, TypeOK, Goto, session, pool, queues, work, locals, daemon
<1>Pcs. Pcs'
  BY <1>T, <1>2, <1>3, <1>4 DEF Pcs
<1>DeadIsClosed. DeadIsClosed'
  BY <1>T, <1>2, <1>3, <1>4 DEF DeadIsClosed, Pcs
<1>Numbered. Numbered'
  BY <1>T, <1>2, <1>3, <1>4 DEF Numbered, Disjoint
<1>Disjoint. Disjoint'
  BY <1>T, <1>2, <1>3, <1>4 DEF Disjoint, Pcs, InHand
<1>Fresh. Fresh'
  BY <1>T, <1>2, <1>3, <1>4 DEF Fresh, FreshTicket, Disjoint, Pcs, InHand
<1>Carries. Carries'
  BY <1>T, <1>2, <1>3, <1>4 DEF Carries, CarriesOwn, Disjoint, Pcs, Fresh, FreshTicket, InHand
<1>Aging. Aging'
  BY <1>T, <1>2, <1>3, <1>4 DEF Aging, Abandoned, Disjoint, Pcs, InHand
<1>Sleeping. Sleeping'
  BY <1>T, <1>2, <1>3, <1>4 DEF Sleeping, Asleep, Disjoint, Pcs, InHand
<1>Live. ASSUME ~dead PROVE Live'
  <2>0. FreeOffQueues /\ RequesterTickets /\ WaitingTickets /\ UnreadTickets /\
       DaemonTickets /\ ReadMessages /\ Owed /\ Minded /\ NoneLost
    BY <1>1, <1>Live DEF Live
  <2>FreeOffQueues. FreeOffQueues'
    BY <1>T, <1>2, <1>3, <1>4, <1>Live, <2>0 DEF FreeOffQueues, Disjoint, Pcs, InHand
  <2>RequesterTickets. RequesterTickets'
    BY <1>T, <1>2, <1>3, <1>4, <1>Live, <2>0
      DEF RequesterTickets, RequesterTicket, Disjoint, Pcs, Fresh, FreshTicket, InHand
  <2>WaitingTickets. WaitingTickets'
    BY <1>T, <1>2, <1>3, <1>4, <1>Live, <2>0
      DEF WaitingTickets, WaitingTicket, Disjoint, Pcs, InHand
  <2>UnreadTickets. UnreadTickets'
    BY <1>T, <1>2, <1>3, <1>4, <1>Live, <2>0 DEF UnreadTickets, UnreadTicket, Disjoint, Pcs, InHand
  <2>DaemonTickets. DaemonTickets'
    BY <1>T, <1>2, <1>3, <1>4, <1>Live, <2>0 DEF DaemonTickets, DaemonTicket, Disjoint, Pcs, InHand
  <2>ReadMessages. ReadMessages'
    BY <1>T, <1>2, <1>3, <1>4, <1>Live, <2>0 DEF ReadMessages, Owes, Disjoint, Pcs
  <2>Owed. Owed'
    BY <1>T, <1>2, <1>3, <1>4, <1>Live, <2>0 DEF Owed, OwedTicket, Disjoint, Pcs, InHand
  <2>Minded. Minded'
    BY <1>T, <1>2, <1>3, <1>4, <1>Live, <2>0 DEF Minded, MindedTicket, Disjoint, Pcs, InHand
  <2>NoneLost. NoneLost'
    BY <1>T, <1>2, <1>3, <1>4, <1>Live, <2>0 DEF NoneLost, Kept, Disjoint, Pcs, InHand
  <2>. QED BY <2>FreeOffQueues, <2>RequesterTickets, <2>WaitingTickets, <2>UnreadTickets,
    <2>DaemonTickets, <2>ReadMessages, <2>Owed, <2>Minded, <2>NoneLost
    DEF Live
<1>P. ~panicked'
  BY <1>1, <1>2, <1>3, <1>4 DEF Fresh, FreshTicket, Pcs
<1>. QED BY <1>Pcs, <1>DeadIsClosed, <1>Numbered, <1>Disjoint, <1>Fresh, <1>Carries, <1>Aging,
  <1>Sleeping, <1>Live, <1>P, <1>4
  DEF IInv, Base

(* The ticket joins the answer queue.                                      *)
LEMMA PushAwStep ==
  ASSUME Orderly, IInv, TypeOK', InHand', NEW r \in Requesters, PushAw(r)
  PROVE  IInv'
<1>1. TypeOK /\ ~panicked /\ Base /\ (dead \/ Live)
  BY DEF IInv
<1>2. Pcs /\ InHand /\ DeadIsClosed /\ Numbered /\ Disjoint /\ Fresh /\ Carries /\ Aging /\
     Sleeping
  BY <1>1 DEF Base
<1>T. /\ ticketer \in Nat /\ alltickets \subseteq Tickets /\ aw_head \subseteq Tickets
      /\ \A s \in Requesters : s \in Threads /\ s \notin Daemons
      /\ Requesters \subseteq Threads /\ Daemons \subseteq Threads
      /\ \A u \in Tickets : tk[u].unique \in Nat /\ tk[u].age \in Nat
      /\ \A s \in Requesters : mark[s] \in Nat
  BY TypeConsequences, <1>1
<1>3. r \in Threads /\ tick[r] \in Tickets /\ tk[tick[r]] \in Ticket
  BY <1>1, <1>2 DEF PushAw, InHand, TypeOK
<1>4. /\ pc[r] = "push_aw"
      /\ pc'[r] = "message"
      /\ \A s \in Threads : s # r => pc'[s] = pc[s]
      /\ aw_head' = aw_head \cup {tick[r]}
      /\ UNCHANGED <<dead, drain, closed, ticketer, alltickets, freetickets, ms_head, tk, tick,
                     req, mark, inbox, panicked>>
  BY <1>1, <1>3 DEF PushAw, Orderly, TypeOK, Goto, session, pool, queues, work, locals, daemon
<1>Pcs. Pcs'
  BY <1>T, <1>2, <1>3, <1>4 DEF Pcs
<1>DeadIsClosed. DeadIsClosed'
  BY <1>T, <1>2, <1>3, <1>4 DEF DeadIsClosed, Pcs
<1>Numbered. Numbered'
  BY <1>T, <1>2, <1>3, <1>4 DEF Numbered, Disjoint
<1>Disjoint. Disjoint'
  BY <1>T, <1>2, <1>3, <1>4 DEF Disjoint, Pcs, InHand
<1>Fresh. Fresh'
  BY <1>T, <1>2, <1>3, <1>4 DEF Fresh, FreshTicket, Disjoint, Pcs, InHand
<1>Carries. Carries'
  BY <1>T, <1>2, <1>3, <1>4 DEF Carries, CarriesOwn, Disjoint, Pcs, Fresh, FreshTicket, InHand
<1>Aging. Aging'
  BY <1>T, <1>2, <1>3, <1>4 DEF Aging, Abandoned, Disjoint, Pcs, InHand
<1>Sleeping. Sleeping'
  BY <1>T, <1>2, <1>3, <1>4 DEF Sleeping, Asleep, Disjoint, Pcs, InHand
<1>Live. ASSUME ~dead PROVE Live'
  <2>0. FreeOffQueues /\ RequesterTickets /\ WaitingTickets /\ UnreadTickets /\
       DaemonTickets /\ ReadMessages /\ Owed /\ Minded /\ NoneLost
    BY <1>1, <1>Live DEF Live
  <2>FreeOffQueues. FreeOffQueues'
    BY <1>T, <1>2, <1>3, <1>4, <1>Live, <2>0 DEF FreeOffQueues, Disjoint, Pcs, InHand
  <2>RequesterTickets. RequesterTickets'
    BY <1>T, <1>2, <1>3, <1>4, <1>Live, <2>0
      DEF RequesterTickets, RequesterTicket, Disjoint, Pcs, Fresh, FreshTicket, InHand
  <2>WaitingTickets. WaitingTickets'
    <3>1. ASSUME NEW u \in aw_head' PROVE WaitingTicket(u)'
      BY <3>1, <1>T, <1>2, <1>3, <1>4, <1>Live, <2>0
        DEF WaitingTickets, WaitingTicket, InHand, Pcs, DeadIsClosed, Numbered, Disjoint, Fresh,
          FreshTicket, Carries, CarriesOwn, Aging, Abandoned, Sleeping, Asleep, FreeOffQueues,
          RequesterTickets, RequesterTicket, UnreadTickets, UnreadTicket, DaemonTickets,
          DaemonTicket, ReadMessages, Owes, Owed, OwedTicket, Minded, MindedTicket, NoneLost, Kept
    <3>. QED BY <3>1, <1>T, <1>2, <1>3, <1>4, <1>Live, <2>0 DEF WaitingTickets, Disjoint
  <2>UnreadTickets. UnreadTickets'
    BY <1>T, <1>2, <1>3, <1>4, <1>Live, <2>0 DEF UnreadTickets, UnreadTicket, Disjoint, Pcs, InHand
  <2>DaemonTickets. DaemonTickets'
    <3>1. ASSUME NEW e \in Daemons PROVE DaemonTicket(e)'
      <4>1. CASE e = r
        BY <4>1, <1>T, <1>2, <1>3, <1>4, <1>Live, <2>0
          DEF DaemonTickets, DaemonTicket, InHand, Pcs, DeadIsClosed, Numbered, Disjoint, Fresh,
            FreshTicket, Carries, CarriesOwn, Aging, Abandoned, Sleeping, Asleep, FreeOffQueues,
            RequesterTickets, RequesterTicket, WaitingTickets, WaitingTicket, UnreadTickets,
            UnreadTicket, ReadMessages, Owes, Owed, OwedTicket, Minded, MindedTicket, NoneLost,
            Kept
      <4>2. CASE e # r
        BY <4>2, <1>T, <1>2, <1>3, <1>4, <1>Live, <2>0
          DEF DaemonTickets, DaemonTicket, InHand, Pcs, DeadIsClosed, Numbered, Disjoint, Fresh,
            FreshTicket, Carries, CarriesOwn, Aging, Abandoned, Sleeping, Asleep, FreeOffQueues,
            RequesterTickets, RequesterTicket, WaitingTickets, WaitingTicket, UnreadTickets,
            UnreadTicket, ReadMessages, Owes, Owed, OwedTicket, Minded, MindedTicket, NoneLost,
            Kept
      <4>. QED BY <4>1, <4>2
    <3>. QED BY <3>1, <1>T, <1>2, <1>3, <1>4, <1>Live, <2>0
      DEF DaemonTickets, InHand, Pcs, DeadIsClosed, Numbered, Disjoint, Fresh, FreshTicket,
        Carries, CarriesOwn, Aging, Abandoned, Sleeping, Asleep, FreeOffQueues, RequesterTickets,
        RequesterTicket, WaitingTickets, WaitingTicket, UnreadTickets, UnreadTicket, ReadMessages,
        Owes, Owed, OwedTicket, Minded, MindedTicket, NoneLost, Kept
  <2>ReadMessages. ReadMessages'
    BY <1>T, <1>2, <1>3, <1>4, <1>Live, <2>0 DEF ReadMessages, Owes, Disjoint, Pcs
  <2>Owed. Owed'
    BY <1>T, <1>2, <1>3, <1>4, <1>Live, <2>0 DEF Owed, OwedTicket, Disjoint, Pcs, InHand
  <2>Minded. Minded'
    BY <1>T, <1>2, <1>3, <1>4, <1>Live, <2>0 DEF Minded, MindedTicket, Disjoint, Pcs, InHand
  <2>NoneLost. NoneLost'
    BY <1>T, <1>2, <1>3, <1>4, <1>Live, <2>0 DEF NoneLost, Kept, Disjoint, Pcs, InHand
  <2>. QED BY <2>FreeOffQueues, <2>RequesterTickets, <2>WaitingTickets, <2>UnreadTickets,
    <2>DaemonTickets, <2>ReadMessages, <2>Owed, <2>Minded, <2>NoneLost
    DEF Live
<1>P. ~panicked'
  BY <1>1, <1>2, <1>3, <1>4 DEF Fresh, FreshTicket, Pcs
<1>. QED BY <1>Pcs, <1>DeadIsClosed, <1>Numbered, <1>Disjoint, <1>Fresh, <1>Carries, <1>Aging,
  <1>Sleeping, <1>Live, <1>P, <1>4
  DEF IInv, Base

(* fuse_insert_message finds the ticket clean, so does not panic.          *)
LEMMA InsertMessageStep ==
  ASSUME Orderly, IInv, TypeOK', InHand', NEW r \in Requesters, InsertMessage(r)
  PROVE  IInv'
<1>1. TypeOK /\ ~panicked /\ Base /\ (dead \/ Live)
  BY DEF IInv
<1>2. Pcs /\ InHand /\ DeadIsClosed /\ Numbered /\ Disjoint /\ Fresh /\ Carries /\ Aging /\
     Sleeping
  BY <1>1 DEF Base
<1>T. /\ ticketer \in Nat /\ alltickets \subseteq Tickets /\ aw_head \subseteq Tickets
      /\ \A s \in Requesters : s \in Threads /\ s \notin Daemons
      /\ Requesters \subseteq Threads /\ Daemons \subseteq Threads
      /\ \A u \in Tickets : tk[u].unique \in Nat /\ tk[u].age \in Nat
      /\ \A s \in Requesters : mark[s] \in Nat
  BY TypeConsequences, <1>1
<1>3. r \in Threads /\ tick[r] \in Tickets /\ tk[tick[r]] \in Ticket
  BY <1>1, <1>2 DEF InsertMessage, InHand, TypeOK
<1>4. /\ pc[r] = "message"
      /\ panicked' = ("DIRTY" \in tk[tick[r]].flag)
      /\ \A u \in Tickets : u # tick[r] => tk'[u] = tk[u]
      /\ tk'[tick[r]].unique = tk[tick[r]].unique
      /\ tk'[tick[r]].age = tk[tick[r]].age
      /\ tk'[tick[r]].flag = tk[tick[r]].flag \cup {"DIRTY"}
      /\ tk'[tick[r]].handler = tk[tick[r]].handler
      /\ tk'[tick[r]].ms = tk[tick[r]].ms
      /\ tk'[tick[r]].resp = tk[tick[r]].resp
      /\ tk'[tick[r]].errno = tk[tick[r]].errno
      /\ \A s \in Threads : s # r => pc'[s] = pc[s]
      /\ \A s \in Threads : s # r => tick'[s] = tick[s]
      /\ \A s \in Requesters : s # r => req'[s] = req[s]
      /\ \/ /\ ~dead
            /\ pc'[r] = "push_ms"
            /\ tick' = tick
            /\ req' = req
         \/ /\ dead
            /\ req[r].kind = "wait"
            /\ pc'[r] = "wait"
            /\ tick' = tick
            /\ req' = req
         \/ /\ dead
            /\ req[r].kind # "wait"
            /\ pc'[r] = "idle"
            /\ tick'[r] = NoTicket
      /\ UNCHANGED <<dead, drain, closed, ticketer, alltickets, freetickets, ms_head, aw_head,
                     mark, inbox>>
  BY <1>1, <1>3, FlagFacts
    DEF InsertMessage, Orderly, TypeOK, Goto, Flags, Sent, Leave, session, pool, queues, work,
      locals, daemon
<1>Pcs. Pcs'
  BY <1>T, <1>2, <1>3, <1>4 DEF Pcs
<1>DeadIsClosed. DeadIsClosed'
  BY <1>T, <1>2, <1>3, <1>4 DEF DeadIsClosed, Pcs
<1>Numbered. Numbered'
  BY <1>T, <1>2, <1>3, <1>4 DEF Numbered, Disjoint
<1>Disjoint. Disjoint'
  BY <1>T, <1>2, <1>3, <1>4 DEF Disjoint, Pcs, InHand
<1>Fresh. Fresh'
  BY <1>T, <1>2, <1>3, <1>4 DEF Fresh, FreshTicket, Disjoint, Pcs, InHand
<1>Carries. Carries'
  BY <1>T, <1>2, <1>3, <1>4 DEF Carries, CarriesOwn, Disjoint, Pcs, Fresh, FreshTicket, InHand
<1>Aging. Aging'
  BY <1>T, <1>2, <1>3, <1>4 DEF Aging, Abandoned, Disjoint, Pcs, InHand
<1>Sleeping. Sleeping'
  BY <1>T, <1>2, <1>3, <1>4 DEF Sleeping, Asleep, Disjoint, Pcs, InHand
<1>Live. ASSUME ~dead PROVE Live'
  <2>0. FreeOffQueues /\ RequesterTickets /\ WaitingTickets /\ UnreadTickets /\
       DaemonTickets /\ ReadMessages /\ Owed /\ Minded /\ NoneLost
    BY <1>1, <1>Live DEF Live
  <2>FreeOffQueues. FreeOffQueues'
    BY <1>T, <1>2, <1>3, <1>4, <1>Live, <2>0 DEF FreeOffQueues, Disjoint, Pcs, InHand
  <2>RequesterTickets. RequesterTickets'
    BY <1>T, <1>2, <1>3, <1>4, <1>Live, <2>0
      DEF RequesterTickets, RequesterTicket, Disjoint, Pcs, Fresh, FreshTicket, InHand
  <2>WaitingTickets. WaitingTickets'
    BY <1>T, <1>2, <1>3, <1>4, <1>Live, <2>0
      DEF WaitingTickets, WaitingTicket, Disjoint, Pcs, InHand
  <2>UnreadTickets. UnreadTickets'
    BY <1>T, <1>2, <1>3, <1>4, <1>Live, <2>0 DEF UnreadTickets, UnreadTicket, Disjoint, Pcs, InHand
  <2>DaemonTickets. DaemonTickets'
    BY <1>T, <1>2, <1>3, <1>4, <1>Live, <2>0 DEF DaemonTickets, DaemonTicket, Disjoint, Pcs, InHand
  <2>ReadMessages. ReadMessages'
    BY <1>T, <1>2, <1>3, <1>4, <1>Live, <2>0 DEF ReadMessages, Owes, Disjoint, Pcs
  <2>Owed. Owed'
    BY <1>T, <1>2, <1>3, <1>4, <1>Live, <2>0 DEF Owed, OwedTicket, Disjoint, Pcs, InHand
  <2>Minded. Minded'
    BY <1>T, <1>2, <1>3, <1>4, <1>Live, <2>0 DEF Minded, MindedTicket, Disjoint, Pcs, InHand
  <2>NoneLost. NoneLost'
    BY <1>T, <1>2, <1>3, <1>4, <1>Live, <2>0 DEF NoneLost, Kept, Disjoint, Pcs, InHand
  <2>. QED BY <2>FreeOffQueues, <2>RequesterTickets, <2>WaitingTickets, <2>UnreadTickets,
    <2>DaemonTickets, <2>ReadMessages, <2>Owed, <2>Minded, <2>NoneLost
    DEF Live
<1>P. ~panicked'
  <2>1. Unsent(tick[r])
    BY <1>2, <1>4 DEF Fresh, FreshTicket
  <2>2. "DIRTY" \notin tk[tick[r]].flag
    BY <2>1
  <2>. QED BY <2>2, <1>4, Zenon
<1>. QED BY <1>Pcs, <1>DeadIsClosed, <1>Numbered, <1>Disjoint, <1>Fresh, <1>Carries, <1>Aging,
  <1>Sleeping, <1>Live, <1>P, <1>4
  DEF IInv, Base

(* The message is queued for the daemon.                                   *)
LEMMA PushMsStep ==
  ASSUME Orderly, IInv, TypeOK', InHand', NEW r \in Requesters, PushMs(r)
  PROVE  IInv'
<1>1. TypeOK /\ ~panicked /\ Base /\ (dead \/ Live)
  BY DEF IInv
<1>2. Pcs /\ InHand /\ DeadIsClosed /\ Numbered /\ Disjoint /\ Fresh /\ Carries /\ Aging /\
     Sleeping
  BY <1>1 DEF Base
<1>T. /\ ticketer \in Nat /\ alltickets \subseteq Tickets /\ aw_head \subseteq Tickets
      /\ \A s \in Requesters : s \in Threads /\ s \notin Daemons
      /\ Requesters \subseteq Threads /\ Daemons \subseteq Threads
      /\ \A u \in Tickets : tk[u].unique \in Nat /\ tk[u].age \in Nat
      /\ \A s \in Requesters : mark[s] \in Nat
  BY TypeConsequences, <1>1
<1>3. r \in Threads /\ tick[r] \in Tickets /\ tk[tick[r]] \in Ticket
  BY <1>1, <1>2 DEF PushMs, InHand, TypeOK
<1>4. /\ pc[r] = "push_ms"
      /\ \/ /\ req[r].kind = "wait"
            /\ pc'[r] = "wait"
            /\ tick' = tick
            /\ req' = req
         \/ /\ req[r].kind # "wait"
            /\ pc'[r] = "idle"
            /\ tick'[r] = NoTicket
      /\ \A s \in Threads : s # r => pc'[s] = pc[s]
      /\ \A s \in Threads : s # r => tick'[s] = tick[s]
      /\ \A s \in Requesters : s # r => req'[s] = req[s]
      /\ Range(ms_head') = Range(ms_head) \cup {tick[r]}
      /\ IsInjective(ms_head) /\ tick[r] \notin Range(ms_head) => IsInjective(ms_head')
      /\ UNCHANGED <<dead, drain, closed, ticketer, alltickets, freetickets, aw_head, tk, mark,
                     inbox, panicked>>
  BY <1>1, <1>3, PushFacts
    DEF PushMs, Orderly, TypeOK, Goto, Sent, Leave, session, pool, queues, work, locals, daemon
<1>Pcs. Pcs'
  BY <1>T, <1>2, <1>3, <1>4 DEF Pcs
<1>DeadIsClosed. DeadIsClosed'
  BY <1>T, <1>2, <1>3, <1>4 DEF DeadIsClosed, Pcs
<1>Numbered. Numbered'
  BY <1>T, <1>2, <1>3, <1>4 DEF Numbered, Disjoint
<1>Disjoint. Disjoint'
  BY <1>T, <1>2, <1>3, <1>4 DEF Disjoint, Pcs, InHand
<1>Fresh. Fresh'
  BY <1>T, <1>2, <1>3, <1>4 DEF Fresh, FreshTicket, Disjoint, Pcs, InHand
<1>Carries. Carries'
  BY <1>T, <1>2, <1>3, <1>4 DEF Carries, CarriesOwn, Disjoint, Pcs, Fresh, FreshTicket, InHand
<1>Aging. Aging'
  BY <1>T, <1>2, <1>3, <1>4 DEF Aging, Abandoned, Disjoint, Pcs, InHand
<1>Sleeping. Sleeping'
  BY <1>T, <1>2, <1>3, <1>4 DEF Sleeping, Asleep, Disjoint, Pcs, InHand
<1>Live. ASSUME ~dead PROVE Live'
  <2>0. FreeOffQueues /\ RequesterTickets /\ WaitingTickets /\ UnreadTickets /\
       DaemonTickets /\ ReadMessages /\ Owed /\ Minded /\ NoneLost
    BY <1>1, <1>Live DEF Live
  <2>FreeOffQueues. FreeOffQueues'
    BY <1>T, <1>2, <1>3, <1>4, <1>Live, <2>0 DEF FreeOffQueues, Disjoint, Pcs, InHand
  <2>RequesterTickets. RequesterTickets'
    BY <1>T, <1>2, <1>3, <1>4, <1>Live, <2>0
      DEF RequesterTickets, RequesterTicket, Disjoint, Pcs, Fresh, FreshTicket, InHand
  <2>WaitingTickets. WaitingTickets'
    BY <1>T, <1>2, <1>3, <1>4, <1>Live, <2>0
      DEF WaitingTickets, WaitingTicket, Disjoint, Pcs, InHand
  <2>UnreadTickets. UnreadTickets'
    <3>1. ASSUME NEW u \in Range(ms_head') PROVE UnreadTicket(u)'
      BY <3>1, <1>T, <1>2, <1>3, <1>4, <1>Live, <2>0
        DEF UnreadTickets, UnreadTicket, InHand, Pcs, DeadIsClosed, Numbered, Disjoint, Fresh,
          FreshTicket, Carries, CarriesOwn, Aging, Abandoned, Sleeping, Asleep, FreeOffQueues,
          RequesterTickets, RequesterTicket, WaitingTickets, WaitingTicket, DaemonTickets,
          DaemonTicket, ReadMessages, Owes, Owed, OwedTicket, Minded, MindedTicket, NoneLost, Kept
    <3>. QED BY <3>1, <1>T, <1>2, <1>3, <1>4, <1>Live, <2>0
      DEF UnreadTickets, Disjoint, UnreadTicket, FreeOffQueues, RequesterTickets,
        RequesterTicket
  <2>DaemonTickets. DaemonTickets'
    BY <1>T, <1>2, <1>3, <1>4, <1>Live, <2>0 DEF DaemonTickets, DaemonTicket, Disjoint, Pcs, InHand
  <2>ReadMessages. ReadMessages'
    BY <1>T, <1>2, <1>3, <1>4, <1>Live, <2>0 DEF ReadMessages, Owes, Disjoint, Pcs
  <2>Owed. Owed'
    <3>1. ASSUME NEW s \in Requesters PROVE OwedTicket(s)'
      <4>1. CASE s = r
        BY <4>1, <1>T, <1>2, <1>3, <1>4, <1>Live, <2>0
          DEF Owed, OwedTicket, InHand, Pcs, DeadIsClosed, Numbered, Disjoint, Fresh,
            FreshTicket, Carries, CarriesOwn, Aging, Abandoned, Sleeping, Asleep, FreeOffQueues,
            RequesterTickets, RequesterTicket, WaitingTickets, WaitingTicket, UnreadTickets,
            UnreadTicket, DaemonTickets, DaemonTicket, ReadMessages, Owes, Minded, MindedTicket,
            NoneLost, Kept
      <4>2. CASE s # r
        BY <4>2, <1>T, <1>2, <1>3, <1>4, <1>Live, <2>0
          DEF Owed, OwedTicket, InHand, Pcs, DeadIsClosed, Numbered, Disjoint, Fresh,
            FreshTicket, Carries, CarriesOwn, Aging, Abandoned, Sleeping, Asleep, FreeOffQueues,
            RequesterTickets, RequesterTicket, WaitingTickets, WaitingTicket, UnreadTickets,
            UnreadTicket, DaemonTickets, DaemonTicket, ReadMessages, Owes, Minded, MindedTicket,
            NoneLost, Kept
      <4>. QED BY <4>1, <4>2
    <3>. QED BY <3>1 DEF Owed
  <2>Minded. Minded'
    <3>1. tk' = tk /\ aw_head' = aw_head
      BY <1>4
    <3>2. ASSUME NEW u \in Tickets, ~Answered(u), RequesterHolds(u), u # tick[r]
          PROVE  RequesterHolds(u)'
      BY <3>2, <1>T, <1>3, <1>4
    <3>3. ASSUME NEW u \in Tickets PROVE MindedTicket(u)'
      <4>1. MindedTicket(u)
        BY <2>0 DEF Minded
      <4>2. CASE u # tick[r]
        BY <4>1, <4>2, <3>1, <3>2, <1>T, <1>3, <1>4 DEF MindedTicket
      <4>3. CASE u = tick[r] /\ req[r].kind = "wait"
        BY <4>1, <4>3, <3>1, <1>T, <1>2, <1>3, <1>4 DEF MindedTicket
      <4>4. CASE u = tick[r] /\ req[r].kind # "wait"
        <5>1. \A d \in Daemons : ~(pc'[d] \in {"pull", "answer", "answer_error"} /\ tick'[d] = u)
          BY <4>4, <2>0, <1>T, <1>2, <1>3, <1>4 DEF RequesterTickets, RequesterTicket
        <5>. QED BY <4>1, <4>4, <5>1, <3>1, <1>2, <1>3, <1>4, <2>0
          DEF MindedTicket, WaitingTickets, WaitingTicket
      <4>. QED BY <4>2, <4>3, <4>4
    <3>. QED BY <3>3 DEF Minded
  <2>NoneLost. NoneLost'
    <3>1. ASSUME NEW u \in alltickets' PROVE Kept(u)'
      <4>1. CASE u \in alltickets
        <5>1. Kept(u)
          BY <4>1, <2>0 DEF NoneLost
        <5>. QED BY <4>1, <5>1, <1>T, <1>2, <1>3, <1>4, <1>Live, <2>0
          DEF Kept, InHand, Pcs, DeadIsClosed, Numbered, Disjoint, Fresh, FreshTicket, Carries,
            CarriesOwn, Aging, Abandoned, Sleeping, Asleep, FreeOffQueues, RequesterTickets,
            RequesterTicket, WaitingTickets, WaitingTicket, UnreadTickets, UnreadTicket,
            DaemonTickets, DaemonTicket, ReadMessages, Owes, Owed, OwedTicket, Minded,
            MindedTicket
      <4>2. CASE u \notin alltickets
        BY <4>2, <3>1, <1>T, <1>2, <1>3, <1>4, <1>Live, <2>0
          DEF Kept, InHand, Pcs, DeadIsClosed, Numbered, Disjoint, Fresh, FreshTicket, Carries,
            CarriesOwn, Aging, Abandoned, Sleeping, Asleep, FreeOffQueues, RequesterTickets,
            RequesterTicket, WaitingTickets, WaitingTicket, UnreadTickets, UnreadTicket,
            DaemonTickets, DaemonTicket, ReadMessages, Owes, Owed, OwedTicket, Minded,
            MindedTicket
      <4>. QED BY <4>1, <4>2
    <3>. QED BY <3>1 DEF NoneLost
  <2>. QED BY <2>FreeOffQueues, <2>RequesterTickets, <2>WaitingTickets, <2>UnreadTickets,
    <2>DaemonTickets, <2>ReadMessages, <2>Owed, <2>Minded, <2>NoneLost
    DEF Live
<1>P. ~panicked'
  BY <1>1, <1>2, <1>3, <1>4 DEF Fresh, FreshTicket, Pcs
<1>. QED BY <1>Pcs, <1>DeadIsClosed, <1>Numbered, <1>Disjoint, <1>Fresh, <1>Carries, <1>Aging,
  <1>Sleeping, <1>Live, <1>P, <1>4
  DEF IInv, Base

(* fticket_wait_answer looks at the ticket before it sleeps.               *)
LEMMA WaitStep ==
  ASSUME Orderly, IInv, TypeOK', InHand', NEW r \in Requesters, Wait(r)
  PROVE  IInv'
<1>1. TypeOK /\ ~panicked /\ Base /\ (dead \/ Live)
  BY DEF IInv
<1>2. Pcs /\ InHand /\ DeadIsClosed /\ Numbered /\ Disjoint /\ Fresh /\ Carries /\ Aging /\
     Sleeping
  BY <1>1 DEF Base
<1>T. /\ ticketer \in Nat /\ alltickets \subseteq Tickets /\ aw_head \subseteq Tickets
      /\ \A s \in Requesters : s \in Threads /\ s \notin Daemons
      /\ Requesters \subseteq Threads /\ Daemons \subseteq Threads
      /\ \A u \in Tickets : tk[u].unique \in Nat /\ tk[u].age \in Nat
      /\ \A s \in Requesters : mark[s] \in Nat
  BY TypeConsequences, <1>1
<1>3. r \in Threads /\ tick[r] \in Tickets /\ tk[tick[r]] \in Ticket
  BY <1>1, <1>2 DEF Wait, InHand, TypeOK
<1>4. /\ pc[r] = "wait"
      /\ \A u \in Tickets : u # tick[r] => tk'[u] = tk[u]
      /\ \A s \in Threads : s # r => pc'[s] = pc[s]
      /\ tk'[tick[r]].unique = tk[tick[r]].unique
      /\ tk'[tick[r]].age = tk[tick[r]].age
      /\ tk'[tick[r]].handler = tk[tick[r]].handler
      /\ tk'[tick[r]].ms = tk[tick[r]].ms
      /\ tk'[tick[r]].resp = tk[tick[r]].resp
      /\ tk'[tick[r]].errno = tk[tick[r]].errno
      /\ \/ /\ Answered(tick[r])
            /\ pc'[r] = "woken"
            /\ tk' = tk
         \/ /\ ~Answered(tick[r])
            /\ dead
            /\ pc'[r] = "post"
            /\ tk'[tick[r]].flag = tk[tick[r]].flag \cup {"ANSW"}
         \/ /\ ~Answered(tick[r])
            /\ ~dead
            /\ pc'[r] = "sleep"
            /\ tk' = tk
      /\ UNCHANGED <<dead, drain, closed, ticketer, alltickets, freetickets, ms_head, aw_head,
                     tick, req, mark, inbox, panicked>>
  BY <1>1, <1>3, FlagFacts
    DEF Wait, Orderly, TypeOK, Goto, Flags, session, pool, queues, work, locals, daemon
<1>Pcs. Pcs'
  BY <1>T, <1>2, <1>3, <1>4 DEF Pcs
<1>DeadIsClosed. DeadIsClosed'
  BY <1>T, <1>2, <1>3, <1>4 DEF DeadIsClosed, Pcs
<1>Numbered. Numbered'
  BY <1>T, <1>2, <1>3, <1>4 DEF Numbered, Disjoint
<1>Disjoint. Disjoint'
  BY <1>T, <1>2, <1>3, <1>4 DEF Disjoint, Pcs, InHand
<1>Fresh. Fresh'
  BY <1>T, <1>2, <1>3, <1>4 DEF Fresh, FreshTicket, Disjoint, Pcs, InHand
<1>Carries. Carries'
  BY <1>T, <1>2, <1>3, <1>4 DEF Carries, CarriesOwn, Disjoint, Pcs, Fresh, FreshTicket, InHand
<1>Aging. Aging'
  BY <1>T, <1>2, <1>3, <1>4 DEF Aging, Abandoned, Disjoint, Pcs, InHand
<1>Sleeping. Sleeping'
  <2>1. ASSUME NEW s \in Requesters PROVE Asleep(s)'
    <3>1. CASE s = r
      BY <3>1, <1>T, <1>2, <1>3, <1>4
        DEF Sleeping, Asleep, InHand, Pcs, DeadIsClosed, Numbered, Disjoint, Fresh, FreshTicket,
          Carries, CarriesOwn, Aging, Abandoned
    <3>2. CASE s # r
      BY <3>2, <1>T, <1>2, <1>3, <1>4
        DEF Sleeping, Asleep, InHand, Pcs, DeadIsClosed, Numbered, Disjoint, Fresh, FreshTicket,
          Carries, CarriesOwn, Aging, Abandoned
    <3>. QED BY <3>1, <3>2
  <2>. QED BY <2>1 DEF Sleeping
<1>Live. ASSUME ~dead PROVE Live'
  <2>0. FreeOffQueues /\ RequesterTickets /\ WaitingTickets /\ UnreadTickets /\
       DaemonTickets /\ ReadMessages /\ Owed /\ Minded /\ NoneLost
    BY <1>1, <1>Live DEF Live
  <2>FreeOffQueues. FreeOffQueues'
    BY <1>T, <1>2, <1>3, <1>4, <1>Live, <2>0 DEF FreeOffQueues, Disjoint, Pcs, InHand
  <2>RequesterTickets. RequesterTickets'
    BY <1>T, <1>2, <1>3, <1>4, <1>Live, <2>0
      DEF RequesterTickets, RequesterTicket, Disjoint, Pcs, Fresh, FreshTicket, InHand
  <2>WaitingTickets. WaitingTickets'
    BY <1>T, <1>2, <1>3, <1>4, <1>Live, <2>0
      DEF WaitingTickets, WaitingTicket, Disjoint, Pcs, InHand
  <2>UnreadTickets. UnreadTickets'
    BY <1>T, <1>2, <1>3, <1>4, <1>Live, <2>0 DEF UnreadTickets, UnreadTicket, Disjoint, Pcs, InHand
  <2>DaemonTickets. DaemonTickets'
    BY <1>T, <1>2, <1>3, <1>4, <1>Live, <2>0 DEF DaemonTickets, DaemonTicket, Disjoint, Pcs, InHand
  <2>ReadMessages. ReadMessages'
    BY <1>T, <1>2, <1>3, <1>4, <1>Live, <2>0 DEF ReadMessages, Owes, Disjoint, Pcs
  <2>Owed. Owed'
    BY <1>T, <1>2, <1>3, <1>4, <1>Live, <2>0 DEF Owed, OwedTicket, Disjoint, Pcs, InHand
  <2>Minded. Minded'
    BY <1>T, <1>2, <1>3, <1>4, <1>Live, <2>0 DEF Minded, MindedTicket, Disjoint, Pcs, InHand
  <2>NoneLost. NoneLost'
    BY <1>T, <1>2, <1>3, <1>4, <1>Live, <2>0 DEF NoneLost, Kept, Disjoint, Pcs, InHand
  <2>. QED BY <2>FreeOffQueues, <2>RequesterTickets, <2>WaitingTickets, <2>UnreadTickets,
    <2>DaemonTickets, <2>ReadMessages, <2>Owed, <2>Minded, <2>NoneLost
    DEF Live
<1>P. ~panicked'
  BY <1>1, <1>2, <1>3, <1>4 DEF Fresh, FreshTicket, Pcs
<1>. QED BY <1>Pcs, <1>DeadIsClosed, <1>Numbered, <1>Disjoint, <1>Fresh, <1>Carries, <1>Aging,
  <1>Sleeping, <1>Live, <1>P, <1>4
  DEF IInv, Base

(* A signal: the INTERRUPT message takes a free ticket.                    *)
LEMMA InterruptedReusesStep ==
  ASSUME Orderly, IInv, TypeOK', InHand', NEW r \in Requesters, Interrupted(r), freetickets # <<>>
  PROVE  IInv'
<1>1. TypeOK /\ ~panicked /\ Base /\ (dead \/ Live)
  BY DEF IInv
<1>2. Pcs /\ InHand /\ DeadIsClosed /\ Numbered /\ Disjoint /\ Fresh /\ Carries /\ Aging /\
     Sleeping
  BY <1>1 DEF Base
<1>T. /\ ticketer \in Nat /\ alltickets \subseteq Tickets /\ aw_head \subseteq Tickets
      /\ \A s \in Requesters : s \in Threads /\ s \notin Daemons
      /\ Requesters \subseteq Threads /\ Daemons \subseteq Threads
      /\ \A u \in Tickets : tk[u].unique \in Nat /\ tk[u].age \in Nat
      /\ \A s \in Requesters : mark[s] \in Nat
  BY TypeConsequences, <1>1
<1>3. r \in Threads /\ tick[r] \in Tickets /\ tk[tick[r]] \in Ticket
  BY <1>1, <1>2 DEF Interrupted, InHand, TypeOK
<1>4. PICK t \in Tickets :
      /\ pc[r] = "sleep"
      /\ pc'[r] = "post"
      /\ \A s \in Threads : s # r => pc'[s] = pc[s]
      /\ \A u \in Tickets : u # t => tk'[u] = tk[u]
      /\ t \in Range(freetickets)
      /\ IsInjective(freetickets) => IsInjective(freetickets') /\ Range(freetickets') = Range(freetickets) \ {t}
      /\ panicked' = ("DIRTY" \in tk[t].flag)
      /\ tk'[t].unique = tk[t].unique
      /\ tk'[t].age = tk[t].age
      /\ tk'[t].flag = tk[t].flag \cup {"INVAL", "DIRTY"}
      /\ \/ /\ dead
            /\ ms_head' = ms_head
         \/ /\ ~dead
            /\ Range(ms_head') = Range(ms_head) \cup {t}
            /\ IsInjective(ms_head) /\ t \notin Range(ms_head) => IsInjective(ms_head')
      /\ UNCHANGED <<dead, drain, closed, ticketer, alltickets, aw_head, tick, req, mark,
                     inbox>>
  <2>1. PICK t \in Tickets :
          /\ t = Head(freetickets)
          /\ freetickets' = Tail(freetickets)
          /\ tk' = [tk EXCEPT ![t] = SetFlag(SetFlag(@, "INVAL"), "DIRTY")]
          /\ panicked' = ("DIRTY" \in tk[t].flag)
          /\ UNCHANGED <<ticketer, alltickets>>
          /\ dead' = (dead \/ OverLimit(ticketer', deadticket_counter))
          /\ ms_head' = IF dead' THEN ms_head ELSE Append(ms_head, t)
    BY DEF Interrupted
  <2>2. dead' = dead
    <3>1. ~OverLimit(ticketer', deadticket_counter)
      BY DEF Orderly, OverLimit
    <3>. QED BY <2>1, <3>1, <1>1 DEF TypeOK
  <2>3. \/ dead /\ ms_head' = ms_head
        \/ /\ ~dead /\ Range(ms_head') = Range(ms_head) \cup {t}
           /\ IsInjective(ms_head) /\ t \notin Range(ms_head) => IsInjective(ms_head')
    <3>1. CASE dead
      BY <3>1, <2>1, <2>2
    <3>2. CASE ~dead
      BY <3>2, <2>1, <2>2, <1>1, PushFacts DEF TypeOK
    <3>. QED BY <3>1, <3>2
  <2>4. pc[r] = "sleep" /\ pc'[r] = "post" /\ \A s \in Threads : s # r => pc'[s] = pc[s]
    BY <1>1, <1>3 DEF Interrupted, TypeOK, Goto
  <2>5. /\ t \in Range(freetickets)
        /\ IsInjective(freetickets) =>
             IsInjective(freetickets') /\ Range(freetickets') = Range(freetickets) \ {t}
    BY <1>1, <2>1, PopFacts DEF TypeOK
  <2>6. tk'[t] = SetFlag(SetFlag(tk[t], "INVAL"), "DIRTY") /\ \A u \in Tickets : u # t => tk'[u] = tk[u]
    BY <1>1, <2>1 DEF TypeOK
  <2>7. /\ tk'[t].unique = tk[t].unique /\ tk'[t].age = tk[t].age
        /\ tk'[t].flag = tk[t].flag \cup {"INVAL", "DIRTY"}
    <3>1. tk[t] \in Ticket /\ SetFlag(tk[t], "INVAL") \in Ticket
      BY <1>1, FlagFacts DEF TypeOK, Flags
    <3>. QED BY <3>1, <2>6, FlagFacts DEF Flags
  <2>8. UNCHANGED <<drain, closed, aw_head, tick, req, mark, inbox>>
    BY DEF Interrupted, work, locals, daemon
  <2>. QED BY <2>1, <2>2, <2>3, <2>4, <2>5, <2>6, <2>7, <2>8
<1>Pcs. Pcs'
  BY <1>T, <1>2, <1>3, <1>4 DEF Pcs
<1>DeadIsClosed. DeadIsClosed'
  BY <1>T, <1>2, <1>3, <1>4 DEF DeadIsClosed, Pcs
<1>Numbered. Numbered'
  BY <1>T, <1>2, <1>3, <1>4 DEF Numbered, Disjoint
<1>Disjoint. Disjoint'
  BY <1>T, <1>2, <1>3, <1>4 DEF Disjoint, Pcs, InHand
<1>Fresh. Fresh'
  <2>1. ASSUME NEW s \in Requesters PROVE FreshTicket(s)'
    <3>1. CASE s = r
      BY <3>1, <1>T, <1>2, <1>3, <1>4 DEF FreshTicket
    <3>2. CASE s # r /\ pc[s] \in Building \cup Sending
      <4>1. tick[s] \in Tickets /\ tick[s] # t /\ pc'[s] = pc[s]
        BY <3>2, <1>T, <1>2, <1>4 DEF Disjoint, InHand
      <4>2. tk'[tick[s]] = tk[tick[s]]
        BY <4>1, <1>4
      <4>. QED BY <4>1, <4>2, <1>2, <1>4 DEF Fresh, FreshTicket
    <3>3. CASE s # r /\ pc[s] \notin Building \cup Sending
      BY <3>3, <1>T, <1>4 DEF FreshTicket
    <3>. QED BY <3>1, <3>2, <3>3
  <2>2. ASSUME NEW u \in Range(freetickets') PROVE (Unsent(u) /\ ~Invalid(u))'
    <3>1. u \in Range(freetickets) /\ u # t /\ u \in Tickets
      BY <2>2, <1>T, <1>2, <1>4 DEF Disjoint
    <3>2. tk'[u] = tk[u]
      BY <3>1, <1>4
    <3>. QED BY <3>1, <3>2, <1>2, <1>4 DEF Fresh
  <2>. QED BY <2>1, <2>2 DEF Fresh
<1>Carries. Carries'
  BY <1>T, <1>2, <1>3, <1>4 DEF Carries, CarriesOwn, Disjoint, Pcs, Fresh, FreshTicket, InHand
<1>Aging. Aging'
  BY <1>T, <1>2, <1>3, <1>4 DEF Aging, Abandoned, Disjoint, Pcs, InHand
<1>Sleeping. Sleeping'
  BY <1>T, <1>2, <1>3, <1>4 DEF Sleeping, Asleep, Disjoint, Pcs, InHand
<1>Live. ASSUME ~dead PROVE Live'
  <2>0. FreeOffQueues /\ RequesterTickets /\ WaitingTickets /\ UnreadTickets /\
       DaemonTickets /\ ReadMessages /\ Owed /\ Minded /\ NoneLost
    BY <1>1, <1>Live DEF Live
  <2>FreeOffQueues. FreeOffQueues'
    BY <1>T, <1>2, <1>3, <1>4, <1>Live, <2>0 DEF FreeOffQueues, Disjoint, Pcs, InHand
  <2>RequesterTickets. RequesterTickets'
    BY <1>T, <1>2, <1>3, <1>4, <1>Live, <2>0
      DEF RequesterTickets, RequesterTicket, Disjoint, Pcs, Fresh, FreshTicket, InHand
  <2>WaitingTickets. WaitingTickets'
    <3>1. ASSUME NEW u \in aw_head' PROVE WaitingTicket(u)'
      BY <3>1, <1>T, <1>2, <1>3, <1>4, <1>Live, <2>0
        DEF WaitingTickets, WaitingTicket, InHand, Pcs, DeadIsClosed, Numbered, Disjoint, Fresh,
          FreshTicket, Carries, CarriesOwn, Aging, Abandoned, Sleeping, Asleep, FreeOffQueues,
          RequesterTickets, RequesterTicket, UnreadTickets, UnreadTicket, DaemonTickets,
          DaemonTicket, ReadMessages, Owes, Owed, OwedTicket, Minded, MindedTicket, NoneLost, Kept
    <3>. QED BY <3>1, <1>T, <1>2, <1>3, <1>4, <1>Live, <2>0 DEF WaitingTickets, Disjoint
  <2>UnreadTickets. UnreadTickets'
    <3>1. ASSUME NEW u \in Range(ms_head') PROVE UnreadTicket(u)'
      BY <3>1, <1>T, <1>2, <1>3, <1>4, <1>Live, <2>0
        DEF UnreadTickets, UnreadTicket, InHand, Pcs, DeadIsClosed, Numbered, Disjoint, Fresh,
          FreshTicket, Carries, CarriesOwn, Aging, Abandoned, Sleeping, Asleep, FreeOffQueues,
          RequesterTickets, RequesterTicket, WaitingTickets, WaitingTicket, DaemonTickets,
          DaemonTicket, ReadMessages, Owes, Owed, OwedTicket, Minded, MindedTicket, NoneLost, Kept
    <3>. QED BY <3>1, <1>T, <1>2, <1>3, <1>4, <1>Live, <2>0
      DEF UnreadTickets, Disjoint, UnreadTicket, FreeOffQueues, RequesterTickets,
        RequesterTicket
  <2>DaemonTickets. DaemonTickets'
    BY <1>T, <1>2, <1>3, <1>4, <1>Live, <2>0 DEF DaemonTickets, DaemonTicket, Disjoint, Pcs, InHand
  <2>ReadMessages. ReadMessages'
    <3>1. ASSUME NEW q \in inbox' PROVE \E u \in aw_head' : Owes(q, u)'
      <4>1. PICK u \in aw_head : Owes(q, u)
        BY <1>4, <2>0 DEF ReadMessages
      <4>2. u \in aw_head' /\ Owes(q, u)'
        BY <4>1, <1>T, <1>2, <1>3, <1>4, <1>Live, <2>0
          DEF Owes, InHand, Pcs, DeadIsClosed, Numbered, Disjoint, Fresh, FreshTicket, Carries,
            CarriesOwn, Aging, Abandoned, Sleeping, Asleep, FreeOffQueues, RequesterTickets,
            RequesterTicket, WaitingTickets, WaitingTicket, UnreadTickets, UnreadTicket,
            DaemonTickets, DaemonTicket, Owed, OwedTicket, Minded, MindedTicket, NoneLost, Kept
      <4>. QED BY <4>2
    <3>. QED BY <3>1 DEF ReadMessages
  <2>Owed. Owed'
    BY <1>T, <1>2, <1>3, <1>4, <1>Live, <2>0 DEF Owed, OwedTicket, Disjoint, Pcs, InHand
  <2>Minded. Minded'
    <3>1. ASSUME NEW u \in Tickets PROVE MindedTicket(u)'
      <4>1. MindedTicket(u)
        BY <2>0 DEF Minded
      <4>. QED BY <4>1, <1>T, <1>2, <1>3, <1>4, <1>Live, <2>0
        DEF MindedTicket, InHand, Pcs, DeadIsClosed, Numbered, Disjoint, Fresh, FreshTicket,
          Carries, CarriesOwn, Aging, Abandoned, Sleeping, Asleep, FreeOffQueues,
          RequesterTickets, RequesterTicket, WaitingTickets, WaitingTicket, UnreadTickets,
          UnreadTicket, DaemonTickets, DaemonTicket, ReadMessages, Owes, Owed, OwedTicket,
          NoneLost, Kept
    <3>. QED BY <3>1 DEF Minded
  <2>NoneLost. NoneLost'
    BY <1>T, <1>2, <1>3, <1>4, <1>Live, <2>0 DEF NoneLost, Kept, Disjoint, Pcs, InHand
  <2>. QED BY <2>FreeOffQueues, <2>RequesterTickets, <2>WaitingTickets, <2>UnreadTickets,
    <2>DaemonTickets, <2>ReadMessages, <2>Owed, <2>Minded, <2>NoneLost
    DEF Live
<1>P. ~panicked'
  BY <1>1, <1>2, <1>3, <1>4 DEF Fresh, FreshTicket, Pcs
<1>. QED BY <1>Pcs, <1>DeadIsClosed, <1>Numbered, <1>Disjoint, <1>Fresh, <1>Carries, <1>Aging,
  <1>Sleeping, <1>Live, <1>P, <1>4
  DEF IInv, Base

(* A signal: the INTERRUPT message takes a new ticket.                     *)
LEMMA InterruptedAllocatesStep ==
  ASSUME Orderly, Undisturbed, IInv, TypeOK', InHand',
         NEW r \in Requesters, Interrupted(r), freetickets = <<>>
  PROVE  IInv'
<1>1. TypeOK /\ ~panicked /\ Base /\ (dead \/ Live)
  BY DEF IInv
<1>2. Pcs /\ InHand /\ DeadIsClosed /\ Numbered /\ Disjoint /\ Fresh /\ Carries /\ Aging /\
     Sleeping
  BY <1>1 DEF Base
<1>T. /\ ticketer \in Nat /\ alltickets \subseteq Tickets /\ aw_head \subseteq Tickets
      /\ \A s \in Requesters : s \in Threads /\ s \notin Daemons
      /\ Requesters \subseteq Threads /\ Daemons \subseteq Threads
      /\ \A u \in Tickets : tk[u].unique \in Nat /\ tk[u].age \in Nat
      /\ \A s \in Requesters : mark[s] \in Nat
  BY TypeConsequences, <1>1
<1>3. r \in Threads /\ tick[r] \in Tickets /\ tk[tick[r]] \in Ticket
  BY <1>1, <1>2 DEF Interrupted, InHand, TypeOK
<1>4. PICK t \in Tickets :
      /\ pc[r] = "sleep"
      /\ pc'[r] = "post"
      /\ \A s \in Threads : s # r => pc'[s] = pc[s]
      /\ \A u \in Tickets : u # t => tk'[u] = tk[u]
      /\ t \notin alltickets
      /\ \A th \in Threads : tick[th] # t
      /\ ticketer' = ticketer + 1
      /\ alltickets' = alltickets \cup {t}
      /\ tk'[t].unique = ticketer
      /\ tk'[t].flag = {"INVAL", "DIRTY"}
      /\ \/ /\ dead
            /\ ms_head' = ms_head
         \/ /\ ~dead
            /\ Range(ms_head') = Range(ms_head) \cup {t}
            /\ IsInjective(ms_head) /\ t \notin Range(ms_head) => IsInjective(ms_head')
      /\ UNCHANGED <<dead, drain, closed, freetickets, aw_head, tick, req, mark, inbox,
                     panicked>>
  <2>1. PICK t \in Tickets :
          /\ Unallocated(t)
          /\ alltickets' = alltickets \cup {t}
          /\ ticketer' = ticketer + 1
          /\ tk' = [tk EXCEPT ![t] =
                       SetFlag(SetFlag(NewTicket(ticketer), "INVAL"), "DIRTY")]
          /\ UNCHANGED <<freetickets, panicked>>
          /\ dead' = (dead \/ OverLimit(ticketer', deadticket_counter))
          /\ ms_head' = IF dead' THEN ms_head ELSE Append(ms_head, t)
    BY DEF Interrupted
  <2>2. dead' = dead
    <3>1. ~OverLimit(ticketer', deadticket_counter)
      BY DEF Orderly, OverLimit
    <3>. QED BY <2>1, <3>1, <1>1 DEF TypeOK
  <2>3. \/ dead /\ ms_head' = ms_head
        \/ /\ ~dead /\ Range(ms_head') = Range(ms_head) \cup {t}
           /\ IsInjective(ms_head) /\ t \notin Range(ms_head) => IsInjective(ms_head')
    <3>1. CASE dead
      BY <3>1, <2>1, <2>2
    <3>2. CASE ~dead
      BY <3>2, <2>1, <2>2, <1>1, PushFacts DEF TypeOK
    <3>. QED BY <3>1, <3>2
  <2>4. pc[r] = "sleep" /\ pc'[r] = "post" /\ \A s \in Threads : s # r => pc'[s] = pc[s]
    BY <1>1, <1>3 DEF Interrupted, TypeOK, Goto
  <2>5. t \notin alltickets /\ \A th \in Threads : tick[th] # t
    BY <2>1 DEF Unallocated, Undisturbed
  <2>6. tk'[t] = SetFlag(SetFlag(NewTicket(ticketer), "INVAL"), "DIRTY") /\ \A u \in Tickets : u # t => tk'[u] = tk[u]
    BY <1>1, <2>1 DEF TypeOK
  <2>7. tk'[t].unique = ticketer /\ tk'[t].flag = {"INVAL", "DIRTY"}
    <3>1. NewTicket(ticketer) \in Ticket /\ SetFlag(NewTicket(ticketer), "INVAL") \in Ticket
      BY <1>1, NewFacts, FlagFacts DEF TypeOK, Flags
    <3>2. NewTicket(ticketer).unique = ticketer /\ NewTicket(ticketer).flag = {}
      BY DEF NewTicket
    <3>. QED BY <3>1, <3>2, <2>6, FlagFacts DEF Flags
  <2>8. UNCHANGED <<drain, closed, aw_head, tick, req, mark, inbox>>
    BY DEF Interrupted, work, locals, daemon
  <2>. QED BY <2>1, <2>2, <2>3, <2>4, <2>5, <2>6, <2>7, <2>8
<1>Pcs. Pcs'
  BY <1>T, <1>2, <1>3, <1>4 DEF Pcs
<1>DeadIsClosed. DeadIsClosed'
  BY <1>T, <1>2, <1>3, <1>4 DEF DeadIsClosed, Pcs
<1>Numbered. Numbered'
  BY <1>T, <1>2, <1>3, <1>4 DEF Numbered, Disjoint
<1>Disjoint. Disjoint'
  BY <1>T, <1>2, <1>3, <1>4 DEF Disjoint, Pcs, InHand
<1>Fresh. Fresh'
  <2>1. ASSUME NEW u \in Range(freetickets') PROVE (Unsent(u) /\ ~Invalid(u))'
    <3>1. u \in Range(freetickets) /\ u \in alltickets
      BY <1>2, <1>4 DEF Disjoint
    <3>2. u # t /\ u \in Tickets
      BY <3>1, <1>4, <1>T
    <3>3. tk'[u] = tk[u] /\ dead' = dead
      BY <3>2, <1>4
    <3>4. Unsent(u) /\ ~Invalid(u)
      BY <3>1, <1>2 DEF Fresh
    <3>. QED BY <3>3, <3>4 DEF Unsent, Invalid
  <2>2. ASSUME NEW s \in Requesters PROVE FreshTicket(s)'
    <3>1. FreshTicket(s) /\ req'[s] = req[s] /\ tick'[s] = tick[s]
      BY <1>2, <1>4 DEF Fresh
    <3>2. pc'[s] = pc[s] \/ (pc[s] = "sleep" /\ pc'[s] = "post")
      BY <1>T, <1>4
    <3>3. pc[s] \notin {"idle", "fetch", "alloc"} =>
            tk'[tick[s]] = tk[tick[s]]
      BY <1>T, <1>2, <1>4 DEF InHand
    <3>. QED BY <3>1, <3>2, <3>3, <1>4 DEF FreshTicket, Unsent, Invalid
  <2>. QED BY <2>1, <2>2 DEF Fresh
<1>Carries. Carries'
  <2>1. ASSUME NEW s \in Requesters PROVE CarriesOwn(s)'
    <3>1. CarriesOwn(s) /\ req'[s] = req[s] /\ tick'[s] = tick[s]
      BY <1>2, <1>4 DEF Carries
    <3>2. pc'[s] = pc[s] \/ (pc[s] = "sleep" /\ pc'[s] = "post")
      BY <1>T, <1>4
    <3>3. pc[s] \notin {"idle", "fetch", "alloc"} =>
            tk'[tick[s]] = tk[tick[s]]
      BY <1>T, <1>2, <1>4 DEF InHand
    <3>. QED BY <3>1, <3>2, <3>3
      DEF CarriesOwn, Sending, Waiting, Answered
  <2>. QED BY <2>1 DEF Carries
<1>Aging. Aging'
  BY <1>T, <1>2, <1>3, <1>4 DEF Aging, Abandoned, Disjoint, Pcs, InHand
<1>Sleeping. Sleeping'
  BY <1>T, <1>2, <1>3, <1>4 DEF Sleeping, Asleep, Disjoint, Pcs, InHand
<1>Live. ASSUME ~dead PROVE Live'
  <2>0. FreeOffQueues /\ RequesterTickets /\ WaitingTickets /\ UnreadTickets /\
       DaemonTickets /\ ReadMessages /\ Owed /\ Minded /\ NoneLost
    BY <1>1, <1>Live DEF Live
  <2>FreeOffQueues. FreeOffQueues'
    BY <1>T, <1>2, <1>3, <1>4, <1>Live, <2>0 DEF FreeOffQueues, Disjoint, Pcs, InHand
  <2>RequesterTickets. RequesterTickets'
    BY <1>T, <1>2, <1>3, <1>4, <1>Live, <2>0
      DEF RequesterTickets, RequesterTicket, Disjoint, Pcs, Fresh, FreshTicket, InHand
  <2>WaitingTickets. WaitingTickets'
    BY <1>T, <1>2, <1>3, <1>4, <1>Live, <2>0
      DEF WaitingTickets, WaitingTicket, Disjoint, Pcs, InHand
  <2>UnreadTickets. UnreadTickets'
    <3>1. ASSUME NEW u \in Range(ms_head') PROVE UnreadTicket(u)'
      BY <3>1, <1>T, <1>2, <1>3, <1>4, <1>Live, <2>0
        DEF UnreadTickets, UnreadTicket, InHand, Pcs, DeadIsClosed, Numbered, Disjoint, Fresh,
          FreshTicket, Carries, CarriesOwn, Aging, Abandoned, Sleeping, Asleep, FreeOffQueues,
          RequesterTickets, RequesterTicket, WaitingTickets, WaitingTicket, DaemonTickets,
          DaemonTicket, ReadMessages, Owes, Owed, OwedTicket, Minded, MindedTicket, NoneLost, Kept
    <3>. QED BY <3>1, <1>T, <1>2, <1>3, <1>4, <1>Live, <2>0
      DEF UnreadTickets, Disjoint, UnreadTicket, FreeOffQueues, RequesterTickets,
        RequesterTicket
  <2>DaemonTickets. DaemonTickets'
    BY <1>T, <1>2, <1>3, <1>4, <1>Live, <2>0 DEF DaemonTickets, DaemonTicket, Disjoint, Pcs, InHand
  <2>ReadMessages. ReadMessages'
    <3>1. ASSUME NEW q \in inbox' PROVE \E u \in aw_head' : Owes(q, u)'
      <4>1. PICK u \in aw_head : Owes(q, u)
        BY <1>4, <2>0 DEF ReadMessages
      <4>2. u \in aw_head' /\ Owes(q, u)'
        BY <4>1, <1>T, <1>2, <1>3, <1>4, <1>Live, <2>0
          DEF Owes, InHand, Pcs, DeadIsClosed, Numbered, Disjoint, Fresh, FreshTicket, Carries,
            CarriesOwn, Aging, Abandoned, Sleeping, Asleep, FreeOffQueues, RequesterTickets,
            RequesterTicket, WaitingTickets, WaitingTicket, UnreadTickets, UnreadTicket,
            DaemonTickets, DaemonTicket, Owed, OwedTicket, Minded, MindedTicket, NoneLost, Kept
      <4>. QED BY <4>2
    <3>. QED BY <3>1 DEF ReadMessages
  <2>Owed. Owed'
    BY <1>T, <1>2, <1>3, <1>4, <1>Live, <2>0 DEF Owed, OwedTicket, Disjoint, Pcs, InHand
  <2>Minded. Minded'
    <3>1. ASSUME NEW u \in Tickets PROVE MindedTicket(u)'
      <4>1. MindedTicket(u)
        BY <2>0 DEF Minded
      <4>2. CASE u = t
        <5>1. t \notin aw_head'
          BY <1>4, <2>0 DEF WaitingTickets, WaitingTicket
        <5>2. \A th \in Threads : tick'[th] # t
          BY <1>4
        <5>. QED BY <4>2, <5>1, <5>2, <1>T DEF MindedTicket
      <4>3. CASE u # t
        <5>1. tk'[u] = tk[u] /\ aw_head' = aw_head /\ tick' = tick
          BY <4>3, <1>4
        <5>2. \A s \in Requesters : Holds(s) => Holds(s)'
          BY <1>T, <1>4 DEF Holds
        <5>3. RequesterHolds(u) => RequesterHolds(u)'
          BY <5>1, <5>2 DEF RequesterHolds
        <5>4. \A e \in Daemons : pc'[e] = pc[e]
          BY <1>T, <1>4
        <5>. QED BY <4>1, <5>1, <5>3, <5>4 DEF MindedTicket, Answered
      <4>. QED BY <4>2, <4>3
    <3>. QED BY <3>1 DEF Minded
  <2>NoneLost. NoneLost'
    BY <1>T, <1>2, <1>3, <1>4, <1>Live, <2>0 DEF NoneLost, Kept, Disjoint, Pcs, InHand
  <2>. QED BY <2>FreeOffQueues, <2>RequesterTickets, <2>WaitingTickets, <2>UnreadTickets,
    <2>DaemonTickets, <2>ReadMessages, <2>Owed, <2>Minded, <2>NoneLost
    DEF Live
<1>P. ~panicked'
  BY <1>1, <1>2, <1>3, <1>4 DEF Fresh, FreshTicket, Pcs
<1>. QED BY <1>Pcs, <1>DeadIsClosed, <1>Numbered, <1>Disjoint, <1>Fresh, <1>Carries, <1>Aging,
  <1>Sleeping, <1>Live, <1>P, <1>4
  DEF IInv, Base

(* A signal with ERESTART.                                                 *)
LEMMA RestartedStep ==
  ASSUME Orderly, IInv, TypeOK', InHand', NEW r \in Requesters, Restarted(r)
  PROVE  IInv'
<1>1. TypeOK /\ ~panicked /\ Base /\ (dead \/ Live)
  BY DEF IInv
<1>2. Pcs /\ InHand /\ DeadIsClosed /\ Numbered /\ Disjoint /\ Fresh /\ Carries /\ Aging /\
     Sleeping
  BY <1>1 DEF Base
<1>T. /\ ticketer \in Nat /\ alltickets \subseteq Tickets /\ aw_head \subseteq Tickets
      /\ \A s \in Requesters : s \in Threads /\ s \notin Daemons
      /\ Requesters \subseteq Threads /\ Daemons \subseteq Threads
      /\ \A u \in Tickets : tk[u].unique \in Nat /\ tk[u].age \in Nat
      /\ \A s \in Requesters : mark[s] \in Nat
  BY TypeConsequences, <1>1
<1>3. r \in Threads /\ tick[r] \in Tickets /\ tk[tick[r]] \in Ticket
  BY <1>1, <1>2 DEF Restarted, InHand, TypeOK
<1>4. /\ pc[r] = "sleep"
      /\ pc'[r] = "post"
      /\ \A s \in Threads : s # r => pc'[s] = pc[s]
      /\ UNCHANGED <<dead, drain, closed, ticketer, alltickets, freetickets, ms_head, aw_head,
                     tk, tick, req, mark, inbox, panicked>>
  BY <1>1, <1>3 DEF Restarted, Orderly, TypeOK, Goto, session, pool, queues, work, locals, daemon
<1>Pcs. Pcs'
  BY <1>T, <1>2, <1>3, <1>4 DEF Pcs
<1>DeadIsClosed. DeadIsClosed'
  BY <1>T, <1>2, <1>3, <1>4 DEF DeadIsClosed, Pcs
<1>Numbered. Numbered'
  BY <1>T, <1>2, <1>3, <1>4 DEF Numbered, Disjoint
<1>Disjoint. Disjoint'
  BY <1>T, <1>2, <1>3, <1>4 DEF Disjoint, Pcs, InHand
<1>Fresh. Fresh'
  BY <1>T, <1>2, <1>3, <1>4 DEF Fresh, FreshTicket, Disjoint, Pcs, InHand
<1>Carries. Carries'
  BY <1>T, <1>2, <1>3, <1>4 DEF Carries, CarriesOwn, Disjoint, Pcs, Fresh, FreshTicket, InHand
<1>Aging. Aging'
  BY <1>T, <1>2, <1>3, <1>4 DEF Aging, Abandoned, Disjoint, Pcs, InHand
<1>Sleeping. Sleeping'
  BY <1>T, <1>2, <1>3, <1>4 DEF Sleeping, Asleep, Disjoint, Pcs, InHand
<1>Live. ASSUME ~dead PROVE Live'
  <2>0. FreeOffQueues /\ RequesterTickets /\ WaitingTickets /\ UnreadTickets /\
       DaemonTickets /\ ReadMessages /\ Owed /\ Minded /\ NoneLost
    BY <1>1, <1>Live DEF Live
  <2>FreeOffQueues. FreeOffQueues'
    BY <1>T, <1>2, <1>3, <1>4, <1>Live, <2>0 DEF FreeOffQueues, Disjoint, Pcs, InHand
  <2>RequesterTickets. RequesterTickets'
    BY <1>T, <1>2, <1>3, <1>4, <1>Live, <2>0
      DEF RequesterTickets, RequesterTicket, Disjoint, Pcs, Fresh, FreshTicket, InHand
  <2>WaitingTickets. WaitingTickets'
    BY <1>T, <1>2, <1>3, <1>4, <1>Live, <2>0
      DEF WaitingTickets, WaitingTicket, Disjoint, Pcs, InHand
  <2>UnreadTickets. UnreadTickets'
    BY <1>T, <1>2, <1>3, <1>4, <1>Live, <2>0 DEF UnreadTickets, UnreadTicket, Disjoint, Pcs, InHand
  <2>DaemonTickets. DaemonTickets'
    BY <1>T, <1>2, <1>3, <1>4, <1>Live, <2>0 DEF DaemonTickets, DaemonTicket, Disjoint, Pcs, InHand
  <2>ReadMessages. ReadMessages'
    BY <1>T, <1>2, <1>3, <1>4, <1>Live, <2>0 DEF ReadMessages, Owes, Disjoint, Pcs
  <2>Owed. Owed'
    BY <1>T, <1>2, <1>3, <1>4, <1>Live, <2>0 DEF Owed, OwedTicket, Disjoint, Pcs, InHand
  <2>Minded. Minded'
    BY <1>T, <1>2, <1>3, <1>4, <1>Live, <2>0 DEF Minded, MindedTicket, Disjoint, Pcs, InHand
  <2>NoneLost. NoneLost'
    BY <1>T, <1>2, <1>3, <1>4, <1>Live, <2>0 DEF NoneLost, Kept, Disjoint, Pcs, InHand
  <2>. QED BY <2>FreeOffQueues, <2>RequesterTickets, <2>WaitingTickets, <2>UnreadTickets,
    <2>DaemonTickets, <2>ReadMessages, <2>Owed, <2>Minded, <2>NoneLost
    DEF Live
<1>P. ~panicked'
  BY <1>1, <1>2, <1>3, <1>4 DEF Fresh, FreshTicket, Pcs
<1>. QED BY <1>Pcs, <1>DeadIsClosed, <1>Numbered, <1>Disjoint, <1>Fresh, <1>Carries, <1>Aging,
  <1>Sleeping, <1>Live, <1>P, <1>4
  DEF IInv, Base

(* The requester looks at its ticket after the sleep.                      *)
LEMMA WokenStep ==
  ASSUME Orderly, IInv, TypeOK', InHand', NEW r \in Requesters, Woken(r)
  PROVE  IInv'
<1>1. TypeOK /\ ~panicked /\ Base /\ (dead \/ Live)
  BY DEF IInv
<1>2. Pcs /\ InHand /\ DeadIsClosed /\ Numbered /\ Disjoint /\ Fresh /\ Carries /\ Aging /\
     Sleeping
  BY <1>1 DEF Base
<1>T. /\ ticketer \in Nat /\ alltickets \subseteq Tickets /\ aw_head \subseteq Tickets
      /\ \A s \in Requesters : s \in Threads /\ s \notin Daemons
      /\ Requesters \subseteq Threads /\ Daemons \subseteq Threads
      /\ \A u \in Tickets : tk[u].unique \in Nat /\ tk[u].age \in Nat
      /\ \A s \in Requesters : mark[s] \in Nat
  BY TypeConsequences, <1>1
<1>3. r \in Threads /\ tick[r] \in Tickets /\ tk[tick[r]] \in Ticket
  BY <1>1, <1>2 DEF Woken, InHand, TypeOK
<1>4. /\ pc[r] = "woken"
      /\ \A s \in Threads : s # r => pc'[s] = pc[s]
      /\ \/ /\ ~Answered(tick[r])
            /\ pc'[r] = "post"
         \/ /\ Answered(tick[r])
            /\ pc'[r] = "drop"
         \/ /\ Answered(tick[r])
            /\ ~tk[tick[r]].errno
            /\ pc'[r] = "use"
      /\ UNCHANGED <<dead, drain, closed, ticketer, alltickets, freetickets, ms_head, aw_head,
                     tk, tick, req, mark, inbox, panicked>>
  BY <1>1, <1>3 DEF Woken, Orderly, TypeOK, Goto, session, pool, queues, work, locals, daemon
<1>Pcs. Pcs'
  BY <1>T, <1>2, <1>3, <1>4 DEF Pcs
<1>DeadIsClosed. DeadIsClosed'
  BY <1>T, <1>2, <1>3, <1>4 DEF DeadIsClosed, Pcs
<1>Numbered. Numbered'
  BY <1>T, <1>2, <1>3, <1>4 DEF Numbered, Disjoint
<1>Disjoint. Disjoint'
  BY <1>T, <1>2, <1>3, <1>4 DEF Disjoint, Pcs, InHand
<1>Fresh. Fresh'
  BY <1>T, <1>2, <1>3, <1>4 DEF Fresh, FreshTicket, Disjoint, Pcs, InHand
<1>Carries. Carries'
  BY <1>T, <1>2, <1>3, <1>4 DEF Carries, CarriesOwn, Disjoint, Pcs, Fresh, FreshTicket, InHand
<1>Aging. Aging'
  BY <1>T, <1>2, <1>3, <1>4 DEF Aging, Abandoned, Disjoint, Pcs, InHand
<1>Sleeping. Sleeping'
  BY <1>T, <1>2, <1>3, <1>4 DEF Sleeping, Asleep, Disjoint, Pcs, InHand
<1>Live. ASSUME ~dead PROVE Live'
  <2>0. FreeOffQueues /\ RequesterTickets /\ WaitingTickets /\ UnreadTickets /\
       DaemonTickets /\ ReadMessages /\ Owed /\ Minded /\ NoneLost
    BY <1>1, <1>Live DEF Live
  <2>FreeOffQueues. FreeOffQueues'
    BY <1>T, <1>2, <1>3, <1>4, <1>Live, <2>0 DEF FreeOffQueues, Disjoint, Pcs, InHand
  <2>RequesterTickets. RequesterTickets'
    BY <1>T, <1>2, <1>3, <1>4, <1>Live, <2>0
      DEF RequesterTickets, RequesterTicket, Disjoint, Pcs, Fresh, FreshTicket, InHand
  <2>WaitingTickets. WaitingTickets'
    BY <1>T, <1>2, <1>3, <1>4, <1>Live, <2>0
      DEF WaitingTickets, WaitingTicket, Disjoint, Pcs, InHand
  <2>UnreadTickets. UnreadTickets'
    BY <1>T, <1>2, <1>3, <1>4, <1>Live, <2>0 DEF UnreadTickets, UnreadTicket, Disjoint, Pcs, InHand
  <2>DaemonTickets. DaemonTickets'
    BY <1>T, <1>2, <1>3, <1>4, <1>Live, <2>0 DEF DaemonTickets, DaemonTicket, Disjoint, Pcs, InHand
  <2>ReadMessages. ReadMessages'
    <3>1. ASSUME NEW q \in inbox' PROVE \E u \in aw_head' : Owes(q, u)'
      <4>1. PICK u \in aw_head : Owes(q, u)
        BY <1>4, <2>0 DEF ReadMessages
      <4>2. u \in aw_head' /\ Owes(q, u)'
        BY <4>1, <1>T, <1>2, <1>3, <1>4, <1>Live, <2>0
          DEF Owes, InHand, Pcs, DeadIsClosed, Numbered, Disjoint, Fresh, FreshTicket, Carries,
            CarriesOwn, Aging, Abandoned, Sleeping, Asleep, FreeOffQueues, RequesterTickets,
            RequesterTicket, WaitingTickets, WaitingTicket, UnreadTickets, UnreadTicket,
            DaemonTickets, DaemonTicket, Owed, OwedTicket, Minded, MindedTicket, NoneLost, Kept
      <4>. QED BY <4>2
    <3>. QED BY <3>1 DEF ReadMessages
  <2>Owed. Owed'
    BY <1>T, <1>2, <1>3, <1>4, <1>Live, <2>0 DEF Owed, OwedTicket, Disjoint, Pcs, InHand
  <2>Minded. Minded'
    BY <1>T, <1>2, <1>3, <1>4, <1>Live, <2>0 DEF Minded, MindedTicket, Disjoint, Pcs, InHand
  <2>NoneLost. NoneLost'
    BY <1>T, <1>2, <1>3, <1>4, <1>Live, <2>0 DEF NoneLost, Kept, Disjoint, Pcs, InHand
  <2>. QED BY <2>FreeOffQueues, <2>RequesterTickets, <2>WaitingTickets, <2>UnreadTickets,
    <2>DaemonTickets, <2>ReadMessages, <2>Owed, <2>Minded, <2>NoneLost
    DEF Live
<1>P. ~panicked'
  BY <1>1, <1>2, <1>3, <1>4 DEF Fresh, FreshTicket, Pcs
<1>. QED BY <1>Pcs, <1>DeadIsClosed, <1>Numbered, <1>Disjoint, <1>Fresh, <1>Carries, <1>Aging,
  <1>Sleeping, <1>Live, <1>P, <1>4
  DEF IInv, Base

(* The caller has read the answer.                                         *)
LEMMA UseAnswerStep ==
  ASSUME Orderly, IInv, TypeOK', InHand', NEW r \in Requesters, UseAnswer(r)
  PROVE  IInv'
<1>1. TypeOK /\ ~panicked /\ Base /\ (dead \/ Live)
  BY DEF IInv
<1>2. Pcs /\ InHand /\ DeadIsClosed /\ Numbered /\ Disjoint /\ Fresh /\ Carries /\ Aging /\
     Sleeping
  BY <1>1 DEF Base
<1>T. /\ ticketer \in Nat /\ alltickets \subseteq Tickets /\ aw_head \subseteq Tickets
      /\ \A s \in Requesters : s \in Threads /\ s \notin Daemons
      /\ Requesters \subseteq Threads /\ Daemons \subseteq Threads
      /\ \A u \in Tickets : tk[u].unique \in Nat /\ tk[u].age \in Nat
      /\ \A s \in Requesters : mark[s] \in Nat
  BY TypeConsequences, <1>1
<1>3. r \in Threads /\ tick[r] \in Tickets /\ tk[tick[r]] \in Ticket
  BY <1>1, <1>2 DEF UseAnswer, InHand, TypeOK
<1>4. /\ pc[r] = "use"
      /\ pc'[r] = "drop"
      /\ \A s \in Threads : s # r => pc'[s] = pc[s]
      /\ UNCHANGED <<dead, drain, closed, ticketer, alltickets, freetickets, ms_head, aw_head,
                     tk, tick, req, mark, inbox, panicked>>
  BY <1>1, <1>3 DEF UseAnswer, Orderly, TypeOK, Goto, session, pool, queues, work, locals, daemon
<1>Pcs. Pcs'
  BY <1>T, <1>2, <1>3, <1>4 DEF Pcs
<1>DeadIsClosed. DeadIsClosed'
  BY <1>T, <1>2, <1>3, <1>4 DEF DeadIsClosed, Pcs
<1>Numbered. Numbered'
  BY <1>T, <1>2, <1>3, <1>4 DEF Numbered, Disjoint
<1>Disjoint. Disjoint'
  BY <1>T, <1>2, <1>3, <1>4 DEF Disjoint, Pcs, InHand
<1>Fresh. Fresh'
  BY <1>T, <1>2, <1>3, <1>4 DEF Fresh, FreshTicket, Disjoint, Pcs, InHand
<1>Carries. Carries'
  BY <1>T, <1>2, <1>3, <1>4 DEF Carries, CarriesOwn, Disjoint, Pcs, Fresh, FreshTicket, InHand
<1>Aging. Aging'
  BY <1>T, <1>2, <1>3, <1>4 DEF Aging, Abandoned, Disjoint, Pcs, InHand
<1>Sleeping. Sleeping'
  BY <1>T, <1>2, <1>3, <1>4 DEF Sleeping, Asleep, Disjoint, Pcs, InHand
<1>Live. ASSUME ~dead PROVE Live'
  <2>0. FreeOffQueues /\ RequesterTickets /\ WaitingTickets /\ UnreadTickets /\
       DaemonTickets /\ ReadMessages /\ Owed /\ Minded /\ NoneLost
    BY <1>1, <1>Live DEF Live
  <2>FreeOffQueues. FreeOffQueues'
    BY <1>T, <1>2, <1>3, <1>4, <1>Live, <2>0 DEF FreeOffQueues, Disjoint, Pcs, InHand
  <2>RequesterTickets. RequesterTickets'
    BY <1>T, <1>2, <1>3, <1>4, <1>Live, <2>0
      DEF RequesterTickets, RequesterTicket, Disjoint, Pcs, Fresh, FreshTicket, InHand
  <2>WaitingTickets. WaitingTickets'
    BY <1>T, <1>2, <1>3, <1>4, <1>Live, <2>0
      DEF WaitingTickets, WaitingTicket, Disjoint, Pcs, InHand
  <2>UnreadTickets. UnreadTickets'
    BY <1>T, <1>2, <1>3, <1>4, <1>Live, <2>0 DEF UnreadTickets, UnreadTicket, Disjoint, Pcs, InHand
  <2>DaemonTickets. DaemonTickets'
    BY <1>T, <1>2, <1>3, <1>4, <1>Live, <2>0 DEF DaemonTickets, DaemonTicket, Disjoint, Pcs, InHand
  <2>ReadMessages. ReadMessages'
    BY <1>T, <1>2, <1>3, <1>4, <1>Live, <2>0 DEF ReadMessages, Owes, Disjoint, Pcs
  <2>Owed. Owed'
    BY <1>T, <1>2, <1>3, <1>4, <1>Live, <2>0 DEF Owed, OwedTicket, Disjoint, Pcs, InHand
  <2>Minded. Minded'
    BY <1>T, <1>2, <1>3, <1>4, <1>Live, <2>0 DEF Minded, MindedTicket, Disjoint, Pcs, InHand
  <2>NoneLost. NoneLost'
    BY <1>T, <1>2, <1>3, <1>4, <1>Live, <2>0 DEF NoneLost, Kept, Disjoint, Pcs, InHand
  <2>. QED BY <2>FreeOffQueues, <2>RequesterTickets, <2>WaitingTickets, <2>UnreadTickets,
    <2>DaemonTickets, <2>ReadMessages, <2>Owed, <2>Minded, <2>NoneLost
    DEF Live
<1>P. ~panicked'
  BY <1>1, <1>2, <1>3, <1>4 DEF Fresh, FreshTicket, Pcs
<1>. QED BY <1>Pcs, <1>DeadIsClosed, <1>Numbered, <1>Disjoint, <1>Fresh, <1>Carries, <1>Aging,
  <1>Sleeping, <1>Live, <1>P, <1>4
  DEF IInv, Base

(* The wait failed: the requester drops or abandons its ticket.            *)
LEMMA GiveUpStep ==
  ASSUME Orderly, IInv, TypeOK', InHand', NEW r \in Requesters, GiveUp(r)
  PROVE  IInv'
<1>1. TypeOK /\ ~panicked /\ Base /\ (dead \/ Live)
  BY DEF IInv
<1>2. Pcs /\ InHand /\ DeadIsClosed /\ Numbered /\ Disjoint /\ Fresh /\ Carries /\ Aging /\
     Sleeping
  BY <1>1 DEF Base
<1>T. /\ ticketer \in Nat /\ alltickets \subseteq Tickets /\ aw_head \subseteq Tickets
      /\ \A s \in Requesters : s \in Threads /\ s \notin Daemons
      /\ Requesters \subseteq Threads /\ Daemons \subseteq Threads
      /\ \A u \in Tickets : tk[u].unique \in Nat /\ tk[u].age \in Nat
      /\ \A s \in Requesters : mark[s] \in Nat
  BY TypeConsequences, <1>1
<1>3. r \in Threads /\ tick[r] \in Tickets /\ tk[tick[r]] \in Ticket
  BY <1>1, <1>2 DEF GiveUp, InHand, TypeOK
<1>4. /\ pc[r] = "post"
      /\ \A u \in Tickets : u # tick[r] => tk'[u] = tk[u]
      /\ \A s \in Threads : s # r => pc'[s] = pc[s]
      /\ \A s \in Requesters : s # r => mark'[s] = mark[s]
      /\ tk'[tick[r]].unique = tk[tick[r]].unique
      /\ tk'[tick[r]].age = tk[tick[r]].age
      /\ tk'[tick[r]].handler = tk[tick[r]].handler
      /\ tk'[tick[r]].ms = tk[tick[r]].ms
      /\ tk'[tick[r]].resp = tk[tick[r]].resp
      /\ tk'[tick[r]].errno = tk[tick[r]].errno
      /\ \/ /\ Answered(tick[r])
            /\ pc'[r] = "drop"
            /\ tk' = tk
            /\ mark' = mark
         \/ /\ ~Answered(tick[r])
            /\ pc'[r] = "detach"
            /\ tk'[tick[r]].flag = tk[tick[r]].flag \cup {"ANSW"}
            /\ mark'[r] = tk[tick[r]].age
      /\ UNCHANGED <<dead, drain, closed, ticketer, alltickets, freetickets, ms_head, aw_head,
                     tick, req, inbox, panicked>>
  BY <1>1, <1>3, FlagFacts
    DEF GiveUp, Orderly, TypeOK, Goto, Flags, RequesterDrops, session, pool, queues, work,
      locals, daemon
<1>Pcs. Pcs'
  BY <1>T, <1>2, <1>3, <1>4 DEF Pcs
<1>DeadIsClosed. DeadIsClosed'
  BY <1>T, <1>2, <1>3, <1>4 DEF DeadIsClosed, Pcs
<1>Numbered. Numbered'
  BY <1>T, <1>2, <1>3, <1>4 DEF Numbered, Disjoint
<1>Disjoint. Disjoint'
  BY <1>T, <1>2, <1>3, <1>4 DEF Disjoint, Pcs, InHand
<1>Fresh. Fresh'
  BY <1>T, <1>2, <1>3, <1>4 DEF Fresh, FreshTicket, Disjoint, Pcs, InHand
<1>Carries. Carries'
  BY <1>T, <1>2, <1>3, <1>4 DEF Carries, CarriesOwn, Disjoint, Pcs, Fresh, FreshTicket, InHand
<1>Aging. Aging'
  <2>1. ASSUME NEW s \in Requesters PROVE Abandoned(s)'
    <3>1. CASE s = r
      BY <3>1, <1>T, <1>2, <1>3, <1>4
        DEF Aging, Abandoned, InHand, Pcs, DeadIsClosed, Numbered, Disjoint, Fresh, FreshTicket,
          Carries, CarriesOwn, Sleeping, Asleep
    <3>2. CASE s # r
      BY <3>2, <1>T, <1>2, <1>3, <1>4
        DEF Aging, Abandoned, InHand, Pcs, DeadIsClosed, Numbered, Disjoint, Fresh, FreshTicket,
          Carries, CarriesOwn, Sleeping, Asleep
    <3>. QED BY <3>1, <3>2
  <2>. QED BY <2>1 DEF Aging
<1>Sleeping. Sleeping'
  BY <1>T, <1>2, <1>3, <1>4 DEF Sleeping, Asleep, Disjoint, Pcs, InHand
<1>Live. ASSUME ~dead PROVE Live'
  <2>0. FreeOffQueues /\ RequesterTickets /\ WaitingTickets /\ UnreadTickets /\
       DaemonTickets /\ ReadMessages /\ Owed /\ Minded /\ NoneLost
    BY <1>1, <1>Live DEF Live
  <2>FreeOffQueues. FreeOffQueues'
    BY <1>T, <1>2, <1>3, <1>4, <1>Live, <2>0 DEF FreeOffQueues, Disjoint, Pcs, InHand
  <2>RequesterTickets. RequesterTickets'
    BY <1>T, <1>2, <1>3, <1>4, <1>Live, <2>0
      DEF RequesterTickets, RequesterTicket, Disjoint, Pcs, Fresh, FreshTicket, InHand
  <2>WaitingTickets. WaitingTickets'
    BY <1>T, <1>2, <1>3, <1>4, <1>Live, <2>0
      DEF WaitingTickets, WaitingTicket, Disjoint, Pcs, InHand
  <2>UnreadTickets. UnreadTickets'
    BY <1>T, <1>2, <1>3, <1>4, <1>Live, <2>0 DEF UnreadTickets, UnreadTicket, Disjoint, Pcs, InHand
  <2>DaemonTickets. DaemonTickets'
    BY <1>T, <1>2, <1>3, <1>4, <1>Live, <2>0 DEF DaemonTickets, DaemonTicket, Disjoint, Pcs, InHand
  <2>ReadMessages. ReadMessages'
    <3>1. ASSUME NEW q \in inbox' PROVE \E u \in aw_head' : Owes(q, u)'
      <4>1. PICK u \in aw_head : Owes(q, u)
        BY <1>4, <2>0 DEF ReadMessages
      <4>2. u \in aw_head' /\ Owes(q, u)'
        BY <4>1, <1>T, <1>2, <1>3, <1>4, <1>Live, <2>0
          DEF Owes, InHand, Pcs, DeadIsClosed, Numbered, Disjoint, Fresh, FreshTicket, Carries,
            CarriesOwn, Aging, Abandoned, Sleeping, Asleep, FreeOffQueues, RequesterTickets,
            RequesterTicket, WaitingTickets, WaitingTicket, UnreadTickets, UnreadTicket,
            DaemonTickets, DaemonTicket, Owed, OwedTicket, Minded, MindedTicket, NoneLost, Kept
      <4>. QED BY <4>2
    <3>. QED BY <3>1 DEF ReadMessages
  <2>Owed. Owed'
    BY <1>T, <1>2, <1>3, <1>4, <1>Live, <2>0 DEF Owed, OwedTicket, Disjoint, Pcs, InHand
  <2>Minded. Minded'
    BY <1>T, <1>2, <1>3, <1>4, <1>Live, <2>0 DEF Minded, MindedTicket, Disjoint, Pcs, InHand
  <2>NoneLost. NoneLost'
    <3>1. ASSUME NEW u \in alltickets' PROVE Kept(u)'
      <4>1. CASE u \in alltickets
        <5>1. Kept(u)
          BY <4>1, <2>0 DEF NoneLost
        <5>. QED BY <4>1, <5>1, <1>T, <1>2, <1>3, <1>4, <1>Live, <2>0
          DEF Kept, InHand, Pcs, DeadIsClosed, Numbered, Disjoint, Fresh, FreshTicket, Carries,
            CarriesOwn, Aging, Abandoned, Sleeping, Asleep, FreeOffQueues, RequesterTickets,
            RequesterTicket, WaitingTickets, WaitingTicket, UnreadTickets, UnreadTicket,
            DaemonTickets, DaemonTicket, ReadMessages, Owes, Owed, OwedTicket, Minded,
            MindedTicket
      <4>2. CASE u \notin alltickets
        BY <4>2, <3>1, <1>T, <1>2, <1>3, <1>4, <1>Live, <2>0
          DEF Kept, InHand, Pcs, DeadIsClosed, Numbered, Disjoint, Fresh, FreshTicket, Carries,
            CarriesOwn, Aging, Abandoned, Sleeping, Asleep, FreeOffQueues, RequesterTickets,
            RequesterTicket, WaitingTickets, WaitingTicket, UnreadTickets, UnreadTicket,
            DaemonTickets, DaemonTicket, ReadMessages, Owes, Owed, OwedTicket, Minded,
            MindedTicket
      <4>. QED BY <4>1, <4>2
    <3>. QED BY <3>1 DEF NoneLost
  <2>. QED BY <2>FreeOffQueues, <2>RequesterTickets, <2>WaitingTickets, <2>UnreadTickets,
    <2>DaemonTickets, <2>ReadMessages, <2>Owed, <2>Minded, <2>NoneLost
    DEF Live
<1>P. ~panicked'
  BY <1>1, <1>2, <1>3, <1>4 DEF Fresh, FreshTicket, Pcs
<1>. QED BY <1>Pcs, <1>DeadIsClosed, <1>Numbered, <1>Disjoint, <1>Fresh, <1>Carries, <1>Aging,
  <1>Sleeping, <1>Live, <1>P, <1>4
  DEF IInv, Base

(* It disarms the handler if the ticket still waits for it.                *)
LEMMA DetachStep ==
  ASSUME Orderly, IInv, TypeOK', InHand', NEW r \in Requesters, Detach(r)
  PROVE  IInv'
<1>1. TypeOK /\ ~panicked /\ Base /\ (dead \/ Live)
  BY DEF IInv
<1>2. Pcs /\ InHand /\ DeadIsClosed /\ Numbered /\ Disjoint /\ Fresh /\ Carries /\ Aging /\
     Sleeping
  BY <1>1 DEF Base
<1>T. /\ ticketer \in Nat /\ alltickets \subseteq Tickets /\ aw_head \subseteq Tickets
      /\ \A s \in Requesters : s \in Threads /\ s \notin Daemons
      /\ Requesters \subseteq Threads /\ Daemons \subseteq Threads
      /\ \A u \in Tickets : tk[u].unique \in Nat /\ tk[u].age \in Nat
      /\ \A s \in Requesters : mark[s] \in Nat
  BY TypeConsequences, <1>1
<1>3. r \in Threads /\ tick[r] \in Tickets /\ tk[tick[r]] \in Ticket
  BY <1>1, <1>2 DEF Detach, InHand, TypeOK
<1>4. /\ pc[r] = "detach"
      /\ pc'[r] = "idle"
      /\ tick'[r] = NoTicket
      /\ \A s \in Threads : s # r => pc'[s] = pc[s]
      /\ \A s \in Threads : s # r => tick'[s] = tick[s]
      /\ \A s \in Requesters : s # r => req'[s] = req[s]
      /\ \A s \in Requesters : s # r => mark'[s] = mark[s]
      /\ \A u \in Tickets : u # tick[r] => tk'[u] = tk[u]
      /\ tk'[tick[r]].unique = tk[tick[r]].unique
      /\ tk'[tick[r]].age = tk[tick[r]].age
      /\ tk'[tick[r]].flag = tk[tick[r]].flag
      /\ tk'[tick[r]].ms = tk[tick[r]].ms
      /\ tk'[tick[r]].resp = tk[tick[r]].resp
      /\ tk'[tick[r]].errno = tk[tick[r]].errno
      /\ \/ /\ tick[r] \in aw_head
            /\ tk[tick[r]].age = mark[r]
         \/ /\ tk' = tk
      /\ UNCHANGED <<dead, drain, closed, ticketer, alltickets, freetickets, ms_head, aw_head,
                     inbox, panicked>>
  BY <1>1, <1>3, HandlerFacts
    DEF Detach, Orderly, TypeOK, Goto, Leave, Disarms, session, pool, queues, work, locals,
      daemon
<1>Pcs. Pcs'
  BY <1>T, <1>2, <1>3, <1>4 DEF Pcs
<1>DeadIsClosed. DeadIsClosed'
  BY <1>T, <1>2, <1>3, <1>4 DEF DeadIsClosed, Pcs
<1>Numbered. Numbered'
  BY <1>T, <1>2, <1>3, <1>4 DEF Numbered, Disjoint
<1>Disjoint. Disjoint'
  BY <1>T, <1>2, <1>3, <1>4 DEF Disjoint, Pcs, InHand
<1>Fresh. Fresh'
  BY <1>T, <1>2, <1>3, <1>4 DEF Fresh, FreshTicket, Disjoint, Pcs, InHand
<1>Carries. Carries'
  <2>1. ASSUME NEW s \in Requesters PROVE CarriesOwn(s)'
    <3>1. CASE s = r
      BY <3>1, <1>T, <1>2, <1>3, <1>4
        DEF Carries, CarriesOwn, InHand, Pcs, DeadIsClosed, Numbered, Disjoint, Fresh,
          FreshTicket, Aging, Abandoned, Sleeping, Asleep
    <3>2. CASE s # r
      BY <3>2, <1>T, <1>2, <1>3, <1>4
        DEF Carries, CarriesOwn, InHand, Pcs, DeadIsClosed, Numbered, Disjoint, Fresh,
          FreshTicket, Aging, Abandoned, Sleeping, Asleep
    <3>. QED BY <3>1, <3>2
  <2>. QED BY <2>1 DEF Carries
<1>Aging. Aging'
  BY <1>T, <1>2, <1>3, <1>4 DEF Aging, Abandoned, Disjoint, Pcs, InHand
<1>Sleeping. Sleeping'
  BY <1>T, <1>2, <1>3, <1>4 DEF Sleeping, Asleep, Disjoint, Pcs, InHand
<1>Live. ASSUME ~dead PROVE Live'
  <2>0. FreeOffQueues /\ RequesterTickets /\ WaitingTickets /\ UnreadTickets /\
       DaemonTickets /\ ReadMessages /\ Owed /\ Minded /\ NoneLost
    BY <1>1, <1>Live DEF Live
  <2>FreeOffQueues. FreeOffQueues'
    BY <1>T, <1>2, <1>3, <1>4, <1>Live, <2>0 DEF FreeOffQueues, Disjoint, Pcs, InHand
  <2>RequesterTickets. RequesterTickets'
    BY <1>T, <1>2, <1>3, <1>4, <1>Live, <2>0
      DEF RequesterTickets, RequesterTicket, Disjoint, Pcs, Fresh, FreshTicket, InHand
  <2>WaitingTickets. WaitingTickets'
    <3>1. ASSUME NEW u \in aw_head' PROVE WaitingTicket(u)'
      BY <3>1, <1>T, <1>2, <1>3, <1>4, <1>Live, <2>0
        DEF WaitingTickets, WaitingTicket, InHand, Pcs, DeadIsClosed, Numbered, Disjoint, Fresh,
          FreshTicket, Carries, CarriesOwn, Aging, Abandoned, Sleeping, Asleep, FreeOffQueues,
          RequesterTickets, RequesterTicket, UnreadTickets, UnreadTicket, DaemonTickets,
          DaemonTicket, ReadMessages, Owes, Owed, OwedTicket, Minded, MindedTicket, NoneLost, Kept
    <3>. QED BY <3>1, <1>T, <1>2, <1>3, <1>4, <1>Live, <2>0 DEF WaitingTickets, Disjoint
  <2>UnreadTickets. UnreadTickets'
    BY <1>T, <1>2, <1>3, <1>4, <1>Live, <2>0 DEF UnreadTickets, UnreadTicket, Disjoint, Pcs, InHand
  <2>DaemonTickets. DaemonTickets'
    BY <1>T, <1>2, <1>3, <1>4, <1>Live, <2>0 DEF DaemonTickets, DaemonTicket, Disjoint, Pcs, InHand
  <2>ReadMessages. ReadMessages'
    BY <1>T, <1>2, <1>3, <1>4, <1>Live, <2>0 DEF ReadMessages, Owes, Disjoint, Pcs
  <2>Owed. Owed'
    BY <1>T, <1>2, <1>3, <1>4, <1>Live, <2>0 DEF Owed, OwedTicket, Disjoint, Pcs, InHand
  <2>Minded. Minded'
    <3>1. ASSUME NEW u \in Tickets PROVE MindedTicket(u)'
      <4>1. MindedTicket(u)
        BY <2>0 DEF Minded
      <4>. QED BY <4>1, <1>T, <1>2, <1>3, <1>4, <1>Live, <2>0
        DEF MindedTicket, InHand, Pcs, DeadIsClosed, Numbered, Disjoint, Fresh, FreshTicket,
          Carries, CarriesOwn, Aging, Abandoned, Sleeping, Asleep, FreeOffQueues,
          RequesterTickets, RequesterTicket, WaitingTickets, WaitingTicket, UnreadTickets,
          UnreadTicket, DaemonTickets, DaemonTicket, ReadMessages, Owes, Owed, OwedTicket,
          NoneLost, Kept
    <3>. QED BY <3>1 DEF Minded
  <2>NoneLost. NoneLost'
    BY <1>T, <1>2, <1>3, <1>4, <1>Live, <2>0 DEF NoneLost, Kept, Disjoint, Pcs, InHand
  <2>. QED BY <2>FreeOffQueues, <2>RequesterTickets, <2>WaitingTickets, <2>UnreadTickets,
    <2>DaemonTickets, <2>ReadMessages, <2>Owed, <2>Minded, <2>NoneLost
    DEF Live
<1>P. ~panicked'
  BY <1>1, <1>2, <1>3, <1>4 DEF Fresh, FreshTicket, Pcs
<1>. QED BY <1>Pcs, <1>DeadIsClosed, <1>Numbered, <1>Disjoint, <1>Fresh, <1>Carries, <1>Aging,
  <1>Sleeping, <1>Live, <1>P, <1>4
  DEF IInv, Base

(* A requester's ticket is to go to the free list.                         *)
LEMMA DropTicketKeepsRequesterStep ==
  ASSUME Orderly, IInv, TypeOK', InHand', NEW r \in Requesters, DropTicket(r), pc'[r] = "refresh"
  PROVE  IInv'
<1>1. TypeOK /\ ~panicked /\ Base /\ (dead \/ Live)
  BY DEF IInv
<1>2. Pcs /\ InHand /\ DeadIsClosed /\ Numbered /\ Disjoint /\ Fresh /\ Carries /\ Aging /\
     Sleeping
  BY <1>1 DEF Base
<1>T. /\ ticketer \in Nat /\ alltickets \subseteq Tickets /\ aw_head \subseteq Tickets
      /\ \A s \in Requesters : s \in Threads /\ s \notin Daemons
      /\ Requesters \subseteq Threads /\ Daemons \subseteq Threads
      /\ \A u \in Tickets : tk[u].unique \in Nat /\ tk[u].age \in Nat
      /\ \A s \in Requesters : mark[s] \in Nat
  BY TypeConsequences, <1>1
<1>3. r \in Threads /\ tick[r] \in Tickets /\ tk[tick[r]] \in Ticket
  BY <1>1, <1>2 DEF DropTicket, InHand, TypeOK
<1>4. /\ pc[r] = "drop"
      /\ pc'[r] = "refresh"
      /\ \A s \in Threads : s # r => pc'[s] = pc[s]
      /\ UNCHANGED <<dead, drain, closed, ticketer, alltickets, freetickets, ms_head, aw_head,
                     tk, tick, req, mark, inbox, panicked>>
  BY <1>1, <1>3
    DEF DropTicket, Orderly, TypeOK, Goto, Leave, session, pool, queues, work, locals, daemon
<1>Pcs. Pcs'
  BY <1>T, <1>2, <1>3, <1>4 DEF Pcs
<1>DeadIsClosed. DeadIsClosed'
  BY <1>T, <1>2, <1>3, <1>4 DEF DeadIsClosed, Pcs
<1>Numbered. Numbered'
  BY <1>T, <1>2, <1>3, <1>4 DEF Numbered, Disjoint
<1>Disjoint. Disjoint'
  BY <1>T, <1>2, <1>3, <1>4 DEF Disjoint, Pcs, InHand
<1>Fresh. Fresh'
  BY <1>T, <1>2, <1>3, <1>4 DEF Fresh, FreshTicket, Disjoint, Pcs, InHand
<1>Carries. Carries'
  BY <1>T, <1>2, <1>3, <1>4 DEF Carries, CarriesOwn, Disjoint, Pcs, Fresh, FreshTicket, InHand
<1>Aging. Aging'
  BY <1>T, <1>2, <1>3, <1>4 DEF Aging, Abandoned, Disjoint, Pcs, InHand
<1>Sleeping. Sleeping'
  BY <1>T, <1>2, <1>3, <1>4 DEF Sleeping, Asleep, Disjoint, Pcs, InHand
<1>Live. ASSUME ~dead PROVE Live'
  <2>0. FreeOffQueues /\ RequesterTickets /\ WaitingTickets /\ UnreadTickets /\
       DaemonTickets /\ ReadMessages /\ Owed /\ Minded /\ NoneLost
    BY <1>1, <1>Live DEF Live
  <2>FreeOffQueues. FreeOffQueues'
    BY <1>T, <1>2, <1>3, <1>4, <1>Live, <2>0 DEF FreeOffQueues, Disjoint, Pcs, InHand
  <2>RequesterTickets. RequesterTickets'
    BY <1>T, <1>2, <1>3, <1>4, <1>Live, <2>0
      DEF RequesterTickets, RequesterTicket, Disjoint, Pcs, Fresh, FreshTicket, InHand
  <2>WaitingTickets. WaitingTickets'
    BY <1>T, <1>2, <1>3, <1>4, <1>Live, <2>0
      DEF WaitingTickets, WaitingTicket, Disjoint, Pcs, InHand
  <2>UnreadTickets. UnreadTickets'
    BY <1>T, <1>2, <1>3, <1>4, <1>Live, <2>0 DEF UnreadTickets, UnreadTicket, Disjoint, Pcs, InHand
  <2>DaemonTickets. DaemonTickets'
    BY <1>T, <1>2, <1>3, <1>4, <1>Live, <2>0 DEF DaemonTickets, DaemonTicket, Disjoint, Pcs, InHand
  <2>ReadMessages. ReadMessages'
    BY <1>T, <1>2, <1>3, <1>4, <1>Live, <2>0 DEF ReadMessages, Owes, Disjoint, Pcs
  <2>Owed. Owed'
    BY <1>T, <1>2, <1>3, <1>4, <1>Live, <2>0 DEF Owed, OwedTicket, Disjoint, Pcs, InHand
  <2>Minded. Minded'
    BY <1>T, <1>2, <1>3, <1>4, <1>Live, <2>0 DEF Minded, MindedTicket, Disjoint, Pcs, InHand
  <2>NoneLost. NoneLost'
    BY <1>T, <1>2, <1>3, <1>4, <1>Live, <2>0 DEF NoneLost, Kept, Disjoint, Pcs, InHand
  <2>. QED BY <2>FreeOffQueues, <2>RequesterTickets, <2>WaitingTickets, <2>UnreadTickets,
    <2>DaemonTickets, <2>ReadMessages, <2>Owed, <2>Minded, <2>NoneLost
    DEF Live
<1>P. ~panicked'
  BY <1>1, <1>2, <1>3, <1>4 DEF Fresh, FreshTicket, Pcs
<1>. QED BY <1>Pcs, <1>DeadIsClosed, <1>Numbered, <1>Disjoint, <1>Fresh, <1>Carries, <1>Aging,
  <1>Sleeping, <1>Live, <1>P, <1>4
  DEF IInv, Base

(* A requester's ticket is destroyed.                                      *)
LEMMA DropTicketDestroysRequesterStep ==
  ASSUME Orderly, IInv, TypeOK', InHand', NEW r \in Requesters, DropTicket(r), pc'[r] # "refresh"
  PROVE  IInv'
<1>1. TypeOK /\ ~panicked /\ Base /\ (dead \/ Live)
  BY DEF IInv
<1>2. Pcs /\ InHand /\ DeadIsClosed /\ Numbered /\ Disjoint /\ Fresh /\ Carries /\ Aging /\
     Sleeping
  BY <1>1 DEF Base
<1>T. /\ ticketer \in Nat /\ alltickets \subseteq Tickets /\ aw_head \subseteq Tickets
      /\ \A s \in Requesters : s \in Threads /\ s \notin Daemons
      /\ Requesters \subseteq Threads /\ Daemons \subseteq Threads
      /\ \A u \in Tickets : tk[u].unique \in Nat /\ tk[u].age \in Nat
      /\ \A s \in Requesters : mark[s] \in Nat
  BY TypeConsequences, <1>1
<1>3. r \in Threads /\ tick[r] \in Tickets /\ tk[tick[r]] \in Ticket
  BY <1>1, <1>2 DEF DropTicket, InHand, TypeOK
<1>4. /\ pc[r] = "drop"
      /\ pc'[r] = "idle"
      /\ tick'[r] = NoTicket
      /\ \A s \in Threads : s # r => pc'[s] = pc[s]
      /\ \A s \in Threads : s # r => tick'[s] = tick[s]
      /\ \A s \in Requesters : s # r => req'[s] = req[s]
      /\ alltickets' = alltickets \ {tick[r]}
      /\ \A u \in Tickets : u # tick[r] => tk'[u] = tk[u]
      /\ UNCHANGED <<dead, drain, closed, ticketer, freetickets, ms_head, aw_head, mark, inbox,
                     panicked>>
  BY <1>1, <1>3
    DEF DropTicket, Orderly, TypeOK, Goto, Destroy, Leave, session, pool, queues, work, locals,
      daemon
<1>A. /\ tick[r] \in alltickets \ Range(freetickets)
      /\ \A s \in Threads : s # r => ~Holds(s) \/ tick[s] # tick[r]
  BY <1>1, <1>3, <1>4, DropperAlone
<1>Pcs. Pcs'
  BY <1>T, <1>2, <1>3, <1>4, <1>A DEF Pcs
<1>DeadIsClosed. DeadIsClosed'
  BY <1>T, <1>2, <1>3, <1>4, <1>A DEF DeadIsClosed, Pcs
<1>Numbered. Numbered'
  BY <1>T, <1>2, <1>3, <1>4, <1>A DEF Numbered, Disjoint
<1>Disjoint. Disjoint'
  BY <1>T, <1>2, <1>3, <1>4, <1>A DEF Disjoint, Pcs, InHand
<1>Fresh. Fresh'
  <2>1. ASSUME NEW s \in Requesters PROVE FreshTicket(s)'
    BY <1>T, <1>2, <1>3, <1>4, <1>A DEF Fresh, FreshTicket, InHand, Pcs
  <2>2. ASSUME NEW t \in Range(freetickets)' PROVE Unsent(t)' /\ ~Invalid(t)'
    BY <1>T, <1>2, <1>4, <1>A DEF Fresh, Disjoint
  <2>. QED BY <2>1, <2>2 DEF Fresh
<1>Carries. Carries'
  BY <1>T, <1>2, <1>3, <1>4, <1>A DEF Carries, CarriesOwn, Disjoint, Pcs, Fresh, FreshTicket, InHand
<1>Aging. Aging'
  BY <1>T, <1>2, <1>3, <1>4, <1>A DEF Aging, Abandoned, Disjoint, Pcs, InHand
<1>Sleeping. Sleeping'
  BY <1>T, <1>2, <1>3, <1>4, <1>A DEF Sleeping, Asleep, Disjoint, Pcs, InHand
<1>Live. ASSUME ~dead PROVE Live'
  <2>0. FreeOffQueues /\ RequesterTickets /\ WaitingTickets /\ UnreadTickets /\
       DaemonTickets /\ ReadMessages /\ Owed /\ Minded /\ NoneLost
    BY <1>1, <1>Live DEF Live
  <2>FreeOffQueues. FreeOffQueues'
    BY <1>T, <1>2, <1>3, <1>4, <1>A, <1>Live, <2>0 DEF FreeOffQueues, Disjoint, Pcs, InHand
  <2>RequesterTickets. RequesterTickets'
    BY <1>T, <1>2, <1>3, <1>4, <1>A, <1>Live, <2>0
      DEF RequesterTickets, RequesterTicket, Disjoint, Pcs, Fresh, FreshTicket, InHand
  <2>WaitingTickets. WaitingTickets'
    <3>1. ASSUME NEW u \in aw_head' PROVE WaitingTicket(u)'
      BY <3>1, <1>T, <1>2, <1>3, <1>4, <1>A, <1>Live, <2>0
        DEF WaitingTickets, WaitingTicket, InHand, Pcs, DeadIsClosed, Numbered, Disjoint, Fresh,
          FreshTicket, Carries, CarriesOwn, Aging, Abandoned, Sleeping, Asleep, FreeOffQueues,
          RequesterTickets, RequesterTicket, UnreadTickets, UnreadTicket, DaemonTickets,
          DaemonTicket, ReadMessages, Owes, Owed, OwedTicket, Minded, MindedTicket, NoneLost, Kept
    <3>. QED BY <3>1, <1>T, <1>2, <1>3, <1>4, <1>A, <1>Live, <2>0 DEF WaitingTickets, Disjoint
  <2>UnreadTickets. UnreadTickets'
    <3>1. ASSUME NEW u \in Range(ms_head') PROVE UnreadTicket(u)'
      BY <3>1, <1>T, <1>2, <1>3, <1>4, <1>A, <1>Live, <2>0
        DEF UnreadTickets, UnreadTicket, InHand, Pcs, DeadIsClosed, Numbered, Disjoint, Fresh,
          FreshTicket, Carries, CarriesOwn, Aging, Abandoned, Sleeping, Asleep, FreeOffQueues,
          RequesterTickets, RequesterTicket, WaitingTickets, WaitingTicket, DaemonTickets,
          DaemonTicket, ReadMessages, Owes, Owed, OwedTicket, Minded, MindedTicket, NoneLost, Kept
    <3>. QED BY <3>1, <1>T, <1>2, <1>3, <1>4, <1>A, <1>Live, <2>0
      DEF UnreadTickets, Disjoint, UnreadTicket, FreeOffQueues, RequesterTickets,
        RequesterTicket
  <2>DaemonTickets. DaemonTickets'
    BY <1>T, <1>2, <1>3, <1>4, <1>A, <1>Live, <2>0
      DEF DaemonTickets, DaemonTicket, Disjoint, Pcs, InHand
  <2>ReadMessages. ReadMessages'
    BY <1>T, <1>2, <1>3, <1>4, <1>A, <1>Live, <2>0 DEF ReadMessages, Owes, Disjoint, Pcs
  <2>Owed. Owed'
    BY <1>T, <1>2, <1>3, <1>4, <1>A, <1>Live, <2>0 DEF Owed, OwedTicket, Disjoint, Pcs, InHand
  <2>Minded. Minded'
    <3>1. ASSUME NEW u \in Tickets PROVE MindedTicket(u)'
      <4>1. MindedTicket(u)
        BY <2>0 DEF Minded
      <4>. QED BY <4>1, <1>T, <1>2, <1>3, <1>4, <1>A, <1>Live, <2>0
        DEF MindedTicket, InHand, Pcs, DeadIsClosed, Numbered, Disjoint, Fresh, FreshTicket,
          Carries, CarriesOwn, Aging, Abandoned, Sleeping, Asleep, FreeOffQueues,
          RequesterTickets, RequesterTicket, WaitingTickets, WaitingTicket, UnreadTickets,
          UnreadTicket, DaemonTickets, DaemonTicket, ReadMessages, Owes, Owed, OwedTicket,
          NoneLost, Kept
    <3>. QED BY <3>1 DEF Minded
  <2>NoneLost. NoneLost'
    BY <1>T, <1>2, <1>3, <1>4, <1>A, <1>Live, <2>0 DEF NoneLost, Kept, Disjoint, Pcs, InHand
  <2>. QED BY <2>FreeOffQueues, <2>RequesterTickets, <2>WaitingTickets, <2>UnreadTickets,
    <2>DaemonTickets, <2>ReadMessages, <2>Owed, <2>Minded, <2>NoneLost
    DEF Live
<1>P. ~panicked'
  BY <1>1, <1>2, <1>3, <1>4 DEF Fresh, FreshTicket, Pcs
<1>. QED BY <1>Pcs, <1>DeadIsClosed, <1>Numbered, <1>Disjoint, <1>Fresh, <1>Carries, <1>Aging,
  <1>Sleeping, <1>Live, <1>P, <1>4
  DEF IInv, Base

(* A requester's ticket joins the free list, refreshed.                    *)
LEMMA PushFreeRequesterStep ==
  ASSUME Orderly, IInv, TypeOK', InHand', NEW r \in Requesters, PushFree(r)
  PROVE  IInv'
<1>1. TypeOK /\ ~panicked /\ Base /\ (dead \/ Live)
  BY DEF IInv
<1>2. Pcs /\ InHand /\ DeadIsClosed /\ Numbered /\ Disjoint /\ Fresh /\ Carries /\ Aging /\
     Sleeping
  BY <1>1 DEF Base
<1>T. /\ ticketer \in Nat /\ alltickets \subseteq Tickets /\ aw_head \subseteq Tickets
      /\ \A s \in Requesters : s \in Threads /\ s \notin Daemons
      /\ Requesters \subseteq Threads /\ Daemons \subseteq Threads
      /\ \A u \in Tickets : tk[u].unique \in Nat /\ tk[u].age \in Nat
      /\ \A s \in Requesters : mark[s] \in Nat
  BY TypeConsequences, <1>1
<1>3. r \in Threads /\ tick[r] \in Tickets /\ tk[tick[r]] \in Ticket
  BY <1>1, <1>2 DEF PushFree, InHand, TypeOK
<1>4. /\ pc[r] = "refresh"
      /\ pc'[r] = "idle"
      /\ tick'[r] = NoTicket
      /\ \A s \in Threads : s # r => pc'[s] = pc[s]
      /\ \A s \in Threads : s # r => tick'[s] = tick[s]
      /\ \A s \in Requesters : s # r => req'[s] = req[s]
      /\ Range(freetickets') = Range(freetickets) \cup {tick[r]}
      /\ IsInjective(freetickets) /\ tick[r] \notin Range(freetickets) => IsInjective(freetickets')
      /\ \A u \in Tickets : u # tick[r] => tk'[u] = tk[u]
      /\ tk'[tick[r]].unique = tk[tick[r]].unique
      /\ tk'[tick[r]].age = tk[tick[r]].age + 1
      /\ tk'[tick[r]].flag = {}
      /\ UNCHANGED <<dead, drain, closed, ticketer, alltickets, ms_head, aw_head, mark, inbox,
                     panicked>>
  BY <1>1, <1>3, PushFacts, RefreshFacts
    DEF PushFree, Orderly, TypeOK, Goto, Leave, session, pool, queues, work, locals, daemon
<1>A. /\ tick[r] \in alltickets \ Range(freetickets)
      /\ \A s \in Threads : s # r => ~Holds(s) \/ tick[s] # tick[r]
  BY <1>1, <1>3, <1>4, DropperAlone
<1>Pcs. Pcs'
  BY <1>T, <1>2, <1>3, <1>4, <1>A DEF Pcs
<1>DeadIsClosed. DeadIsClosed'
  BY <1>T, <1>2, <1>3, <1>4, <1>A DEF DeadIsClosed, Pcs
<1>Numbered. Numbered'
  BY <1>T, <1>2, <1>3, <1>4, <1>A DEF Numbered, Disjoint
<1>Disjoint. Disjoint'
  <2>1. IsInjective(freetickets') /\ Range(freetickets') \subseteq alltickets'
    BY <1>2, <1>4, <1>A DEF Disjoint
  <2>2. ASSUME NEW s \in Threads, Holds(s)'
        PROVE  tick'[s] \in alltickets' \ Range(freetickets')
    <3>1. s # r
      BY <2>2, <1>3, <1>4 DEF InHand
    <3>. QED BY <3>1, <2>2, <1>T, <1>2, <1>4, <1>A DEF Disjoint
  <2>3. ASSUME NEW s \in Requesters, NEW u \in Requesters, Holds(s)', Holds(u)', tick'[s] = tick'[u]
        PROVE  s = u
    BY <2>3, <1>T, <1>2, <1>3, <1>4 DEF Disjoint, InHand
  <2>. QED BY <2>1, <2>2, <2>3 DEF Disjoint
<1>Fresh. Fresh'
  <2>1. ASSUME NEW u \in Range(freetickets') PROVE (Unsent(u) /\ ~Invalid(u))'
    <3>1. CASE u = tick[r]
      BY <3>1, <1>4 DEF Unsent, Invalid
    <3>2. CASE u # tick[r]
      <4>1. u \in Range(freetickets) /\ u \in Tickets
        BY <3>2, <2>1, <1>T, <1>2, <1>4 DEF Disjoint
      <4>2. tk'[u] = tk[u] /\ dead' = dead /\ Unsent(u) /\ ~Invalid(u)
        BY <4>1, <3>2, <1>2, <1>4 DEF Fresh
      <4>. QED BY <4>2 DEF Unsent, Invalid
    <3>. QED BY <3>1, <3>2
  <2>2. ASSUME NEW s \in Requesters PROVE FreshTicket(s)'
    <3>1. CASE s = r
      BY <3>1, <1>4 DEF FreshTicket
    <3>2. CASE s # r
      <4>1. /\ FreshTicket(s) /\ dead' = dead
            /\ pc'[s] = pc[s] /\ req'[s] = req[s] /\ tick'[s] = tick[s]
        BY <3>2, <1>T, <1>2, <1>4 DEF Fresh
      <4>2. pc[s] \in Building \cup Sending => tk'[tick[s]] = tk[tick[s]]
        BY <3>2, <1>T, <1>2, <1>4, <1>A DEF InHand
      <4>. QED BY <4>1, <4>2 DEF FreshTicket, Unsent, Invalid
    <3>. QED BY <3>1, <3>2
  <2>. QED BY <2>1, <2>2 DEF Fresh
<1>Carries. Carries'
  BY <1>T, <1>2, <1>3, <1>4, <1>A DEF Carries, CarriesOwn, Disjoint, Pcs, Fresh, FreshTicket, InHand
<1>Aging. Aging'
  BY <1>T, <1>2, <1>3, <1>4, <1>A DEF Aging, Abandoned, Disjoint, Pcs, InHand
<1>Sleeping. Sleeping'
  BY <1>T, <1>2, <1>3, <1>4, <1>A DEF Sleeping, Asleep, Disjoint, Pcs, InHand
<1>Live. ASSUME ~dead PROVE Live'
  <2>0. FreeOffQueues /\ RequesterTickets /\ WaitingTickets /\ UnreadTickets /\
       DaemonTickets /\ ReadMessages /\ Owed /\ Minded /\ NoneLost
    BY <1>1, <1>Live DEF Live
  <2>FreeOffQueues. FreeOffQueues'
    BY <1>T, <1>2, <1>3, <1>4, <1>A, <1>Live, <2>0
      DEF FreeOffQueues, InHand, Pcs, DeadIsClosed, Numbered, Disjoint, Fresh, FreshTicket,
        Carries, CarriesOwn, Aging, Abandoned, Sleeping, Asleep, RequesterTickets,
        RequesterTicket, WaitingTickets, WaitingTicket, UnreadTickets, UnreadTicket,
        DaemonTickets, DaemonTicket, ReadMessages, Owes, Owed, OwedTicket, Minded, MindedTicket,
        NoneLost, Kept
  <2>RequesterTickets. RequesterTickets'
    BY <1>T, <1>2, <1>3, <1>4, <1>A, <1>Live, <2>0
      DEF RequesterTickets, RequesterTicket, Disjoint, Pcs, Fresh, FreshTicket, InHand
  <2>WaitingTickets. WaitingTickets'
    BY <1>T, <1>2, <1>3, <1>4, <1>A, <1>Live, <2>0
      DEF WaitingTickets, WaitingTicket, Disjoint, Pcs, InHand
  <2>UnreadTickets. UnreadTickets'
    BY <1>T, <1>2, <1>3, <1>4, <1>A, <1>Live, <2>0
      DEF UnreadTickets, UnreadTicket, Disjoint, Pcs, InHand
  <2>DaemonTickets. DaemonTickets'
    <3>1. ASSUME NEW e \in Daemons PROVE DaemonTicket(e)'
      <4>1. CASE e = r
        BY <4>1, <1>T, <1>2, <1>3, <1>4, <1>A, <1>Live, <2>0
          DEF DaemonTickets, DaemonTicket, InHand, Pcs, DeadIsClosed, Numbered, Disjoint, Fresh,
            FreshTicket, Carries, CarriesOwn, Aging, Abandoned, Sleeping, Asleep, FreeOffQueues,
            RequesterTickets, RequesterTicket, WaitingTickets, WaitingTicket, UnreadTickets,
            UnreadTicket, ReadMessages, Owes, Owed, OwedTicket, Minded, MindedTicket, NoneLost,
            Kept
      <4>2. CASE e # r
        BY <4>2, <1>T, <1>2, <1>3, <1>4, <1>A, <1>Live, <2>0
          DEF DaemonTickets, DaemonTicket, InHand, Pcs, DeadIsClosed, Numbered, Disjoint, Fresh,
            FreshTicket, Carries, CarriesOwn, Aging, Abandoned, Sleeping, Asleep, FreeOffQueues,
            RequesterTickets, RequesterTicket, WaitingTickets, WaitingTicket, UnreadTickets,
            UnreadTicket, ReadMessages, Owes, Owed, OwedTicket, Minded, MindedTicket, NoneLost,
            Kept
      <4>. QED BY <4>1, <4>2
    <3>. QED BY <3>1, <1>T, <1>2, <1>3, <1>4, <1>A, <1>Live, <2>0
      DEF DaemonTickets, InHand, Pcs, DeadIsClosed, Numbered, Disjoint, Fresh, FreshTicket,
        Carries, CarriesOwn, Aging, Abandoned, Sleeping, Asleep, FreeOffQueues, RequesterTickets,
        RequesterTicket, WaitingTickets, WaitingTicket, UnreadTickets, UnreadTicket, ReadMessages,
        Owes, Owed, OwedTicket, Minded, MindedTicket, NoneLost, Kept
  <2>ReadMessages. ReadMessages'
    BY <1>T, <1>2, <1>3, <1>4, <1>A, <1>Live, <2>0 DEF ReadMessages, Owes, Disjoint, Pcs
  <2>Owed. Owed'
    BY <1>T, <1>2, <1>3, <1>4, <1>A, <1>Live, <2>0 DEF Owed, OwedTicket, Disjoint, Pcs, InHand
  <2>Minded. Minded'
    <3>1. ASSUME NEW u \in Tickets PROVE MindedTicket(u)'
      <4>1. MindedTicket(u)
        BY <2>0 DEF Minded
      <4>. QED BY <4>1, <1>T, <1>2, <1>3, <1>4, <1>A, <1>Live, <2>0
        DEF MindedTicket, InHand, Pcs, DeadIsClosed, Numbered, Disjoint, Fresh, FreshTicket,
          Carries, CarriesOwn, Aging, Abandoned, Sleeping, Asleep, FreeOffQueues,
          RequesterTickets, RequesterTicket, WaitingTickets, WaitingTicket, UnreadTickets,
          UnreadTicket, DaemonTickets, DaemonTicket, ReadMessages, Owes, Owed, OwedTicket,
          NoneLost, Kept
    <3>. QED BY <3>1 DEF Minded
  <2>NoneLost. NoneLost'
    BY <1>T, <1>2, <1>3, <1>4, <1>A, <1>Live, <2>0 DEF NoneLost, Kept, Disjoint, Pcs, InHand
  <2>. QED BY <2>FreeOffQueues, <2>RequesterTickets, <2>WaitingTickets, <2>UnreadTickets,
    <2>DaemonTickets, <2>ReadMessages, <2>Owed, <2>Minded, <2>NoneLost
    DEF Live
<1>P. ~panicked'
  BY <1>1, <1>2, <1>3, <1>4 DEF Fresh, FreshTicket, Pcs
<1>. QED BY <1>Pcs, <1>DeadIsClosed, <1>Numbered, <1>Disjoint, <1>Fresh, <1>Carries, <1>Aging,
  <1>Sleeping, <1>Live, <1>P, <1>4
  DEF IInv, Base

-----------------------------------------------------------------------------
(* The steps of a daemon thread, and the closing of the device.            *)

(* A daemon thread's ticket is to go to the free list.                     *)
LEMMA DropTicketKeepsDaemonStep ==
  ASSUME Orderly, IInv, TypeOK', InHand', NEW d \in Daemons, DropTicket(d), pc'[d] = "refresh"
  PROVE  IInv'
<1>1. TypeOK /\ ~panicked /\ Base /\ (dead \/ Live)
  BY DEF IInv
<1>2. Pcs /\ InHand /\ DeadIsClosed /\ Numbered /\ Disjoint /\ Fresh /\ Carries /\ Aging /\
     Sleeping
  BY <1>1 DEF Base
<1>T. /\ ticketer \in Nat /\ alltickets \subseteq Tickets /\ aw_head \subseteq Tickets
      /\ \A s \in Requesters : s \in Threads /\ s \notin Daemons
      /\ Requesters \subseteq Threads /\ Daemons \subseteq Threads
      /\ \A u \in Tickets : tk[u].unique \in Nat /\ tk[u].age \in Nat
      /\ \A s \in Requesters : mark[s] \in Nat
  BY TypeConsequences, <1>1
<1>3. d \in Threads /\ tick[d] \in Tickets /\ tk[tick[d]] \in Ticket
  BY <1>1, <1>2 DEF DropTicket, InHand, TypeOK
<1>4. /\ pc[d] = "drop"
      /\ pc'[d] = "refresh"
      /\ \A s \in Threads : s # d => pc'[s] = pc[s]
      /\ UNCHANGED <<dead, drain, closed, ticketer, alltickets, freetickets, ms_head, aw_head,
                     tk, tick, req, mark, inbox, panicked>>
  BY <1>1, <1>3
    DEF DropTicket, Orderly, TypeOK, Goto, Leave, session, pool, queues, work, locals, daemon
<1>L. ~dead /\ FreeOffQueues /\ RequesterTickets /\ WaitingTickets /\ UnreadTickets /\
     DaemonTickets /\ ReadMessages /\ Owed /\ Minded /\ NoneLost
  BY <1>1, <1>2, <1>4 DEF DeadIsClosed, Live
<1>Pcs. Pcs'
  BY <1>T, <1>2, <1>3, <1>4, <1>L DEF Pcs
<1>DeadIsClosed. DeadIsClosed'
  BY <1>T, <1>2, <1>3, <1>4, <1>L DEF DeadIsClosed, Pcs
<1>Numbered. Numbered'
  BY <1>T, <1>2, <1>3, <1>4, <1>L DEF Numbered, Disjoint
<1>Disjoint. Disjoint'
  BY <1>T, <1>2, <1>3, <1>4, <1>L DEF Disjoint, Pcs, InHand
<1>Fresh. Fresh'
  BY <1>T, <1>2, <1>3, <1>4, <1>L DEF Fresh, FreshTicket, Disjoint, Pcs, InHand
<1>Carries. Carries'
  BY <1>T, <1>2, <1>3, <1>4, <1>L DEF Carries, CarriesOwn, Disjoint, Pcs, Fresh, FreshTicket, InHand
<1>Aging. Aging'
  BY <1>T, <1>2, <1>3, <1>4, <1>L DEF Aging, Abandoned, Disjoint, Pcs, InHand
<1>Sleeping. Sleeping'
  BY <1>T, <1>2, <1>3, <1>4, <1>L DEF Sleeping, Asleep, Disjoint, Pcs, InHand
<1>Live. Live'
  <2>FreeOffQueues. FreeOffQueues'
    BY <1>T, <1>2, <1>3, <1>4, <1>L DEF FreeOffQueues, Disjoint, Pcs, InHand
  <2>RequesterTickets. RequesterTickets'
    BY <1>T, <1>2, <1>3, <1>4, <1>L
      DEF RequesterTickets, RequesterTicket, Disjoint, Pcs, Fresh, FreshTicket, InHand
  <2>WaitingTickets. WaitingTickets'
    BY <1>T, <1>2, <1>3, <1>4, <1>L DEF WaitingTickets, WaitingTicket, Disjoint, Pcs, InHand
  <2>UnreadTickets. UnreadTickets'
    BY <1>T, <1>2, <1>3, <1>4, <1>L DEF UnreadTickets, UnreadTicket, Disjoint, Pcs, InHand
  <2>DaemonTickets. DaemonTickets'
    BY <1>T, <1>2, <1>3, <1>4, <1>L DEF DaemonTickets, DaemonTicket, Disjoint, Pcs, InHand
  <2>ReadMessages. ReadMessages'
    BY <1>T, <1>2, <1>3, <1>4, <1>L DEF ReadMessages, Owes, Disjoint, Pcs
  <2>Owed. Owed'
    BY <1>T, <1>2, <1>3, <1>4, <1>L DEF Owed, OwedTicket, Disjoint, Pcs, InHand
  <2>Minded. Minded'
    BY <1>T, <1>2, <1>3, <1>4, <1>L DEF Minded, MindedTicket, Disjoint, Pcs, InHand
  <2>NoneLost. NoneLost'
    BY <1>T, <1>2, <1>3, <1>4, <1>L DEF NoneLost, Kept, Disjoint, Pcs, InHand
  <2>. QED BY <2>FreeOffQueues, <2>RequesterTickets, <2>WaitingTickets, <2>UnreadTickets,
    <2>DaemonTickets, <2>ReadMessages, <2>Owed, <2>Minded, <2>NoneLost
    DEF Live
<1>P. ~panicked'
  BY <1>1, <1>2, <1>3, <1>4 DEF Fresh, FreshTicket, Pcs
<1>. QED BY <1>Pcs, <1>DeadIsClosed, <1>Numbered, <1>Disjoint, <1>Fresh, <1>Carries, <1>Aging,
  <1>Sleeping, <1>Live, <1>P, <1>4
  DEF IInv, Base

(* A daemon thread's ticket is destroyed.                                  *)
LEMMA DropTicketDestroysDaemonStep ==
  ASSUME Orderly, IInv, TypeOK', InHand', NEW d \in Daemons, DropTicket(d), pc'[d] # "refresh"
  PROVE  IInv'
<1>1. TypeOK /\ ~panicked /\ Base /\ (dead \/ Live)
  BY DEF IInv
<1>2. Pcs /\ InHand /\ DeadIsClosed /\ Numbered /\ Disjoint /\ Fresh /\ Carries /\ Aging /\
     Sleeping
  BY <1>1 DEF Base
<1>T. /\ ticketer \in Nat /\ alltickets \subseteq Tickets /\ aw_head \subseteq Tickets
      /\ \A s \in Requesters : s \in Threads /\ s \notin Daemons
      /\ Requesters \subseteq Threads /\ Daemons \subseteq Threads
      /\ \A u \in Tickets : tk[u].unique \in Nat /\ tk[u].age \in Nat
      /\ \A s \in Requesters : mark[s] \in Nat
  BY TypeConsequences, <1>1
<1>3. d \in Threads /\ tick[d] \in Tickets /\ tk[tick[d]] \in Ticket
  BY <1>1, <1>2 DEF DropTicket, InHand, TypeOK
<1>4. /\ pc[d] = "drop"
      /\ pc'[d] = "idle"
      /\ tick'[d] = NoTicket
      /\ \A s \in Threads : s # d => pc'[s] = pc[s]
      /\ \A s \in Threads : s # d => tick'[s] = tick[s]
      /\ \A s \in Requesters : s # d => req'[s] = req[s]
      /\ alltickets' = alltickets \ {tick[d]}
      /\ \A u \in Tickets : u # tick[d] => tk'[u] = tk[u]
      /\ UNCHANGED <<dead, drain, closed, ticketer, freetickets, ms_head, aw_head, mark, inbox,
                     panicked>>
  BY <1>1, <1>3
    DEF DropTicket, Orderly, TypeOK, Goto, Destroy, Leave, session, pool, queues, work, locals,
      daemon
<1>L. ~dead /\ FreeOffQueues /\ RequesterTickets /\ WaitingTickets /\ UnreadTickets /\
     DaemonTickets /\ ReadMessages /\ Owed /\ Minded /\ NoneLost
  BY <1>1, <1>2, <1>4 DEF DeadIsClosed, Live
<1>A. /\ tick[d] \in alltickets \ Range(freetickets)
      /\ \A s \in Threads : s # d => ~Holds(s) \/ tick[s] # tick[d]
  BY <1>1, <1>3, <1>4, DropperAlone
<1>Pcs. Pcs'
  BY <1>T, <1>2, <1>3, <1>4, <1>L, <1>A DEF Pcs
<1>DeadIsClosed. DeadIsClosed'
  BY <1>T, <1>2, <1>3, <1>4, <1>L, <1>A DEF DeadIsClosed, Pcs
<1>Numbered. Numbered'
  BY <1>T, <1>2, <1>3, <1>4, <1>L, <1>A DEF Numbered, Disjoint
<1>Disjoint. Disjoint'
  BY <1>T, <1>2, <1>3, <1>4, <1>L, <1>A DEF Disjoint, Pcs, InHand
<1>Fresh. Fresh'
  BY <1>T, <1>2, <1>3, <1>4, <1>L, <1>A DEF Fresh, FreshTicket, Disjoint, Pcs, InHand
<1>Carries. Carries'
  BY <1>T, <1>2, <1>3, <1>4, <1>L, <1>A
    DEF Carries, CarriesOwn, Disjoint, Pcs, Fresh, FreshTicket, InHand
<1>Aging. Aging'
  BY <1>T, <1>2, <1>3, <1>4, <1>L, <1>A DEF Aging, Abandoned, Disjoint, Pcs, InHand
<1>Sleeping. Sleeping'
  BY <1>T, <1>2, <1>3, <1>4, <1>L, <1>A DEF Sleeping, Asleep, Disjoint, Pcs, InHand
<1>Live. Live'
  <2>FreeOffQueues. FreeOffQueues'
    BY <1>T, <1>2, <1>3, <1>4, <1>L, <1>A DEF FreeOffQueues, Disjoint, Pcs, InHand
  <2>RequesterTickets. RequesterTickets'
    BY <1>T, <1>2, <1>3, <1>4, <1>L, <1>A
      DEF RequesterTickets, RequesterTicket, Disjoint, Pcs, Fresh, FreshTicket, InHand
  <2>WaitingTickets. WaitingTickets'
    <3>1. ASSUME NEW u \in aw_head' PROVE WaitingTicket(u)'
      BY <3>1, <1>T, <1>2, <1>3, <1>4, <1>L, <1>A
        DEF WaitingTickets, WaitingTicket, InHand, Pcs, DeadIsClosed, Numbered, Disjoint, Fresh,
          FreshTicket, Carries, CarriesOwn, Aging, Abandoned, Sleeping, Asleep, FreeOffQueues,
          RequesterTickets, RequesterTicket, UnreadTickets, UnreadTicket, DaemonTickets,
          DaemonTicket, ReadMessages, Owes, Owed, OwedTicket, Minded, MindedTicket, NoneLost, Kept
    <3>. QED BY <3>1, <1>T, <1>2, <1>3, <1>4, <1>L, <1>A DEF WaitingTickets, Disjoint
  <2>UnreadTickets. UnreadTickets'
    BY <1>T, <1>2, <1>3, <1>4, <1>L, <1>A DEF UnreadTickets, UnreadTicket, Disjoint, Pcs, InHand
  <2>DaemonTickets. DaemonTickets'
    BY <1>T, <1>2, <1>3, <1>4, <1>L, <1>A DEF DaemonTickets, DaemonTicket, Disjoint, Pcs, InHand
  <2>ReadMessages. ReadMessages'
    BY <1>T, <1>2, <1>3, <1>4, <1>L, <1>A DEF ReadMessages, Owes, Disjoint, Pcs
  <2>Owed. Owed'
    BY <1>T, <1>2, <1>3, <1>4, <1>L, <1>A DEF Owed, OwedTicket, Disjoint, Pcs, InHand
  <2>Minded. Minded'
    <3>1. ASSUME NEW u \in Tickets PROVE MindedTicket(u)'
      <4>1. MindedTicket(u)
        BY <1>L DEF Minded
      <4>. QED BY <4>1, <1>T, <1>2, <1>3, <1>4, <1>L, <1>A
        DEF MindedTicket, InHand, Pcs, DeadIsClosed, Numbered, Disjoint, Fresh, FreshTicket,
          Carries, CarriesOwn, Aging, Abandoned, Sleeping, Asleep, FreeOffQueues,
          RequesterTickets, RequesterTicket, WaitingTickets, WaitingTicket, UnreadTickets,
          UnreadTicket, DaemonTickets, DaemonTicket, ReadMessages, Owes, Owed, OwedTicket,
          NoneLost, Kept
    <3>. QED BY <3>1 DEF Minded
  <2>NoneLost. NoneLost'
    BY <1>T, <1>2, <1>3, <1>4, <1>L, <1>A DEF NoneLost, Kept, Disjoint, Pcs, InHand
  <2>. QED BY <2>FreeOffQueues, <2>RequesterTickets, <2>WaitingTickets, <2>UnreadTickets,
    <2>DaemonTickets, <2>ReadMessages, <2>Owed, <2>Minded, <2>NoneLost
    DEF Live
<1>P. ~panicked'
  BY <1>1, <1>2, <1>3, <1>4 DEF Fresh, FreshTicket, Pcs
<1>. QED BY <1>Pcs, <1>DeadIsClosed, <1>Numbered, <1>Disjoint, <1>Fresh, <1>Carries, <1>Aging,
  <1>Sleeping, <1>Live, <1>P, <1>4
  DEF IInv, Base

(* A daemon thread's ticket joins the free list, refreshed.                *)
LEMMA PushFreeDaemonStep ==
  ASSUME Orderly, IInv, TypeOK', InHand', NEW d \in Daemons, PushFree(d)
  PROVE  IInv'
<1>1. TypeOK /\ ~panicked /\ Base /\ (dead \/ Live)
  BY DEF IInv
<1>2. Pcs /\ InHand /\ DeadIsClosed /\ Numbered /\ Disjoint /\ Fresh /\ Carries /\ Aging /\
     Sleeping
  BY <1>1 DEF Base
<1>T. /\ ticketer \in Nat /\ alltickets \subseteq Tickets /\ aw_head \subseteq Tickets
      /\ \A s \in Requesters : s \in Threads /\ s \notin Daemons
      /\ Requesters \subseteq Threads /\ Daemons \subseteq Threads
      /\ \A u \in Tickets : tk[u].unique \in Nat /\ tk[u].age \in Nat
      /\ \A s \in Requesters : mark[s] \in Nat
  BY TypeConsequences, <1>1
<1>3. d \in Threads /\ tick[d] \in Tickets /\ tk[tick[d]] \in Ticket
  BY <1>1, <1>2 DEF PushFree, InHand, TypeOK
<1>4. /\ pc[d] = "refresh"
      /\ pc'[d] = "idle"
      /\ tick'[d] = NoTicket
      /\ \A s \in Threads : s # d => pc'[s] = pc[s]
      /\ \A s \in Threads : s # d => tick'[s] = tick[s]
      /\ \A s \in Requesters : s # d => req'[s] = req[s]
      /\ Range(freetickets') = Range(freetickets) \cup {tick[d]}
      /\ IsInjective(freetickets) /\ tick[d] \notin Range(freetickets) => IsInjective(freetickets')
      /\ \A u \in Tickets : u # tick[d] => tk'[u] = tk[u]
      /\ tk'[tick[d]].unique = tk[tick[d]].unique
      /\ tk'[tick[d]].age = tk[tick[d]].age + 1
      /\ tk'[tick[d]].flag = {}
      /\ UNCHANGED <<dead, drain, closed, ticketer, alltickets, ms_head, aw_head, mark, inbox,
                     panicked>>
  BY <1>1, <1>3, PushFacts, RefreshFacts
    DEF PushFree, Orderly, TypeOK, Goto, Leave, session, pool, queues, work, locals, daemon
<1>L. ~dead /\ FreeOffQueues /\ RequesterTickets /\ WaitingTickets /\ UnreadTickets /\
     DaemonTickets /\ ReadMessages /\ Owed /\ Minded /\ NoneLost
  BY <1>1, <1>2, <1>4 DEF DeadIsClosed, Live
<1>A. /\ tick[d] \in alltickets \ Range(freetickets)
      /\ \A s \in Threads : s # d => ~Holds(s) \/ tick[s] # tick[d]
  BY <1>1, <1>3, <1>4, DropperAlone
<1>Pcs. Pcs'
  BY <1>T, <1>2, <1>3, <1>4, <1>L, <1>A DEF Pcs
<1>DeadIsClosed. DeadIsClosed'
  BY <1>T, <1>2, <1>3, <1>4, <1>L, <1>A DEF DeadIsClosed, Pcs
<1>Numbered. Numbered'
  BY <1>T, <1>2, <1>3, <1>4, <1>L, <1>A DEF Numbered, Disjoint
<1>Disjoint. Disjoint'
  BY <1>T, <1>2, <1>3, <1>4, <1>L, <1>A
    DEF Disjoint, InHand, Pcs, DeadIsClosed, Numbered, Fresh, FreshTicket, Carries, CarriesOwn,
      Aging, Abandoned, Sleeping, Asleep, FreeOffQueues, RequesterTickets, RequesterTicket,
      WaitingTickets, WaitingTicket, UnreadTickets, UnreadTicket, DaemonTickets, DaemonTicket,
      ReadMessages, Owes, Owed, OwedTicket, Minded, MindedTicket, NoneLost, Kept
<1>Fresh. Fresh'
  <2>1. ASSUME NEW s \in Requesters PROVE FreshTicket(s)'
    BY <1>T, <1>2, <1>3, <1>4, <1>L, <1>A DEF Fresh, FreshTicket, InHand, Pcs
  <2>2. ASSUME NEW t \in Range(freetickets)' PROVE Unsent(t)' /\ ~Invalid(t)'
    <3>1. CASE t = tick[d]
      BY <3>1, <1>T, <1>3, <1>4
    <3>2. CASE t # tick[d]
      <4>1. t \in Range(freetickets) /\ t \in Tickets
        BY <2>2, <3>2, <1>2, <1>T, <1>4 DEF Disjoint
      <4>. QED BY <3>2, <4>1, <1>2, <1>4 DEF Fresh
    <3>. QED BY <3>1, <3>2
  <2>. QED BY <2>1, <2>2 DEF Fresh
<1>Carries. Carries'
  <2>1. ASSUME NEW s \in Requesters PROVE CarriesOwn(s)'
    <3>1. CASE s = d
      BY <3>1, <1>T, <1>2, <1>3, <1>4, <1>L, <1>A
        DEF Carries, CarriesOwn, InHand, Pcs, DeadIsClosed, Numbered, Disjoint, Fresh,
          FreshTicket, Aging, Abandoned, Sleeping, Asleep, FreeOffQueues, RequesterTickets,
          RequesterTicket, WaitingTickets, WaitingTicket, UnreadTickets, UnreadTicket,
          DaemonTickets, DaemonTicket, ReadMessages, Owes, Owed, OwedTicket, Minded, MindedTicket,
          NoneLost, Kept
    <3>2. CASE s # d
      BY <3>2, <1>T, <1>2, <1>3, <1>4, <1>L, <1>A
        DEF Carries, CarriesOwn, InHand, Pcs, DeadIsClosed, Numbered, Disjoint, Fresh,
          FreshTicket, Aging, Abandoned, Sleeping, Asleep, FreeOffQueues, RequesterTickets,
          RequesterTicket, WaitingTickets, WaitingTicket, UnreadTickets, UnreadTicket,
          DaemonTickets, DaemonTicket, ReadMessages, Owes, Owed, OwedTicket, Minded, MindedTicket,
          NoneLost, Kept
    <3>. QED BY <3>1, <3>2
  <2>. QED BY <2>1 DEF Carries
<1>Aging. Aging'
  BY <1>T, <1>2, <1>3, <1>4, <1>L, <1>A DEF Aging, Abandoned, Disjoint, Pcs, InHand
<1>Sleeping. Sleeping'
  BY <1>T, <1>2, <1>3, <1>4, <1>L, <1>A DEF Sleeping, Asleep, Disjoint, Pcs, InHand
<1>Live. Live'
  <2>FreeOffQueues. FreeOffQueues'
    BY <1>T, <1>2, <1>3, <1>4, <1>L, <1>A
      DEF FreeOffQueues, InHand, Pcs, DeadIsClosed, Numbered, Disjoint, Fresh, FreshTicket,
        Carries, CarriesOwn, Aging, Abandoned, Sleeping, Asleep, RequesterTickets,
        RequesterTicket, WaitingTickets, WaitingTicket, UnreadTickets, UnreadTicket,
        DaemonTickets, DaemonTicket, ReadMessages, Owes, Owed, OwedTicket, Minded, MindedTicket,
        NoneLost, Kept
  <2>RequesterTickets. RequesterTickets'
    BY <1>T, <1>2, <1>3, <1>4, <1>L, <1>A
      DEF RequesterTickets, RequesterTicket, Disjoint, Pcs, Fresh, FreshTicket, InHand
  <2>WaitingTickets. WaitingTickets'
    <3>1. ASSUME NEW u \in aw_head' PROVE WaitingTicket(u)'
      BY <3>1, <1>T, <1>2, <1>3, <1>4, <1>L, <1>A
        DEF WaitingTickets, WaitingTicket, InHand, Pcs, DeadIsClosed, Numbered, Disjoint, Fresh,
          FreshTicket, Carries, CarriesOwn, Aging, Abandoned, Sleeping, Asleep, FreeOffQueues,
          RequesterTickets, RequesterTicket, UnreadTickets, UnreadTicket, DaemonTickets,
          DaemonTicket, ReadMessages, Owes, Owed, OwedTicket, Minded, MindedTicket, NoneLost, Kept
    <3>. QED BY <3>1, <1>T, <1>2, <1>3, <1>4, <1>L, <1>A DEF WaitingTickets, Disjoint
  <2>UnreadTickets. UnreadTickets'
    BY <1>T, <1>2, <1>3, <1>4, <1>L, <1>A DEF UnreadTickets, UnreadTicket, Disjoint, Pcs, InHand
  <2>DaemonTickets. DaemonTickets'
    BY <1>T, <1>2, <1>3, <1>4, <1>L, <1>A DEF DaemonTickets, DaemonTicket, Disjoint, Pcs, InHand
  <2>ReadMessages. ReadMessages'
    BY <1>T, <1>2, <1>3, <1>4, <1>L, <1>A DEF ReadMessages, Owes, Disjoint, Pcs
  <2>Owed. Owed'
    BY <1>T, <1>2, <1>3, <1>4, <1>L, <1>A DEF Owed, OwedTicket, Disjoint, Pcs, InHand
  <2>Minded. Minded'
    <3>1. ASSUME NEW u \in Tickets PROVE MindedTicket(u)'
      <4>1. MindedTicket(u)
        BY <1>L DEF Minded
      <4>. QED BY <4>1, <1>T, <1>2, <1>3, <1>4, <1>L, <1>A
        DEF MindedTicket, InHand, Pcs, DeadIsClosed, Numbered, Disjoint, Fresh, FreshTicket,
          Carries, CarriesOwn, Aging, Abandoned, Sleeping, Asleep, FreeOffQueues,
          RequesterTickets, RequesterTicket, WaitingTickets, WaitingTicket, UnreadTickets,
          UnreadTicket, DaemonTickets, DaemonTicket, ReadMessages, Owes, Owed, OwedTicket,
          NoneLost, Kept
    <3>. QED BY <3>1 DEF Minded
  <2>NoneLost. NoneLost'
    BY <1>T, <1>2, <1>3, <1>4, <1>L, <1>A DEF NoneLost, Kept, Disjoint, Pcs, InHand
  <2>. QED BY <2>FreeOffQueues, <2>RequesterTickets, <2>WaitingTickets, <2>UnreadTickets,
    <2>DaemonTickets, <2>ReadMessages, <2>Owed, <2>Minded, <2>NoneLost
    DEF Live
<1>P. ~panicked'
  BY <1>1, <1>2, <1>3, <1>4 DEF Fresh, FreshTicket, Pcs
<1>. QED BY <1>Pcs, <1>DeadIsClosed, <1>Numbered, <1>Disjoint, <1>Fresh, <1>Carries, <1>Aging,
  <1>Sleeping, <1>Live, <1>P, <1>4
  DEF IInv, Base

(* read(2) takes a message off the queue.                                  *)
LEMMA ReadPopStep ==
  ASSUME Orderly, IInv, TypeOK', InHand', NEW d \in Daemons, ReadPop(d)
  PROVE  IInv'
<1>1. TypeOK /\ ~panicked /\ Base /\ (dead \/ Live)
  BY DEF IInv
<1>2. Pcs /\ InHand /\ DeadIsClosed /\ Numbered /\ Disjoint /\ Fresh /\ Carries /\ Aging /\
     Sleeping
  BY <1>1 DEF Base
<1>T. /\ ticketer \in Nat /\ alltickets \subseteq Tickets /\ aw_head \subseteq Tickets
      /\ \A s \in Requesters : s \in Threads /\ s \notin Daemons
      /\ Requesters \subseteq Threads /\ Daemons \subseteq Threads
      /\ \A u \in Tickets : tk[u].unique \in Nat /\ tk[u].age \in Nat
      /\ \A s \in Requesters : mark[s] \in Nat
  BY TypeConsequences, <1>1
<1>4. PICK t \in Tickets :
      /\ pc[d] = "idle"
      /\ ~dead
      /\ pc'[d] = "copy"
      /\ \A s \in Threads : s # d => pc'[s] = pc[s]
      /\ \A s \in Threads : s # d => tick'[s] = tick[s]
      /\ tick'[d] = t
      /\ t \in Range(ms_head)
      /\ IsInjective(ms_head) => IsInjective(ms_head') /\ Range(ms_head') = Range(ms_head) \ {t}
      /\ UNCHANGED <<dead, drain, closed, ticketer, alltickets, freetickets, aw_head, tk, req,
                     mark, inbox, panicked>>
  <2>1. ms_head # <<>> /\ ms_head' = Tail(ms_head) /\ ms_head \in Seq(Tickets)
    BY <1>1 DEF ReadPop, TypeOK
  <2>2. /\ Head(ms_head) \in Tickets /\ Head(ms_head) \in Range(ms_head)
        /\ IsInjective(ms_head) =>
             IsInjective(ms_head') /\ Range(ms_head') = Range(ms_head) \ {Head(ms_head)}
    BY <2>1, PopFacts
  <2>3. /\ pc[d] = "idle" /\ ~dead /\ pc'[d] = "copy" /\ tick'[d] = Head(ms_head)
        /\ \A s \in Threads : s # d => pc'[s] = pc[s] /\ tick'[s] = tick[s]
    BY <1>1, <1>T DEF ReadPop, TypeOK, Goto
  <2>4. UNCHANGED <<dead, drain, closed, ticketer, alltickets, freetickets, aw_head, tk, req,
                    mark, inbox, panicked>>
    BY DEF ReadPop, session, pool, locals, daemon
  <2>. QED BY <2>2, <2>3, <2>4
<1>L. ~dead /\ FreeOffQueues /\ RequesterTickets /\ WaitingTickets /\ UnreadTickets /\
     DaemonTickets /\ ReadMessages /\ Owed /\ Minded /\ NoneLost
  BY <1>1, <1>2, <1>4 DEF DeadIsClosed, Live
<1>Pcs. Pcs'
  BY <1>T, <1>2, <1>4, <1>L DEF Pcs
<1>DeadIsClosed. DeadIsClosed'
  BY <1>T, <1>2, <1>4, <1>L DEF DeadIsClosed, Pcs
<1>Numbered. Numbered'
  BY <1>T, <1>2, <1>4, <1>L DEF Numbered, Disjoint
<1>Disjoint. Disjoint'
  <2>1. t \in alltickets \ Range(freetickets)
    BY <1>1, <1>4 DEF Live, UnreadTickets, UnreadTicket, FreeOffQueues
  <2>. QED BY <2>1, <1>T, <1>2, <1>4 DEF Disjoint, Pcs
<1>Fresh. Fresh'
  BY <1>T, <1>2, <1>4, <1>L DEF Fresh, FreshTicket, Disjoint, Pcs, InHand
<1>Carries. Carries'
  BY <1>T, <1>2, <1>4, <1>L DEF Carries, CarriesOwn, Disjoint, Pcs, Fresh, FreshTicket, InHand
<1>Aging. Aging'
  BY <1>T, <1>2, <1>4, <1>L DEF Aging, Abandoned, Disjoint, Pcs, InHand
<1>Sleeping. Sleeping'
  BY <1>T, <1>2, <1>4, <1>L DEF Sleeping, Asleep, Disjoint, Pcs, InHand
<1>Live. Live'
  <2>FreeOffQueues. FreeOffQueues'
    BY <1>T, <1>2, <1>4, <1>L
      DEF FreeOffQueues, InHand, Pcs, DeadIsClosed, Numbered, Disjoint, Fresh, FreshTicket,
        Carries, CarriesOwn, Aging, Abandoned, Sleeping, Asleep, RequesterTickets,
        RequesterTicket, WaitingTickets, WaitingTicket, UnreadTickets, UnreadTicket,
        DaemonTickets, DaemonTicket, ReadMessages, Owes, Owed, OwedTicket, Minded, MindedTicket,
        NoneLost, Kept
  <2>RequesterTickets. RequesterTickets'
    <3>1. ASSUME NEW s \in Requesters PROVE RequesterTicket(s)'
      <4>1. CASE s = d
        BY <4>1, <1>T, <1>2, <1>4, <1>L
          DEF RequesterTickets, RequesterTicket, InHand, Pcs, DeadIsClosed, Numbered, Disjoint,
            Fresh, FreshTicket, Carries, CarriesOwn, Aging, Abandoned, Sleeping, Asleep,
            FreeOffQueues, WaitingTickets, WaitingTicket, UnreadTickets, UnreadTicket,
            DaemonTickets, DaemonTicket, ReadMessages, Owes, Owed, OwedTicket, Minded,
            MindedTicket, NoneLost, Kept
      <4>2. CASE s # d
        BY <4>2, <1>T, <1>2, <1>4, <1>L
          DEF RequesterTickets, RequesterTicket, InHand, Pcs, DeadIsClosed, Numbered, Disjoint,
            Fresh, FreshTicket, Carries, CarriesOwn, Aging, Abandoned, Sleeping, Asleep,
            FreeOffQueues, WaitingTickets, WaitingTicket, UnreadTickets, UnreadTicket,
            DaemonTickets, DaemonTicket, ReadMessages, Owes, Owed, OwedTicket, Minded,
            MindedTicket, NoneLost, Kept
      <4>. QED BY <4>1, <4>2
    <3>. QED BY <3>1 DEF RequesterTickets
  <2>WaitingTickets. WaitingTickets'
    BY <1>T, <1>2, <1>4, <1>L DEF WaitingTickets, WaitingTicket, Disjoint, Pcs, InHand
  <2>UnreadTickets. UnreadTickets'
    BY <1>T, <1>2, <1>4, <1>L DEF UnreadTickets, UnreadTicket, Disjoint, Pcs, InHand
  <2>DaemonTickets. DaemonTickets'
    <3>1. ASSUME NEW e \in Daemons PROVE DaemonTicket(e)'
      <4>1. CASE e = d
        BY <4>1, <1>T, <1>2, <1>4, <1>L
          DEF DaemonTickets, DaemonTicket, InHand, Pcs, DeadIsClosed, Numbered, Disjoint, Fresh,
            FreshTicket, Carries, CarriesOwn, Aging, Abandoned, Sleeping, Asleep, FreeOffQueues,
            RequesterTickets, RequesterTicket, WaitingTickets, WaitingTicket, UnreadTickets,
            UnreadTicket, ReadMessages, Owes, Owed, OwedTicket, Minded, MindedTicket, NoneLost,
            Kept
      <4>2. CASE e # d
        BY <4>2, <1>T, <1>2, <1>4, <1>L
          DEF DaemonTickets, DaemonTicket, InHand, Pcs, DeadIsClosed, Numbered, Disjoint, Fresh,
            FreshTicket, Carries, CarriesOwn, Aging, Abandoned, Sleeping, Asleep, FreeOffQueues,
            RequesterTickets, RequesterTicket, WaitingTickets, WaitingTicket, UnreadTickets,
            UnreadTicket, ReadMessages, Owes, Owed, OwedTicket, Minded, MindedTicket, NoneLost,
            Kept
      <4>. QED BY <4>1, <4>2
    <3>. QED BY <3>1, <1>T, <1>2, <1>4, <1>L
      DEF DaemonTickets, InHand, Pcs, DeadIsClosed, Numbered, Disjoint, Fresh, FreshTicket,
        Carries, CarriesOwn, Aging, Abandoned, Sleeping, Asleep, FreeOffQueues, RequesterTickets,
        RequesterTicket, WaitingTickets, WaitingTicket, UnreadTickets, UnreadTicket, ReadMessages,
        Owes, Owed, OwedTicket, Minded, MindedTicket, NoneLost, Kept
  <2>ReadMessages. ReadMessages'
    <3>1. ASSUME NEW q \in inbox' PROVE \E u \in aw_head' : Owes(q, u)'
      <4>1. PICK u \in aw_head : Owes(q, u)
        BY <1>4, <1>L DEF ReadMessages
      <4>2. u \in aw_head' /\ Owes(q, u)'
        BY <4>1, <1>T, <1>2, <1>4, <1>L
          DEF Owes, InHand, Pcs, DeadIsClosed, Numbered, Disjoint, Fresh, FreshTicket, Carries,
            CarriesOwn, Aging, Abandoned, Sleeping, Asleep, FreeOffQueues, RequesterTickets,
            RequesterTicket, WaitingTickets, WaitingTicket, UnreadTickets, UnreadTicket,
            DaemonTickets, DaemonTicket, Owed, OwedTicket, Minded, MindedTicket, NoneLost, Kept
      <4>. QED BY <4>2
    <3>. QED BY <3>1 DEF ReadMessages
  <2>Owed. Owed'
    BY <1>T, <1>2, <1>4, <1>L DEF Owed, OwedTicket, Disjoint, Pcs, InHand
  <2>Minded. Minded'
    BY <1>T, <1>2, <1>4, <1>L DEF Minded, MindedTicket, Disjoint, Pcs, InHand
  <2>NoneLost. NoneLost'
    <3>1. ASSUME NEW u \in alltickets' PROVE Kept(u)'
      <4>1. CASE u \in alltickets
        <5>1. Kept(u)
          BY <4>1, <1>L DEF NoneLost
        <5>. QED BY <4>1, <5>1, <1>T, <1>2, <1>4, <1>L
          DEF Kept, InHand, Pcs, DeadIsClosed, Numbered, Disjoint, Fresh, FreshTicket, Carries,
            CarriesOwn, Aging, Abandoned, Sleeping, Asleep, FreeOffQueues, RequesterTickets,
            RequesterTicket, WaitingTickets, WaitingTicket, UnreadTickets, UnreadTicket,
            DaemonTickets, DaemonTicket, ReadMessages, Owes, Owed, OwedTicket, Minded,
            MindedTicket
      <4>2. CASE u \notin alltickets
        BY <4>2, <3>1, <1>T, <1>2, <1>4, <1>L
          DEF Kept, InHand, Pcs, DeadIsClosed, Numbered, Disjoint, Fresh, FreshTicket, Carries,
            CarriesOwn, Aging, Abandoned, Sleeping, Asleep, FreeOffQueues, RequesterTickets,
            RequesterTicket, WaitingTickets, WaitingTicket, UnreadTickets, UnreadTicket,
            DaemonTickets, DaemonTicket, ReadMessages, Owes, Owed, OwedTicket, Minded,
            MindedTicket
      <4>. QED BY <4>1, <4>2
    <3>. QED BY <3>1 DEF NoneLost
  <2>. QED BY <2>FreeOffQueues, <2>RequesterTickets, <2>WaitingTickets, <2>UnreadTickets,
    <2>DaemonTickets, <2>ReadMessages, <2>Owed, <2>Minded, <2>NoneLost
    DEF Live
<1>P. ~panicked'
  BY <1>1, <1>2, <1>4 DEF Fresh, FreshTicket, Pcs
<1>. QED BY <1>Pcs, <1>DeadIsClosed, <1>Numbered, <1>Disjoint, <1>Fresh, <1>Carries, <1>Aging,
  <1>Sleeping, <1>Live, <1>P, <1>4
  DEF IInv, Base

(* read(2) copies it out, and drops a ticket without an answer.            *)
LEMMA ReadCopyStep ==
  ASSUME Orderly, IInv, TypeOK', InHand', NEW d \in Daemons, ReadCopy(d)
  PROVE  IInv'
<1>1. TypeOK /\ ~panicked /\ Base /\ (dead \/ Live)
  BY DEF IInv
<1>2. Pcs /\ InHand /\ DeadIsClosed /\ Numbered /\ Disjoint /\ Fresh /\ Carries /\ Aging /\
     Sleeping
  BY <1>1 DEF Base
<1>T. /\ ticketer \in Nat /\ alltickets \subseteq Tickets /\ aw_head \subseteq Tickets
      /\ \A s \in Requesters : s \in Threads /\ s \notin Daemons
      /\ Requesters \subseteq Threads /\ Daemons \subseteq Threads
      /\ \A u \in Tickets : tk[u].unique \in Nat /\ tk[u].age \in Nat
      /\ \A s \in Requesters : mark[s] \in Nat
  BY TypeConsequences, <1>1
<1>3. d \in Threads /\ tick[d] \in Tickets /\ tk[tick[d]] \in Ticket
  BY <1>1, <1>2 DEF ReadCopy, InHand, TypeOK
<1>4. /\ pc[d] = "copy"
      /\ \A s \in Threads : s # d => pc'[s] = pc[s]
      /\ \A s \in Threads : s # d => tick'[s] = tick[s]
      /\ \A r \in Requesters : req'[r] = req[r]
      /\ inbox' = inbox \/ (~dead /\ inbox' = inbox \cup Received(tick[d]))
      /\ \/ /\ Invalid(tick[d])
            /\ pc'[d] = "drop"
            /\ tick' = tick
         \/ /\ ~Invalid(tick[d])
            /\ pc'[d] = "idle"
            /\ tick'[d] = NoTicket
      /\ UNCHANGED <<dead, drain, closed, ticketer, alltickets, freetickets, ms_head, aw_head,
                     tk, mark, panicked>>
  <2>1. /\ pc[d] = "copy"
        /\ inbox' = inbox \/ (~dead /\ inbox' = inbox \cup Received(tick[d]))
    <3>1. pc[d] = "copy"
      BY DEF ReadCopy
    <3>2. inbox' = inbox \/ (~dead /\ inbox' = inbox \cup Received(tick[d]))
      BY DEF ReadCopy
    <3>. QED BY <3>1, <3>2
  <2>2. UNCHANGED <<dead, drain, closed, ticketer, alltickets, freetickets, ms_head, aw_head,
                    tk, mark, panicked>>
    BY DEF ReadCopy, session, pool, queues, locals
  <2>3. /\ \A s \in Threads : s # d => pc'[s] = pc[s]
        /\ \A s \in Threads : s # d => tick'[s] = tick[s]
        /\ \A q \in Requesters : req'[q] = req[q]
        /\ \/ Invalid(tick[d]) /\ pc'[d] = "drop" /\ tick' = tick
           \/ ~Invalid(tick[d]) /\ pc'[d] = "idle" /\ tick'[d] = NoTicket
    <3>1. CASE Invalid(tick[d])
      BY <3>1, <1>1, <1>3 DEF ReadCopy, DropInvalid, DropsInvalid, Goto, work, TypeOK
    <3>2. CASE ~Invalid(tick[d])
      BY <3>2, <1>1, <1>T, <1>3 DEF ReadCopy, DropInvalid, DropsInvalid, Leave, Goto, TypeOK
    <3>. QED BY <3>1, <3>2
  <2>. QED BY <2>1, <2>2, <2>3
<1>L. ~dead /\ FreeOffQueues /\ RequesterTickets /\ WaitingTickets /\ UnreadTickets /\
     DaemonTickets /\ ReadMessages /\ Owed /\ Minded /\ NoneLost
  BY <1>1, <1>2, <1>4 DEF DeadIsClosed, Live
<1>Pcs. Pcs'
  BY <1>T, <1>2, <1>3, <1>4, <1>L DEF Pcs
<1>DeadIsClosed. DeadIsClosed'
  BY <1>T, <1>2, <1>3, <1>4, <1>L DEF DeadIsClosed, Pcs
<1>Numbered. Numbered'
  BY <1>T, <1>2, <1>3, <1>4, <1>L DEF Numbered, Disjoint
<1>Disjoint. Disjoint'
  BY <1>T, <1>2, <1>3, <1>4, <1>L DEF Disjoint, Pcs, InHand
<1>Fresh. Fresh'
  BY <1>T, <1>2, <1>3, <1>4, <1>L DEF Fresh, FreshTicket, Disjoint, Pcs, InHand
<1>Carries. Carries'
  BY <1>T, <1>2, <1>3, <1>4, <1>L DEF Carries, CarriesOwn, Disjoint, Pcs, Fresh, FreshTicket, InHand
<1>Aging. Aging'
  BY <1>T, <1>2, <1>3, <1>4, <1>L DEF Aging, Abandoned, Disjoint, Pcs, InHand
<1>Sleeping. Sleeping'
  BY <1>T, <1>2, <1>3, <1>4, <1>L DEF Sleeping, Asleep, Disjoint, Pcs, InHand
<1>Live. Live'
  <2>FreeOffQueues. FreeOffQueues'
    BY <1>T, <1>2, <1>3, <1>4, <1>L DEF FreeOffQueues, Disjoint, Pcs, InHand
  <2>RequesterTickets. RequesterTickets'
    BY <1>T, <1>2, <1>3, <1>4, <1>L
      DEF RequesterTickets, RequesterTicket, Disjoint, Pcs, Fresh, FreshTicket, InHand
  <2>WaitingTickets. WaitingTickets'
    BY <1>T, <1>2, <1>3, <1>4, <1>L DEF WaitingTickets, WaitingTicket, Disjoint, Pcs, InHand
  <2>UnreadTickets. UnreadTickets'
    BY <1>T, <1>2, <1>3, <1>4, <1>L DEF UnreadTickets, UnreadTicket, Disjoint, Pcs, InHand
  <2>DaemonTickets. DaemonTickets'
    BY <1>T, <1>2, <1>3, <1>4, <1>L DEF DaemonTickets, DaemonTicket, Disjoint, Pcs, InHand
  <2>ReadMessages. ReadMessages'
    <3>1. ASSUME NEW q \in inbox, inbox' = inbox \cup Received(tick[d]) \/ inbox' = inbox
          PROVE  \E u \in aw_head' : Owes(q, u)'
      <4>1. PICK u \in aw_head : Owes(q, u)
        BY <1>L DEF ReadMessages
      <4>2. Owes(q, u)'
        BY <4>1, <1>T, <1>2, <1>3, <1>4 DEF Owes, Pcs
      <4>. QED BY <4>1, <4>2, <1>4
    <3>2. ASSUME NEW q \in Received(tick[d])
          PROVE  \E u \in aw_head' : Owes(q, u)'
      <4>1. ~Invalid(tick[d]) /\ q = [unique |-> tk[tick[d]].unique, req |-> tk[tick[d]].ms]
        BY <3>2 DEF Received
      <4>2. tick[d] \in aw_head /\ tick[d] \notin Range(ms_head)
        BY <4>1, <1>3, <1>4, <1>L DEF DaemonTickets, DaemonTicket, UnreadTickets, UnreadTicket
      <4>3. \A r \in Requesters : tick[r] = tick[d] /\ Holds(r) => pc[r] \in Waiting
        BY <4>2, <1>T, <1>2, <1>3, <1>4, <1>L DEF Pcs, RequesterTickets, RequesterTicket
      <4>4. \A e \in Daemons : e # d /\ Holds(e) => tick[e] # tick[d]
        BY <1>3, <1>4, <1>L DEF DaemonTickets
      <4>5. pc'[d] = "idle" /\ tick'[d] = NoTicket
        BY <4>1, <1>4
      <4>6. \A e \in Daemons :
              ~(tick'[e] # NoTicket /\ pc'[e] # "detach" /\ tick'[e] = tick[d])
        BY <4>4, <4>5, <1>T, <1>3, <1>4
      <4>7. \A r \in Requesters : pc'[r] = pc[r] /\ tick'[r] = tick[r]
        BY <1>T, <1>4
      <4>8. /\ tk'[tick[d]].unique = q.unique /\ tk'[tick[d]].ms = q.req
            /\ tick[d] \in aw_head' /\ tick[d] \notin Range(ms_head')
        BY <4>1, <4>2, <1>4
      <4>9. PICK u \in aw_head' : u = tick[d]
        BY <4>8
      <4>10. Owes(q, u)'
        BY <4>9, <4>3, <4>6, <4>7, <4>8 DEF Owes
      <4>. QED BY <4>9, <4>10
    <3>. QED BY <3>1, <3>2, <1>4 DEF ReadMessages
  <2>Owed. Owed'
    <3>1. ASSUME NEW s \in Requesters PROVE OwedTicket(s)'
      <4>1. CASE s = d
        BY <4>1, <1>T, <1>2, <1>3, <1>4, <1>L
          DEF Owed, OwedTicket, InHand, Pcs, DeadIsClosed, Numbered, Disjoint, Fresh,
            FreshTicket, Carries, CarriesOwn, Aging, Abandoned, Sleeping, Asleep, FreeOffQueues,
            RequesterTickets, RequesterTicket, WaitingTickets, WaitingTicket, UnreadTickets,
            UnreadTicket, DaemonTickets, DaemonTicket, ReadMessages, Owes, Minded, MindedTicket,
            NoneLost, Kept
      <4>2. CASE s # d
        BY <4>2, <1>T, <1>2, <1>3, <1>4, <1>L
          DEF Owed, OwedTicket, InHand, Pcs, DeadIsClosed, Numbered, Disjoint, Fresh,
            FreshTicket, Carries, CarriesOwn, Aging, Abandoned, Sleeping, Asleep, FreeOffQueues,
            RequesterTickets, RequesterTicket, WaitingTickets, WaitingTicket, UnreadTickets,
            UnreadTicket, DaemonTickets, DaemonTicket, ReadMessages, Owes, Minded, MindedTicket,
            NoneLost, Kept
      <4>. QED BY <4>1, <4>2
    <3>. QED BY <3>1 DEF Owed
  <2>Minded. Minded'
    BY <1>T, <1>2, <1>3, <1>4, <1>L DEF Minded, MindedTicket, Disjoint, Pcs, InHand
  <2>NoneLost. NoneLost'
    <3>1. ASSUME NEW u \in alltickets' PROVE Kept(u)'
      <4>1. CASE u \in alltickets
        <5>1. Kept(u)
          BY <4>1, <1>L DEF NoneLost
        <5>. QED BY <4>1, <5>1, <1>T, <1>2, <1>3, <1>4, <1>L
          DEF Kept, InHand, Pcs, DeadIsClosed, Numbered, Disjoint, Fresh, FreshTicket, Carries,
            CarriesOwn, Aging, Abandoned, Sleeping, Asleep, FreeOffQueues, RequesterTickets,
            RequesterTicket, WaitingTickets, WaitingTicket, UnreadTickets, UnreadTicket,
            DaemonTickets, DaemonTicket, ReadMessages, Owes, Owed, OwedTicket, Minded,
            MindedTicket
      <4>2. CASE u \notin alltickets
        BY <4>2, <3>1, <1>T, <1>2, <1>3, <1>4, <1>L
          DEF Kept, InHand, Pcs, DeadIsClosed, Numbered, Disjoint, Fresh, FreshTicket, Carries,
            CarriesOwn, Aging, Abandoned, Sleeping, Asleep, FreeOffQueues, RequesterTickets,
            RequesterTicket, WaitingTickets, WaitingTicket, UnreadTickets, UnreadTicket,
            DaemonTickets, DaemonTicket, ReadMessages, Owes, Owed, OwedTicket, Minded,
            MindedTicket
      <4>. QED BY <4>1, <4>2
    <3>. QED BY <3>1 DEF NoneLost
  <2>. QED BY <2>FreeOffQueues, <2>RequesterTickets, <2>WaitingTickets, <2>UnreadTickets,
    <2>DaemonTickets, <2>ReadMessages, <2>Owed, <2>Minded, <2>NoneLost
    DEF Live
<1>P. ~panicked'
  BY <1>1, <1>2, <1>3, <1>4 DEF Fresh, FreshTicket, Pcs
<1>. QED BY <1>Pcs, <1>DeadIsClosed, <1>Numbered, <1>Disjoint, <1>Fresh, <1>Carries, <1>Aging,
  <1>Sleeping, <1>Live, <1>P, <1>4
  DEF IInv, Base

(* fticket_pull copies the answer in.                                      *)
LEMMA PullStep ==
  ASSUME Orderly, IInv, TypeOK', InHand', NEW d \in Daemons, Pull(d)
  PROVE  IInv'
<1>1. TypeOK /\ ~panicked /\ Base /\ (dead \/ Live)
  BY DEF IInv
<1>2. Pcs /\ InHand /\ DeadIsClosed /\ Numbered /\ Disjoint /\ Fresh /\ Carries /\ Aging /\
     Sleeping
  BY <1>1 DEF Base
<1>T. /\ ticketer \in Nat /\ alltickets \subseteq Tickets /\ aw_head \subseteq Tickets
      /\ \A s \in Requesters : s \in Threads /\ s \notin Daemons
      /\ Requesters \subseteq Threads /\ Daemons \subseteq Threads
      /\ \A u \in Tickets : tk[u].unique \in Nat /\ tk[u].age \in Nat
      /\ \A s \in Requesters : mark[s] \in Nat
  BY TypeConsequences, <1>1
<1>3. d \in Threads /\ tick[d] \in Tickets /\ tk[tick[d]] \in Ticket
  BY <1>1, <1>2 DEF Pull, InHand, TypeOK
<1>4. /\ pc[d] = "pull"
      /\ \A s \in Threads : s # d => pc'[s] = pc[s]
      /\ \A u \in Tickets : u # tick[d] => tk'[u] = tk[u]
      /\ tk'[tick[d]].unique = tk[tick[d]].unique
      /\ tk'[tick[d]].age = tk[tick[d]].age
      /\ tk'[tick[d]].handler = tk[tick[d]].handler
      /\ tk'[tick[d]].ms = tk[tick[d]].ms
      /\ tk'[tick[d]].resp = tk[tick[d]].resp
      /\ tk'[tick[d]].errno = tk[tick[d]].errno
      /\ tk'[tick[d]].flag \in {tk[tick[d]].flag, tk[tick[d]].flag \cup {"KILLL"}}
      /\ pc'[d] \in {"answer", "answer_error"}
      /\ UNCHANGED <<dead, drain, closed, ticketer, alltickets, freetickets, ms_head, aw_head,
                     tick, req, mark, inbox, panicked>>
  BY <1>1, <1>3, FlagFacts
    DEF Pull, Orderly, TypeOK, Goto, Flags, session, pool, queues, work, locals, daemon
<1>L. ~dead /\ FreeOffQueues /\ RequesterTickets /\ WaitingTickets /\ UnreadTickets /\
     DaemonTickets /\ ReadMessages /\ Owed /\ Minded /\ NoneLost
  BY <1>1, <1>2, <1>4 DEF DeadIsClosed, Live
<1>Pcs. Pcs'
  BY <1>T, <1>2, <1>3, <1>4, <1>L DEF Pcs
<1>DeadIsClosed. DeadIsClosed'
  BY <1>T, <1>2, <1>3, <1>4, <1>L DEF DeadIsClosed, Pcs
<1>Numbered. Numbered'
  BY <1>T, <1>2, <1>3, <1>4, <1>L DEF Numbered, Disjoint
<1>Disjoint. Disjoint'
  BY <1>T, <1>2, <1>3, <1>4, <1>L DEF Disjoint, Pcs, InHand
<1>Fresh. Fresh'
  <2>1. ASSUME NEW s \in Requesters PROVE FreshTicket(s)'
    BY <1>T, <1>2, <1>3, <1>4, <1>L
      DEF Fresh, FreshTicket, InHand, Pcs, Disjoint, DaemonTickets, DaemonTicket,
        RequesterTickets, RequesterTicket
  <2>2. ASSUME NEW t \in Range(freetickets)' PROVE Unsent(t)' /\ ~Invalid(t)'
    <3>1. t \in Range(freetickets) /\ t \in Tickets /\ t # tick[d]
      BY <2>2, <1>2, <1>3, <1>T, <1>4 DEF Disjoint, InHand
    <3>. QED BY <3>1, <1>2, <1>4 DEF Fresh
  <2>. QED BY <2>1, <2>2 DEF Fresh
<1>Carries. Carries'
  BY <1>T, <1>2, <1>3, <1>4, <1>L DEF Carries, CarriesOwn, Disjoint, Pcs, Fresh, FreshTicket, InHand
<1>Aging. Aging'
  BY <1>T, <1>2, <1>3, <1>4, <1>L DEF Aging, Abandoned, Disjoint, Pcs, InHand
<1>Sleeping. Sleeping'
  BY <1>T, <1>2, <1>3, <1>4, <1>L DEF Sleeping, Asleep, Disjoint, Pcs, InHand
<1>Live. Live'
  <2>FreeOffQueues. FreeOffQueues'
    BY <1>T, <1>2, <1>3, <1>4, <1>L DEF FreeOffQueues, Disjoint, Pcs, InHand
  <2>RequesterTickets. RequesterTickets'
    BY <1>T, <1>2, <1>3, <1>4, <1>L
      DEF RequesterTickets, RequesterTicket, Disjoint, Pcs, Fresh, FreshTicket, InHand
  <2>WaitingTickets. WaitingTickets'
    BY <1>T, <1>2, <1>3, <1>4, <1>L DEF WaitingTickets, WaitingTicket, Disjoint, Pcs, InHand
  <2>UnreadTickets. UnreadTickets'
    BY <1>T, <1>2, <1>3, <1>4, <1>L DEF UnreadTickets, UnreadTicket, Disjoint, Pcs, InHand
  <2>DaemonTickets. DaemonTickets'
    BY <1>T, <1>2, <1>3, <1>4, <1>L DEF DaemonTickets, DaemonTicket, Disjoint, Pcs, InHand
  <2>ReadMessages. ReadMessages'
    BY <1>T, <1>2, <1>3, <1>4, <1>L DEF ReadMessages, Owes, Disjoint, Pcs
  <2>Owed. Owed'
    BY <1>T, <1>2, <1>3, <1>4, <1>L DEF Owed, OwedTicket, Disjoint, Pcs, InHand
  <2>Minded. Minded'
    BY <1>T, <1>2, <1>3, <1>4, <1>L DEF Minded, MindedTicket, Disjoint, Pcs, InHand
  <2>NoneLost. NoneLost'
    BY <1>T, <1>2, <1>3, <1>4, <1>L DEF NoneLost, Kept, Disjoint, Pcs, InHand
  <2>. QED BY <2>FreeOffQueues, <2>RequesterTickets, <2>WaitingTickets, <2>UnreadTickets,
    <2>DaemonTickets, <2>ReadMessages, <2>Owed, <2>Minded, <2>NoneLost
    DEF Live
<1>P. ~panicked'
  BY <1>1, <1>2, <1>3, <1>4 DEF Fresh, FreshTicket, Pcs
<1>. QED BY <1>Pcs, <1>DeadIsClosed, <1>Numbered, <1>Disjoint, <1>Fresh, <1>Carries, <1>Aging,
  <1>Sleeping, <1>Live, <1>P, <1>4
  DEF IInv, Base

(* The requester is gone: its ticket is dropped.                           *)
LEMMA AnswerDropsStep ==
  ASSUME Orderly, IInv, TypeOK', InHand', NEW d \in Daemons, Answer(d), Answered(tick[d])
  PROVE  IInv'
<1>1. TypeOK /\ ~panicked /\ Base /\ (dead \/ Live)
  BY DEF IInv
<1>2. Pcs /\ InHand /\ DeadIsClosed /\ Numbered /\ Disjoint /\ Fresh /\ Carries /\ Aging /\
     Sleeping
  BY <1>1 DEF Base
<1>T. /\ ticketer \in Nat /\ alltickets \subseteq Tickets /\ aw_head \subseteq Tickets
      /\ \A s \in Requesters : s \in Threads /\ s \notin Daemons
      /\ Requesters \subseteq Threads /\ Daemons \subseteq Threads
      /\ \A u \in Tickets : tk[u].unique \in Nat /\ tk[u].age \in Nat
      /\ \A s \in Requesters : mark[s] \in Nat
  BY TypeConsequences, <1>1
<1>3. d \in Threads /\ tick[d] \in Tickets /\ tk[tick[d]] \in Ticket
  BY <1>1, <1>2 DEF Answer, InHand, TypeOK
<1>4. /\ pc[d] \in {"answer", "answer_error"}
      /\ pc'[d] = "drop"
      /\ \A s \in Threads : s # d => pc'[s] = pc[s]
      /\ UNCHANGED <<dead, drain, closed, ticketer, alltickets, freetickets, ms_head, aw_head,
                     tk, tick, req, mark, inbox, panicked>>
  BY <1>1, <1>3
    DEF Answer, Orderly, TypeOK, Goto, RequesterGone, session, pool, queues, work, locals,
      daemon
<1>L. ~dead /\ FreeOffQueues /\ RequesterTickets /\ WaitingTickets /\ UnreadTickets /\
     DaemonTickets /\ ReadMessages /\ Owed /\ Minded /\ NoneLost
  BY <1>1, <1>2, <1>4 DEF DeadIsClosed, Live
<1>Pcs. Pcs'
  BY <1>T, <1>2, <1>3, <1>4, <1>L DEF Pcs
<1>DeadIsClosed. DeadIsClosed'
  BY <1>T, <1>2, <1>3, <1>4, <1>L DEF DeadIsClosed, Pcs
<1>Numbered. Numbered'
  BY <1>T, <1>2, <1>3, <1>4, <1>L DEF Numbered, Disjoint
<1>Disjoint. Disjoint'
  BY <1>T, <1>2, <1>3, <1>4, <1>L DEF Disjoint, Pcs, InHand
<1>Fresh. Fresh'
  BY <1>T, <1>2, <1>3, <1>4, <1>L DEF Fresh, FreshTicket, Disjoint, Pcs, InHand
<1>Carries. Carries'
  BY <1>T, <1>2, <1>3, <1>4, <1>L DEF Carries, CarriesOwn, Disjoint, Pcs, Fresh, FreshTicket, InHand
<1>Aging. Aging'
  BY <1>T, <1>2, <1>3, <1>4, <1>L DEF Aging, Abandoned, Disjoint, Pcs, InHand
<1>Sleeping. Sleeping'
  BY <1>T, <1>2, <1>3, <1>4, <1>L DEF Sleeping, Asleep, Disjoint, Pcs, InHand
<1>Live. Live'
  <2>FreeOffQueues. FreeOffQueues'
    BY <1>T, <1>2, <1>3, <1>4, <1>L DEF FreeOffQueues, Disjoint, Pcs, InHand
  <2>RequesterTickets. RequesterTickets'
    BY <1>T, <1>2, <1>3, <1>4, <1>L
      DEF RequesterTickets, RequesterTicket, Disjoint, Pcs, Fresh, FreshTicket, InHand
  <2>WaitingTickets. WaitingTickets'
    BY <1>T, <1>2, <1>3, <1>4, <1>L DEF WaitingTickets, WaitingTicket, Disjoint, Pcs, InHand
  <2>UnreadTickets. UnreadTickets'
    BY <1>T, <1>2, <1>3, <1>4, <1>L DEF UnreadTickets, UnreadTicket, Disjoint, Pcs, InHand
  <2>DaemonTickets. DaemonTickets'
    <3>1. ASSUME NEW e \in Daemons PROVE DaemonTicket(e)'
      <4>1. CASE e = d
        BY <4>1, <1>T, <1>2, <1>3, <1>4, <1>L
          DEF DaemonTickets, DaemonTicket, InHand, Pcs, DeadIsClosed, Numbered, Disjoint, Fresh,
            FreshTicket, Carries, CarriesOwn, Aging, Abandoned, Sleeping, Asleep, FreeOffQueues,
            RequesterTickets, RequesterTicket, WaitingTickets, WaitingTicket, UnreadTickets,
            UnreadTicket, ReadMessages, Owes, Owed, OwedTicket, Minded, MindedTicket, NoneLost,
            Kept
      <4>2. CASE e # d
        BY <4>2, <1>T, <1>2, <1>3, <1>4, <1>L
          DEF DaemonTickets, DaemonTicket, InHand, Pcs, DeadIsClosed, Numbered, Disjoint, Fresh,
            FreshTicket, Carries, CarriesOwn, Aging, Abandoned, Sleeping, Asleep, FreeOffQueues,
            RequesterTickets, RequesterTicket, WaitingTickets, WaitingTicket, UnreadTickets,
            UnreadTicket, ReadMessages, Owes, Owed, OwedTicket, Minded, MindedTicket, NoneLost,
            Kept
      <4>. QED BY <4>1, <4>2
    <3>. QED BY <3>1, <1>T, <1>2, <1>3, <1>4, <1>L
      DEF DaemonTickets, InHand, Pcs, DeadIsClosed, Numbered, Disjoint, Fresh, FreshTicket,
        Carries, CarriesOwn, Aging, Abandoned, Sleeping, Asleep, FreeOffQueues, RequesterTickets,
        RequesterTicket, WaitingTickets, WaitingTicket, UnreadTickets, UnreadTicket, ReadMessages,
        Owes, Owed, OwedTicket, Minded, MindedTicket, NoneLost, Kept
  <2>ReadMessages. ReadMessages'
    BY <1>T, <1>2, <1>3, <1>4, <1>L DEF ReadMessages, Owes, Disjoint, Pcs
  <2>Owed. Owed'
    BY <1>T, <1>2, <1>3, <1>4, <1>L DEF Owed, OwedTicket, Disjoint, Pcs, InHand
  <2>Minded. Minded'
    BY <1>T, <1>2, <1>3, <1>4, <1>L DEF Minded, MindedTicket, Disjoint, Pcs, InHand
  <2>NoneLost. NoneLost'
    BY <1>T, <1>2, <1>3, <1>4, <1>L DEF NoneLost, Kept, Disjoint, Pcs, InHand
  <2>. QED BY <2>FreeOffQueues, <2>RequesterTickets, <2>WaitingTickets, <2>UnreadTickets,
    <2>DaemonTickets, <2>ReadMessages, <2>Owed, <2>Minded, <2>NoneLost
    DEF Live
<1>P. ~panicked'
  BY <1>1, <1>2, <1>3, <1>4 DEF Fresh, FreshTicket, Pcs
<1>. QED BY <1>Pcs, <1>DeadIsClosed, <1>Numbered, <1>Disjoint, <1>Fresh, <1>Carries, <1>Aging,
  <1>Sleeping, <1>Live, <1>P, <1>4
  DEF IInv, Base

(* The requester is woken.                                                 *)
LEMMA AnswerWakesStep ==
  ASSUME Orderly, IInv, TypeOK', InHand', NEW d \in Daemons, Answer(d), ~Answered(tick[d])
  PROVE  IInv'
<1>1. TypeOK /\ ~panicked /\ Base /\ (dead \/ Live)
  BY DEF IInv
<1>2. Pcs /\ InHand /\ DeadIsClosed /\ Numbered /\ Disjoint /\ Fresh /\ Carries /\ Aging /\
     Sleeping
  BY <1>1 DEF Base
<1>T. /\ ticketer \in Nat /\ alltickets \subseteq Tickets /\ aw_head \subseteq Tickets
      /\ \A s \in Requesters : s \in Threads /\ s \notin Daemons
      /\ Requesters \subseteq Threads /\ Daemons \subseteq Threads
      /\ \A u \in Tickets : tk[u].unique \in Nat /\ tk[u].age \in Nat
      /\ \A s \in Requesters : mark[s] \in Nat
  BY TypeConsequences, <1>1
<1>3. d \in Threads /\ tick[d] \in Tickets /\ tk[tick[d]] \in Ticket
  BY <1>1, <1>2 DEF Answer, InHand, TypeOK
<1>4. /\ pc[d] \in {"answer", "answer_error"}
      /\ pc'[d] = "idle"
      /\ tick'[d] = NoTicket
      /\ \A s \in Threads : s # d => tick'[s] = tick[s]
      /\ \A u \in Tickets : u # tick[d] => tk'[u] = tk[u]
      /\ \A s \in Requesters : pc[s] = "sleep" /\ tick[s] = tick[d] => pc'[s] = "woken"
      /\ \A s \in Requesters : pc[s] # "sleep" \/ tick[s] # tick[d] => pc'[s] = pc[s]
      /\ \A e \in Daemons : e # d => pc'[e] = pc[e]
      /\ tk'[tick[d]].unique = tk[tick[d]].unique
      /\ tk'[tick[d]].age = tk[tick[d]].age
      /\ tk'[tick[d]].flag = tk[tick[d]].flag \cup {"ANSW"}
      /\ tk'[tick[d]].handler = tk[tick[d]].handler
      /\ tk'[tick[d]].ms = tk[tick[d]].ms
      /\ tk'[tick[d]].resp = tk[tick[d]].resp
      /\ pc[d] = "answer_error" => tk'[tick[d]].errno
      /\ UNCHANGED <<dead, drain, closed, ticketer, alltickets, freetickets, ms_head, aw_head,
                     req, mark, inbox, panicked>>
  <2>0. PICK err \in BOOLEAN : err = (pc[d] = "answer_error")
    OBVIOUS
  <2>1. /\ pc[d] \in {"answer", "answer_error"}
        /\ tk' = [tk EXCEPT ![tick[d]] = Settled(@, err)]
        /\ pc' = [th \in Threads |->
                    IF th \in Sleepers(tick[d]) THEN "woken"
                    ELSE IF th = d THEN "idle" ELSE pc[th]]
        /\ tick' = [tick EXCEPT ![d] = NoTicket]
        /\ req' = req
    BY <2>0 DEF Answer, RequesterGone
  <2>2. UNCHANGED <<dead, drain, closed, ticketer, alltickets, freetickets, ms_head, aw_head,
                    mark, inbox, panicked>>
    BY DEF Answer, session, pool, queues, locals, daemon
  <2>3. tk'[tick[d]] = Settled(tk[tick[d]], err) /\ \A u \in Tickets : u # tick[d] => tk'[u] = tk[u]
    BY <2>1, <1>1, <1>3 DEF TypeOK
  <2>4. tick'[d] = NoTicket /\ \A s \in Threads : s # d => tick'[s] = tick[s]
    BY <2>1, <1>1, <1>3 DEF TypeOK
  <2>5. \A s \in Requesters : s \in Sleepers(tick[d]) <=> pc[s] = "sleep" /\ tick[s] = tick[d]
    BY DEF Sleepers
  <2>6. \A e \in Daemons : e \notin Sleepers(tick[d])
    BY <1>T DEF Sleepers
  <2>7. /\ pc'[d] = "idle"
        /\ \A s \in Requesters : pc[s] = "sleep" /\ tick[s] = tick[d] => pc'[s] = "woken"
        /\ \A s \in Requesters : pc[s] # "sleep" \/ tick[s] # tick[d] => pc'[s] = pc[s]
        /\ \A e \in Daemons : e # d => pc'[e] = pc[e]
    <3>1. pc'[d] = "idle"
      <4>1. d \in Threads /\ d \notin Sleepers(tick[d])
        BY <2>6, <1>3
      <4>2. pc' = [th \in Threads |->
                    IF th \in Sleepers(tick[d]) THEN "woken"
                    ELSE IF th = d THEN "idle" ELSE pc[th]]
        BY <2>1
      <4>. QED BY <4>1, <4>2
    <3>2. ASSUME NEW s \in Requesters, pc[s] = "sleep", tick[s] = tick[d] PROVE pc'[s] = "woken"
      BY <3>2, <2>1, <2>5, <1>T
    <3>3. ASSUME NEW s \in Requesters, pc[s] # "sleep" \/ tick[s] # tick[d] PROVE pc'[s] = pc[s]
      BY <3>3, <2>1, <2>5, <1>T
    <3>4. ASSUME NEW e \in Daemons, e # d PROVE pc'[e] = pc[e]
      BY <3>4, <2>1, <2>6, <1>T
    <3>. QED BY <3>1, <3>2, <3>3, <3>4
  <2>8. /\ Settled(tk[tick[d]], err).flag = tk[tick[d]].flag \cup {"ANSW"}
        /\ Settled(tk[tick[d]], err).unique = tk[tick[d]].unique /\ Settled(tk[tick[d]], err).age = tk[tick[d]].age
        /\ Settled(tk[tick[d]], err).ms = tk[tick[d]].ms /\ Settled(tk[tick[d]], err).resp = tk[tick[d]].resp
        /\ Settled(tk[tick[d]], err).handler = tk[tick[d]].handler /\ Settled(tk[tick[d]], err).errno = err
    <3>. DEFINE k == tk[tick[d]]
    <3>1. k \in Ticket
      BY <1>3
    <3>. HIDE DEF k
    <3>2. /\ Settled(k, err).flag = k.flag \cup {"ANSW"}
          /\ Settled(k, err).unique = k.unique /\ Settled(k, err).age = k.age
          /\ Settled(k, err).ms = k.ms /\ Settled(k, err).resp = k.resp
          /\ Settled(k, err).handler = k.handler /\ Settled(k, err).errno = err
      BY <3>1, SettledFacts, ZenonT(20)
    <3>. QED BY <3>2 DEF k
  <2>. QED BY <2>0, <2>1, <2>2, <2>3, <2>4, <2>7, <2>8
<1>L. ~dead /\ FreeOffQueues /\ RequesterTickets /\ WaitingTickets /\ UnreadTickets /\
     DaemonTickets /\ ReadMessages /\ Owed /\ Minded /\ NoneLost
  BY <1>1, <1>2, <1>4 DEF DeadIsClosed, Live
<1>Pcs. Pcs'
  BY <1>T, <1>2, <1>3, <1>4, <1>L DEF Pcs
<1>DeadIsClosed. DeadIsClosed'
  BY <1>T, <1>2, <1>3, <1>4, <1>L DEF DeadIsClosed, Pcs
<1>Numbered. Numbered'
  BY <1>T, <1>2, <1>3, <1>4, <1>L DEF Numbered, Disjoint
<1>Disjoint. Disjoint'
  BY <1>T, <1>2, <1>3, <1>4, <1>L DEF Disjoint, Pcs, InHand
<1>Fresh. Fresh'
  <2>1. ASSUME NEW s \in Requesters PROVE FreshTicket(s)'
    BY <1>T, <1>2, <1>3, <1>4, <1>L
      DEF Fresh, FreshTicket, InHand, Pcs, Disjoint, DaemonTickets, DaemonTicket,
        RequesterTickets, RequesterTicket
  <2>2. ASSUME NEW t \in Range(freetickets)' PROVE Unsent(t)' /\ ~Invalid(t)'
    <3>1. t \in Range(freetickets) /\ t \in Tickets /\ t # tick[d]
      BY <2>2, <1>2, <1>3, <1>T, <1>4 DEF Disjoint, InHand
    <3>. QED BY <3>1, <1>2, <1>4 DEF Fresh
  <2>. QED BY <2>1, <2>2 DEF Fresh
<1>Carries. Carries'
  <2>1. ASSUME NEW s \in Requesters PROVE CarriesOwn(s)'
    <3>1. CASE s = d
      BY <3>1, <1>T, <1>2, <1>3, <1>4, <1>L
        DEF Carries, CarriesOwn, InHand, Pcs, DeadIsClosed, Numbered, Disjoint, Fresh,
          FreshTicket, Aging, Abandoned, Sleeping, Asleep, FreeOffQueues, RequesterTickets,
          RequesterTicket, WaitingTickets, WaitingTicket, UnreadTickets, UnreadTicket,
          DaemonTickets, DaemonTicket, ReadMessages, Owes, Owed, OwedTicket, Minded, MindedTicket,
          NoneLost, Kept
    <3>2. CASE s # d
      BY <3>2, <1>T, <1>2, <1>3, <1>4, <1>L
        DEF Carries, CarriesOwn, InHand, Pcs, DeadIsClosed, Numbered, Disjoint, Fresh,
          FreshTicket, Aging, Abandoned, Sleeping, Asleep, FreeOffQueues, RequesterTickets,
          RequesterTicket, WaitingTickets, WaitingTicket, UnreadTickets, UnreadTicket,
          DaemonTickets, DaemonTicket, ReadMessages, Owes, Owed, OwedTicket, Minded, MindedTicket,
          NoneLost, Kept
    <3>. QED BY <3>1, <3>2
  <2>. QED BY <2>1 DEF Carries
<1>Aging. Aging'
  BY <1>T, <1>2, <1>3, <1>4, <1>L DEF Aging, Abandoned, Disjoint, Pcs, InHand
<1>Sleeping. Sleeping'
  BY <1>T, <1>2, <1>3, <1>4, <1>L DEF Sleeping, Asleep, Disjoint, Pcs, InHand
<1>Live. Live'
  <2>FreeOffQueues. FreeOffQueues'
    BY <1>T, <1>2, <1>3, <1>4, <1>L DEF FreeOffQueues, Disjoint, Pcs, InHand
  <2>RequesterTickets. RequesterTickets'
    <3>1. ASSUME NEW s \in Requesters PROVE RequesterTicket(s)'
      <4>1. CASE s = d
        BY <4>1, <1>T, <1>2, <1>3, <1>4, <1>L
          DEF RequesterTickets, RequesterTicket, InHand, Pcs, DeadIsClosed, Numbered, Disjoint,
            Fresh, FreshTicket, Carries, CarriesOwn, Aging, Abandoned, Sleeping, Asleep,
            FreeOffQueues, WaitingTickets, WaitingTicket, UnreadTickets, UnreadTicket,
            DaemonTickets, DaemonTicket, ReadMessages, Owes, Owed, OwedTicket, Minded,
            MindedTicket, NoneLost, Kept
      <4>2. CASE s # d
        BY <4>2, <1>T, <1>2, <1>3, <1>4, <1>L
          DEF RequesterTickets, RequesterTicket, InHand, Pcs, DeadIsClosed, Numbered, Disjoint,
            Fresh, FreshTicket, Carries, CarriesOwn, Aging, Abandoned, Sleeping, Asleep,
            FreeOffQueues, WaitingTickets, WaitingTicket, UnreadTickets, UnreadTicket,
            DaemonTickets, DaemonTicket, ReadMessages, Owes, Owed, OwedTicket, Minded,
            MindedTicket, NoneLost, Kept
      <4>. QED BY <4>1, <4>2
    <3>. QED BY <3>1 DEF RequesterTickets
  <2>WaitingTickets. WaitingTickets'
    BY <1>T, <1>2, <1>3, <1>4, <1>L DEF WaitingTickets, WaitingTicket, Disjoint, Pcs, InHand
  <2>UnreadTickets. UnreadTickets'
    BY <1>T, <1>2, <1>3, <1>4, <1>L DEF UnreadTickets, UnreadTicket, Disjoint, Pcs, InHand
  <2>DaemonTickets. DaemonTickets'
    BY <1>T, <1>2, <1>3, <1>4, <1>L DEF DaemonTickets, DaemonTicket, Disjoint, Pcs, InHand
  <2>ReadMessages. ReadMessages'
    BY <1>T, <1>2, <1>3, <1>4, <1>L DEF ReadMessages, Owes, Disjoint, Pcs
  <2>Owed. Owed'
    BY <1>T, <1>2, <1>3, <1>4, <1>L DEF Owed, OwedTicket, Disjoint, Pcs, InHand
  <2>Minded. Minded'
    BY <1>T, <1>2, <1>3, <1>4, <1>L DEF Minded, MindedTicket, Disjoint, Pcs, InHand
  <2>NoneLost. NoneLost'
    <3>1. ASSUME NEW u \in alltickets' PROVE Kept(u)'
      <4>1. CASE u \in alltickets
        <5>1. Kept(u)
          BY <4>1, <1>L DEF NoneLost
        <5>. QED BY <4>1, <5>1, <1>T, <1>2, <1>3, <1>4, <1>L
          DEF Kept, InHand, Pcs, DeadIsClosed, Numbered, Disjoint, Fresh, FreshTicket, Carries,
            CarriesOwn, Aging, Abandoned, Sleeping, Asleep, FreeOffQueues, RequesterTickets,
            RequesterTicket, WaitingTickets, WaitingTicket, UnreadTickets, UnreadTicket,
            DaemonTickets, DaemonTicket, ReadMessages, Owes, Owed, OwedTicket, Minded,
            MindedTicket
      <4>2. CASE u \notin alltickets
        BY <4>2, <3>1, <1>T, <1>2, <1>3, <1>4, <1>L
          DEF Kept, InHand, Pcs, DeadIsClosed, Numbered, Disjoint, Fresh, FreshTicket, Carries,
            CarriesOwn, Aging, Abandoned, Sleeping, Asleep, FreeOffQueues, RequesterTickets,
            RequesterTicket, WaitingTickets, WaitingTicket, UnreadTickets, UnreadTicket,
            DaemonTickets, DaemonTicket, ReadMessages, Owes, Owed, OwedTicket, Minded,
            MindedTicket
      <4>. QED BY <4>1, <4>2
    <3>. QED BY <3>1 DEF NoneLost
  <2>. QED BY <2>FreeOffQueues, <2>RequesterTickets, <2>WaitingTickets, <2>UnreadTickets,
    <2>DaemonTickets, <2>ReadMessages, <2>Owed, <2>Minded, <2>NoneLost
    DEF Live
<1>P. ~panicked'
  BY <1>1, <1>2, <1>3, <1>4 DEF Fresh, FreshTicket, Pcs
<1>. QED BY <1>Pcs, <1>DeadIsClosed, <1>Numbered, <1>Disjoint, <1>Fresh, <1>Carries, <1>Aging,
  <1>Sleeping, <1>Live, <1>P, <1>4
  DEF IInv, Base

(* write(2) finds a ticket that waits, with the standard handler.          *)
LEMMA WriteFindPullsStep ==
  ASSUME Orderly, IInv, TypeOK', InHand', NEW d \in Daemons, NEW m \in inbox, WriteFind(d, m), pc'[d] = "pull"
  PROVE  IInv'
<1>1. TypeOK /\ ~panicked /\ Base /\ (dead \/ Live)
  BY DEF IInv
<1>2. Pcs /\ InHand /\ DeadIsClosed /\ Numbered /\ Disjoint /\ Fresh /\ Carries /\ Aging /\
     Sleeping
  BY <1>1 DEF Base
<1>T. /\ ticketer \in Nat /\ alltickets \subseteq Tickets /\ aw_head \subseteq Tickets
      /\ \A s \in Requesters : s \in Threads /\ s \notin Daemons
      /\ Requesters \subseteq Threads /\ Daemons \subseteq Threads
      /\ \A u \in Tickets : tk[u].unique \in Nat /\ tk[u].age \in Nat
      /\ \A s \in Requesters : mark[s] \in Nat
  BY TypeConsequences, <1>1
<1>4. PICK t \in Tickets :
      /\ pc[d] = "idle"
      /\ \A s \in Threads : s # d => pc'[s] = pc[s]
      /\ \A s \in Threads : s # d => tick'[s] = tick[s]
      /\ inbox' = inbox \ {m}
      /\ t \in aw_head
      /\ tk[t].unique = m.unique
      /\ aw_head' = aw_head \ {t}
      /\ tick'[d] = t
      /\ \A u \in Tickets : u # t => tk'[u] = tk[u]
      /\ tk'[t].unique = tk[t].unique
      /\ tk'[t].age = tk[t].age
      /\ tk'[t].flag = tk[t].flag
      /\ tk'[t].handler = tk[t].handler
      /\ tk'[t].ms = tk[t].ms
      /\ tk'[t].errno = tk[t].errno
      /\ tk[t].handler = "standard"
      /\ pc'[d] = "pull"
      /\ tk'[t].resp = m.req
      /\ UNCHANGED <<dead, drain, closed, ticketer, alltickets, freetickets, ms_head, req, mark,
                     panicked>>
  <2>1. PICK t \in aw_head :
          /\ Matches(t, m)
          /\ aw_head' = aw_head \ {t}
          /\ tick' = [tick EXCEPT ![d] = t]
          /\ IF tk[t].handler = "none" THEN UNCHANGED tk
             ELSE \E e \in BOOLEAN : tk' = [tk EXCEPT ![t] = WithReply(@, m.req, e)]
          /\ Goto(d, IF tk[t].handler = "standard" THEN "pull" ELSE "drop")
    BY DEF WriteFind
  <2>2. /\ pc'[d] = (IF tk[t].handler = "standard" THEN "pull" ELSE "drop")
        /\ \A s \in Threads : s # d => pc'[s] = pc[s]
        /\ tick'[d] = t
        /\ \A s \in Threads : s # d => tick'[s] = tick[s]
    BY <2>1, <1>1, <1>T DEF Goto, TypeOK
  <2>3. t \in Tickets
    BY <1>T
  <2>4. \A u \in Tickets : u # t => tk'[u] = tk[u]
    BY <2>1, <1>1 DEF TypeOK
  <2>5. /\ pc[d] = "idle" /\ inbox' = inbox \ {m}
        /\ UNCHANGED <<dead, drain, closed, ticketer, alltickets, freetickets, ms_head, req,
                       mark, panicked>>
    BY DEF WriteFind, session, pool, locals
  <2>6. tk[t].handler = "standard" /\ pc'[d] = "pull"
    BY <2>1, <2>2, <1>T
  <2>7. PICK e \in BOOLEAN : tk'[t] = WithReply(tk[t], m.req, e)
    BY <2>1, <2>6, <1>1 DEF TypeOK
  <2>8. m.req \in 0..MaxRequests /\ tk[t] \in Ticket
    BY <1>1 DEF TypeOK
  <2>9. /\ tk'[t].unique = tk[t].unique /\ tk'[t].age = tk[t].age /\ tk'[t].flag = tk[t].flag
        /\ tk'[t].handler = tk[t].handler /\ tk'[t].ms = tk[t].ms /\ tk'[t].errno = tk[t].errno
        /\ tk'[t].resp = m.req
    <3>1. /\ WithReply(tk[t], m.req, e).flag = tk[t].flag
          /\ WithReply(tk[t], m.req, e).unique = tk[t].unique /\ WithReply(tk[t], m.req, e).age = tk[t].age
          /\ WithReply(tk[t], m.req, e).ms = tk[t].ms /\ WithReply(tk[t], m.req, e).resp = m.req
          /\ WithReply(tk[t], m.req, e).handler = tk[t].handler /\ WithReply(tk[t], m.req, e).errno = tk[t].errno
      <4>. DEFINE k == tk[t]  q == m.req
      <4>1. k \in Ticket /\ q \in 0..MaxRequests
        BY <2>8
      <4>. HIDE DEF k, q
      <4>2. /\ WithReply(k, q, e).flag = k.flag /\ WithReply(k, q, e).unique = k.unique
            /\ WithReply(k, q, e).age = k.age /\ WithReply(k, q, e).ms = k.ms
            /\ WithReply(k, q, e).resp = q /\ WithReply(k, q, e).handler = k.handler
            /\ WithReply(k, q, e).errno = k.errno
        BY <4>1, ReplyFacts
      <4>. QED BY <4>2 DEF k, q
    <3>. QED BY <2>7, <3>1
  <2>10. t \in aw_head /\ tk[t].unique = m.unique /\ aw_head' = aw_head \ {t}
    BY <2>1 DEF Matches
  <2>. QED BY <2>2, <2>3, <2>4, <2>5, <2>6, <2>9, <2>10
<1>L. ~dead /\ FreeOffQueues /\ RequesterTickets /\ WaitingTickets /\ UnreadTickets /\
     DaemonTickets /\ ReadMessages /\ Owed /\ Minded /\ NoneLost
  BY <1>1, <1>2, <1>4 DEF DeadIsClosed, Live
<1>A. Owes(m, t) /\ t \in alltickets \ Range(freetickets)
  <2>1. PICK u \in aw_head : Owes(m, u)
    BY <1>L DEF ReadMessages
  <2>2. u = t
    BY <2>1, <1>2, <1>4, <1>L DEF Owes, Numbered, WaitingTickets, WaitingTicket
  <2>. QED BY <2>1, <2>2, <1>L DEF WaitingTickets, WaitingTicket, FreeOffQueues
<1>Pcs. Pcs'
  BY <1>T, <1>2, <1>4, <1>L, <1>A DEF Pcs
<1>DeadIsClosed. DeadIsClosed'
  BY <1>T, <1>2, <1>4, <1>L, <1>A DEF DeadIsClosed, Pcs
<1>Numbered. Numbered'
  BY <1>T, <1>2, <1>4, <1>L, <1>A DEF Numbered, Disjoint
<1>Disjoint. Disjoint'
  BY <1>T, <1>2, <1>4, <1>L, <1>A DEF Disjoint, Pcs, InHand
<1>Fresh. Fresh'
  BY <1>T, <1>2, <1>4, <1>L, <1>A DEF Fresh, FreshTicket, Disjoint, Pcs, InHand
<1>Carries. Carries'
  <2>1. ASSUME NEW s \in Requesters PROVE CarriesOwn(s)'
    <3>1. CASE s = d
      BY <3>1, <1>T, <1>2, <1>4, <1>L, <1>A
        DEF Carries, CarriesOwn, InHand, Pcs, DeadIsClosed, Numbered, Disjoint, Fresh,
          FreshTicket, Aging, Abandoned, Sleeping, Asleep, FreeOffQueues, RequesterTickets,
          RequesterTicket, WaitingTickets, WaitingTicket, UnreadTickets, UnreadTicket,
          DaemonTickets, DaemonTicket, ReadMessages, Owes, Owed, OwedTicket, Minded, MindedTicket,
          NoneLost, Kept
    <3>2. CASE s # d
      BY <3>2, <1>T, <1>2, <1>4, <1>L, <1>A
        DEF Carries, CarriesOwn, InHand, Pcs, DeadIsClosed, Numbered, Disjoint, Fresh,
          FreshTicket, Aging, Abandoned, Sleeping, Asleep, FreeOffQueues, RequesterTickets,
          RequesterTicket, WaitingTickets, WaitingTicket, UnreadTickets, UnreadTicket,
          DaemonTickets, DaemonTicket, ReadMessages, Owes, Owed, OwedTicket, Minded, MindedTicket,
          NoneLost, Kept
    <3>. QED BY <3>1, <3>2
  <2>. QED BY <2>1 DEF Carries
<1>Aging. Aging'
  BY <1>T, <1>2, <1>4, <1>L, <1>A DEF Aging, Abandoned, Disjoint, Pcs, InHand
<1>Sleeping. Sleeping'
  BY <1>T, <1>2, <1>4, <1>L, <1>A DEF Sleeping, Asleep, Disjoint, Pcs, InHand
<1>Live. Live'
  <2>FreeOffQueues. FreeOffQueues'
    BY <1>T, <1>2, <1>4, <1>L, <1>A DEF FreeOffQueues, Disjoint, Pcs, InHand
  <2>RequesterTickets. RequesterTickets'
    <3>1. ASSUME NEW s \in Requesters PROVE RequesterTicket(s)'
      <4>1. CASE s = d
        BY <4>1, <1>T, <1>2, <1>4, <1>L, <1>A
          DEF RequesterTickets, RequesterTicket, InHand, Pcs, DeadIsClosed, Numbered, Disjoint,
            Fresh, FreshTicket, Carries, CarriesOwn, Aging, Abandoned, Sleeping, Asleep,
            FreeOffQueues, WaitingTickets, WaitingTicket, UnreadTickets, UnreadTicket,
            DaemonTickets, DaemonTicket, ReadMessages, Owes, Owed, OwedTicket, Minded,
            MindedTicket, NoneLost, Kept
      <4>2. CASE s # d
        BY <4>2, <1>T, <1>2, <1>4, <1>L, <1>A
          DEF RequesterTickets, RequesterTicket, InHand, Pcs, DeadIsClosed, Numbered, Disjoint,
            Fresh, FreshTicket, Carries, CarriesOwn, Aging, Abandoned, Sleeping, Asleep,
            FreeOffQueues, WaitingTickets, WaitingTicket, UnreadTickets, UnreadTicket,
            DaemonTickets, DaemonTicket, ReadMessages, Owes, Owed, OwedTicket, Minded,
            MindedTicket, NoneLost, Kept
      <4>. QED BY <4>1, <4>2
    <3>. QED BY <3>1 DEF RequesterTickets
  <2>WaitingTickets. WaitingTickets'
    BY <1>T, <1>2, <1>4, <1>L, <1>A DEF WaitingTickets, WaitingTicket, Disjoint, Pcs, InHand
  <2>UnreadTickets. UnreadTickets'
    <3>1. ASSUME NEW u \in Range(ms_head') PROVE UnreadTicket(u)'
      BY <3>1, <1>T, <1>2, <1>4, <1>L, <1>A
        DEF UnreadTickets, UnreadTicket, InHand, Pcs, DeadIsClosed, Numbered, Disjoint, Fresh,
          FreshTicket, Carries, CarriesOwn, Aging, Abandoned, Sleeping, Asleep, FreeOffQueues,
          RequesterTickets, RequesterTicket, WaitingTickets, WaitingTicket, DaemonTickets,
          DaemonTicket, ReadMessages, Owes, Owed, OwedTicket, Minded, MindedTicket, NoneLost, Kept
    <3>. QED BY <3>1, <1>T, <1>2, <1>4, <1>L, <1>A
      DEF UnreadTickets, Disjoint, UnreadTicket, FreeOffQueues, RequesterTickets,
        RequesterTicket
  <2>DaemonTickets. DaemonTickets'
    <3>1. ASSUME NEW e \in Daemons PROVE DaemonTicket(e)'
      <4>1. CASE e = d
        BY <4>1, <1>T, <1>2, <1>4, <1>L, <1>A
          DEF DaemonTickets, DaemonTicket, InHand, Pcs, DeadIsClosed, Numbered, Disjoint, Fresh,
            FreshTicket, Carries, CarriesOwn, Aging, Abandoned, Sleeping, Asleep, FreeOffQueues,
            RequesterTickets, RequesterTicket, WaitingTickets, WaitingTicket, UnreadTickets,
            UnreadTicket, ReadMessages, Owes, Owed, OwedTicket, Minded, MindedTicket, NoneLost,
            Kept
      <4>2. CASE e # d
        BY <4>2, <1>T, <1>2, <1>4, <1>L, <1>A
          DEF DaemonTickets, DaemonTicket, InHand, Pcs, DeadIsClosed, Numbered, Disjoint, Fresh,
            FreshTicket, Carries, CarriesOwn, Aging, Abandoned, Sleeping, Asleep, FreeOffQueues,
            RequesterTickets, RequesterTicket, WaitingTickets, WaitingTicket, UnreadTickets,
            UnreadTicket, ReadMessages, Owes, Owed, OwedTicket, Minded, MindedTicket, NoneLost,
            Kept
      <4>. QED BY <4>1, <4>2
    <3>. QED BY <3>1, <1>T, <1>2, <1>4, <1>L, <1>A
      DEF DaemonTickets, InHand, Pcs, DeadIsClosed, Numbered, Disjoint, Fresh, FreshTicket,
        Carries, CarriesOwn, Aging, Abandoned, Sleeping, Asleep, FreeOffQueues, RequesterTickets,
        RequesterTicket, WaitingTickets, WaitingTicket, UnreadTickets, UnreadTicket, ReadMessages,
        Owes, Owed, OwedTicket, Minded, MindedTicket, NoneLost, Kept
  <2>ReadMessages. ReadMessages'
    <3>1. ASSUME NEW q \in inbox' PROVE \E u \in aw_head' : Owes(q, u)'
      <4>1. PICK u \in aw_head : Owes(q, u)
        BY <1>4, <1>L DEF ReadMessages
      <4>2. u # t
        <5>1. SUFFICES ASSUME u = t PROVE FALSE
          OBVIOUS
        <5>2. q.unique = m.unique /\ q.req = m.req
          BY <5>1, <4>1, <1>A DEF Owes
        <5>3. /\ q \in [unique : Nat, req : 0..MaxRequests]
              /\ m \in [unique : Nat, req : 0..MaxRequests]
          BY <1>1, <1>4 DEF TypeOK
        <5>4. q = m
          BY <5>2, <5>3
        <5>. QED BY <5>4, <1>4
      <4>3. tk'[u] = tk[u] /\ u \in aw_head'
        BY <4>1, <4>2, <1>T, <1>4
      <4>4. Owes(q, u)'
        BY <4>1, <4>2, <4>3, <1>T, <1>4 DEF Owes
      <4>. QED BY <4>3, <4>4
    <3>. QED BY <3>1 DEF ReadMessages
  <2>Owed. Owed'
    BY <1>T, <1>2, <1>4, <1>L, <1>A DEF Owed, OwedTicket, Disjoint, Pcs, InHand
  <2>Minded. Minded'
    BY <1>T, <1>2, <1>4, <1>L, <1>A DEF Minded, MindedTicket, Disjoint, Pcs, InHand
  <2>NoneLost. NoneLost'
    BY <1>T, <1>2, <1>4, <1>L, <1>A DEF NoneLost, Kept, Disjoint, Pcs, InHand
  <2>. QED BY <2>FreeOffQueues, <2>RequesterTickets, <2>WaitingTickets, <2>UnreadTickets,
    <2>DaemonTickets, <2>ReadMessages, <2>Owed, <2>Minded, <2>NoneLost
    DEF Live
<1>P. ~panicked'
  BY <1>1, <1>2, <1>4 DEF Fresh, FreshTicket, Pcs
<1>. QED BY <1>Pcs, <1>DeadIsClosed, <1>Numbered, <1>Disjoint, <1>Fresh, <1>Carries, <1>Aging,
  <1>Sleeping, <1>Live, <1>P, <1>4
  DEF IInv, Base

(* write(2) finds a ticket that waits, with another or none.               *)
LEMMA WriteFindDropsStep ==
  ASSUME Orderly, IInv, TypeOK', InHand', NEW d \in Daemons, NEW m \in inbox, WriteFind(d, m), pc'[d] # "pull"
  PROVE  IInv'
<1>1. TypeOK /\ ~panicked /\ Base /\ (dead \/ Live)
  BY DEF IInv
<1>2. Pcs /\ InHand /\ DeadIsClosed /\ Numbered /\ Disjoint /\ Fresh /\ Carries /\ Aging /\
     Sleeping
  BY <1>1 DEF Base
<1>T. /\ ticketer \in Nat /\ alltickets \subseteq Tickets /\ aw_head \subseteq Tickets
      /\ \A s \in Requesters : s \in Threads /\ s \notin Daemons
      /\ Requesters \subseteq Threads /\ Daemons \subseteq Threads
      /\ \A u \in Tickets : tk[u].unique \in Nat /\ tk[u].age \in Nat
      /\ \A s \in Requesters : mark[s] \in Nat
  BY TypeConsequences, <1>1
<1>4. PICK t \in Tickets :
      /\ pc[d] = "idle"
      /\ \A s \in Threads : s # d => pc'[s] = pc[s]
      /\ \A s \in Threads : s # d => tick'[s] = tick[s]
      /\ inbox' = inbox \ {m}
      /\ t \in aw_head
      /\ tk[t].unique = m.unique
      /\ aw_head' = aw_head \ {t}
      /\ tick'[d] = t
      /\ \A u \in Tickets : u # t => tk'[u] = tk[u]
      /\ tk'[t].unique = tk[t].unique
      /\ tk'[t].age = tk[t].age
      /\ tk'[t].flag = tk[t].flag
      /\ tk'[t].handler = tk[t].handler
      /\ tk'[t].ms = tk[t].ms
      /\ tk'[t].errno = tk[t].errno
      /\ tk[t].handler # "standard"
      /\ pc'[d] = "drop"
      /\ UNCHANGED <<dead, drain, closed, ticketer, alltickets, freetickets, ms_head, req, mark,
                     panicked>>
  <2>1. PICK t \in aw_head :
          /\ Matches(t, m)
          /\ aw_head' = aw_head \ {t}
          /\ tick' = [tick EXCEPT ![d] = t]
          /\ IF tk[t].handler = "none" THEN UNCHANGED tk
             ELSE \E e \in BOOLEAN : tk' = [tk EXCEPT ![t] = WithReply(@, m.req, e)]
          /\ Goto(d, IF tk[t].handler = "standard" THEN "pull" ELSE "drop")
    BY DEF WriteFind
  <2>2. /\ pc'[d] = (IF tk[t].handler = "standard" THEN "pull" ELSE "drop")
        /\ \A s \in Threads : s # d => pc'[s] = pc[s]
        /\ tick'[d] = t
        /\ \A s \in Threads : s # d => tick'[s] = tick[s]
    BY <2>1, <1>1, <1>T DEF Goto, TypeOK
  <2>3. t \in Tickets
    BY <1>T
  <2>4. \A u \in Tickets : u # t => tk'[u] = tk[u]
    BY <2>1, <1>1 DEF TypeOK
  <2>5. /\ pc[d] = "idle" /\ inbox' = inbox \ {m}
        /\ UNCHANGED <<dead, drain, closed, ticketer, alltickets, freetickets, ms_head, req,
                       mark, panicked>>
    BY DEF WriteFind, session, pool, locals
  <2>6. tk[t].handler # "standard" /\ pc'[d] = "drop"
    BY <2>1, <2>2, <1>T
  <2>8. m.req \in 0..MaxRequests /\ tk[t] \in Ticket
    BY <1>1 DEF TypeOK
  <2>9. /\ tk'[t].unique = tk[t].unique /\ tk'[t].age = tk[t].age /\ tk'[t].flag = tk[t].flag
        /\ tk'[t].handler = tk[t].handler /\ tk'[t].ms = tk[t].ms /\ tk'[t].errno = tk[t].errno
    <3>1. CASE tk' = tk
      BY <3>1
    <3>2. CASE tk' # tk
      <4>1. PICK e \in BOOLEAN : tk'[t] = WithReply(tk[t], m.req, e)
        <5>1. PICK e \in BOOLEAN : tk' = [tk EXCEPT ![t] = WithReply(@, m.req, e)]
          BY <2>1, <3>2
        <5>. QED BY <5>1, <2>3, <1>1 DEF TypeOK
      <4>2. /\ WithReply(tk[t], m.req, e).flag = tk[t].flag
            /\ WithReply(tk[t], m.req, e).unique = tk[t].unique /\ WithReply(tk[t], m.req, e).age = tk[t].age
            /\ WithReply(tk[t], m.req, e).ms = tk[t].ms /\ WithReply(tk[t], m.req, e).resp = m.req
            /\ WithReply(tk[t], m.req, e).handler = tk[t].handler /\ WithReply(tk[t], m.req, e).errno = tk[t].errno
        <5>. DEFINE k == tk[t]  q == m.req
        <5>1. k \in Ticket /\ q \in 0..MaxRequests
          BY <2>8
        <5>. HIDE DEF k, q
        <5>2. /\ WithReply(k, q, e).flag = k.flag /\ WithReply(k, q, e).unique = k.unique
              /\ WithReply(k, q, e).age = k.age /\ WithReply(k, q, e).ms = k.ms
              /\ WithReply(k, q, e).resp = q /\ WithReply(k, q, e).handler = k.handler
              /\ WithReply(k, q, e).errno = k.errno
          BY <5>1, ReplyFacts
        <5>. QED BY <5>2 DEF k, q
      <4>. QED BY <4>1, <4>2
    <3>. QED BY <3>1, <3>2
  <2>10. t \in aw_head /\ tk[t].unique = m.unique /\ aw_head' = aw_head \ {t}
    BY <2>1 DEF Matches
  <2>. QED BY <2>2, <2>3, <2>4, <2>5, <2>6, <2>9, <2>10
<1>L. ~dead /\ FreeOffQueues /\ RequesterTickets /\ WaitingTickets /\ UnreadTickets /\
     DaemonTickets /\ ReadMessages /\ Owed /\ Minded /\ NoneLost
  BY <1>1, <1>2, <1>4 DEF DeadIsClosed, Live
<1>A. Owes(m, t) /\ t \in alltickets \ Range(freetickets)
  <2>1. PICK u \in aw_head : Owes(m, u)
    BY <1>L DEF ReadMessages
  <2>2. u = t
    BY <2>1, <1>2, <1>4, <1>L DEF Owes, Numbered, WaitingTickets, WaitingTicket
  <2>. QED BY <2>1, <2>2, <1>L DEF WaitingTickets, WaitingTicket, FreeOffQueues
<1>Pcs. Pcs'
  BY <1>T, <1>2, <1>4, <1>L, <1>A DEF Pcs
<1>DeadIsClosed. DeadIsClosed'
  BY <1>T, <1>2, <1>4, <1>L, <1>A DEF DeadIsClosed, Pcs
<1>Numbered. Numbered'
  BY <1>T, <1>2, <1>4, <1>L, <1>A DEF Numbered, Disjoint
<1>Disjoint. Disjoint'
  BY <1>T, <1>2, <1>4, <1>L, <1>A DEF Disjoint, Pcs, InHand
<1>Fresh. Fresh'
  BY <1>T, <1>2, <1>4, <1>L, <1>A DEF Fresh, FreshTicket, Disjoint, Pcs, InHand
<1>Carries. Carries'
  <2>1. ASSUME NEW s \in Requesters PROVE CarriesOwn(s)'
    <3>1. CASE s = d
      BY <3>1, <1>T, <1>2, <1>4, <1>L, <1>A
        DEF Carries, CarriesOwn, InHand, Pcs, DeadIsClosed, Numbered, Disjoint, Fresh,
          FreshTicket, Aging, Abandoned, Sleeping, Asleep, FreeOffQueues, RequesterTickets,
          RequesterTicket, WaitingTickets, WaitingTicket, UnreadTickets, UnreadTicket,
          DaemonTickets, DaemonTicket, ReadMessages, Owes, Owed, OwedTicket, Minded, MindedTicket,
          NoneLost, Kept
    <3>2. CASE s # d
      BY <3>2, <1>T, <1>2, <1>4, <1>L, <1>A
        DEF Carries, CarriesOwn, InHand, Pcs, DeadIsClosed, Numbered, Disjoint, Fresh,
          FreshTicket, Aging, Abandoned, Sleeping, Asleep, FreeOffQueues, RequesterTickets,
          RequesterTicket, WaitingTickets, WaitingTicket, UnreadTickets, UnreadTicket,
          DaemonTickets, DaemonTicket, ReadMessages, Owes, Owed, OwedTicket, Minded, MindedTicket,
          NoneLost, Kept
    <3>. QED BY <3>1, <3>2
  <2>. QED BY <2>1 DEF Carries
<1>Aging. Aging'
  BY <1>T, <1>2, <1>4, <1>L, <1>A DEF Aging, Abandoned, Disjoint, Pcs, InHand
<1>Sleeping. Sleeping'
  BY <1>T, <1>2, <1>4, <1>L, <1>A DEF Sleeping, Asleep, Disjoint, Pcs, InHand
<1>Live. Live'
  <2>FreeOffQueues. FreeOffQueues'
    BY <1>T, <1>2, <1>4, <1>L, <1>A DEF FreeOffQueues, Disjoint, Pcs, InHand
  <2>RequesterTickets. RequesterTickets'
    <3>1. ASSUME NEW s \in Requesters PROVE RequesterTicket(s)'
      <4>1. CASE s = d
        BY <4>1, <1>T, <1>2, <1>4, <1>L, <1>A
          DEF RequesterTickets, RequesterTicket, InHand, Pcs, DeadIsClosed, Numbered, Disjoint,
            Fresh, FreshTicket, Carries, CarriesOwn, Aging, Abandoned, Sleeping, Asleep,
            FreeOffQueues, WaitingTickets, WaitingTicket, UnreadTickets, UnreadTicket,
            DaemonTickets, DaemonTicket, ReadMessages, Owes, Owed, OwedTicket, Minded,
            MindedTicket, NoneLost, Kept
      <4>2. CASE s # d
        BY <4>2, <1>T, <1>2, <1>4, <1>L, <1>A
          DEF RequesterTickets, RequesterTicket, InHand, Pcs, DeadIsClosed, Numbered, Disjoint,
            Fresh, FreshTicket, Carries, CarriesOwn, Aging, Abandoned, Sleeping, Asleep,
            FreeOffQueues, WaitingTickets, WaitingTicket, UnreadTickets, UnreadTicket,
            DaemonTickets, DaemonTicket, ReadMessages, Owes, Owed, OwedTicket, Minded,
            MindedTicket, NoneLost, Kept
      <4>. QED BY <4>1, <4>2
    <3>. QED BY <3>1 DEF RequesterTickets
  <2>WaitingTickets. WaitingTickets'
    BY <1>T, <1>2, <1>4, <1>L, <1>A DEF WaitingTickets, WaitingTicket, Disjoint, Pcs, InHand
  <2>UnreadTickets. UnreadTickets'
    <3>1. ASSUME NEW u \in Range(ms_head') PROVE UnreadTicket(u)'
      BY <3>1, <1>T, <1>2, <1>4, <1>L, <1>A
        DEF UnreadTickets, UnreadTicket, InHand, Pcs, DeadIsClosed, Numbered, Disjoint, Fresh,
          FreshTicket, Carries, CarriesOwn, Aging, Abandoned, Sleeping, Asleep, FreeOffQueues,
          RequesterTickets, RequesterTicket, WaitingTickets, WaitingTicket, DaemonTickets,
          DaemonTicket, ReadMessages, Owes, Owed, OwedTicket, Minded, MindedTicket, NoneLost, Kept
    <3>. QED BY <3>1, <1>T, <1>2, <1>4, <1>L, <1>A
      DEF UnreadTickets, Disjoint, UnreadTicket, FreeOffQueues, RequesterTickets,
        RequesterTicket
  <2>DaemonTickets. DaemonTickets'
    <3>1. ASSUME NEW e \in Daemons PROVE DaemonTicket(e)'
      <4>1. CASE e = d
        BY <4>1, <1>T, <1>2, <1>4, <1>L, <1>A
          DEF DaemonTickets, DaemonTicket, InHand, Pcs, DeadIsClosed, Numbered, Disjoint, Fresh,
            FreshTicket, Carries, CarriesOwn, Aging, Abandoned, Sleeping, Asleep, FreeOffQueues,
            RequesterTickets, RequesterTicket, WaitingTickets, WaitingTicket, UnreadTickets,
            UnreadTicket, ReadMessages, Owes, Owed, OwedTicket, Minded, MindedTicket, NoneLost,
            Kept
      <4>2. CASE e # d
        BY <4>2, <1>T, <1>2, <1>4, <1>L, <1>A
          DEF DaemonTickets, DaemonTicket, InHand, Pcs, DeadIsClosed, Numbered, Disjoint, Fresh,
            FreshTicket, Carries, CarriesOwn, Aging, Abandoned, Sleeping, Asleep, FreeOffQueues,
            RequesterTickets, RequesterTicket, WaitingTickets, WaitingTicket, UnreadTickets,
            UnreadTicket, ReadMessages, Owes, Owed, OwedTicket, Minded, MindedTicket, NoneLost,
            Kept
      <4>. QED BY <4>1, <4>2
    <3>. QED BY <3>1, <1>T, <1>2, <1>4, <1>L, <1>A
      DEF DaemonTickets, InHand, Pcs, DeadIsClosed, Numbered, Disjoint, Fresh, FreshTicket,
        Carries, CarriesOwn, Aging, Abandoned, Sleeping, Asleep, FreeOffQueues, RequesterTickets,
        RequesterTicket, WaitingTickets, WaitingTicket, UnreadTickets, UnreadTicket, ReadMessages,
        Owes, Owed, OwedTicket, Minded, MindedTicket, NoneLost, Kept
  <2>ReadMessages. ReadMessages'
    <3>1. ASSUME NEW q \in inbox' PROVE \E u \in aw_head' : Owes(q, u)'
      <4>1. PICK u \in aw_head : Owes(q, u)
        BY <1>4, <1>L DEF ReadMessages
      <4>2. u # t
        <5>1. SUFFICES ASSUME u = t PROVE FALSE
          OBVIOUS
        <5>2. q.unique = m.unique /\ q.req = m.req
          BY <5>1, <4>1, <1>A DEF Owes
        <5>3. /\ q \in [unique : Nat, req : 0..MaxRequests]
              /\ m \in [unique : Nat, req : 0..MaxRequests]
          BY <1>1, <1>4 DEF TypeOK
        <5>4. q = m
          BY <5>2, <5>3
        <5>. QED BY <5>4, <1>4
      <4>3. tk'[u] = tk[u] /\ u \in aw_head'
        BY <4>1, <4>2, <1>T, <1>4
      <4>4. Owes(q, u)'
        BY <4>1, <4>2, <4>3, <1>T, <1>4 DEF Owes
      <4>. QED BY <4>3, <4>4
    <3>. QED BY <3>1 DEF ReadMessages
  <2>Owed. Owed'
    BY <1>T, <1>2, <1>4, <1>L, <1>A DEF Owed, OwedTicket, Disjoint, Pcs, InHand
  <2>Minded. Minded'
    BY <1>T, <1>2, <1>4, <1>L, <1>A DEF Minded, MindedTicket, Disjoint, Pcs, InHand
  <2>NoneLost. NoneLost'
    BY <1>T, <1>2, <1>4, <1>L, <1>A DEF NoneLost, Kept, Disjoint, Pcs, InHand
  <2>. QED BY <2>FreeOffQueues, <2>RequesterTickets, <2>WaitingTickets, <2>UnreadTickets,
    <2>DaemonTickets, <2>ReadMessages, <2>Owed, <2>Minded, <2>NoneLost
    DEF Live
<1>P. ~panicked'
  BY <1>1, <1>2, <1>4 DEF Fresh, FreshTicket, Pcs
<1>. QED BY <1>Pcs, <1>DeadIsClosed, <1>Numbered, <1>Disjoint, <1>Fresh, <1>Carries, <1>Aging,
  <1>Sleeping, <1>Live, <1>P, <1>4
  DEF IInv, Base

(* write(2) finds no ticket.                                               *)
LEMMA WriteIgnoredStep ==
  ASSUME Orderly, IInv, TypeOK', InHand', NEW d \in Daemons, NEW m \in inbox, WriteIgnored(d, m)
  PROVE  IInv'
<1>1. TypeOK /\ ~panicked /\ Base /\ (dead \/ Live)
  BY DEF IInv
<1>2. Pcs /\ InHand /\ DeadIsClosed /\ Numbered /\ Disjoint /\ Fresh /\ Carries /\ Aging /\
     Sleeping
  BY <1>1 DEF Base
<1>T. /\ ticketer \in Nat /\ alltickets \subseteq Tickets /\ aw_head \subseteq Tickets
      /\ \A s \in Requesters : s \in Threads /\ s \notin Daemons
      /\ Requesters \subseteq Threads /\ Daemons \subseteq Threads
      /\ \A u \in Tickets : tk[u].unique \in Nat /\ tk[u].age \in Nat
      /\ \A s \in Requesters : mark[s] \in Nat
  BY TypeConsequences, <1>1
<1>4. /\ inbox' = inbox \ {m}
      /\ UNCHANGED <<dead, drain, closed, ticketer, alltickets, freetickets, ms_head, aw_head,
                     tk, pc, tick, req, mark, panicked>>
  BY <1>1 DEF WriteIgnored, Orderly, TypeOK, Goto, session, pool, queues, work, locals, daemon
<1>L. ~dead /\ FreeOffQueues /\ RequesterTickets /\ WaitingTickets /\ UnreadTickets /\
     DaemonTickets /\ ReadMessages /\ Owed /\ Minded /\ NoneLost
  BY <1>1, <1>2, <1>4 DEF DeadIsClosed, Live
<1>Pcs. Pcs'
  BY <1>T, <1>2, <1>4, <1>L DEF Pcs
<1>DeadIsClosed. DeadIsClosed'
  BY <1>T, <1>2, <1>4, <1>L DEF DeadIsClosed, Pcs
<1>Numbered. Numbered'
  BY <1>T, <1>2, <1>4, <1>L DEF Numbered, Disjoint
<1>Disjoint. Disjoint'
  BY <1>T, <1>2, <1>4, <1>L DEF Disjoint, Pcs, InHand
<1>Fresh. Fresh'
  BY <1>T, <1>2, <1>4, <1>L DEF Fresh, FreshTicket, Disjoint, Pcs, InHand
<1>Carries. Carries'
  BY <1>T, <1>2, <1>4, <1>L DEF Carries, CarriesOwn, Disjoint, Pcs, Fresh, FreshTicket, InHand
<1>Aging. Aging'
  BY <1>T, <1>2, <1>4, <1>L DEF Aging, Abandoned, Disjoint, Pcs, InHand
<1>Sleeping. Sleeping'
  BY <1>T, <1>2, <1>4, <1>L DEF Sleeping, Asleep, Disjoint, Pcs, InHand
<1>Live. Live'
  <2>FreeOffQueues. FreeOffQueues'
    BY <1>T, <1>2, <1>4, <1>L DEF FreeOffQueues, Disjoint, Pcs, InHand
  <2>RequesterTickets. RequesterTickets'
    BY <1>T, <1>2, <1>4, <1>L
      DEF RequesterTickets, RequesterTicket, Disjoint, Pcs, Fresh, FreshTicket, InHand
  <2>WaitingTickets. WaitingTickets'
    BY <1>T, <1>2, <1>4, <1>L DEF WaitingTickets, WaitingTicket, Disjoint, Pcs, InHand
  <2>UnreadTickets. UnreadTickets'
    BY <1>T, <1>2, <1>4, <1>L DEF UnreadTickets, UnreadTicket, Disjoint, Pcs, InHand
  <2>DaemonTickets. DaemonTickets'
    BY <1>T, <1>2, <1>4, <1>L DEF DaemonTickets, DaemonTicket, Disjoint, Pcs, InHand
  <2>ReadMessages. ReadMessages'
    BY <1>T, <1>2, <1>4, <1>L DEF ReadMessages, Owes, Disjoint, Pcs
  <2>Owed. Owed'
    BY <1>T, <1>2, <1>4, <1>L DEF Owed, OwedTicket, Disjoint, Pcs, InHand
  <2>Minded. Minded'
    BY <1>T, <1>2, <1>4, <1>L DEF Minded, MindedTicket, Disjoint, Pcs, InHand
  <2>NoneLost. NoneLost'
    BY <1>T, <1>2, <1>4, <1>L DEF NoneLost, Kept, Disjoint, Pcs, InHand
  <2>. QED BY <2>FreeOffQueues, <2>RequesterTickets, <2>WaitingTickets, <2>UnreadTickets,
    <2>DaemonTickets, <2>ReadMessages, <2>Owed, <2>Minded, <2>NoneLost
    DEF Live
<1>P. ~panicked'
  BY <1>1, <1>2, <1>4 DEF Fresh, FreshTicket, Pcs
<1>. QED BY <1>Pcs, <1>DeadIsClosed, <1>Numbered, <1>Disjoint, <1>Fresh, <1>Carries, <1>Aging,
  <1>Sleeping, <1>Live, <1>P, <1>4
  DEF IInv, Base

(* The device is closed.                                                   *)
LEMMA CloseStep ==
  ASSUME Orderly, IInv, TypeOK', InHand', Close
  PROVE  IInv'
<1>1. TypeOK /\ ~panicked /\ Base /\ (dead \/ Live)
  BY DEF IInv
<1>2. Pcs /\ InHand /\ DeadIsClosed /\ Numbered /\ Disjoint /\ Fresh /\ Carries /\ Aging /\
     Sleeping
  BY <1>1 DEF Base
<1>T. /\ ticketer \in Nat /\ alltickets \subseteq Tickets /\ aw_head \subseteq Tickets
      /\ \A s \in Requesters : s \in Threads /\ s \notin Daemons
      /\ Requesters \subseteq Threads /\ Daemons \subseteq Threads
      /\ \A u \in Tickets : tk[u].unique \in Nat /\ tk[u].age \in Nat
      /\ \A s \in Requesters : mark[s] \in Nat
  BY TypeConsequences, <1>1
<1>4. /\ dead' = TRUE /\ closed' = TRUE /\ inbox' = {}
      /\ \A d \in Daemons : pc[d] = "idle"
      /\ UNCHANGED <<ticketer, alltickets, freetickets, ms_head, aw_head, tk, pc, tick, req,
                     mark, panicked>>
  BY <1>1 DEF Close, Orderly, TypeOK, Goto, session, pool, queues, work, locals, daemon
<1>Pcs. Pcs'
  BY <1>T, <1>2, <1>4 DEF Pcs
<1>DeadIsClosed. DeadIsClosed'
  BY <1>T, <1>2, <1>4 DEF DeadIsClosed, Pcs
<1>Numbered. Numbered'
  BY <1>T, <1>2, <1>4 DEF Numbered, Disjoint
<1>Disjoint. Disjoint'
  BY <1>T, <1>2, <1>4 DEF Disjoint, Pcs, InHand
<1>Fresh. Fresh'
  BY <1>T, <1>2, <1>4 DEF Fresh, FreshTicket, Disjoint, Pcs, InHand
<1>Carries. Carries'
  BY <1>T, <1>2, <1>4 DEF Carries, CarriesOwn, Disjoint, Pcs, Fresh, FreshTicket, InHand
<1>Aging. Aging'
  BY <1>T, <1>2, <1>4 DEF Aging, Abandoned, Disjoint, Pcs, InHand
<1>Sleeping. Sleeping'
  BY <1>T, <1>2, <1>4 DEF Sleeping, Asleep, Disjoint, Pcs, InHand
<1>Live. dead' \/ Live'
  BY <1>4
<1>P. ~panicked'
  BY <1>1, <1>2, <1>4 DEF Fresh, FreshTicket, Pcs
<1>. QED BY <1>Pcs, <1>DeadIsClosed, <1>Numbered, <1>Disjoint, <1>Fresh, <1>Carries, <1>Aging,
  <1>Sleeping, <1>Live, <1>P, <1>4
  DEF IInv, Base

(* The closing thread empties the answer queue.                            *)
LEMMA DrainStep ==
  ASSUME Orderly, IInv, TypeOK', InHand', Drain
  PROVE  IInv'
<1>1. TypeOK /\ ~panicked /\ Base /\ (dead \/ Live)
  BY DEF IInv
<1>2. Pcs /\ InHand /\ DeadIsClosed /\ Numbered /\ Disjoint /\ Fresh /\ Carries /\ Aging /\
     Sleeping
  BY <1>1 DEF Base
<1>T. /\ ticketer \in Nat /\ alltickets \subseteq Tickets /\ aw_head \subseteq Tickets
      /\ \A s \in Requesters : s \in Threads /\ s \notin Daemons
      /\ Requesters \subseteq Threads /\ Daemons \subseteq Threads
      /\ \A u \in Tickets : tk[u].unique \in Nat /\ tk[u].age \in Nat
      /\ \A s \in Requesters : mark[s] \in Nat
  BY TypeConsequences, <1>1
<1>4. /\ \A th \in Threads : pc'[th] = pc[th] \/ (th \in Requesters /\ pc[th] = "sleep" /\ pc'[th] = "woken")
      /\ \A t \in Tickets :
           /\ tk'[t].unique = tk[t].unique
           /\ tk'[t].age = tk[t].age
           /\ tk'[t].handler = tk[t].handler
           /\ tk'[t].ms = tk[t].ms
           /\ tk'[t].resp = tk[t].resp
           /\ (tk'[t] = tk[t] \/ (tk'[t].flag = tk[t].flag \cup {"ANSW"} /\ tk'[t].errno))
      /\ \A t \in Tickets : t \notin aw_head => tk'[t] = tk[t]
      /\ \A r \in Requesters : tick[r] \in aw_head => pc'[r] # "sleep"
      /\ dead
      /\ drain' = "none"
      /\ aw_head' = {}
      /\ UNCHANGED <<dead, closed, ticketer, alltickets, freetickets, ms_head, tick, req, mark,
                     inbox, panicked>>
  <2>1. /\ tk' = [t \in Tickets |->
                    IF t \in aw_head THEN Settled(tk[t], TRUE) ELSE tk[t]]
        /\ pc' = [th \in Threads |->
                    IF \E t \in aw_head : th \in Sleepers(t) THEN "woken"
                    ELSE pc[th]]
        /\ drain # "none" /\ drain' = "none" /\ aw_head' = {}
    BY DEF Drain
  <2>2. \A th \in Threads : pc'[th] = pc[th] \/ (th \in Requesters /\ pc[th] = "sleep" /\ pc'[th] = "woken")
    BY <2>1 DEF Sleepers
  <2>3. ASSUME NEW t \in Tickets
        PROVE  /\ tk'[t].unique = tk[t].unique
               /\ tk'[t].age = tk[t].age
               /\ tk'[t].handler = tk[t].handler
               /\ tk'[t].ms = tk[t].ms
               /\ tk'[t].resp = tk[t].resp
               /\ (tk'[t] = tk[t] \/ (tk'[t].flag = tk[t].flag \cup {"ANSW"} /\ tk'[t].errno))
    <3>1. tk[t] \in Ticket
      BY <1>1 DEF TypeOK
    <3>2. CASE t \in aw_head
      <4>1. tk'[t] = Settled(tk[t], TRUE)
        BY <2>1, <3>2
      <4>2. /\ Settled(tk[t], TRUE).flag = tk[t].flag \cup {"ANSW"} /\ Settled(tk[t], TRUE).errno
            /\ Settled(tk[t], TRUE).unique = tk[t].unique /\ Settled(tk[t], TRUE).age = tk[t].age
            /\ Settled(tk[t], TRUE).ms = tk[t].ms /\ Settled(tk[t], TRUE).resp = tk[t].resp
            /\ Settled(tk[t], TRUE).handler = tk[t].handler
        BY <3>1, SettledFacts
      <4>. QED BY <4>1, <4>2
    <3>3. CASE t \notin aw_head
      <4>1. tk'[t] = tk[t]
        BY <2>1, <3>3
      <4>. QED BY <4>1, Zenon
    <3>. QED BY <3>2, <3>3
  <2>4. dead
    BY <1>2, <2>1 DEF DeadIsClosed
  <2>5. UNCHANGED <<dead, closed, ticketer, alltickets, freetickets, ms_head, tick, req, mark,
                    inbox, panicked>>
    BY DEF Drain, pool, work, locals, daemon
  <2>6. \A t \in Tickets : t \notin aw_head => tk'[t] = tk[t]
    BY <2>1
  <2>7. \A r \in Requesters : tick[r] \in aw_head => pc'[r] # "sleep"
    BY <2>1, <1>T DEF Sleepers
  <2>. QED BY <2>1, <2>2, <2>3, <2>4, <2>5, <2>6, <2>7
<1>Pcs. Pcs'
  BY <1>T, <1>2, <1>4 DEF Pcs
<1>DeadIsClosed. DeadIsClosed'
  BY <1>T, <1>2, <1>4 DEF DeadIsClosed, Pcs
<1>Numbered. Numbered'
  BY <1>T, <1>2, <1>4 DEF Numbered, Disjoint
<1>Disjoint. Disjoint'
  BY <1>T, <1>2, <1>4 DEF Disjoint, Pcs, InHand
<1>Fresh. Fresh'
  BY <1>T, <1>2, <1>4 DEF Fresh, FreshTicket, Disjoint, Pcs, InHand
<1>Carries. Carries'
  BY <1>T, <1>2, <1>4 DEF Carries, CarriesOwn, Disjoint, Pcs, Fresh, FreshTicket, InHand
<1>Aging. Aging'
  BY <1>T, <1>2, <1>4 DEF Aging, Abandoned, Disjoint, Pcs, InHand
<1>Sleeping. Sleeping'
  <2>1. ASSUME NEW s \in Requesters PROVE Asleep(s)'
    BY <2>1, <1>T, <1>2, <1>4
      DEF Sleeping, Asleep, InHand, Pcs, DeadIsClosed, Numbered, Disjoint, Fresh, FreshTicket,
        Carries, CarriesOwn, Aging, Abandoned
  <2>. QED BY <2>1 DEF Sleeping
<1>Live. dead' \/ Live'
  BY <1>4
<1>P. ~panicked'
  BY <1>1, <1>2, <1>4 DEF Fresh, FreshTicket, Pcs
<1>. QED BY <1>Pcs, <1>DeadIsClosed, <1>Numbered, <1>Disjoint, <1>Fresh, <1>Carries, <1>Aging,
  <1>Sleeping, <1>Live, <1>P, <1>4
  DEF IInv, Base
=============================================================================
