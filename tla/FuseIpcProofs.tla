--------------------------- MODULE FuseIpcProofs ---------------------------
(***************************************************************************)
(* Proofs about FuseIpc.                                                   *)
(***************************************************************************)
EXTENDS FuseIpcInvariant, FiniteSetTheorems, TLAPS

-----------------------------------------------------------------------------
(* Queues without duplicates.                                              *)

LEMMA PopFacts ==
  ASSUME NEW S, NEW s \in Seq(S), s # <<>>
  PROVE  /\ Head(s) \in S /\ Tail(s) \in Seq(S)
         /\ Head(s) \in Range(s)
         /\ Range(Tail(s)) \subseteq Range(s)
         /\ IsInjective(s) =>
              IsInjective(Tail(s)) /\ Range(Tail(s)) = Range(s) \ {Head(s)}
<1>1. Len(s) \in Nat \ {0}
  OBVIOUS
<1>2. /\ DOMAIN s = 1..Len(s) /\ DOMAIN Tail(s) = 1..(Len(s) - 1)
      /\ \A i \in 1..(Len(s) - 1) : Tail(s)[i] = s[i + 1]
      /\ Head(s) = s[1] /\ Head(s) \in S /\ Tail(s) \in Seq(S)
  BY <1>1
<1>3. Head(s) \in Range(s)
  BY <1>1, <1>2 DEF Range
<1>4. Range(Tail(s)) \subseteq Range(s)
  BY <1>1, <1>2 DEF Range
<1>5. ASSUME IsInjective(s)
      PROVE  IsInjective(Tail(s)) /\ Range(Tail(s)) = Range(s) \ {Head(s)}
  <2>1. IsInjective(Tail(s))
    BY <1>1, <1>2, <1>5 DEF IsInjective
  <2>2. Head(s) \notin Range(Tail(s))
    BY <1>1, <1>2, <1>5 DEF IsInjective, Range
  <2>3. ASSUME NEW x \in Range(s), x # Head(s)
        PROVE  x \in Range(Tail(s))
    <3>1. PICK i \in 1..Len(s) : s[i] = x
      BY <1>2 DEF Range
    <3>2. i - 1 \in 1..(Len(s) - 1) /\ Tail(s)[i - 1] = x
      BY <1>1, <1>2, <2>3, <3>1
    <3>. QED BY <3>2, <1>2 DEF Range
  <2>. QED BY <2>1, <2>2, <2>3, <1>4
<1>. QED BY <1>2, <1>3, <1>4, <1>5

LEMMA PushFacts ==
  ASSUME NEW S, NEW s \in Seq(S), NEW x \in S
  PROVE  /\ Append(s, x) \in Seq(S)
         /\ Range(Append(s, x)) = Range(s) \cup {x}
         /\ IsInjective(s) /\ x \notin Range(s) => IsInjective(Append(s, x))
<1>1. /\ Len(s) \in Nat /\ DOMAIN s = 1..Len(s)
      /\ DOMAIN Append(s, x) = 1..(Len(s) + 1)
      /\ \A i \in 1..Len(s) : Append(s, x)[i] = s[i]
      /\ Append(s, x)[Len(s) + 1] = x
      /\ Append(s, x) \in Seq(S)
  OBVIOUS
<1>2. Range(Append(s, x)) = Range(s) \cup {x}
  <2>1. ASSUME NEW y \in Range(Append(s, x)) PROVE y \in Range(s) \cup {x}
    BY <1>1, <2>1 DEF Range
  <2>2. Range(s) \subseteq Range(Append(s, x)) /\ x \in Range(Append(s, x))
    BY <1>1 DEF Range
  <2>. QED BY <2>1, <2>2
<1>3. ASSUME IsInjective(s), x \notin Range(s)
      PROVE  IsInjective(Append(s, x))
  BY <1>1, <1>3 DEF IsInjective, Range
<1>. QED BY <1>1, <1>2, <1>3

-----------------------------------------------------------------------------
(* Type correctness.                                                       *)

LEMMA NewFacts ==
  ASSUME NEW n \in Nat
  PROVE  NewTicket(n) \in Ticket
BY IpcAssumption DEF NewTicket, Ticket
LEMMA RefreshFacts ==
  ASSUME NEW k \in Ticket
  PROVE  /\ Refreshed(k) \in Ticket
         /\ Refreshed(k).unique = k.unique /\ Refreshed(k).age = k.age + 1
         /\ Refreshed(k).flag = {}
<1>1. /\ NewTicket(k.unique) \in Ticket
      /\ k.age + 1 \in Nat /\ k.handler \in {"none", "standard", "callback"}
      /\ NewTicket(k.unique).unique = k.unique /\ NewTicket(k.unique).flag = {}
  BY NewFacts DEF NewTicket, Ticket
<1>. QED BY <1>1 DEF Refreshed, Ticket

LEMMA FlagFacts ==
  ASSUME NEW k \in Ticket, NEW f \in Flags
  PROVE  /\ SetFlag(k, f) \in Ticket
         /\ SetFlag(k, f).flag = k.flag \cup {f}
         /\ SetFlag(k, f).unique = k.unique /\ SetFlag(k, f).age = k.age
         /\ SetFlag(k, f).ms = k.ms /\ SetFlag(k, f).resp = k.resp
         /\ SetFlag(k, f).handler = k.handler /\ SetFlag(k, f).errno = k.errno
BY DEF SetFlag, Ticket

LEMMA FilledFacts ==
  ASSUME NEW k \in Ticket, NEW q \in [id : 0..MaxRequests, kind : AllKinds]
  PROVE  /\ Filled(k, q) \in Ticket
         /\ Filled(k, q).flag =
              IF q.kind = "forget" THEN k.flag \cup {"INVAL"} ELSE k.flag
         /\ Filled(k, q).unique = k.unique /\ Filled(k, q).age = k.age
         /\ Filled(k, q).ms = q.id /\ Filled(k, q).resp = k.resp
         /\ Filled(k, q).handler = k.handler /\ Filled(k, q).errno = k.errno
<1>1. CASE q.kind = "forget"
  BY <1>1, FlagFacts DEF Filled, Ticket, Flags
<1>2. CASE q.kind # "forget"
  BY <1>2 DEF Filled, Ticket
<1>. QED BY <1>1, <1>2

LEMMA ReplyFacts ==
  ASSUME NEW k \in Ticket, NEW q \in 0..MaxRequests, NEW e \in BOOLEAN
  PROVE  /\ WithReply(k, q, e) \in Ticket
         /\ WithReply(k, q, e).flag = k.flag
         /\ WithReply(k, q, e).unique = k.unique /\ WithReply(k, q, e).age = k.age
         /\ WithReply(k, q, e).ms = k.ms /\ WithReply(k, q, e).resp = q
         /\ WithReply(k, q, e).handler = k.handler
         /\ WithReply(k, q, e).errno = k.errno
BY DEF WithReply, Ticket

LEMMA HandlerFacts ==
  ASSUME NEW k \in Ticket, NEW h \in {"none", "standard", "callback"}
  PROVE  /\ WithHandler(k, h) \in Ticket
         /\ WithHandler(k, h).flag = k.flag
         /\ WithHandler(k, h).unique = k.unique
         /\ WithHandler(k, h).age = k.age
         /\ WithHandler(k, h).ms = k.ms /\ WithHandler(k, h).resp = k.resp
         /\ WithHandler(k, h).handler = h
         /\ WithHandler(k, h).errno = k.errno
BY DEF WithHandler, Ticket

LEMMA SettledFacts ==
  ASSUME NEW k \in Ticket, NEW e \in BOOLEAN
  PROVE  /\ Settled(k, e) \in Ticket
         /\ Settled(k, e).flag = k.flag \cup {"ANSW"}
         /\ Settled(k, e).unique = k.unique /\ Settled(k, e).age = k.age
         /\ Settled(k, e).ms = k.ms /\ Settled(k, e).resp = k.resp
         /\ Settled(k, e).handler = k.handler /\ Settled(k, e).errno = e
BY FlagFacts DEF Settled, Ticket, Flags

LEMMA NoRequestType == NoRequest \in [id : 0..MaxRequests, kind : AllKinds]
BY IpcAssumption DEF NoRequest, AllKinds

LEMMA LeaveTypes ==
  ASSUME TypeOK, NEW th \in Threads, Leave(th)
  PROVE  /\ pc' \in [Threads -> RequesterPcs \cup DaemonPcs]
         /\ tick' \in [Threads -> Tickets \cup {NoTicket}]
         /\ req' \in [Requesters -> [id : 0..MaxRequests, kind : AllKinds]]
BY NoRequestType DEF TypeOK, Leave, Goto, RequesterPcs

TypeInv == TypeOK /\ InHand

LEMMA TypeInit == Init => TypeInv
<1>. SUFFICES ASSUME Init PROVE TypeInv
  OBVIOUS
<1>1. tk \in [Tickets -> Ticket]
  BY NewFacts DEF Init
<1>2. /\ alltickets \subseteq Tickets /\ freetickets \in Seq(Tickets)
      /\ deadticket_counter \in Nat
  <2>. PICK t \in Tickets :
         IF MaxFree = 0
         THEN /\ alltickets = {} /\ freetickets = <<>>
              /\ deadticket_counter = 1
         ELSE /\ alltickets = {t} /\ freetickets = <<t>>
              /\ deadticket_counter = 0
    BY DEF Init
  <2>1. <<>> \in Seq(Tickets) /\ <<t>> \in Seq(Tickets)
    OBVIOUS
  <2>2. CASE MaxFree = 0
    BY <2>1, <2>2
  <2>3. CASE MaxFree # 0
    BY <2>1, <2>3
  <2>. QED BY <2>2, <2>3
<1>3. /\ pc \in [Threads -> RequesterPcs \cup DaemonPcs]
      /\ tick \in [Threads -> Tickets \cup {NoTicket}]
      /\ req \in [Requesters -> [id : 0..MaxRequests, kind : AllKinds]]
      /\ mark \in [Requesters -> Nat]
  BY NoRequestType DEF Init, RequesterPcs
<1>4. TypeOK
  <2>1. /\ dead \in BOOLEAN /\ closed \in BOOLEAN /\ panicked \in BOOLEAN
        /\ drain \in {"none", "kill", "close"}
        /\ timeout_status \in {"none", "processing", "dead"}
    BY DEF Init
  <2>2. /\ ms_head \in Seq(Tickets) /\ aw_head \subseteq Tickets
        /\ inbox = {} /\ replies = {}
    BY DEF Init
  <2>3. ticketer \in Nat /\ nreq \in 0..MaxRequests
    BY IpcAssumption DEF Init
  <2>. QED BY <1>1, <1>2, <1>3, <2>1, <2>2, <2>3 DEF TypeOK
<1>5. InHand
  BY DEF Init, InHand
<1>. QED BY <1>4, <1>5 DEF TypeInv

LEMMA TypeStep == TypeInv /\ [Next]_vars => TypeInv'
<1>. SUFFICES ASSUME TypeInv, [Next]_vars PROVE TypeInv'
  OBVIOUS
<1>. USE IpcAssumption DEF TypeInv, Flags
<1>0. CASE UNCHANGED vars
  BY <1>0 DEF TypeOK, InHand, vars, session, pool, queues, work, locals, daemon
<1>1. ASSUME NEW r \in Requesters, NEW k \in Kinds, Begin(r, k) PROVE TypeInv'
  BY <1>1
    DEF Begin, TypeOK, InHand, Threads, Goto, RequesterPcs, session, pool, queues, work, locals,
      daemon, Requests
<1>2. ASSUME NEW r \in Requesters, FetchFree(r) PROVE TypeInv'
  BY <1>2, PopFacts
    DEF FetchFree, TypeOK, InHand, Threads, Goto, RequesterPcs, session, pool, queues, work,
      locals, daemon
<1>3. ASSUME NEW r \in Requesters, FetchNone(r) PROVE TypeInv'
  BY <1>3
    DEF FetchNone, TypeOK, InHand, Threads, Goto, RequesterPcs, session, pool, queues, work,
      locals, daemon
<1>4. ASSUME NEW r \in Requesters, AllocTicket(r) PROVE TypeInv'
  BY <1>4, NewFacts
    DEF AllocTicket, TypeOK, InHand, Threads, Goto, RequesterPcs, session, pool, queues, work,
      locals, daemon
<1>5. ASSUME NEW r \in Requesters, FetchOverLimit(r) PROVE TypeInv'
  <2>1. r \in Threads /\ tick[r] \in Tickets /\ tk[tick[r]] \in Ticket
    BY <1>5 DEF FetchOverLimit, TypeOK, InHand, Threads
  <2>2. TypeOK'
    BY <2>1, <1>5
      DEF FetchOverLimit, TypeOK, Goto, RequesterPcs, session, pool, queues, work, locals,
        daemon
  <2>3. InHand'
    BY <2>1, <1>5
      DEF FetchOverLimit, TypeOK, InHand, Goto, RequesterPcs, session, pool, queues, work,
        locals, daemon
  <2>. QED BY <2>2, <2>3
<1>6. ASSUME NEW r \in Requesters, MakeMessage(r) PROVE TypeInv'
  <2>1. r \in Threads /\ tick[r] \in Tickets /\ tk[tick[r]] \in Ticket
    BY <1>6 DEF MakeMessage, TypeOK, InHand, Threads
  <2>2. TypeOK'
    BY <2>1, <1>6, FilledFacts
      DEF MakeMessage, TypeOK, Goto, RequesterPcs, session, pool, queues, work, locals, daemon
  <2>3. InHand'
    BY <2>1, <1>6
      DEF MakeMessage, TypeOK, InHand, Goto, RequesterPcs, session, pool, queues, work, locals,
        daemon
  <2>. QED BY <2>2, <2>3
<1>7. ASSUME NEW r \in Requesters, MakeFails(r) PROVE TypeInv'
  <2>1. r \in Threads /\ tick[r] \in Tickets /\ tk[tick[r]] \in Ticket
    BY <1>7 DEF MakeFails, TypeOK, InHand, Threads
  <2>2. TypeOK'
    BY <2>1, <1>7, NewFacts
      DEF MakeFails, TypeOK, Goto, Leave, Destroy, NoRequest, AllKinds, RequesterPcs, session,
        pool, queues, work, locals, daemon
  <2>3. InHand'
    BY <2>1, <1>7
      DEF MakeFails, TypeOK, InHand, Goto, Leave, Destroy, NoRequest, AllKinds, RequesterPcs,
        session, pool, queues, work, locals, daemon
  <2>. QED BY <2>2, <2>3
<1>8. ASSUME NEW r \in Requesters, InsertCallback(r) PROVE TypeInv'
  <2>1. r \in Threads /\ tick[r] \in Tickets /\ tk[tick[r]] \in Ticket
    BY <1>8 DEF InsertCallback, TypeOK, InHand, Threads
  <2>2. tk' \in [Tickets -> Ticket]
    <3>1. CASE dead
      BY <3>1, <1>8 DEF InsertCallback, TypeOK
    <3>2. CASE ~dead
      <4>. PICK h \in {"none", "standard", "callback"} :
             tk' = [tk EXCEPT ![tick[r]] = WithHandler(@, h)]
        BY <3>2, <1>8 DEF InsertCallback
      <4>. QED BY <2>1, HandlerFacts DEF TypeOK
    <3>. QED BY <3>1, <3>2
  <2>3. /\ pc' \in [Threads -> RequesterPcs \cup DaemonPcs]
        /\ tick' \in [Threads -> Tickets \cup {NoTicket}]
        /\ req' \in [Requesters -> [id : 0..MaxRequests, kind : AllKinds]]
    BY <2>1, <1>8 DEF InsertCallback, TypeOK, Goto, work, RequesterPcs
  <2>4. TypeOK'
    BY <2>1, <2>2, <2>3, <1>8
      DEF InsertCallback, TypeOK, session, pool, queues, work, locals, daemon
  <2>5. InHand'
    BY <2>1, <1>8
      DEF InsertCallback, TypeOK, InHand, Goto, session, pool, queues, work, locals, daemon
  <2>. QED BY <2>4, <2>5
<1>9. ASSUME NEW r \in Requesters, PushAw(r) PROVE TypeInv'
  <2>1. r \in Threads /\ tick[r] \in Tickets /\ tk[tick[r]] \in Ticket
    BY <1>9 DEF PushAw, TypeOK, InHand, Threads
  <2>2. TypeOK'
    BY <2>1, <1>9
      DEF PushAw, TypeOK, Goto, RequesterPcs, session, pool, queues, work, locals, daemon
  <2>3. InHand'
    BY <2>1, <1>9
      DEF PushAw, TypeOK, InHand, Goto, RequesterPcs, session, pool, queues, work, locals,
        daemon
  <2>. QED BY <2>2, <2>3
<1>10. ASSUME NEW r \in Requesters, InsertMessage(r) PROVE TypeInv'
  <2>1. r \in Threads /\ tick[r] \in Tickets /\ tk[tick[r]] \in Ticket
    BY <1>10 DEF InsertMessage, TypeOK, InHand, Threads
  <2>2. tk' \in [Tickets -> Ticket]
    BY <2>1, <1>10, FlagFacts DEF InsertMessage, TypeOK
  <2>3. /\ pc' \in [Threads -> RequesterPcs \cup DaemonPcs]
        /\ tick' \in [Threads -> Tickets \cup {NoTicket}]
        /\ req' \in [Requesters -> [id : 0..MaxRequests, kind : AllKinds]]
    BY <2>1, <1>10, LeaveTypes DEF InsertMessage, TypeOK, Goto, work, RequesterPcs, Sent
  <2>4. TypeOK'
    BY <2>1, <2>2, <2>3, <1>10
      DEF InsertMessage, TypeOK, session, pool, queues, work, locals, daemon
  <2>5. InHand'
    BY <2>1, <1>10
      DEF InsertMessage, TypeOK, InHand, Goto, session, pool, queues, work, locals, daemon,
        Sent, Leave
  <2>. QED BY <2>4, <2>5
<1>11. ASSUME NEW r \in Requesters, PushMs(r) PROVE TypeInv'
  <2>1. r \in Threads /\ tick[r] \in Tickets /\ tk[tick[r]] \in Ticket
    BY <1>11 DEF PushMs, TypeOK, InHand, Threads
  <2>2. TypeOK'
    BY <2>1, <1>11, PushFacts, LeaveTypes
      DEF PushMs, TypeOK, Goto, Sent, RequesterPcs, session, pool, queues, work, locals, daemon
  <2>3. InHand'
    BY <2>1, <1>11
      DEF PushMs, TypeOK, InHand, Goto, Sent, Leave, NoRequest, AllKinds, RequesterPcs, session,
        pool, queues, work, locals, daemon
  <2>. QED BY <2>2, <2>3
<1>12. ASSUME NEW r \in Requesters, Wait(r) PROVE TypeInv'
  <2>1. r \in Threads /\ tick[r] \in Tickets /\ tk[tick[r]] \in Ticket
    BY <1>12 DEF Wait, TypeOK, InHand, Threads
  <2>2. TypeOK'
    <3>1. tk' \in [Tickets -> Ticket]
      <4>1. SetFlag(tk[tick[r]], "ANSW") \in Ticket
        BY <2>1, FlagFacts DEF Flags
      <4>. QED BY <4>1, <1>12 DEF Wait, TypeOK
    <3>2. pc' \in [Threads -> RequesterPcs \cup DaemonPcs]
      BY <1>12 DEF Wait, TypeOK, Goto, RequesterPcs, Threads
    <3>. QED BY <3>1, <3>2, <1>12
           DEF Wait, TypeOK, session, pool, queues, work, locals, daemon
  <2>3. InHand'
    BY <2>1, <1>12
      DEF Wait, TypeOK, InHand, Goto, RequesterPcs, session, pool, queues, work, locals, daemon
  <2>. QED BY <2>2, <2>3
<1>13. ASSUME NEW r \in Requesters, Interrupted(r) PROVE TypeInv'
  <2>1. PICK t \in Tickets :
          /\ \/ /\ freetickets # <<>> /\ t = Head(freetickets)
                /\ freetickets' = Tail(freetickets)
                /\ tk' = [tk EXCEPT ![t] = SetFlag(SetFlag(@, "INVAL"), "DIRTY")]
                /\ panicked' = ("DIRTY" \in tk[t].flag)
                /\ UNCHANGED <<ticketer, alltickets>>
             \/ /\ freetickets = <<>>
                /\ alltickets' = alltickets \cup {t}
                /\ ticketer' = ticketer + 1
                /\ tk' = [tk EXCEPT ![t] =
                             SetFlag(SetFlag(NewTicket(ticketer), "INVAL"), "DIRTY")]
                /\ UNCHANGED <<freetickets, panicked>>
          /\ dead' = (dead \/ OverLimit(ticketer', deadticket_counter))
          /\ ms_head' = IF dead' THEN ms_head ELSE Append(ms_head, t)
    BY <1>13 DEF Interrupted
  <2>2. tk' \in [Tickets -> Ticket]
    <3>1. ASSUME NEW k \in Ticket
          PROVE  SetFlag(SetFlag(k, "INVAL"), "DIRTY") \in Ticket
      <4>1. SetFlag(k, "INVAL") \in Ticket
        BY FlagFacts DEF Flags
      <4>. QED BY <4>1, FlagFacts DEF Flags
    <3>2. tk[t] \in Ticket /\ NewTicket(ticketer) \in Ticket
      BY NewFacts DEF TypeOK
    <3>3. CASE tk' = [tk EXCEPT ![t] = SetFlag(SetFlag(@, "INVAL"), "DIRTY")]
      BY <3>1, <3>2, <3>3 DEF TypeOK
    <3>4. CASE tk' = [tk EXCEPT ![t] =
                        SetFlag(SetFlag(NewTicket(ticketer), "INVAL"), "DIRTY")]
      BY <3>1, <3>2, <3>4 DEF TypeOK
    <3>. QED BY <2>1, <3>3, <3>4
  <2>3. freetickets' \in Seq(Tickets) /\ ms_head' \in Seq(Tickets)
    <3>1. freetickets # <<>> => Tail(freetickets) \in Seq(Tickets)
      BY PopFacts DEF TypeOK
    <3>2. Append(ms_head, t) \in Seq(Tickets)
      BY PushFacts DEF TypeOK
    <3>. QED BY <2>1, <3>1, <3>2 DEF TypeOK
  <2>4. pc' \in [Threads -> RequesterPcs \cup DaemonPcs]
    BY <1>13 DEF Interrupted, TypeOK, Goto, RequesterPcs, Threads
  <2>5. /\ dead' \in BOOLEAN /\ panicked' \in BOOLEAN
        /\ alltickets' \subseteq Tickets /\ ticketer' \in Nat
    <3>1. dead' \in BOOLEAN
      BY <2>1 DEF TypeOK
    <3>2. panicked' \in BOOLEAN
      <4>1. CASE panicked' = ("DIRTY" \in tk[t].flag)
        BY <4>1
      <4>2. CASE UNCHANGED panicked
        BY <4>2 DEF TypeOK
      <4>. QED BY <2>1, <4>1, <4>2
    <3>3. alltickets' \subseteq Tickets /\ ticketer' \in Nat
      BY <2>1 DEF TypeOK
    <3>. QED BY <3>1, <3>2, <3>3
  <2>6. TypeOK'
    BY <2>2, <2>3, <2>4, <2>5, <1>13
      DEF Interrupted, TypeOK, session, pool, queues, work, locals, daemon
  <2>7. InHand'
    BY <1>13 DEF Interrupted, TypeOK, InHand, Goto, work, Threads
  <2>. QED BY <2>6, <2>7
<1>14. ASSUME NEW r \in Requesters, Restarted(r) PROVE TypeInv'
  <2>1. r \in Threads /\ tick[r] \in Tickets /\ tk[tick[r]] \in Ticket
    BY <1>14 DEF Restarted, TypeOK, InHand, Threads
  <2>2. TypeOK'
    BY <2>1, <1>14
      DEF Restarted, TypeOK, Goto, RequesterPcs, session, pool, queues, work, locals, daemon
  <2>3. InHand'
    BY <2>1, <1>14
      DEF Restarted, TypeOK, InHand, Goto, RequesterPcs, session, pool, queues, work, locals,
        daemon
  <2>. QED BY <2>2, <2>3
<1>15. ASSUME NEW r \in Requesters, Timeout(r) PROVE TypeInv'
  <2>1. r \in Threads /\ tick[r] \in Tickets /\ tk[tick[r]] \in Ticket
    BY <1>15 DEF Timeout, TypeOK, InHand, Threads
  <2>2. TypeOK'
    BY <2>1, <1>15
      DEF Timeout, TypeOK, Goto, RequesterPcs, session, pool, queues, work, locals, daemon
  <2>3. InHand'
    BY <2>1, <1>15
      DEF Timeout, TypeOK, InHand, Goto, RequesterPcs, session, pool, queues, work, locals,
        daemon
  <2>. QED BY <2>2, <2>3
<1>16. ASSUME NEW r \in Requesters, Alert(r) PROVE TypeInv'
  <2>1. r \in Threads /\ tick[r] \in Tickets /\ tk[tick[r]] \in Ticket
    BY <1>16 DEF Alert, TypeOK, InHand, Threads
  <2>2. TypeOK'
    BY <2>1, <1>16
      DEF Alert, TypeOK, Goto, RequesterPcs, session, pool, queues, work, locals, daemon
  <2>3. InHand'
    BY <2>1, <1>16
      DEF Alert, TypeOK, InHand, Goto, RequesterPcs, session, pool, queues, work, locals, daemon
  <2>. QED BY <2>2, <2>3
<1>17. ASSUME NEW r \in Requesters, Eject(r) PROVE TypeInv'
  <2>1. r \in Threads /\ tick[r] \in Tickets /\ tk[tick[r]] \in Ticket
    BY <1>17 DEF Eject, TypeOK, InHand, Threads
  <2>2. TypeOK'
    BY <2>1, <1>17, FlagFacts
      DEF Eject, TypeOK, Goto, RequesterPcs, session, pool, queues, work, locals, daemon
  <2>3. InHand'
    BY <2>1, <1>17
      DEF Eject, TypeOK, InHand, Goto, RequesterPcs, session, pool, queues, work, locals, daemon
  <2>. QED BY <2>2, <2>3
<1>18. ASSUME NEW r \in Requesters, Woken(r) PROVE TypeInv'
  <2>1. r \in Threads /\ tick[r] \in Tickets /\ tk[tick[r]] \in Ticket
    BY <1>18 DEF Woken, TypeOK, InHand, Threads
  <2>2. TypeOK'
    BY <2>1, <1>18
      DEF Woken, TypeOK, Goto, RequesterPcs, session, pool, queues, work, locals, daemon
  <2>3. InHand'
    BY <2>1, <1>18
      DEF Woken, TypeOK, InHand, Goto, RequesterPcs, session, pool, queues, work, locals, daemon
  <2>. QED BY <2>2, <2>3
<1>19. ASSUME NEW r \in Requesters, UseAnswer(r) PROVE TypeInv'
  <2>1. r \in Threads /\ tick[r] \in Tickets /\ tk[tick[r]] \in Ticket
    BY <1>19 DEF UseAnswer, TypeOK, InHand, Threads
  <2>2. TypeOK'
    BY <2>1, <1>19
      DEF UseAnswer, TypeOK, Goto, RequesterPcs, session, pool, queues, work, locals, daemon
  <2>3. InHand'
    BY <2>1, <1>19
      DEF UseAnswer, TypeOK, InHand, Goto, RequesterPcs, session, pool, queues, work, locals,
        daemon
  <2>. QED BY <2>2, <2>3
<1>20. ASSUME NEW r \in Requesters, GiveUp(r) PROVE TypeInv'
  <2>1. r \in Threads /\ tick[r] \in Tickets /\ tk[tick[r]] \in Ticket
    BY <1>20 DEF GiveUp, TypeOK, InHand, Threads
  <2>2. tk' \in [Tickets -> Ticket]
    BY <2>1, <1>20, FlagFacts DEF GiveUp, TypeOK
  <2>3. /\ pc' \in [Threads -> RequesterPcs \cup DaemonPcs]
        /\ tick' \in [Threads -> Tickets \cup {NoTicket}]
        /\ req' \in [Requesters -> [id : 0..MaxRequests, kind : AllKinds]]
    BY <2>1, <1>20 DEF GiveUp, TypeOK, Goto, work, RequesterPcs
  <2>4. TypeOK'
    BY <2>1, <2>2, <2>3, <1>20
      DEF GiveUp, TypeOK, session, pool, queues, work, locals, daemon, Ticket
  <2>5. InHand'
    BY <2>1, <1>20 DEF GiveUp, TypeOK, InHand, Goto, session, pool, queues, work, locals, daemon
  <2>. QED BY <2>4, <2>5
<1>21. ASSUME NEW r \in Requesters, Detach(r) PROVE TypeInv'
  <2>1. r \in Threads /\ tick[r] \in Tickets /\ tk[tick[r]] \in Ticket
    BY <1>21 DEF Detach, TypeOK, InHand, Threads
  <2>2. tk' \in [Tickets -> Ticket]
    BY <2>1, <1>21, HandlerFacts DEF Detach, TypeOK
  <2>3. /\ pc' \in [Threads -> RequesterPcs \cup DaemonPcs]
        /\ tick' \in [Threads -> Tickets \cup {NoTicket}]
        /\ req' \in [Requesters -> [id : 0..MaxRequests, kind : AllKinds]]
    BY <2>1, <1>21, LeaveTypes DEF Detach, TypeOK, Goto, work
  <2>4. TypeOK'
    BY <2>1, <2>2, <2>3, <1>21 DEF Detach, TypeOK, session, pool, queues, work, locals, daemon
  <2>5. InHand'
    BY <2>1, <1>21
      DEF Detach, TypeOK, InHand, Goto, session, pool, queues, work, locals, daemon, Leave
  <2>. QED BY <2>4, <2>5
<1>22. ASSUME NEW th \in Threads, DropTicket(th) PROVE TypeInv'
  <2>1. th \in Threads /\ tick[th] \in Tickets /\ tk[tick[th]] \in Ticket
    BY <1>22 DEF DropTicket, TypeOK, InHand, Threads
  <2>2. tk' \in [Tickets -> Ticket]
    <3>1. NewTicket(0) \in Ticket
      BY NewFacts
    <3>. QED BY <2>1, <3>1, <1>22 DEF DropTicket, TypeOK, Destroy
  <2>3. /\ pc' \in [Threads -> RequesterPcs \cup DaemonPcs]
        /\ tick' \in [Threads -> Tickets \cup {NoTicket}]
        /\ req' \in [Requesters -> [id : 0..MaxRequests, kind : AllKinds]]
    BY <2>1, <1>22, LeaveTypes DEF DropTicket, TypeOK, Goto, work, RequesterPcs
  <2>4. TypeOK'
    BY <2>1, <2>2, <2>3, <1>22
      DEF DropTicket, TypeOK, session, pool, queues, work, locals, daemon, Destroy
  <2>5. InHand'
    BY <2>1, <1>22
      DEF DropTicket, TypeOK, InHand, Goto, session, pool, queues, work, locals, daemon,
        Destroy, Leave
  <2>. QED BY <2>4, <2>5
<1>23. ASSUME NEW th \in Threads, PushFree(th) PROVE TypeInv'
  <2>1. th \in Threads /\ tick[th] \in Tickets /\ tk[tick[th]] \in Ticket
    BY <1>23 DEF PushFree, TypeOK, InHand, Threads
  <2>2. TypeOK'
    BY <2>1, <1>23, RefreshFacts, PushFacts, LeaveTypes
      DEF PushFree, TypeOK, Goto, RequesterPcs, DaemonPcs, session, pool, queues, work, locals,
        daemon
  <2>3. InHand'
    BY <2>1, <1>23
      DEF PushFree, TypeOK, InHand, Goto, Leave, NoRequest, AllKinds, RequesterPcs, DaemonPcs,
        session, pool, queues, work, locals, daemon
  <2>. QED BY <2>2, <2>3
<1>24. ASSUME NEW d \in Daemons, ReadPop(d) PROVE TypeInv'
  BY <1>24, PopFacts
    DEF ReadPop, TypeOK, InHand, Threads, Goto, DaemonPcs, session, pool, queues, work, locals,
      daemon
<1>25. ASSUME NEW d \in Daemons, ReadCopy(d) PROVE TypeInv'
  <2>1. d \in Threads /\ tick[d] \in Tickets /\ tk[tick[d]] \in Ticket
    BY <1>25 DEF ReadCopy, TypeOK, InHand, Threads
  <2>2. tk' \in [Tickets -> Ticket]
    BY <2>1, <1>25 DEF ReadCopy, TypeOK
  <2>3. /\ pc' \in [Threads -> RequesterPcs \cup DaemonPcs]
        /\ tick' \in [Threads -> Tickets \cup {NoTicket}]
        /\ req' \in [Requesters -> [id : 0..MaxRequests, kind : AllKinds]]
    BY <2>1, <1>25, LeaveTypes DEF ReadCopy, TypeOK, Goto, work, DaemonPcs, DropInvalid
  <2>4. TypeOK'
    BY <2>1, <2>2, <2>3, <1>25
      DEF ReadCopy, TypeOK, session, pool, queues, work, locals, daemon, Received, Ticket
  <2>5. InHand'
    BY <2>1, <1>25
      DEF ReadCopy, TypeOK, InHand, Goto, session, pool, queues, work, locals, daemon,
        DropInvalid, Leave
  <2>. QED BY <2>4, <2>5
<1>26. ASSUME NEW d \in Daemons, ReadShort(d) PROVE TypeInv'
  <2>1. d \in Threads /\ tick[d] \in Tickets /\ tk[tick[d]] \in Ticket
    BY <1>26 DEF ReadShort, TypeOK, InHand, Threads
  <2>2. TypeOK'
    BY <2>1, <1>26, LeaveTypes
      DEF ReadShort, TypeOK, Goto, DropInvalid, DaemonPcs, session, pool, queues, work, locals,
        daemon
  <2>3. InHand'
    BY <2>1, <1>26
      DEF ReadShort, TypeOK, InHand, Goto, DropInvalid, Leave, NoRequest, AllKinds, DaemonPcs,
        session, pool, queues, work, locals, daemon
  <2>. QED BY <2>2, <2>3
<1>27. ASSUME NEW d \in Daemons, Pull(d) PROVE TypeInv'
  <2>1. d \in Threads /\ tick[d] \in Tickets /\ tk[tick[d]] \in Ticket
    BY <1>27 DEF Pull, TypeOK, InHand, Threads
  <2>2. TypeOK'
    <3>1. tk' \in [Tickets -> Ticket]
      <4>1. SetFlag(tk[tick[d]], "KILLL") \in Ticket
        BY <2>1, FlagFacts DEF Flags
      <4>. QED BY <4>1, <1>27 DEF Pull, TypeOK
    <3>2. pc' \in [Threads -> RequesterPcs \cup DaemonPcs]
      BY <1>27 DEF Pull, TypeOK, Goto, DaemonPcs, Threads
    <3>. QED BY <3>1, <3>2, <1>27
           DEF Pull, TypeOK, session, pool, queues, work, locals, daemon
  <2>3. InHand'
    BY <2>1, <1>27
      DEF Pull, TypeOK, InHand, Goto, DaemonPcs, session, pool, queues, work, locals, daemon
  <2>. QED BY <2>2, <2>3
<1>28. ASSUME NEW d \in Daemons, Answer(d) PROVE TypeInv'
  <2>1. d \in Threads /\ tick[d] \in Tickets /\ tk[tick[d]] \in Ticket
    BY <1>28 DEF Answer, TypeOK, InHand, Threads
  <2>2. tk' \in [Tickets -> Ticket]
    <3>1. Settled(tk[tick[d]], pc[d] = "answer_error") \in Ticket
      <4>. DEFINE e == pc[d] = "answer_error"
      <4>1. e \in BOOLEAN
        OBVIOUS
      <4>. HIDE DEF e
      <4>2. Settled(tk[tick[d]], e) \in Ticket
        BY <2>1, <4>1, SettledFacts
      <4>. QED BY <4>2 DEF e
    <3>2. CASE UNCHANGED tk
      BY <3>2 DEF TypeOK
    <3>3. CASE tk' = [tk EXCEPT ![tick[d]] =
                        Settled(@, pc[d] = "answer_error")]
      BY <2>1, <3>1, <3>3 DEF TypeOK
    <3>. QED BY <3>2, <3>3, <1>28 DEF Answer
  <2>3. /\ pc' \in [Threads -> RequesterPcs \cup DaemonPcs]
        /\ tick' \in [Threads -> Tickets \cup {NoTicket}]
        /\ req' \in [Requesters -> [id : 0..MaxRequests, kind : AllKinds]]
    <3>1. CASE /\ pc' = [pc EXCEPT ![d] = "drop"] /\ UNCHANGED <<tick, req>>
      BY <3>1 DEF TypeOK, DaemonPcs
    <3>2. CASE /\ pc' = [th \in Threads |->
                           IF th \in Sleepers(tick[d]) THEN "woken"
                           ELSE IF th = d THEN "idle" ELSE pc[th]]
               /\ tick' = [tick EXCEPT ![d] = NoTicket]
               /\ UNCHANGED req
      <4>1. pc' \in [Threads -> RequesterPcs \cup DaemonPcs]
        BY <3>2 DEF TypeOK, DaemonPcs, RequesterPcs
      <4>2. tick' \in [Threads -> Tickets \cup {NoTicket}] /\ req' = req
        BY <3>2 DEF TypeOK
      <4>. QED BY <4>1, <4>2 DEF TypeOK
    <3>. QED BY <3>1, <3>2, <1>28 DEF Answer, Goto, work
  <2>4. TypeOK'
    BY <2>1, <2>2, <2>3, <1>28 DEF Answer, TypeOK, session, pool, queues, work, locals, daemon
  <2>5. InHand'
    <3>1. CASE pc' = [pc EXCEPT ![d] = "drop"] /\ tick' = tick
      BY <2>1, <3>1 DEF TypeOK, InHand
    <3>2. CASE /\ tick' = [tick EXCEPT ![d] = NoTicket]
               /\ pc' = [th \in Threads |->
                           IF th \in Sleepers(tick[d]) THEN "woken"
                           ELSE IF th = d THEN "idle" ELSE pc[th]]
      BY <2>1, <3>2, <1>28 DEF TypeOK, InHand, Sleepers, Answer
    <3>. QED BY <3>1, <3>2, <1>28 DEF Answer, Goto, work
  <2>. QED BY <2>4, <2>5
<1>29. ASSUME NEW d \in Daemons, NEW m \in inbox, WriteFind(d, m) PROVE TypeInv'
  <2>1. PICK t \in aw_head :
          /\ tick' = [tick EXCEPT ![d] = t]
          /\ aw_head' = aw_head \ {t}
          /\ \/ UNCHANGED tk
             \/ \E e \in BOOLEAN :
                   tk' = [tk EXCEPT ![t] = WithReply(@, m.req, e)]
          /\ Goto(d, IF tk[t].handler = "standard" THEN "pull" ELSE "drop")
    BY <1>29 DEF WriteFind
  <2>2. tk' \in [Tickets -> Ticket]
    <3>1. t \in Tickets /\ tk[t] \in Ticket /\ m.req \in 0..MaxRequests
      BY DEF TypeOK
    <3>2. CASE UNCHANGED tk
      BY <3>2 DEF TypeOK
    <3>3. ASSUME NEW e \in BOOLEAN,
                 tk' = [tk EXCEPT ![t] = WithReply(@, m.req, e)]
          PROVE  tk' \in [Tickets -> Ticket]
      <4>1. WithReply(tk[t], m.req, e) \in Ticket
        BY <3>1, ReplyFacts
      <4>. QED BY <3>1, <3>3, <4>1 DEF TypeOK
    <3>. QED BY <2>1, <3>2, <3>3
  <2>3. pc' \in [Threads -> RequesterPcs \cup DaemonPcs]
    <3>1. CASE pc' = [pc EXCEPT ![d] = "pull"]
      BY <3>1 DEF TypeOK, DaemonPcs
    <3>2. CASE pc' = [pc EXCEPT ![d] = "drop"]
      BY <3>2 DEF TypeOK, DaemonPcs
    <3>. QED BY <2>1, <3>1, <3>2 DEF Goto
  <2>4. TypeOK'
    BY <2>1, <2>2, <2>3, <1>29 DEF WriteFind, TypeOK, session, pool, queues, work, locals, daemon
  <2>5. InHand'
    BY <2>1, <1>29 DEF TypeOK, InHand, Goto, Threads
  <2>. QED BY <2>4, <2>5
<1>30. ASSUME NEW d \in Daemons, NEW m \in inbox, WriteIgnored(d, m) PROVE TypeInv'
  BY <1>30
    DEF WriteIgnored, TypeOK, InHand, Threads, Goto, DaemonPcs, session, pool, queues, work,
      locals, daemon
<1>31. CASE Close
  BY <1>31
    DEF Close, TypeOK, InHand, Threads, Goto, RequesterPcs, session, pool, queues, work, locals,
      daemon
<1>32. CASE Kill
  BY <1>32
    DEF Kill, TypeOK, InHand, Threads, Goto, RequesterPcs, session, pool, queues, work, locals,
      daemon
<1>33. CASE Drain
  <2>1. tk' \in [Tickets -> Ticket]
    BY <1>33, SettledFacts DEF Drain, TypeOK
  <2>2. pc' \in [Threads -> RequesterPcs \cup DaemonPcs]
    BY <1>33 DEF Drain, TypeOK, RequesterPcs
  <2>3. TypeOK'
    BY <2>1, <2>2, <1>33 DEF Drain, TypeOK, session, pool, queues, work, locals, daemon
  <2>4. InHand'
    BY <1>33 DEF Drain, InHand, Sleepers, work, Threads
  <2>. QED BY <2>3, <2>4
<1>34. CASE SetDaemonDead
  BY <1>34
    DEF SetDaemonDead, TypeOK, InHand, Threads, Goto, RequesterPcs, session, pool, queues, work,
      locals, daemon
<1>. QED
  BY <1>0, <1>1, <1>2, <1>3, <1>4, <1>5, <1>6, <1>7, <1>8, <1>9, <1>10, <1>11, <1>12, <1>13,
    <1>14, <1>15, <1>16, <1>17, <1>18, <1>19, <1>20, <1>21, <1>22, <1>23, <1>24, <1>25, <1>26,
    <1>27, <1>28, <1>29, <1>30, <1>31, <1>32, <1>33, <1>34
    DEF Next, Request, Wakeup, Drop, Device, Death

(* Every variable keeps its type, whatever the constants.                  *)
THEOREM TypeCorrect == Spec => []TypeOK
<1>1. TypeInv => TypeOK
  BY DEF TypeInv
<1>. QED BY <1>1, TypeInit, TypeStep, PTL DEF Spec

-----------------------------------------------------------------------------
(* The length of the free list.                                            *)

(* Threads that will push a ticket.                                        *)
Refreshing == {th \in Threads : pc[th] = "refresh"}

Bounded ==
  Len(freetickets) + Cardinality(Refreshing) < MaxFree + Cardinality(Threads)

(* Steps of which none pushes a ticket or decides to.                      *)
Shortens ==
  /\ Len(freetickets') <= Len(freetickets)
  /\ \A th \in Threads : pc'[th] = "refresh" => pc[th] = "refresh"

(* A requester's own steps neither push a ticket nor decide to ...         *)
LEMMA RequestShortens ==
  ASSUME TypeInv, NEW r \in Requesters, Request(r) \/ Wakeup(r)
  PROVE  Shortens
<1>1. /\ r \in Threads /\ pc \in [Threads -> RequesterPcs \cup DaemonPcs]
      /\ freetickets \in Seq(Tickets)
  BY DEF Threads, TypeInv, TypeOK
<1>2. freetickets # <<>> => Len(Tail(freetickets)) <= Len(freetickets)
  BY <1>1
<1>3. CASE (\E k \in Kinds : Begin(r, k)) \/ FetchFree(r) \/ FetchNone(r) \/ FetchOverLimit(r)
  BY <1>1, <1>2, <1>3 DEF Begin, FetchFree, FetchNone, FetchOverLimit, Goto, pool, Shortens
<1>4. CASE AllocTicket(r) \/ MakeMessage(r) \/ MakeFails(r) \/ InsertCallback(r)
  BY <1>1, <1>4
    DEF AllocTicket, MakeMessage, MakeFails, InsertCallback, Goto, Leave, Destroy, pool,
      Shortens
<1>5. CASE PushAw(r) \/ InsertMessage(r) \/ PushMs(r)
  BY <1>1, <1>5 DEF PushAw, InsertMessage, PushMs, Sent, Goto, Leave, pool, Shortens
<1>6. CASE Wait(r) \/ Restarted(r)
  BY <1>1, <1>6 DEF Wait, Restarted, Goto, pool, Shortens
<1>7. CASE Interrupted(r)
  BY <1>1, <1>2, <1>7 DEF Interrupted, Goto, Shortens
<1>8. CASE Timeout(r) \/ Alert(r) \/ Eject(r)
  BY <1>1, <1>8 DEF Timeout, Alert, Eject, Goto, pool, Shortens
<1>9. CASE Woken(r) \/ UseAnswer(r) \/ GiveUp(r) \/ Detach(r)
  BY <1>1, <1>9 DEF Woken, UseAnswer, GiveUp, Detach, Leave, Goto, pool, Shortens
<1>. QED BY <1>3, <1>4, <1>5, <1>6, <1>7, <1>8, <1>9 DEF Request, Wakeup

(* ... nor do those of read(2) and write(2).                               *)
LEMMA DeviceShortens ==
  ASSUME TypeInv, NEW d \in Daemons, Device(d)
  PROVE  Shortens
<1>1. /\ d \in Threads /\ pc \in [Threads -> RequesterPcs \cup DaemonPcs]
      /\ freetickets \in Seq(Tickets)
  BY DEF Threads, TypeInv, TypeOK
<1>2. CASE ReadPop(d) \/ ReadCopy(d) \/ ReadShort(d) \/ Pull(d)
  BY <1>1, <1>2 DEF ReadPop, ReadCopy, ReadShort, Pull, DropInvalid, Leave, Goto, pool, Shortens
<1>3. ASSUME NEW m \in inbox, WriteFind(d, m) \/ WriteIgnored(d, m) PROVE Shortens
  BY <1>1, <1>3 DEF WriteFind, WriteIgnored, Goto, pool, Shortens
<1>4. CASE Answer(d)
  BY <1>1, <1>4 DEF Answer, Sleepers, Goto, pool, Shortens
<1>. QED BY <1>2, <1>3, <1>4 DEF Device

(* A step that shortens the list keeps the bound.                          *)
LEMMA ShorterIsBounded ==
  ASSUME TypeInv, TypeOK', Bounded, Shortens
  PROVE  Bounded'
<1>1. IsFiniteSet(Threads) /\ Cardinality(Threads) \in Nat
  BY IpcAssumption, FS_Union, FS_CardinalityType DEF Threads
<1>2. Refreshing' \subseteq Refreshing /\ Refreshing \subseteq Threads
  BY DEF Refreshing, Shortens
<1>3. /\ IsFiniteSet(Refreshing) /\ IsFiniteSet(Refreshing')
      /\ Cardinality(Refreshing') <= Cardinality(Refreshing)
  BY <1>1, <1>2, FS_Subset
<1>4. Cardinality(Refreshing) \in Nat /\ Cardinality(Refreshing') \in Nat
  BY <1>3, FS_CardinalityType
<1>5. Len(freetickets) \in Nat /\ Len(freetickets') \in Nat
  BY DEF TypeInv, TypeOK
<1>6. Cardinality(Refreshing') = Cardinality(Refreshing)'
  OBVIOUS
<1>. QED BY <1>1, <1>3, <1>4, <1>5, IpcAssumption DEF Bounded, Shortens

(* fuse_ticket_drop looks at the length, and then pushes.                  *)
LEMMA DropBounded ==
  ASSUME TypeInv, TypeOK', Bounded, NEW th \in Threads, Drop(th)
  PROVE  Bounded'
<1>1. IsFiniteSet(Threads) /\ Cardinality(Threads) \in Nat
  BY IpcAssumption, FS_Union, FS_CardinalityType DEF Threads
<1>2. /\ Refreshing \subseteq Threads /\ Refreshing' \subseteq Threads
      /\ IsFiniteSet(Refreshing) /\ IsFiniteSet(Refreshing')
      /\ Cardinality(Refreshing') <= Cardinality(Threads)
  <2>1. Refreshing \subseteq Threads /\ Refreshing' \subseteq Threads
    BY DEF Refreshing
  <2>. QED BY <1>1, <2>1, FS_Subset
<1>3. Cardinality(Refreshing) \in Nat /\ Cardinality(Refreshing') \in Nat
  BY <1>2, FS_CardinalityType
<1>4. /\ pc \in [Threads -> RequesterPcs \cup DaemonPcs]
      /\ freetickets \in Seq(Tickets) /\ Len(freetickets) \in Nat
  BY DEF TypeInv, TypeOK
<1>5. CASE DropTicket(th) /\ pc'[th] = "refresh"
  <2>1. freetickets' = freetickets /\ Len(freetickets) < MaxFree
    BY <1>4, <1>5, IpcAssumption DEF DropTicket, ListFull, Leave, Goto, pool
  <2>. QED BY <1>1, <1>2, <1>3, <1>4, <2>1, IpcAssumption DEF Bounded
<1>6. CASE DropTicket(th) /\ pc'[th] # "refresh"
  <2>1. Shortens
    BY <1>4, <1>6 DEF DropTicket, Destroy, Leave, Goto, pool, Shortens
  <2>. QED BY <2>1, ShorterIsBounded
<1>7. CASE PushFree(th)
  <2>1. th \in Refreshing
    BY <1>7 DEF PushFree, Refreshing
  <2>2. Refreshing' = Refreshing \ {th}
    BY <1>4, <1>7 DEF PushFree, Refreshing, Leave, Goto
  <2>3. Cardinality(Refreshing') = Cardinality(Refreshing) - 1
    BY <1>2, <2>1, <2>2, FS_RemoveElement
  <2>4. Len(freetickets') = Len(freetickets) + 1
    <3>1. tick[th] \in Tickets
      BY <1>7 DEF PushFree, TypeInv, InHand
    <3>. QED BY <1>4, <1>7, <3>1 DEF PushFree
  <2>. QED BY <1>1, <1>3, <1>4, <2>3, <2>4, IpcAssumption DEF Bounded
<1>. QED BY <1>5, <1>6, <1>7 DEF Drop

(* fuse_ticket_drop reads the length of the free list before it refreshes  *)
(* the ticket and pushes it: the list exceeds fuse_max_freetickets by less *)
(* than one ticket per thread, whatever ends the session.                  *)
THEOREM FreeListIsBounded ==
  ASSUME Threads # {}
  PROVE  Spec => []FreeListBound
<1>1. IsFiniteSet(Threads) /\ Cardinality(Threads) \in Nat \ {0}
  BY IpcAssumption, FS_Union, FS_CardinalityType, FS_EmptySet DEF Threads
<1>2. ASSUME Init PROVE Bounded
  <2>1. Refreshing = {}
    BY <1>2 DEF Init, Refreshing
  <2>2. Cardinality(Refreshing) = 0
    BY <2>1, FS_EmptySet
  <2>3. (MaxFree = 0 /\ Len(freetickets) = 0) \/ (MaxFree # 0 /\ Len(freetickets) = 1)
    BY <1>2 DEF Init
  <2>4. MaxFree \in Nat
    BY IpcAssumption
  <2>5. Len(freetickets) < MaxFree + Cardinality(Threads)
    <3>. DEFINE c == Cardinality(Threads)  l == Len(freetickets)
    <3>1. c \in Nat /\ c # 0 /\ MaxFree \in Nat
      BY <1>1, <2>4
    <3>2. (MaxFree = 0 /\ l = 0) \/ (MaxFree # 0 /\ l = 1)
      BY <2>3
    <3>. HIDE DEF c, l
    <3>3. l < MaxFree + c
      BY <3>1, <3>2
    <3>. QED BY <3>3 DEF c, l
  <2>6. Len(freetickets) \in Nat
    BY <2>3
  <2>. QED BY <2>2, <2>5, <2>6 DEF Bounded
<1>3. ASSUME TypeInv, Bounded, [Next]_vars PROVE Bounded'
  <2>1. TypeOK'
    BY <1>3, TypeStep DEF TypeInv
  <2>2. ASSUME NEW r \in Requesters, Request(r) \/ Wakeup(r) PROVE Bounded'
    BY <1>3, <2>1, <2>2, RequestShortens, ShorterIsBounded
  <2>3. ASSUME NEW d \in Daemons, Device(d) PROVE Bounded'
    BY <1>3, <2>1, <2>3, DeviceShortens, ShorterIsBounded
  <2>4. ASSUME NEW th \in Threads, Drop(th) PROVE Bounded'
    BY <1>3, <2>1, <2>4, DropBounded
  <2>5. CASE Death \/ UNCHANGED vars
    <3>1. Len(freetickets) \in Nat
      BY <1>3 DEF TypeInv, TypeOK
    <3>2. freetickets' = freetickets
      BY <2>5 DEF Death, Close, Kill, Drain, SetDaemonDead, pool, vars
    <3>3. \A th \in Threads : pc'[th] = pc[th] \/ pc'[th] = "woken"
      BY <2>5 DEF Death, Close, Kill, Drain, SetDaemonDead, vars
    <3>4. Shortens
      BY <3>1, <3>2, <3>3 DEF Shortens
    <3>. QED BY <1>3, <2>1, <3>4, ShorterIsBounded
  <2>. QED BY <1>3, <2>2, <2>3, <2>4, <2>5 DEF Next
<1>4. ASSUME TypeInv, Bounded PROVE FreeListBound
  <2>1. IsFiniteSet(Refreshing)
    BY <1>1, FS_Subset DEF Refreshing
  <2>2. Cardinality(Refreshing) \in Nat /\ Len(freetickets) \in Nat
    BY <1>4, <2>1, FS_CardinalityType DEF TypeInv, TypeOK
  <2>. QED BY <1>1, <1>4, <2>2, IpcAssumption DEF Bounded, FreeListBound
<1>. QED BY <1>2, <1>3, <1>4, TypeInit, TypeStep, PTL DEF Spec
=============================================================================
