------------------------------ MODULE FuseIpc ------------------------------
(***************************************************************************)
(* The request/answer channel between the kernel extension and the user    *)
(* daemon: core/10.5/fusefs/fuse_ipc.c and the read, write and close entry *)
(* points of /dev/fuseN (fuse_device.c).                                   *)
(*                                                                         *)
(* A requester (a thread inside a vnode operation) takes a ticket from the *)
(* free list or allocates one, puts it on the answer queue aw_head and its *)
(* message on the queue ms_head, and sleeps until the daemon's answer, a   *)
(* signal, a timeout or the death of the session.  Daemon threads take     *)
(* messages with read(2) and answer them with write(2), naming a ticket by *)
(* its tk_unique.  Whoever is last to need a ticket must drop it, once.    *)
(*                                                                         *)
(* One step is one critical section of ms_mtx, aw_mtx, ticket_mtx or       *)
(* tk_aw_mtx, or the unlocked code up to the next one.  The session is     *)
(* mounted and initialised: FSESS_INITED is set and stays set.             *)
(***************************************************************************)
EXTENDS Integers, Sequences, FiniteSets, Functions

CONSTANTS
  Requesters,    (* Kernel threads that send requests.                     *)
  Daemons,       (* Daemon threads that read and write the device.         *)
  Tickets,       (* Memory for struct fuse_ticket.  Bounds the model.      *)
  NoTicket,      (* The null ticket pointer.                               *)
  MaxRequests,   (* Requests ever made.  Bounds the model.                 *)
  Kinds,         (* The kinds of request the requesters make.              *)
  MaxFree,       (* fuse_max_freetickets.                                  *)
  MaxTickets,    (* fuse_max_tickets; 0 means no limit.                    *)
  NoAlerts,      (* Whether FSESS_NO_ALERTS is set.                        *)
  DeathCauses,   (* The events that may end the session.                   *)
  Faults,        (* The failures the environment may inject.               *)
  RacyTicketer,  (* Whether two ticketer++ may interleave.                 *)
  ReuseMemory    (* Whether a destroyed ticket's memory may be allocated   *)
                 (* again while a thread still points to it.               *)

(***************************************************************************)
(* "wait": fdisp_wait_answ.  "background": a RELEASE or FSYNC nobody waits *)
(* for.  "forget": an invalidated ticket, which gets no answer.            *)
(***************************************************************************)
AllKinds == {"wait", "background", "forget"}

(***************************************************************************)
(* "close": the daemon exits.  "timeout": daemon_timeout_p is not null.    *)
(* "ioctl": FUSEDEVIOCSETDAEMONDEAD.  "kill": the macfuse.control.kill     *)
(* sysctl.  "shortread": a read(2) with too small a buffer.                *)
(***************************************************************************)
AllCauses == {"close", "timeout", "ioctl", "kill", "shortread"}

(* "signal": a sleeping requester is signalled.  "pull": an answer cannot  *)
(* be copied in.  "copy": a message cannot be copied out.  "make":         *)
(* fdisp_make_canfail gets no memory.                                      *)
AllFaults == {"signal", "pull", "copy", "make"}

ASSUME IpcAssumption ==
  /\ NoTicket \notin Tickets
  /\ Requesters \cap Daemons = {}
  /\ IsFiniteSet(Requesters) /\ IsFiniteSet(Daemons)
  /\ MaxRequests \in Nat /\ MaxFree \in Nat /\ MaxTickets \in Nat
  /\ Kinds \subseteq AllKinds
  /\ DeathCauses \subseteq AllCauses
  /\ Faults \subseteq AllFaults
  /\ NoAlerts \in BOOLEAN
  /\ RacyTicketer \in BOOLEAN /\ ReuseMemory \in BOOLEAN

VARIABLES
  dead,               (* FSESS_DEAD                                        *)
  drain,              (* Who is to empty aw_head: "none", "kill", "close". *)
  closed,             (* ~FSESS_OPENED                                     *)
  timeout_status,
  ticketer,
  deadticket_counter,
  alltickets,         (* alltickets_head, as a set                         *)
  freetickets,        (* freetickets_head; freeticket_counter is its Len   *)
  ms_head,            (* messages the daemon has not read                  *)
  aw_head,            (* tickets that await an answer, as a set            *)
  tk,                 (* the fields of every ticket                        *)
  pc,                 (* where every thread is                             *)
  tick,               (* the ticket every thread works on                  *)
  req,                (* the request every requester makes, and its kind   *)
  mark,               (* a value read earlier: ticketer, or tk_age         *)
  nreq,               (* requests made so far                              *)
  inbox,              (* messages the daemon has read and not answered     *)
  replies,            (* the requests it has answered (history)            *)
  panicked            (* the kernel has panicked                           *)

session == <<dead, drain, closed, timeout_status>>
pool    == <<ticketer, deadticket_counter, alltickets, freetickets>>
queues  == <<ms_head, aw_head>>
work    == <<tick, req>>
locals  == <<mark, nreq>>
daemon  == <<inbox, replies>>
vars    == <<session, pool, queues, tk, pc, work, locals, daemon, panicked>>

Threads   == Requesters \cup Daemons
Requests  == 1..MaxRequests
NoRequest == [id |-> 0, kind |-> "wait"]

(* What fticket_alloc leaves in a new ticket; unique is its number.        *)
NewTicket(unique) ==
  [unique |-> unique, age |-> 0, flag |-> {}, handler |-> "none",
   ms |-> 0, resp |-> 0, error |-> FALSE, errno |-> FALSE]

(* Slip: tk_flag is not cleared.                                           *)
RefreshedButFlags(k) ==
  [NewTicket(k.unique) EXCEPT !.age = k.age + 1, !.handler = k.handler,
                              !.flag = k.flag]

(* fticket_refresh: everything but the number and the handler is cleared.  *)
Refreshed(k) ==
  [NewTicket(k.unique) EXCEPT !.age = k.age + 1, !.handler = k.handler]

Answered(t)   == "ANSW" \in tk[t].flag
Invalid(t)    == "INVAL" \in tk[t].flag
SetFlag(k, f) == [k EXCEPT !.flag = @ \cup {f}]

(* The message of request q; a FORGET is invalidated.                      *)
Filled(k, q) ==
  [IF q.kind = "forget" THEN SetFlag(k, "INVAL") ELSE k EXCEPT !.ms = q.id]

WithHandler(k, h) == [k EXCEPT !.handler = h]

(* tk_aw_ohead, and answered with tk_aw_errno.                             *)
WithReply(k, q, e) == [k EXCEPT !.resp = q, !.error = e]
Settled(k, err)    == [SetFlag(k, "ANSW") EXCEPT !.errno = err]

(* Slip: the answer wakes nobody.                                          *)
NoSleepers(t) == {}

(* The requesters sleeping on channel t, which wakeup(t) wakes.            *)
Sleepers(t) == {r \in Requesters : pc[r] = "sleep" /\ tick[r] = t}

(* tk_aw_mtx of t is held from one step to another only while the requester*)
(* handles a timeout.                                                      *)
MutexFree(t) ==
  \A r \in Requesters : pc[r] \in {"alert", "eject"} => tick[r] # t

(* Memory OSMalloc may return.                                             *)
Unallocated(t) ==
  /\ t \in Tickets \ alltickets
  /\ ReuseMemory \/ \A th \in Threads : tick[th] # t

Goto(th, to) == pc' = [pc EXCEPT ![th] = to]

(* The thread is done with its ticket, and a requester with its request.   *)
Leave(th) ==
  /\ Goto(th, "idle")
  /\ tick' = [tick EXCEPT ![th] = NoTicket]
  /\ req' = [r \in Requesters |-> IF r = th THEN NoRequest ELSE req[r]]

-----------------------------------------------------------------------------
(* The handshake's own ticket, number 0, has been dropped again.           *)
Init ==
  /\ dead = FALSE /\ drain = "none" /\ closed = FALSE
  /\ timeout_status = "none"
  /\ ticketer = 1
  /\ \E t \in Tickets :
       IF MaxFree = 0
       THEN /\ alltickets = {} /\ freetickets = <<>>
            /\ deadticket_counter = 1
       ELSE /\ alltickets = {t} /\ freetickets = <<t>>
            /\ deadticket_counter = 0
  /\ tk = [t \in Tickets |-> NewTicket(0)]
  /\ ms_head = <<>> /\ aw_head = {}
  /\ pc = [th \in Threads |-> "idle"]
  /\ tick = [th \in Threads |-> NoTicket]
  /\ req = [r \in Requesters |-> NoRequest]
  /\ mark = [r \in Requesters |-> 0]
  /\ nreq = 0 /\ inbox = {} /\ replies = {} /\ panicked = FALSE

-----------------------------------------------------------------------------
(* Making a request.                                                       *)

(* A vnode operation starts: it has seen that the session is not dead.     *)
Begin(r, k) ==
  /\ pc[r] = "idle" /\ ~dead
  /\ nreq < MaxRequests
  /\ nreq' = nreq + 1
  /\ req' = [req EXCEPT ![r] = [id |-> nreq + 1, kind |-> k]]
  /\ Goto(r, "fetch")
  /\ UNCHANGED <<session, pool, queues, tk, tick, mark, daemon, panicked>>

(* More tickets than fuse_max_tickets: the difference is unsigned.         *)
OverLimit(issued, gone) ==
  MaxTickets # 0 /\ (issued < gone \/ issued - gone > MaxTickets)

(* fuse_ticket_fetch finds a free ticket.                                  *)
FetchFree(r) ==
  /\ pc[r] = "fetch" /\ freetickets # <<>>
  /\ tick' = [tick EXCEPT ![r] = Head(freetickets)]
  /\ freetickets' = Tail(freetickets)
  /\ Goto(r, IF OverLimit(ticketer, deadticket_counter)
             THEN "overlimit" ELSE "make")
  /\ UNCHANGED <<session, ticketer, deadticket_counter, alltickets, queues,
                 tk, req, locals, daemon, panicked>>

(* It finds none, releases ticket_mtx and goes to fticket_alloc, which     *)
(* reads ticketer.                                                         *)
FetchNone(r) ==
  /\ pc[r] = "fetch" /\ freetickets = <<>>
  /\ mark' = [mark EXCEPT ![r] = IF RacyTicketer THEN ticketer ELSE 0]
  /\ Goto(r, "alloc")
  /\ UNCHANGED <<session, pool, queues, tk, work, nreq, daemon,
                 panicked>>

(* fticket_alloc writes ticketer + 1; the ticket joins alltickets_head.    *)
AllocTicket(r) ==
  /\ pc[r] = "alloc"
  /\ \E t \in Tickets :
       LET unique == IF RacyTicketer THEN mark[r] ELSE ticketer
       IN  /\ Unallocated(t)
           /\ tk' = [tk EXCEPT ![t] = NewTicket(unique)]
           /\ ticketer' = unique + 1
           /\ alltickets' = alltickets \cup {t}
           /\ tick' = [tick EXCEPT ![r] = t]
           /\ Goto(r, IF OverLimit(unique + 1, deadticket_counter)
                      THEN "overlimit" ELSE "make")
  /\ UNCHANGED <<session, deadticket_counter, freetickets, queues, req,
                 locals, daemon, panicked>>

(* The ticket is handed out all the same, but the session is dead.         *)
FetchOverLimit(r) ==
  /\ pc[r] = "overlimit"
  /\ dead' = TRUE
  /\ Goto(r, "make")
  /\ UNCHANGED <<drain, closed, timeout_status, pool, queues, tk, work,
                 locals, daemon, panicked>>

(* fdisp_make fills in the message; fticket_invalidate for a FORGET.       *)
MakeMessage(r) ==
  /\ pc[r] = "make"
  /\ tk' = [tk EXCEPT ![tick[r]] = Filled(@, req[r])]
  /\ Goto(r, IF req[r].kind = "forget" THEN "message" ELSE "callback")
  /\ UNCHANGED <<session, pool, queues, work, locals, daemon, panicked>>

(* Slip: deadticket_counter counts down.                                   *)
DestroyCountsDown(t) ==
  /\ alltickets' = alltickets \ {t}
  /\ deadticket_counter' = deadticket_counter - 1
  /\ tk' = [tk EXCEPT ![t] = NewTicket(0)]
  /\ UNCHANGED <<ticketer, freetickets>>

(* fuse_remove_allticks and fticket_destroy.                               *)
Destroy(t) ==
  /\ alltickets' = alltickets \ {t}
  /\ deadticket_counter' = deadticket_counter + 1
  /\ tk' = [tk EXCEPT ![t] = NewTicket(0)]
  /\ UNCHANGED <<ticketer, freetickets>>

(* fdisp_make_canfail gets no memory and kills its ticket.                 *)
MakeFails(r) ==
  /\ "make" \in Faults
  /\ pc[r] = "make" /\ req[r].kind = "wait"
  /\ Destroy(tick[r])
  /\ Leave(r)
  /\ UNCHANGED <<session, queues, locals, daemon, panicked>>

(* fuse_insert_callback: a dead session takes no more callbacks ...        *)
InsertCallback(r) ==
  /\ pc[r] = "callback"
  /\ IF dead
     THEN Goto(r, "message") /\ UNCHANGED tk
     ELSE /\ \E h \in IF req[r].kind = "wait" THEN {"standard"}
                      ELSE {"none", "callback"} :
               tk' = [tk EXCEPT ![tick[r]] = WithHandler(@, h)]
          /\ Goto(r, "push_aw")
  /\ UNCHANGED <<session, pool, queues, work, locals, daemon, panicked>>

(* ... but looks before it has aw_mtx.                                     *)
PushAw(r) ==
  /\ pc[r] = "push_aw"
  /\ aw_head' = aw_head \cup {tick[r]}
  /\ Goto(r, "message")
  /\ UNCHANGED <<session, pool, ms_head, tk, work, locals, daemon, panicked>>

(* What follows the message: fdisp_wait_answ waits, the others leave.      *)
Sent(r) ==
  IF req[r].kind = "wait" THEN Goto(r, "wait") /\ UNCHANGED work ELSE Leave(r)

(* fuse_insert_message: the panic, FT_DIRTY, and the look at the session.  *)
InsertMessage(r) ==
  /\ pc[r] = "message"
  /\ panicked' = ("DIRTY" \in tk[tick[r]].flag)
  /\ tk' = [tk EXCEPT ![tick[r]] = SetFlag(@, "DIRTY")]
  /\ IF dead THEN Sent(r) ELSE Goto(r, "push_ms") /\ UNCHANGED work
  /\ UNCHANGED <<session, pool, queues, locals, daemon>>

PushMs(r) ==
  /\ pc[r] = "push_ms"
  /\ ms_head' = Append(ms_head, tick[r])
  /\ Sent(r)
  /\ UNCHANGED <<session, pool, aw_head, tk, locals, daemon, panicked>>

-----------------------------------------------------------------------------
(* Waiting for the answer: fticket_wait_answer.                            *)

(* Slip: the session is not looked at before sleeping.                     *)
WaitBlindly(r) ==
  /\ pc[r] = "wait" /\ MutexFree(tick[r])
  /\ Goto(r, IF Answered(tick[r]) THEN "woken" ELSE "sleep")
  /\ UNCHANGED <<session, pool, queues, tk, work, locals, daemon, panicked>>

(* Answered already; or dead, ENOTCONN; or asleep on the ticket.           *)
Wait(r) ==
  /\ pc[r] = "wait" /\ MutexFree(tick[r])
  /\ \/ /\ Answered(tick[r])
        /\ Goto(r, "woken") /\ UNCHANGED tk
     \/ /\ ~Answered(tick[r]) /\ dead
        /\ tk' = [tk EXCEPT ![tick[r]] = SetFlag(@, "ANSW")]
        /\ Goto(r, "post")
     \/ /\ ~Answered(tick[r]) /\ ~dead
        /\ Goto(r, "sleep") /\ UNCHANGED tk
  /\ UNCHANGED <<session, pool, queues, work, locals, daemon, panicked>>

(* msleep returns EINTR: fuse_internal_interrupt_send fetches a ticket for *)
(* an INTERRUPT, which gets no answer, and queues it unless dead.          *)
Interrupted(r) ==
  /\ "signal" \in Faults
  /\ pc[r] = "sleep" /\ MutexFree(tick[r])
  /\ \E t \in Tickets :
       /\ \/ /\ freetickets # <<>> /\ t = Head(freetickets)
             /\ freetickets' = Tail(freetickets)
             /\ tk' = [tk EXCEPT ![t] = SetFlag(SetFlag(@, "INVAL"), "DIRTY")]
             /\ panicked' = ("DIRTY" \in tk[t].flag)
             /\ UNCHANGED <<ticketer, alltickets>>
          \/ /\ freetickets = <<>> /\ Unallocated(t)
             /\ alltickets' = alltickets \cup {t}
             /\ ticketer' = ticketer + 1
             /\ tk' = [tk EXCEPT ![t] =
                          SetFlag(SetFlag(NewTicket(ticketer), "INVAL"), "DIRTY")]
             /\ UNCHANGED <<freetickets, panicked>>
       /\ dead' = (dead \/ OverLimit(ticketer', deadticket_counter))
       /\ ms_head' = IF dead' THEN ms_head ELSE Append(ms_head, t)
  /\ Goto(r, "post")
  /\ UNCHANGED <<drain, closed, timeout_status, deadticket_counter, aw_head,
                 work, locals, daemon>>

(* msleep returns ERESTART, which the code does not treat as EINTR.        *)
Restarted(r) ==
  /\ "signal" \in Faults
  /\ pc[r] = "sleep" /\ MutexFree(tick[r])
  /\ Goto(r, "post")
  /\ UNCHANGED <<session, pool, queues, tk, work, locals, daemon, panicked>>

(* Slip: a volume found dead is waited for again.                          *)
EjectsQuietly == NoAlerts

(* No alert is to be shown, or the volume has been ejected.                *)
EjectsAtOnce == NoAlerts \/ timeout_status = "dead"

(* msleep returns EAGAIN after daemon_timeout.  While another requester    *)
(* shows the alert (PROCESSING) this one sleeps again: no step.            *)
Timeout(r) ==
  /\ "timeout" \in DeathCauses
  /\ pc[r] = "sleep" /\ MutexFree(tick[r])
  /\ \/ /\ EjectsAtOnce
        /\ timeout_status' = "dead" /\ Goto(r, "eject")
     \/ /\ ~NoAlerts /\ timeout_status = "none"
        /\ timeout_status' = "processing" /\ Goto(r, "alert")
  /\ UNCHANGED <<dead, drain, closed, pool, queues, tk, work, locals, daemon,
                 panicked>>

(* Without KUNC no alert can be shown: force ejection.                     *)
Alert(r) ==
  /\ pc[r] = "alert"
  /\ timeout_status' = "dead"
  /\ Goto(r, "eject")
  /\ UNCHANGED <<dead, drain, closed, pool, queues, tk, work, locals, daemon,
                 panicked>>

(* alreadydead: the session dies and the ticket is marked answered.        *)
Eject(r) ==
  /\ pc[r] = "eject"
  /\ dead' = TRUE
  /\ tk' = [tk EXCEPT ![tick[r]] = SetFlag(@, "ANSW")]
  /\ Goto(r, "post")
  /\ UNCHANGED <<drain, closed, timeout_status, pool, queues, work, locals,
                 daemon, panicked>>

-----------------------------------------------------------------------------
(* After the wait: fdisp_wait_answ.                                        *)

(* Woken or answered before it slept.  No answer is ENXIO; tk_aw_errno     *)
(* (EIO) and the daemon's own error end the request; anything else is an   *)
(* answer to read.                                                         *)
Woken(r) ==
  /\ pc[r] = "woken" /\ MutexFree(tick[r])
  /\ Goto(r, IF ~Answered(tick[r]) THEN "post"
             ELSE IF tk[tick[r]].errno \/ tk[tick[r]].error
                  THEN "drop" ELSE "use")
  /\ UNCHANGED <<session, pool, queues, tk, work, locals, daemon, panicked>>

(* The caller has read the answer and drops the ticket.                    *)
UseAnswer(r) ==
  /\ pc[r] = "use"
  /\ Goto(r, "drop")
  /\ UNCHANGED <<session, pool, queues, tk, work, locals, daemon, panicked>>

(* Slip: the requester drops its ticket though it still awaits an answer.  *)
RequesterAlwaysDrops(t) == TRUE

(* fdisp_wait_answ finds the ticket answered by somebody else.             *)
RequesterDrops(t) == Answered(t)

(* The wait failed.  If the ticket is answered the requester drops it;     *)
(* otherwise it leaves it to whoever brings the answer.                    *)
GiveUp(r) ==
  /\ pc[r] = "post" /\ MutexFree(tick[r])
  /\ IF RequesterDrops(tick[r])
     THEN Goto(r, "drop") /\ UNCHANGED <<tk, mark>>
     ELSE /\ mark' = [mark EXCEPT ![r] = tk[tick[r]].age]
          /\ tk' = [tk EXCEPT ![tick[r]] = SetFlag(@, "ANSW")]
          /\ Goto(r, "detach")
  /\ UNCHANGED <<session, pool, queues, work, nreq, daemon,
                 panicked>>

(* Slip: tk_age is not compared.                                           *)
DisarmsAnyAge(r) == tick[r] \in aw_head

(* The ticket still waits, and for this requester: its age has not changed.*)
Disarms(r) == tick[r] \in aw_head /\ tk[tick[r]].age = mark[r]

(* "Succeeded preventing I/O in vain": the answer is not to be read in.    *)
Detach(r) ==
  /\ pc[r] = "detach"
  /\ tk' = IF Disarms(r)
           THEN [tk EXCEPT ![tick[r]] = WithHandler(@, "none")] ELSE tk
  /\ mark' = [mark EXCEPT ![r] = 0]
  /\ Leave(r)
  /\ UNCHANGED <<session, pool, queues, nreq, daemon, panicked>>

(* The free list has reached fuse_max_freetickets.                         *)
ListFull(n) == MaxFree <= n

(* fuse_ticket_drop: destroyed when the free list is full or the ticket is *)
(* marked FT_KILLL ...                                                     *)
DropTicket(th) ==
  /\ pc[th] = "drop"
  /\ IF ListFull(Len(freetickets)) \/ "KILLL" \in tk[tick[th]].flag
     THEN Destroy(tick[th]) /\ Leave(th)
     ELSE Goto(th, "refresh") /\ UNCHANGED <<pool, tk, work>>
  /\ UNCHANGED <<session, queues, locals, daemon, panicked>>

(* ... otherwise refreshed without ticket_mtx, then pushed.                *)
PushFree(th) ==
  /\ pc[th] = "refresh"
  /\ tk' = [tk EXCEPT ![tick[th]] = Refreshed(@)]
  /\ freetickets' = Append(freetickets, tick[th])
  /\ Leave(th)
  /\ UNCHANGED <<session, ticketer, deadticket_counter, alltickets, queues,
                 locals, daemon, panicked>>

-----------------------------------------------------------------------------
(* The daemon's side: fuse_device_read and fuse_device_write.              *)

(* A reader pops a message; on a dead session it gets ENODEV instead.      *)
ReadPop(d) ==
  /\ pc[d] = "idle" /\ ~closed
  /\ ~dead /\ ms_head # <<>>
  /\ tick' = [tick EXCEPT ![d] = Head(ms_head)]
  /\ ms_head' = Tail(ms_head)
  /\ Goto(d, "copy")
  /\ UNCHANGED <<session, pool, aw_head, tk, req, locals, daemon, panicked>>

(* Slips: the reader drops every ticket, or none.                          *)
DropsEvery(t) == TRUE
DropsNone(t) == FALSE

(* The reader is the last to need an invalidated ticket.                   *)
DropsInvalid(t) == Invalid(t)

(* fuse_ticket_drop_invalid, or leave.                                     *)
DropInvalid(d) ==
  IF DropsInvalid(tick[d]) THEN Goto(d, "drop") /\ UNCHANGED work
  ELSE Leave(d)

(* The message of an invalidated ticket is never answered.                 *)
Received(t) ==
  IF Invalid(t) THEN {}
  ELSE {[unique |-> tk[t].unique, req |-> tk[t].ms]}

(* The message is copied out with ms_mtx released.  It is lost if the      *)
(* session died, or if uiomove fails.  For an answered ticket the read     *)
(* fails with EINTR after the copy; whether the daemon sees the bytes is up*)
(* to the read(2) above.                                                   *)
ReadCopy(d) ==
  /\ pc[d] = "copy"
  /\ \/ /\ dead /\ UNCHANGED inbox
     \/ /\ ~dead
        /\ inbox' = inbox \cup Received(tick[d])
     \/ /\ ~dead /\ (Answered(tick[d]) \/ "copy" \in Faults)
        /\ UNCHANGED inbox
  /\ DropInvalid(d)
  /\ UNCHANGED <<session, pool, queues, tk, locals, replies, panicked>>

(* The reader's buffer is too small: ENODEV, and FSESS_DEAD by hand.       *)
ReadShort(d) ==
  /\ "shortread" \in DeathCauses
  /\ pc[d] = "copy" /\ ~dead
  /\ dead' = TRUE
  /\ DropInvalid(d)
  /\ UNCHANGED <<drain, closed, timeout_status, pool, queues, tk, locals,
                 daemon, panicked>>

(* Slip: the answer goes to any ticket that waits.                         *)
MatchesAny(t, m) == TRUE

(* The answer to m names this ticket.                                      *)
Matches(t, m) == tk[t].unique = m.unique

(* A writer answers message m, but no ticket waits for it.                 *)
WriteIgnored(d, m) ==
  /\ pc[d] = "idle" /\ ~closed
  /\ m \in inbox
  /\ \A t \in aw_head : ~Matches(t, m)
  /\ inbox' = inbox \ {m}
  /\ replies' = replies \cup {m.req}
  /\ UNCHANGED <<session, pool, queues, tk, pc, work, locals, panicked>>

(* A ticket does: it leaves aw_head and is dropped, or has its handler     *)
(* called.                                                                 *)
WriteFind(d, m) ==
  /\ pc[d] = "idle" /\ ~closed
  /\ m \in inbox
  /\ inbox' = inbox \ {m}
  /\ replies' = replies \cup {m.req}
  /\ \E t \in aw_head :
       /\ Matches(t, m)
       /\ aw_head' = aw_head \ {t}
       /\ tick' = [tick EXCEPT ![d] = t]
       /\ IF tk[t].handler = "none" THEN UNCHANGED tk
          ELSE \E e \in BOOLEAN :
                 tk' = [tk EXCEPT ![t] = WithReply(@, m.req, e)]
       /\ Goto(d, IF tk[t].handler = "standard" THEN "pull" ELSE "drop")
  /\ UNCHANGED <<session, pool, ms_head, req, locals, panicked>>

(* fticket_pull, without a lock: an error has no body to copy in;          *)
(* fuse_body_audit refuses a dead session; a failed allocation also marks  *)
(* the ticket FT_KILLL.                                                    *)
Pull(d) ==
  /\ pc[d] = "pull"
  /\ \/ /\ ~dead \/ tk[tick[d]].error
        /\ Goto(d, "answer") /\ UNCHANGED tk
     \/ /\ dead /\ ~tk[tick[d]].error
        /\ Goto(d, "answer_error") /\ UNCHANGED tk
     \/ /\ ~dead /\ ~tk[tick[d]].error /\ "pull" \in Faults
        /\ Goto(d, "answer_error")
        /\ \/ tk' = [tk EXCEPT ![tick[d]] = SetFlag(@, "KILLL")]
           \/ UNCHANGED tk
  /\ UNCHANGED <<session, pool, queues, work, locals, daemon, panicked>>

(* Slip: the handler never drops the ticket.                               *)
RequesterNeverGone(t) == FALSE

(* The requester has given up and left its ticket to the handler.          *)
RequesterGone(t) == Answered(t)

(* The end of fuse_standard_handler: drop the ticket, or wake the          *)
(* requester.                                                              *)
Answer(d) ==
  LET t == tick[d]
  IN  /\ pc[d] \in {"answer", "answer_error"} /\ MutexFree(t)
      /\ IF RequesterGone(t)
         THEN Goto(d, "drop") /\ UNCHANGED <<tk, work>>
         ELSE /\ tk' = [tk EXCEPT ![t] =
                          Settled(@, pc[d] = "answer_error")]
              /\ pc' = [th \in Threads |->
                          IF th \in Sleepers(t) THEN "woken"
                          ELSE IF th = d THEN "idle" ELSE pc[th]]
              /\ tick' = [tick EXCEPT ![d] = NoTicket]
              /\ UNCHANGED req
  /\ UNCHANGED <<session, pool, queues, locals, daemon, panicked>>

-----------------------------------------------------------------------------
(* The end of the session.                                                 *)

(* fuse_device_close: no read or write is in progress.  First the session  *)
(* dies; the mount is still there, so aw_head is to be emptied.            *)
Close ==
  /\ "close" \in DeathCauses
  /\ ~closed /\ drain = "none"
  /\ \A d \in Daemons : pc[d] = "idle"
  /\ dead' = TRUE /\ drain' = "close" /\ closed' = TRUE
  /\ inbox' = {}
  /\ UNCHANGED <<timeout_status, pool, queues, tk, pc, work, locals,
                 replies, panicked>>

(* fuse_device_kill by the administrator, the daemon still running.        *)
Kill ==
  /\ "kill" \in DeathCauses
  /\ drain = "none"
  /\ dead' = TRUE /\ drain' = "kill"
  /\ UNCHANGED <<closed, timeout_status, pool, queues, tk, pc, work, locals,
                 daemon, panicked>>

(* Then every waiting ticket is marked answered and its requester woken.   *)
Drain ==
  /\ drain # "none"
  /\ \A t \in aw_head : MutexFree(t)
  /\ tk' = [t \in Tickets |->
              IF t \in aw_head THEN Settled(tk[t], TRUE) ELSE tk[t]]
  /\ pc' = [th \in Threads |->
              IF \E t \in aw_head : th \in Sleepers(t) THEN "woken"
              ELSE pc[th]]
  /\ aw_head' = {} /\ drain' = "none"
  /\ UNCHANGED <<dead, closed, timeout_status, pool, ms_head, work, locals,
                 daemon, panicked>>

(* FUSEDEVIOCSETDAEMONDEAD: nobody is woken.                               *)
SetDaemonDead ==
  /\ "ioctl" \in DeathCauses
  /\ ~closed /\ drain = "none"
  /\ dead' = TRUE /\ timeout_status' = "dead"
  /\ UNCHANGED <<drain, closed, pool, queues, tk, pc, work, locals, daemon,
                 panicked>>

-----------------------------------------------------------------------------
Request(r) ==
  \/ \E k \in Kinds : Begin(r, k)
  \/ FetchFree(r) \/ FetchNone(r) \/ AllocTicket(r) \/ FetchOverLimit(r)
  \/ MakeMessage(r) \/ MakeFails(r)
  \/ InsertCallback(r) \/ PushAw(r) \/ InsertMessage(r) \/ PushMs(r)

Wakeup(r) ==
  \/ Wait(r) \/ Interrupted(r) \/ Restarted(r)
  \/ Timeout(r) \/ Alert(r) \/ Eject(r)
  \/ Woken(r) \/ UseAnswer(r) \/ GiveUp(r) \/ Detach(r)

Drop(th) == DropTicket(th) \/ PushFree(th)

Device(d) ==
  \/ ReadPop(d) \/ ReadCopy(d) \/ ReadShort(d)
  \/ \E m \in inbox : WriteFind(d, m) \/ WriteIgnored(d, m)
  \/ Pull(d) \/ Answer(d)

Death == Close \/ Kill \/ Drain \/ SetDaemonDead

Next ==
  /\ ~panicked
  /\ \/ \E r \in Requesters : Request(r) \/ Wakeup(r)
     \/ \E th \in Threads : Drop(th)
     \/ \E d \in Daemons : Device(d)
     \/ Death

Spec == Init /\ [][Next]_vars

-----------------------------------------------------------------------------
RequesterPcs ==
  {"idle", "fetch", "alloc", "overlimit", "make", "callback", "push_aw",
   "message", "push_ms", "wait", "sleep", "alert", "eject", "woken", "post",
   "detach", "use", "drop", "refresh"}
DaemonPcs ==
  {"idle", "copy", "pull", "answer", "answer_error", "drop", "refresh"}

Flags == {"ANSW", "INVAL", "DIRTY", "KILLL"}

Ticket ==
  [unique : Nat, age : Nat, flag : SUBSET Flags,
   handler : {"none", "standard", "callback"},
   ms : 0..MaxRequests, resp : 0..MaxRequests, error : BOOLEAN,
   errno : BOOLEAN]

(* Every variable has its type.                                            *)
TypeOK ==
  /\ dead \in BOOLEAN /\ closed \in BOOLEAN
  /\ drain \in {"none", "kill", "close"}
  /\ timeout_status \in {"none", "processing", "dead"}
  /\ ticketer \in Nat /\ deadticket_counter \in Nat
  /\ alltickets \subseteq Tickets
  /\ freetickets \in Seq(Tickets)
  /\ ms_head \in Seq(Tickets) /\ aw_head \subseteq Tickets
  /\ tk \in [Tickets -> Ticket]
  /\ pc \in [Threads -> RequesterPcs \cup DaemonPcs]
  /\ tick \in [Threads -> Tickets \cup {NoTicket}]
  /\ req \in [Requesters -> [id : 0..MaxRequests, kind : AllKinds]]
  /\ mark \in [Requesters -> Nat]
  /\ nreq \in 0..MaxRequests
  /\ inbox \subseteq [unique : Nat, req : 0..MaxRequests]
  /\ replies \subseteq 0..MaxRequests
  /\ panicked \in BOOLEAN

(* The requester whose caller reads an answer (fdip->answ) reads the answer*)
(* to its own request, however tickets were reused since it was sent.      *)
OwnAnswer ==
  \A r \in Requesters : pc[r] = "use" => tk[tick[r]].resp = req[r].id

(* fuse_insert_message never panics: a ticket is refreshed between two     *)
(* uses ("ticket reused without being refreshed").                         *)
NoReuseUnrefreshed == ~panicked

(* The thread may still read and write the ticket it points to.            *)
Holds(th) == tick[th] # NoTicket /\ pc[th] # "detach"

(* A ticket on the free list is on it once, exists, and belongs to nobody; *)
(* in a live session it is also clean and on no other queue.  After the    *)
(* death of the session fuse_device_close may still find it on aw_head.    *)
FreeListSound ==
  /\ IsInjective(freetickets)
  /\ \A t \in Range(freetickets) :
       /\ t \in alltickets
       /\ \A th \in Threads : Holds(th) => tick[th] # t
       /\ ~dead => tk[t].flag = {} /\ t \notin aw_head /\ t \notin Range(ms_head)

(* fuse_ticket_drop reads freeticket_counter before it refreshes and pushes*)
(* under the lock again: every thread may overshoot the limit, by one.     *)
FreeListBound == Len(freetickets) < MaxFree + Cardinality(Threads)

(* A message the daemon has read names, by tk_unique, one ticket only, and *)
(* that ticket is still the request's and still waits: no ticket is        *)
(* recycled while the daemon owes it an answer.                            *)
UniqueReserved ==
  ~dead => \A m \in inbox : \E t \in aw_head :
    /\ tk[t].ms = m.req
    /\ {u \in alltickets : tk[u].unique = m.unique} = {t}

(* No ticket of a live session is lost: it is free, waits for an answer,   *)
(* waits to be read and dropped, or is in some thread's hands.             *)
NoLeak ==
  ~dead => \A t \in alltickets :
    \/ t \in Range(freetickets)
    \/ t \in aw_head
    \/ t \in Range(ms_head) /\ Invalid(t)
    \/ \E th \in Threads : Holds(th) /\ tick[th] = t

(* No requester sleeps on a ticket that has been answered.                 *)
NoLostWakeup ==
  \A r \in Requesters : pc[r] = "sleep" => ~Answered(tick[r])

(* A requester that gives up disarms the handler of its own request only:  *)
(* the look at tk_age recognises a ticket that was recycled meanwhile.  (In*)
(* a dead session it may look at a ticket already destroyed.)              *)
DisarmsOwnRequest ==
  [][\A r \in Requesters :
       pc[r] = "detach" /\ pc'[r] # "detach" /\ tk' # tk /\ tick[r] \in alltickets
         => tk[tick[r]].ms = req[r].id]_vars

-----------------------------------------------------------------------------
(* Fairness.  Code that runs in the kernel goes on until it sleeps; a      *)
(* blocked lock is eventually granted.  No signal, timeout, failure or     *)
(* death is bound to happen.                                               *)
Step(A) == ~panicked /\ A

RunsOn(th) ==
  IF th \in Requesters
  THEN \/ FetchFree(th) \/ FetchNone(th) \/ AllocTicket(th) \/ FetchOverLimit(th)
       \/ MakeMessage(th) \/ MakeFails(th)
       \/ InsertCallback(th) \/ PushAw(th) \/ InsertMessage(th) \/ PushMs(th)
       \/ Wait(th) \/ Alert(th) \/ Eject(th)
       \/ Woken(th) \/ UseAnswer(th) \/ GiveUp(th) \/ Detach(th) \/ Drop(th)
  ELSE ReadCopy(th) \/ Pull(th) \/ Answer(th) \/ Drop(th)

KernelRuns ==
  /\ \A th \in Threads : WF_vars(Step(RunsOn(th)))
  /\ WF_vars(Step(Drain))

(* The daemon reads what there is to read and answers what it has read.    *)
DaemonRuns ==
  /\ WF_vars(Step(\E d \in Daemons : ReadPop(d)))
  /\ \A q \in Requests :
       WF_vars(Step(\E d \in Daemons, m \in inbox :
                      m.req = q /\ (WriteFind(d, m) \/ WriteIgnored(d, m))))

(* msleep times out.                                                       *)
TimersRun == \A r \in Requesters : WF_vars(Step(Timeout(r)))

KernelSpec == Spec /\ KernelRuns

(* Every request comes to an end ...                                       *)
EveryRequestReturns ==
  \A r \in Requesters : pc[r] # "idle" ~> pc[r] = "idle"

(* ... if the session lives and the daemon reads and answers ...           *)
RequestsAreServed == DaemonRuns /\ []~dead => EveryRequestReturns

(* ... and if it does not, because daemon_timeout ejects the volume.       *)
RequestsEndInTime == TimersRun => EveryRequestReturns

(* Closing the device releases every requester, though the daemon never    *)
(* answers anything again.                                                 *)
DrainReleasesAll ==
  drain # "none" ~> \A r \in Requesters : pc[r] = "idle"
=============================================================================
