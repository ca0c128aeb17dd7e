----------------------------- MODULE HNodeTable -----------------------------
(***************************************************************************)
(* The hash of the vnodes, core/10.5/fusefs/fuse_nodehash.c, and those who *)
(* use it: FSNodeGetOrCreateFileVNodeByID (fuse_node.c), which turns an    *)
(* inode number from the daemon into a vnode, fuse_vnop_reclaim, and the   *)
(* ioctl that looks a vnode up if it exists.                               *)
(*                                                                         *)
(* An HNode stands for an inode and holds its vnodes, one per fork.  What  *)
(* gHashMutex protects is one step; the steps end where the mutex is       *)
(* released: around allocation, vnode_create, vnode_getwithvid and msleep. *)
(* With BigLock, as on 64 bits, every vnode operation also holds the big   *)
(* lock of the mount, which it releases around vnode_create only.          *)
(*                                                                         *)
(* The kernel's vnodes are external: a vnode is memory that is used again, *)
(* with another v_id, and vnode_getwithvid waits while one is reclaimed.   *)
(***************************************************************************)
EXTENDS Integers, FiniteSets

CONSTANTS
  Threads,
  Inodes,
  LastFork,   (* The last fork index; the file system asks for fork 0.     *)
  Nodes,      (* Memory for HNodes.                                        *)
  Vnodes,     (* Memory for vnodes.                                        *)
  NULL,
  MaxVid,     (* How often the memory of a vnode is used.  A bound.        *)
  BigLock     (* Whether vnode operations take the big lock.               *)

Forks == 0..LastFork

ASSUME HNodeAssumption ==
  /\ LastFork \in Nat /\ MaxVid \in Nat
  /\ NULL \notin Threads \cup Inodes \cup Nodes \cup Vnodes
  /\ BigLock \in BOOLEAN

VARIABLES
  node,     (* Memory -> an HNode.                                         *)
  table,    (* The HNodes in gHashTable.                                   *)
  count,    (* gHashNodeCount.                                             *)
  vnode,    (* Memory -> a vnode.                                          *)
  biglock,  (* The thread that holds the big lock, or NULL.                *)
  pc,       (* Thread -> where it is.                                      *)
  local     (* Thread -> its local variables.                              *)

vars == <<node, table, count, vnode, biglock, pc, local>>

HNode ==
  [allocated : BOOLEAN, ino : Inodes \cup {NULL},
   attachOutstanding : BOOLEAN, waiting : BOOLEAN,
   forkVNodesSize : Nat, forkVNodesCount : Int,
   forkVNodes : [Forks -> Vnodes \cup {NULL}]]

(* state: "free" memory, "live", or "reclaim" while it is being reclaimed. *)
(* fsnode: its HNode.  uses: the threads that hold an iocount.             *)
Vnode ==
  [state : {"free", "live", "reclaim"}, vid : Nat,
   fsnode : Nodes \cup {NULL}, uses : SUBSET Threads]

Local ==
  [ino : Inodes \cup {NULL}, fork : Forks, newNode : Nodes \cup {NULL},
   newForkBuffer : BOOLEAN, thisNode : Nodes \cup {NULL},
   vn : Vnodes \cup {NULL}, vid : Nat]

NoForks == [f \in Forks |-> NULL]

FreeNode ==
  [allocated |-> FALSE, ino |-> NULL, attachOutstanding |-> FALSE,
   waiting |-> FALSE, forkVNodesSize |-> 0, forkVNodesCount |-> 0,
   forkVNodes |-> NoForks]

(* A new HNode has room for the fork it is made for.                       *)
NewNode(i, f) ==
  [FreeNode EXCEPT !.allocated = TRUE, !.ino = i, !.forkVNodesSize = f + 1]

NoLocals ==
  [ino |-> NULL, fork |-> 0, newNode |-> NULL, newForkBuffer |-> FALSE,
   thisNode |-> NULL, vn |-> NULL, vid |-> 0]

Init ==
  /\ node = [n \in Nodes |-> FreeNode]
  /\ table = {}
  /\ count = 0
  /\ vnode = [v \in Vnodes |->
                [state |-> "free", vid |-> 0, fsnode |-> NULL, uses |-> {}]]
  /\ biglock = NULL
  /\ pc = [th \in Threads |-> "idle"]
  /\ local = [th \in Threads |-> NoLocals]

-----------------------------------------------------------------------------
Found(i) == {n \in table : node[n].ino = i}

Goto(th, label) == pc' = [pc EXCEPT ![th] = label]

BiglockFree == BigLock => biglock = NULL
Take(th)    == biglock' = IF BigLock THEN th ELSE NULL
Release(th) == biglock' = IF biglock = th THEN NULL ELSE biglock

(* The nodes, but for the one that th allocated and did not put in the     *)
(* table: it is freed.                                                     *)
Trimmed(th) ==
  [n \in Nodes |-> IF n = local[th].newNode THEN FreeNode ELSE node[n]]

(* The thread leaves HNodeLookupCreatingIfNecessary, and keeps these.      *)
Keeping(th, n, v) ==
  local' = [local EXCEPT ![th] =
    [@ EXCEPT !.newNode = NULL, !.newForkBuffer = FALSE, !.thisNode = n,
              !.vn = v, !.vid = 0]]

(* The thread returns to its caller and holds no lock.                     *)
Return(th) ==
  /\ Goto(th, "idle")
  /\ local' = [local EXCEPT ![th] = NoLocals]
  /\ Release(th)

-----------------------------------------------------------------------------
(* HNodeLookupCreatingIfNecessary.                                         *)

(* A vnode operation has an inode number from the daemon.                  *)
Begin(th, i, f) ==
  /\ pc[th] = "idle" /\ BiglockFree
  /\ Take(th)
  /\ Goto(th, "lookup")
  /\ local' = [local EXCEPT ![th] = [NoLocals EXCEPT !.ino = i, !.fork = f]]
  /\ UNCHANGED <<node, table, count, vnode>>

NeedNode(th) ==
  /\ pc[th] = "lookup"
  /\ Found(local[th].ino) = {} /\ local[th].newNode = NULL
  /\ Goto(th, "alloc")
  /\ UNCHANGED <<node, table, count, vnode, biglock, local>>

Alloc(th) ==
  /\ pc[th] = "alloc"
  /\ \/ \E n \in Nodes :
          /\ ~node[n].allocated
          /\ node' = [node EXCEPT ![n] = NewNode(local[th].ino, local[th].fork)]
          /\ local' = [local EXCEPT ![th].newNode = n]
          /\ Goto(th, "lookup")
          /\ UNCHANGED biglock
     \/ Return(th) /\ UNCHANGED node
  /\ UNCHANGED <<table, count, vnode>>

(* Slip: the table is not searched again after the allocation.             *)
InsertsUnseen(th) == local[th].newNode # NULL

Inserts(th) == local[th].newNode # NULL /\ Found(local[th].ino) = {}

(* Slip: an outstanding attach does not hold the node.                     *)
OutstandingUncounted(hnode) == [hnode EXCEPT !.attachOutstanding = TRUE]

(* Another attach blocks whoever finds the node now.                       *)
Outstanding(hnode) ==
  [hnode EXCEPT !.attachOutstanding = TRUE, !.forkVNodesCount = @ + 1]

InsertNode(th) ==
  LET n == local[th].newNode
  IN  /\ pc[th] = "lookup" /\ Inserts(th)
      /\ table' = table \cup {n}
      /\ count' = count + 1
      /\ node' = [node EXCEPT ![n] = Outstanding(@)]
      /\ Keeping(th, n, NULL)
      /\ Goto(th, "create")
      /\ UNCHANGED <<vnode, biglock>>

WaitForAttach(th) ==
  /\ pc[th] = "lookup"
  /\ \E n \in Found(local[th].ino) :
       /\ node[n].attachOutstanding
       /\ node' = [node EXCEPT ![n].waiting = TRUE]
       /\ local' = [local EXCEPT ![th].thisNode = n]
  /\ Goto(th, "sleep")
  /\ UNCHANGED <<table, count, vnode, biglock>>

NeedBuffer(th) ==
  /\ pc[th] = "lookup" /\ ~local[th].newForkBuffer
  /\ \E n \in Found(local[th].ino) :
       ~node[n].attachOutstanding /\ local[th].fork >= node[n].forkVNodesSize
  /\ Goto(th, "allocbuffer")
  /\ UNCHANGED <<node, table, count, vnode, biglock, local>>

AllocBuffer(th) ==
  /\ pc[th] = "allocbuffer"
  /\ \/ /\ local' = [local EXCEPT ![th].newForkBuffer = TRUE]
        /\ Goto(th, "lookup")
        /\ UNCHANGED <<node, biglock>>
     \/ Return(th) /\ node' = Trimmed(th)
  /\ UNCHANGED <<table, count, vnode>>

(* The old forks are copied; the array only grows.                         *)
InstallBuffer(th) ==
  /\ pc[th] = "lookup" /\ local[th].newForkBuffer
  /\ \E n \in Found(local[th].ino) :
       /\ ~node[n].attachOutstanding
       /\ local[th].fork >= node[n].forkVNodesSize
       /\ node' = [node EXCEPT ![n].forkVNodesSize = local[th].fork + 1]
  /\ local' = [local EXCEPT ![th].newForkBuffer = FALSE]
  /\ UNCHANGED <<table, count, vnode, biglock, pc>>

(* Slip: an outstanding attach does not stop another.                      *)
ReadySoon(th) ==
  {n \in Found(local[th].ino) : local[th].fork < node[n].forkVNodesSize}

(* The node, if it is ready and has room for the fork.                     *)
Ready(th) ==
  {n \in Found(local[th].ino) :
     ~node[n].attachOutstanding /\ local[th].fork < node[n].forkVNodesSize}

ClaimFork(th) ==
  /\ pc[th] = "lookup"
  /\ \E n \in Ready(th) :
       /\ node[n].forkVNodes[local[th].fork] = NULL
       /\ node' = [Trimmed(th) EXCEPT ![n] = Outstanding(@)]
       /\ Keeping(th, n, NULL)
  /\ Goto(th, "create")
  /\ UNCHANGED <<table, count, vnode, biglock>>

Candidate(th) ==
  /\ pc[th] = "lookup"
  /\ \E n \in Ready(th) :
       LET v == node[n].forkVNodes[local[th].fork]
       IN  /\ v # NULL
           /\ local' = [local EXCEPT ![th] =
                [@ EXCEPT !.thisNode = n, !.vn = v, !.vid = vnode[v].vid]]
  /\ Goto(th, "getvnode")
  /\ UNCHANGED <<node, table, count, vnode, biglock>>

-----------------------------------------------------------------------------
(* The kernel's vnodes.                                                    *)

(* vnode_getwithvid finds the vnode it was asked for.                      *)
SameVnode(v, vid) == vnode[v].state = "live" /\ vnode[v].vid = vid

(* Slip: the v_id is read when the mutex has been released.                *)
VidOfNow(th) == vnode[local[th].vn].vid

(* The v_id that vnode_getwithvid is given: read under the mutex.          *)
VidOfCandidate(th) == local[th].vid

(* vnode_getwithvid, and the return to the caller, who has the vnode.      *)
GotVnode(th) ==
  LET v == local[th].vn
  IN  /\ vnode[v].state # "reclaim" /\ SameVnode(v, VidOfCandidate(th))
      /\ vnode' = [vnode EXCEPT ![v].uses = @ \cup {th}]
      /\ node' = Trimmed(th)
      /\ Keeping(th, local[th].thisNode, v)
      /\ Goto(th, "using")
      /\ Release(th)
      /\ UNCHANGED <<table, count>>

LostVnode(th) ==
  LET v == local[th].vn
  IN  vnode[v].state # "reclaim" /\ ~SameVnode(v, VidOfCandidate(th))

GetVnode(th) == pc[th] = "getvnode" /\ GotVnode(th)

GetVnodeAgain(th) ==
  /\ pc[th] = "getvnode" /\ LostVnode(th)
  /\ Goto(th, "lookup")
  /\ UNCHANGED <<node, table, count, vnode, biglock, local>>

(* The operation is over: vnode_put.                                       *)
Put(th) ==
  /\ pc[th] = "using"
  /\ vnode' = [vnode EXCEPT ![local[th].vn].uses = @ \ {th}]
  /\ Return(th)
  /\ UNCHANGED <<node, table, count>>

-----------------------------------------------------------------------------
(* FSNodeGetOrCreateFileVNodeByID has an HNode without a vnode.            *)

DropBiglock(th) ==
  /\ pc[th] = "create"
  /\ Release(th)
  /\ Goto(th, "creating")
  /\ UNCHANGED <<node, table, count, vnode, local>>

CreateVnode(th) ==
  /\ pc[th] = "creating"
  /\ \/ \E v \in Vnodes :
          /\ vnode[v].state = "free" /\ vnode[v].vid <= MaxVid
          /\ vnode' = [vnode EXCEPT ![v] =
               [@ EXCEPT !.state = "live", !.fsnode = local[th].thisNode,
                         !.uses = {th}]]
          /\ local' = [local EXCEPT ![th].vn = v]
     \/ UNCHANGED <<vnode, local>>
  /\ Goto(th, "created")
  /\ UNCHANGED <<node, table, count, biglock>>

(* Both fuse_node.c after vnode_create and the wrapper of reclaim.         *)
TakeBiglock(th) ==
  /\ pc[th] \in {"created", "reclaim"} /\ BiglockFree
  /\ Take(th)
  /\ Goto(th, IF pc[th] = "created" THEN "attach" ELSE "detach")
  /\ UNCHANGED <<node, table, count, vnode, local>>

(* Slip: waiting is cleared before it is looked at.                        *)
NoSleepers(n) == {}

(* Those whom HNodeAttachComplete wakes.                                   *)
Sleepers(n) ==
  {th \in Threads :
     pc[th] = "sleep" /\ local[th].thisNode = n /\ node[n].waiting}

(* HNodeAttachComplete: the label of the thread, and of the woken.         *)
WakeAndGoto(n, th, label) ==
  pc' = [t \in Threads |-> IF t = th THEN label
                           ELSE IF t \in Sleepers(n) THEN "lookup" ELSE pc[t]]

Complete(hnode) ==
  [hnode EXCEPT !.attachOutstanding = FALSE, !.waiting = FALSE]

AttachVNodeSucceeded(th) ==
  LET n == local[th].thisNode
  IN  /\ pc[th] = "attach" /\ local[th].vn # NULL
      /\ node' = [node EXCEPT ![n] =
           [Complete(@) EXCEPT !.forkVNodes[local[th].fork] = local[th].vn]]
      /\ WakeAndGoto(n, th, "using")
      /\ Release(th)
      /\ UNCHANGED <<table, count, vnode, local>>

(* Slip: the node leaves the table while one reference is left.            *)
DecrementEarly(n, hnode) ==
  LET left == [hnode EXCEPT !.forkVNodesCount = @ - 1]
  IN  /\ node' = [node EXCEPT ![n] = left]
      /\ IF left.forkVNodesCount <= 1
         THEN table' = table \ {n} /\ count' = count - 1
         ELSE UNCHANGED <<table, count>>

(* HNodeForkVNodeDecrement on an HNode already changed to hnode: at zero   *)
(* it leaves the table, and the caller scrubs it.                          *)
Decrement(n, hnode) ==
  LET left == [hnode EXCEPT !.forkVNodesCount = @ - 1]
  IN  /\ node' = [node EXCEPT ![n] = left]
      /\ IF left.forkVNodesCount = 0
         THEN table' = table \ {n} /\ count' = count - 1
         ELSE UNCHANGED <<table, count>>

(* Slips: the caller scrubs the node too early, or never.                  *)
LastButOne(n) == node[n].forkVNodesCount <= 2
NeverLast(n)  == node[n].forkVNodesCount = 0

LastReference(n) == node[n].forkVNodesCount = 1

AttachVNodeFailed(th) ==
  LET n == local[th].thisNode
  IN  /\ pc[th] = "attach" /\ local[th].vn = NULL
      /\ Decrement(n, Complete(node[n]))
      /\ IF LastReference(n)
         THEN WakeAndGoto(n, th, "scrub") /\ UNCHANGED <<biglock, local>>
         ELSE /\ WakeAndGoto(n, th, "idle")
              /\ local' = [local EXCEPT ![th] = NoLocals]
              /\ Release(th)
      /\ UNCHANGED vnode

(* HNodeScrubDone: the memory is free, and the operation returns, to a     *)
(* reclaim that goes on or to its caller.                                  *)
Scrub(th) ==
  /\ pc[th] = "scrub"
  /\ node' = [node EXCEPT ![local[th].thisNode] = FreeNode]
  /\ IF local[th].vn = NULL
     THEN Return(th)
     ELSE Goto(th, "reclaimed") /\ Release(th) /\ UNCHANGED local
  /\ UNCHANGED <<table, count, vnode>>

-----------------------------------------------------------------------------
(* Reclaim and the ioctl.                                                  *)

(* The kernel reclaims a vnode that nobody uses.                           *)
Reclaim(th) ==
  /\ pc[th] = "idle"
  /\ \E v \in Vnodes :
       /\ vnode[v].state = "live" /\ vnode[v].uses = {}
       /\ vnode' = [vnode EXCEPT ![v].state = "reclaim"]
       /\ local' = [local EXCEPT ![th] =
            [NoLocals EXCEPT !.vn = v, !.thisNode = vnode[v].fsnode]]
  /\ Goto(th, "reclaim")
  /\ UNCHANGED <<node, table, count, biglock>>

(* HNodeDetachVNode, in fuse_vnop_reclaim.                                 *)
DetachVNode(th) ==
  LET n == local[th].thisNode
      v == local[th].vn
  IN  /\ pc[th] = "detach"
      /\ vnode' = [vnode EXCEPT ![v].fsnode = NULL]
      /\ Decrement(n, [node[n] EXCEPT !.forkVNodes =
           [f \in Forks |-> IF node[n].forkVNodes[f] = v THEN NULL
                            ELSE node[n].forkVNodes[f]]])
      /\ IF LastReference(n)
         THEN Goto(th, "scrub") /\ UNCHANGED biglock
         ELSE Goto(th, "reclaimed") /\ Release(th)
      /\ UNCHANGED local

(* The kernel is done with it, and wakes those in vnode_getwithvid.        *)
Reclaimed(th) ==
  /\ pc[th] = "reclaimed"
  /\ vnode' = [vnode EXCEPT ![local[th].vn].state = "free",
                            ![local[th].vn].vid = @ + 1]
  /\ Return(th)
  /\ UNCHANGED <<node, table, count>>

(* HNodeLookupRealQuickIfExists, of fork 0 and without the big lock.       *)
QuickLookup(th, i) ==
  /\ pc[th] = "idle"
  /\ \E n \in Found(i) :
       LET v == node[n].forkVNodes[0]
       IN  /\ ~node[n].attachOutstanding /\ v # NULL
           /\ local' = [local EXCEPT ![th] =
                [NoLocals EXCEPT !.ino = i, !.thisNode = n, !.vn = v,
                                 !.vid = vnode[v].vid]]
  /\ Goto(th, "quickget")
  /\ UNCHANGED <<node, table, count, vnode, biglock>>

QuickGet(th) == pc[th] = "quickget" /\ GotVnode(th)

QuickGiveUp(th) ==
  /\ pc[th] = "quickget" /\ LostVnode(th)
  /\ Return(th)
  /\ UNCHANGED <<node, table, count, vnode>>

-----------------------------------------------------------------------------
Search(th) ==
  \/ NeedNode(th) \/ InsertNode(th) \/ WaitForAttach(th) \/ NeedBuffer(th)
  \/ InstallBuffer(th) \/ ClaimFork(th) \/ Candidate(th)

Advance(th) ==
  \/ Search(th) \/ Alloc(th) \/ AllocBuffer(th)
  \/ GetVnode(th) \/ GetVnodeAgain(th) \/ Put(th)
  \/ DropBiglock(th) \/ CreateVnode(th) \/ TakeBiglock(th)
  \/ AttachVNodeSucceeded(th) \/ AttachVNodeFailed(th) \/ Scrub(th)
  \/ DetachVNode(th) \/ Reclaimed(th)
  \/ QuickGet(th) \/ QuickGiveUp(th)

Next ==
  \E th \in Threads :
    \/ \E i \in Inodes, f \in Forks : Begin(th, i, f)
    \/ \E i \in Inodes : QuickLookup(th, i)
    \/ Reclaim(th)
    \/ Advance(th)

(* A thread in the kernel goes on, and a free mutex serves whoever waits.  *)
Fairness == \A th \in Threads : SF_vars(Advance(th))

Spec     == Init /\ [][Next]_vars
FairSpec == Spec /\ Fairness

-----------------------------------------------------------------------------
(* Properties.                                                             *)

TypeOK ==
  /\ node \in [Nodes -> HNode]
  /\ table \in SUBSET Nodes
  /\ count \in Nat
  /\ vnode \in [Vnodes -> Vnode]
  /\ biglock \in Threads \cup {NULL}
  /\ pc \in [Threads -> {"idle", "lookup", "alloc", "allocbuffer", "sleep",
                         "getvnode", "create", "creating", "created",
                         "attach", "using", "scrub", "reclaim", "detach",
                         "reclaimed", "quickget"}]
  /\ local \in [Threads -> Local]

(* The threads whose attach to a node is outstanding: [HNode Notes] 3.     *)
Attaching(n) ==
  {th \in Threads : /\ pc[th] \in {"create", "creating", "created", "attach"}
                    /\ local[th].thisNode = n}

(* An inode has at most one HNode in the table, though the mutex is        *)
(* released between the search that misses it and its insertion.           *)
OneNodePerInode == \A m, n \in table : node[m].ino = node[n].ino => m = n

(* At most one thread at a time attaches a vnode to a node, it does so     *)
(* while attachOutstanding says so, and to a fork that has none.           *)
OneAttach ==
  \A n \in Nodes :
    /\ Cardinality(Attaching(n)) = IF node[n].attachOutstanding THEN 1 ELSE 0
    /\ \A th \in Attaching(n) : node[n].forkVNodes[local[th].fork] = NULL

(* fuse_nodehash.c:75, "# of non-NULL vnodes in array (+1 if               *)
(* attachOutstanding is true)": what keeps a node in the table is counted  *)
(* exactly, so it is freed neither early nor never.                        *)
CountIsExact ==
  /\ count = Cardinality(table)
  /\ \A n \in Nodes :
       LET forks == {f \in Forks : node[n].forkVNodes[f] # NULL}
       IN  /\ node[n].forkVNodesCount =
                Cardinality(forks) + Cardinality(Attaching(n))
           /\ n \in table <=> node[n].forkVNodesCount > 0

(* Memory that somebody will touch is not freed: a node that a thread is   *)
(* to insert, attach to, detach from or scrub, or that a vnode points to.  *)
NoDangling ==
  /\ \A n \in table : node[n].allocated
  /\ \A v \in Vnodes : vnode[v].fsnode # NULL => vnode[v].fsnode \in table
  /\ \A th \in Threads :
       /\ pc[th] \in {"create", "creating", "created", "attach", "using",
                      "scrub", "reclaim", "detach"}
            => node[local[th].thisNode].allocated
       /\ local[th].newNode # NULL => node[local[th].newNode].allocated

(* No node is lost: it is in the table, or a thread will insert it or free *)
(* it.                                                                     *)
NoLeak ==
  \A n \in Nodes : node[n].allocated =>
    \/ n \in table
    \/ \E th \in Threads :
         local[th].newNode = n \/ (pc[th] = "scrub" /\ local[th].thisNode = n)

(* A lookup returns a live vnode of its own inode and fork, the one the    *)
(* table knows, whatever happened to vnode and node while no mutex was     *)
(* held; and it stays so while the caller uses it.                         *)
RightVnode ==
  \A th \in Threads : pc[th] = "using" =>
    LET v == local[th].vn
        n == vnode[v].fsnode
    IN  /\ vnode[v].state = "live" /\ th \in vnode[v].uses
        /\ n \in table /\ node[n].ino = local[th].ino
        /\ node[n].forkVNodes[local[th].fork] = v

(* Whoever sleeps on a node sleeps on one that an attach will wake: the    *)
(* node is waiting, in the table and attachOutstanding.  So HNodeScrubDone *)
(* never frees a node that is waiting, which it asserts but was not sure   *)
(* of (fuse_nodehash.c:868-874).                                           *)
SleepersWillWake ==
  /\ \A th \in Threads : pc[th] = "sleep" =>
       LET n == local[th].thisNode
       IN  n \in table /\ node[n].waiting /\ node[n].attachOutstanding
  /\ \A n \in Nodes : node[n].waiting => node[n].attachOutstanding

(* fuse_nodehash.c:104-107, "we're expecting the client to call either     *)
(* HNodeAttachVNodeSucceeded or HNodeAttachVNodeFailed at some time in the *)
(* future".                                                                *)
AttachesEnd ==
  \A n \in Nodes : node[n].attachOutstanding ~> ~node[n].attachOutstanding
=============================================================================
