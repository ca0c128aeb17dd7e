-------------------------- MODULE HNodeTableProofs --------------------------
(***************************************************************************)
(* What is proved of HNodeTable, for any number of threads, inodes, nodes  *)
(* and vnodes: the types and all seven safety properties.                  *)
(*                                                                         *)
(* IInv is inductive.  The properties say that a lookup is right, that no  *)
(* node is freed under somebody and that the counts are exact; none is     *)
(* kept by every step alone.  IInv adds who owns memory that is not in the *)
(* table (Owned), which thread an attachOutstanding stands for (Attached), *)
(* by whom a vnode with a node is held (Linked), what a thread may still   *)
(* believe of a vnode that it found under the mutex and gets after         *)
(* releasing it (Using) and what the thread that reclaims a vnode has in   *)
(* hand (Reclaiming).                                                      *)
(*                                                                         *)
(* The actions write records with EXCEPT; each is first shown to be one of *)
(* seventeen kinds of step, given by the fields that change (StepOfNext).  *)
(* The other lemmas are about those: a conjunct of IInv each, or what a    *)
(* step leaves alone.                                                      *)
(***************************************************************************)
EXTENDS HNodeTable, FiniteSetTheorems, TLAPS

(* Where a thread may have memory for a node, where it attaches a vnode,   *)
(* where it reclaims one, and where it has the vnode it was told of.       *)
Searching  == {"lookup", "sleep", "getvnode", "allocbuffer"}
AttachPCs  == {"create", "creating", "created", "attach"}
ReclaimPCs == {"reclaim", "detach", "scrub", "reclaimed"}
GettingPCs == {"getvnode", "quickget"}
PCs        == Searching \cup AttachPCs \cup ReclaimPCs \cup
              {"idle", "alloc", "using", "quickget"}

(* The forks of a node that have a vnode.                                  *)
Full(n) == {f \in Forks : node[n].forkVNodes[f] # NULL}

(* The types, but for count, which is counted below.                       *)
Typed ==
  /\ node \in [Nodes -> HNode] /\ table \in SUBSET Nodes
  /\ vnode \in [Vnodes -> Vnode] /\ biglock \in Threads \cup {NULL}
  /\ pc \in [Threads -> PCs] /\ local \in [Threads -> Local]

(* A node is in the table as long as something counts for it.              *)
Tabled ==
  /\ \A n \in table : /\ node[n].allocated /\ node[n].ino \in Inodes
                      /\ node[n].forkVNodesCount > 0
  /\ \A n \in Nodes \ table : /\ node[n].forkVNodesCount = 0
                              /\ ~node[n].attachOutstanding
                              /\ \A f \in Forks : node[n].forkVNodes[f] = NULL

(* The vnodes of a node are counted, and an attach to it.                  *)
CountsItself(n) ==
  node[n].forkVNodesCount = Cardinality(Full(n)) +
                            IF node[n].attachOutstanding THEN 1 ELSE 0

Counted ==
  /\ IsFiniteSet(table) /\ count = Cardinality(table)
  /\ \A n \in Nodes : CountsItself(n)

(* Memory outside the table belongs to the thread that has just allocated  *)
(* it or that is about to free it.                                         *)
OwnsNew(th, n)  == local[th].newNode = n
Scrubs(th, n)   == pc[th] = "scrub" /\ local[th].thisNode = n
Owns(th, n)     == OwnsNew(th, n) \/ Scrubs(th, n)

Owned ==
  /\ \A th \in Threads : local[th].newNode # NULL =>
       /\ pc[th] \in Searching /\ node[local[th].newNode].ino = local[th].ino
  /\ \A th \in Threads : pc[th] = "scrub" => local[th].thisNode # NULL
  /\ \A th \in Threads, n \in Nodes : Owns(th, n) =>
       n \notin table /\ node[n].allocated
  /\ \A s, th \in Threads, n \in Nodes : Owns(s, n) /\ Owns(th, n) => s = th
  /\ \A n \in Nodes \ table :
       node[n].allocated => \E th \in Threads : Owns(th, n)

(* Who searches, searches for an inode.                                    *)
Asked ==
  \A th \in Threads :
    pc[th] \in Searching \cup AttachPCs \cup {"alloc"} =>
      local[th].ino \in Inodes

(* attachOutstanding stands for the one thread that attaches.              *)
Attached ==
  /\ \A th \in Threads : pc[th] \in AttachPCs =>
       LET n == local[th].thisNode
       IN  /\ n \in table /\ node[n].attachOutstanding
           /\ node[n].ino = local[th].ino
           /\ node[n].forkVNodes[local[th].fork] = NULL
  /\ \A s, th \in Threads :
       pc[s] \in AttachPCs /\ pc[th] \in AttachPCs
         /\ local[s].thisNode = local[th].thisNode => s = th
  /\ \A n \in Nodes : node[n].attachOutstanding =>
       \E th \in Threads : pc[th] \in AttachPCs /\ local[th].thisNode = n

(* A vnode with an HNode is there, and somebody has it for that HNode: a   *)
(* fork, or who is about to attach it.                                     *)
Held(v) ==
  /\ vnode[v].state # "free"
  /\ \/ \E f \in Forks : node[vnode[v].fsnode].forkVNodes[f] = v
     \/ \E th \in Threads : /\ pc[th] \in AttachPCs /\ local[th].vn = v
                            /\ local[th].thisNode = vnode[v].fsnode

(* A vnode has the HNode that has it, or that it is about to be attached   *)
(* to.                                                                     *)
Linked ==
  /\ \A n \in Nodes, f \in Forks : LET v == node[n].forkVNodes[f] IN
       v # NULL => vnode[v].fsnode = n /\ vnode[v].state # "free"
  /\ \A n \in Nodes, f, g \in Forks :
       node[n].forkVNodes[f] # NULL
         /\ node[n].forkVNodes[f] = node[n].forkVNodes[g] => f = g
  /\ \A v \in Vnodes : vnode[v].state = "live" => vnode[v].fsnode # NULL
  /\ \A v \in Vnodes : vnode[v].fsnode # NULL => Held(v)
  /\ \A th \in Threads : pc[th] \in AttachPCs /\ local[th].vn # NULL =>
       LET v == local[th].vn
       IN  /\ pc[th] \in {"created", "attach"}
           /\ vnode[v].state = "live" /\ vnode[v].fsnode = local[th].thisNode
           /\ th \in vnode[v].uses
           /\ \A f \in Forks : node[local[th].thisNode].forkVNodes[f] # v

(* The vnode of the node and fork that a thread was asked for.             *)
IsVnodeFor(th) ==
  LET v == local[th].vn
      n == local[th].thisNode
  IN  /\ vnode[v].fsnode = n /\ node[n].forkVNodes[local[th].fork] = v
      /\ node[n].ino = local[th].ino

(* A candidate with its old v_id is the vnode it was, if it is not being   *)
(* reclaimed.                                                              *)
Chosen(th) ==
  LET v == local[th].vn
  IN  /\ v # NULL /\ local[th].thisNode # NULL
      /\ local[th].vid <= vnode[v].vid
      /\ local[th].vid = vnode[v].vid =>
           /\ vnode[v].state # "free"
           /\ vnode[v].state = "live" => IsVnodeFor(th)

(* A vnode in use is live, and the one that was asked for.                 *)
Used(th) ==
  LET v == local[th].vn
  IN  /\ v # NULL /\ local[th].thisNode # NULL
      /\ vnode[v].state = "live" /\ th \in vnode[v].uses
      /\ IsVnodeFor(th)

Using ==
  /\ \A th \in Threads : pc[th] \in GettingPCs => Chosen(th)
  /\ \A th \in Threads : pc[th] = "using" => Used(th)

(* The vnode that a thread reclaims has its HNode until it is detached.    *)
Reclaims(th) ==
  LET v == local[th].vn
  IN  /\ v # NULL /\ vnode[v].state = "reclaim"
      /\ vnode[v].fsnode = IF pc[th] \in {"reclaim", "detach"}
                           THEN local[th].thisNode ELSE NULL
      /\ pc[th] \in {"reclaim", "detach"} => local[th].thisNode # NULL

Reclaiming ==
  /\ \A th \in Threads :
       pc[th] \in ReclaimPCs /\ (pc[th] = "scrub" => local[th].vn # NULL) =>
         Reclaims(th)
  /\ \A s, th \in Threads :
       pc[s] \in ReclaimPCs /\ pc[th] \in ReclaimPCs
         /\ local[s].vn = local[th].vn /\ local[s].vn # NULL => s = th

IInv == /\ Typed /\ Tabled /\ Counted /\ OneNodePerInode /\ Owned /\ Asked
        /\ Attached /\ Linked /\ Using /\ Reclaiming /\ SleepersWillWake

-----------------------------------------------------------------------------
(* The steps, by what they do to the fields of nodes, vnodes and threads.  *)

(* What a thread, a node or a vnode keeps.                                 *)
SameLocal(th) ==
  /\ local'[th].ino = local[th].ino /\ local'[th].fork = local[th].fork
  /\ local'[th].newNode = local[th].newNode
  /\ local'[th].thisNode = local[th].thisNode
  /\ local'[th].vn = local[th].vn /\ local'[th].vid = local[th].vid

SameThread(th) == pc'[th] = pc[th] /\ SameLocal(th)
OnlyThread(th) == \A t \in Threads \ {th} : SameThread(t)

SameNode(n) ==
  /\ node'[n].allocated = node[n].allocated /\ node'[n].ino = node[n].ino
  /\ node'[n].attachOutstanding = node[n].attachOutstanding
  /\ node'[n].waiting = node[n].waiting
  /\ node'[n].forkVNodesCount = node[n].forkVNodesCount
  /\ node'[n].forkVNodes = node[n].forkVNodes

SameNodes == \A n \in Nodes : SameNode(n)
SameTable == table' = table /\ count' = count

(* A node of which nothing is left.                                        *)
Blank(n) ==
  /\ ~node'[n].allocated /\ node'[n].ino = NULL
  /\ ~node'[n].attachOutstanding /\ ~node'[n].waiting
  /\ node'[n].forkVNodesCount = 0
  /\ \A f \in Forks : node'[n].forkVNodes[f] = NULL

(* The memory that th did not need is freed.                               *)
Trims(th) ==
  \A n \in Nodes : IF n = local[th].newNode THEN Blank(n) ELSE SameNode(n)

(* Nothing that counts changes but the place of the thread.                *)
Ways == {<<"lookup", "alloc">>, <<"lookup", "allocbuffer">>,
         <<"allocbuffer", "lookup">>, <<"lookup", "lookup">>,
         <<"getvnode", "lookup">>, <<"create", "creating">>,
         <<"creating", "created">>, <<"created", "attach">>,
         <<"reclaim", "detach">>}

Moves(th) ==
  /\ <<pc[th], pc'[th]>> \in Ways
  /\ pc'[th] = "alloc" => local[th].newNode = NULL
  /\ SameLocal(th) /\ OnlyThread(th) /\ SameNodes /\ SameTable
  /\ vnode' = vnode

Begins(th) ==
  /\ pc[th] = "idle" /\ pc'[th] = "lookup" /\ OnlyThread(th)
  /\ local'[th].ino \in Inodes /\ local'[th].newNode = NULL
  /\ SameNodes /\ SameTable /\ vnode' = vnode

(* Memory for a node is allocated.                                         *)
Allocates(th) ==
  /\ pc[th] = "alloc" /\ pc'[th] = "lookup" /\ OnlyThread(th)
  /\ local'[th].ino = local[th].ino
  /\ \E n \in Nodes :
       /\ ~node[n].allocated /\ local'[th].newNode = n
       /\ node'[n].allocated /\ node'[n].ino = local[th].ino
       /\ ~node'[n].attachOutstanding /\ ~node'[n].waiting
       /\ node'[n].forkVNodesCount = 0
       /\ \A f \in Forks : node'[n].forkVNodes[f] = NULL
       /\ \A m \in Nodes \ {n} : SameNode(m)
  /\ SameTable /\ vnode' = vnode

(* The operation fails, or the ioctl does.                                 *)
Returns(th) ==
  /\ pc[th] \in {"alloc", "allocbuffer", "quickget"} /\ pc'[th] = "idle"
  /\ OnlyThread(th) /\ local'[th].newNode = NULL
  /\ IF pc[th] = "allocbuffer" THEN Trims(th) ELSE SameNodes
  /\ SameTable /\ vnode' = vnode

(* A node that th will attach a vnode to.                                  *)
Claims(n) ==
  /\ node'[n].allocated = node[n].allocated /\ node'[n].ino = node[n].ino
  /\ node'[n].attachOutstanding /\ node'[n].waiting = node[n].waiting
  /\ node'[n].forkVNodesCount = node[n].forkVNodesCount + 1
  /\ node'[n].forkVNodes = node[n].forkVNodes

Attaches(th, n) ==
  /\ pc[th] = "lookup" /\ pc'[th] = "create" /\ OnlyThread(th)
  /\ local'[th].ino = local[th].ino /\ local'[th].fork = local[th].fork
  /\ local'[th].newNode = NULL /\ local'[th].thisNode = n
  /\ local'[th].vn = NULL
  /\ n \in Nodes /\ Claims(n)
  /\ vnode' = vnode

AttachesNew(th) ==
  LET n == local[th].newNode
  IN  /\ n # NULL /\ \A m \in table : node[m].ino # local[th].ino
      /\ Attaches(th, n)
      /\ \A m \in Nodes \ {n} : SameNode(m)
      /\ table' = table \cup {n} /\ count' = count + 1

AttachesOld(th) ==
  \E n \in table :
    /\ node[n].ino = local[th].ino /\ ~node[n].attachOutstanding
    /\ node[n].forkVNodes[local[th].fork] = NULL
    /\ Attaches(th, n)
    /\ \A m \in Nodes \ {n} :
         IF m = local[th].newNode THEN Blank(m) ELSE SameNode(m)
    /\ SameTable

Sleeps(th) ==
  /\ pc[th] = "lookup" /\ pc'[th] = "sleep" /\ OnlyThread(th)
  /\ local'[th].ino = local[th].ino /\ local'[th].newNode = local[th].newNode
  /\ \E n \in table :
       /\ node[n].attachOutstanding /\ local'[th].thisNode = n
       /\ node'[n].allocated = node[n].allocated /\ node'[n].ino = node[n].ino
       /\ node'[n].attachOutstanding /\ node'[n].waiting
       /\ node'[n].forkVNodesCount = node[n].forkVNodesCount
       /\ node'[n].forkVNodes = node[n].forkVNodes
       /\ \A m \in Nodes \ {n} : SameNode(m)
  /\ SameTable /\ vnode' = vnode

(* The mutex is released with a candidate in hand.                         *)
Finds(th) ==
  /\ \/ /\ pc[th] = "lookup" /\ pc'[th] = "getvnode"
        /\ local'[th].newNode = local[th].newNode
        /\ local'[th].ino = local[th].ino
     \/ /\ pc[th] = "idle" /\ pc'[th] = "quickget"
        /\ local'[th].newNode = NULL
  /\ OnlyThread(th) /\ local'[th].fork \in Forks
  /\ \E n \in table :
       LET v == node[n].forkVNodes[local'[th].fork]
       IN  /\ v # NULL /\ local'[th].vn = v /\ local'[th].vid = vnode[v].vid
           /\ local'[th].thisNode = n /\ node[n].ino = local'[th].ino
  /\ SameNodes /\ SameTable /\ vnode' = vnode

Gets(th) ==
  LET v == local[th].vn
  IN  /\ pc[th] \in GettingPCs /\ pc'[th] = "using" /\ OnlyThread(th)
      /\ vnode[v].state = "live" /\ vnode[v].vid = local[th].vid
      /\ vnode'[v].state = "live" /\ vnode'[v].vid = vnode[v].vid
      /\ vnode'[v].fsnode = vnode[v].fsnode
      /\ vnode'[v].uses = vnode[v].uses \cup {th}
      /\ \A w \in Vnodes \ {v} : vnode'[w] = vnode[w]
      /\ local'[th].newNode = NULL
      /\ local'[th].ino = local[th].ino /\ local'[th].fork = local[th].fork
      /\ local'[th].thisNode = local[th].thisNode /\ local'[th].vn = v
      /\ Trims(th) /\ SameTable

Puts(th) ==
  LET v == local[th].vn
  IN  /\ pc[th] = "using" /\ pc'[th] = "idle" /\ OnlyThread(th)
      /\ local'[th].newNode = NULL
      /\ vnode'[v].state = vnode[v].state /\ vnode'[v].vid = vnode[v].vid
      /\ vnode'[v].fsnode = vnode[v].fsnode
      /\ vnode'[v].uses = vnode[v].uses \ {th}
      /\ \A w \in Vnodes \ {v} : vnode'[w] = vnode[w]
      /\ SameNodes /\ SameTable

Creates(th) ==
  /\ pc[th] = "creating" /\ pc'[th] = "created" /\ OnlyThread(th)
  /\ local'[th].ino = local[th].ino /\ local'[th].fork = local[th].fork
  /\ local'[th].newNode = local[th].newNode
  /\ local'[th].thisNode = local[th].thisNode
  /\ \E v \in Vnodes :
       /\ vnode[v].state = "free" /\ local'[th].vn = v
       /\ vnode'[v].state = "live" /\ vnode'[v].vid = vnode[v].vid
       /\ vnode'[v].fsnode = local[th].thisNode /\ vnode'[v].uses = {th}
       /\ \A w \in Vnodes \ {v} : vnode'[w] = vnode[w]
  /\ SameNodes /\ SameTable

(* The attach is over, and who sleeps on the node is woken.                *)
Wakes(th, n) ==
  \A t \in Threads \ {th} :
    /\ SameLocal(t)
    /\ IF pc[t] = "sleep" /\ local[t].thisNode = n /\ node[n].waiting
       THEN pc'[t] = "lookup" ELSE pc'[t] = pc[t]

Succeeds(th) ==
  LET n == local[th].thisNode
      v == local[th].vn
  IN  /\ pc[th] = "attach" /\ pc'[th] = "using" /\ v # NULL
      /\ SameLocal(th) /\ Wakes(th, n)
      /\ node'[n].allocated = node[n].allocated /\ node'[n].ino = node[n].ino
      /\ ~node'[n].attachOutstanding /\ ~node'[n].waiting
      /\ node'[n].forkVNodesCount = node[n].forkVNodesCount
      /\ node'[n].forkVNodes =
           [node[n].forkVNodes EXCEPT ![local[th].fork] = v]
      /\ \A m \in Nodes \ {n} : SameNode(m)
      /\ SameTable /\ vnode' = vnode

(* One reference less: at the last the node leaves the table.              *)
Leaves(n) ==
  IF node[n].forkVNodesCount = 1
  THEN table' = table \ {n} /\ count' = count - 1
  ELSE SameTable

Fails(th) ==
  LET n == local[th].thisNode
  IN  /\ pc[th] = "attach" /\ local[th].vn = NULL
      /\ IF node[n].forkVNodesCount = 1
         THEN pc'[th] = "scrub" /\ SameLocal(th)
         ELSE pc'[th] = "idle" /\ local'[th].newNode = NULL
      /\ Wakes(th, n) /\ Leaves(n)
      /\ node'[n].allocated = node[n].allocated /\ node'[n].ino = node[n].ino
      /\ ~node'[n].attachOutstanding /\ ~node'[n].waiting
      /\ node'[n].forkVNodesCount = node[n].forkVNodesCount - 1
      /\ node'[n].forkVNodes = node[n].forkVNodes
      /\ \A m \in Nodes \ {n} : SameNode(m)
      /\ vnode' = vnode

Frees(th) ==
  LET n == local[th].thisNode
  IN  /\ pc[th] = "scrub" /\ OnlyThread(th)
      /\ IF local[th].vn = NULL
         THEN pc'[th] = "idle" /\ local'[th].newNode = NULL
         ELSE pc'[th] = "reclaimed" /\ SameLocal(th)
      /\ Blank(n) /\ \A m \in Nodes \ {n} : SameNode(m)
      /\ SameTable /\ vnode' = vnode

TakesBack(th) ==
  /\ pc[th] = "idle" /\ pc'[th] = "reclaim" /\ OnlyThread(th)
  /\ local'[th].newNode = NULL
  /\ \E v \in Vnodes :
       /\ vnode[v].state = "live" /\ vnode[v].uses = {}
       /\ local'[th].vn = v /\ local'[th].thisNode = vnode[v].fsnode
       /\ vnode'[v].state = "reclaim" /\ vnode'[v].vid = vnode[v].vid
       /\ vnode'[v].fsnode = vnode[v].fsnode /\ vnode'[v].uses = vnode[v].uses
       /\ \A w \in Vnodes \ {v} : vnode'[w] = vnode[w]
  /\ SameNodes /\ SameTable

Detaches(th) ==
  LET n == local[th].thisNode
      v == local[th].vn
  IN  /\ pc[th] = "detach" /\ SameLocal(th) /\ OnlyThread(th)
      /\ pc'[th] = IF node[n].forkVNodesCount = 1 THEN "scrub" ELSE "reclaimed"
      /\ vnode'[v].state = vnode[v].state /\ vnode'[v].vid = vnode[v].vid
      /\ vnode'[v].fsnode = NULL /\ vnode'[v].uses = vnode[v].uses
      /\ \A w \in Vnodes \ {v} : vnode'[w] = vnode[w]
      /\ Leaves(n)
      /\ node'[n].allocated = node[n].allocated /\ node'[n].ino = node[n].ino
      /\ node'[n].attachOutstanding = node[n].attachOutstanding
      /\ node'[n].waiting = node[n].waiting
      /\ node'[n].forkVNodesCount = node[n].forkVNodesCount - 1
      /\ \A f \in Forks : node'[n].forkVNodes[f] =
           IF node[n].forkVNodes[f] = v THEN NULL ELSE node[n].forkVNodes[f]
      /\ \A m \in Nodes \ {n} : SameNode(m)

GivesBack(th) ==
  LET v == local[th].vn
  IN  /\ pc[th] = "reclaimed" /\ pc'[th] = "idle" /\ OnlyThread(th)
      /\ local'[th].newNode = NULL
      /\ vnode'[v].state = "free" /\ vnode'[v].vid = vnode[v].vid + 1
      /\ vnode'[v].fsnode = vnode[v].fsnode /\ vnode'[v].uses = vnode[v].uses
      /\ \A w \in Vnodes \ {v} : vnode'[w] = vnode[w]
      /\ SameNodes /\ SameTable

Step(th) ==
  \/ Moves(th) \/ Begins(th) \/ Allocates(th) \/ Returns(th)
  \/ AttachesNew(th) \/ AttachesOld(th) \/ Sleeps(th) \/ Finds(th)
  \/ Gets(th) \/ Puts(th) \/ Creates(th) \/ Succeeds(th) \/ Fails(th)
  \/ Frees(th) \/ TakesBack(th) \/ Detaches(th) \/ GivesBack(th)

-----------------------------------------------------------------------------
(* What the counts of a node say.                                          *)

(* The forks are few, so they can be counted.                              *)
LEMMA ForksAre ==
  /\ IsFiniteSet(Forks)
  /\ NULL \notin Threads \cup Inodes \cup Nodes \cup Vnodes
  /\ \A n : IsFiniteSet(Full(n)) /\ Cardinality(Full(n)) \in Nat
<1>1. IsFiniteSet(Forks)
  BY FS_Interval, HNodeAssumption DEF Forks
<1>2. \A n : IsFiniteSet(Full(n))
  BY <1>1, FS_Subset DEF Full
<1>3. \A n : Cardinality(Full(n)) \in Nat
  BY <1>2, FS_CardinalityType
<1>. QED BY <1>1, <1>2, <1>3, HNodeAssumption

(* A node whose attach fails leaves the table if it has no vnode.          *)
LEMMA FailedAttach ==
  ASSUME IInv, NEW th \in Threads, pc[th] = "attach"
  PROVE  LET n == local[th].thisNode
         IN  /\ n \in table /\ n \in Nodes /\ node[n].attachOutstanding
             /\ node[n].forkVNodesCount \in Nat
             /\ node[n].forkVNodesCount = Cardinality(Full(n)) + 1
             /\ node[n].forkVNodesCount = 1 <=> Full(n) = {}
             /\ node[n].forkVNodesCount > 0
<1>. DEFINE n == local[th].thisNode
<1>1. n \in table /\ n \in Nodes /\ node[n].attachOutstanding
  BY DEF IInv, Typed, Attached, AttachPCs
<1>2. node[n].forkVNodesCount = Cardinality(Full(n)) + 1
  BY <1>1 DEF IInv, Counted, CountsItself
<1>3. /\ IsFiniteSet(Full(n)) /\ Cardinality(Full(n)) \in Nat
      /\ Cardinality(Full(n)) = 0 <=> Full(n) = {}
  BY ForksAre, FS_EmptySet
<1>. QED BY <1>1, <1>2, <1>3

(* A vnode that is detached is the vnode of one fork, and the node leaves  *)
(* the table if it has no other and nobody attaches one.                   *)
LEMMA LastDetached ==
  ASSUME IInv, NEW th \in Threads, pc[th] \in {"reclaim", "detach"}
  PROVE  LET n == local[th].thisNode
             v == local[th].vn
         IN  /\ n \in table /\ n \in Nodes /\ v \in Vnodes
             /\ vnode[v].fsnode = n /\ vnode[v].state = "reclaim"
             /\ \E f \in Forks : /\ node[n].forkVNodes[f] = v
                                 /\ \A g \in Forks \ {f} :
                                      node[n].forkVNodes[g] # v
             /\ node[n].forkVNodesCount \in Nat \ {0}
             /\ node[n].forkVNodesCount = 1 =>
                  /\ ~node[n].attachOutstanding
                  /\ \A g \in Forks : node[n].forkVNodes[g] \in {v, NULL}
<1>. DEFINE n == local[th].thisNode
            v == local[th].vn
<1>1. /\ n \in Nodes /\ v \in Vnodes /\ vnode[v].fsnode = n /\ n # NULL
      /\ vnode[v].state = "reclaim"
  BY DEF IInv, Typed, Local, Reclaiming, Reclaims, ReclaimPCs
<1>2. ~ \E t \in Threads : pc[t] \in AttachPCs /\ local[t].vn = v
  BY <1>1, ForksAre DEF IInv, Linked
<1>3. PICK f \in Forks : node[n].forkVNodes[f] = v
  BY <1>1, <1>2 DEF IInv, Linked, Held
<1>4. \A g \in Forks \ {f} : node[n].forkVNodes[g] # v
  BY <1>1, <1>3, ForksAre DEF IInv, Linked
<1>5. n \in table
  BY <1>1, <1>3, ForksAre DEF IInv, Tabled
<1>6. f \in Full(n)
  BY <1>1, <1>3, ForksAre DEF Full
<1>7. /\ Cardinality(Full(n) \ {f}) = Cardinality(Full(n)) - 1
      /\ Cardinality(Full(n) \ {f}) \in Nat /\ Cardinality(Full(n)) \in Nat
      /\ IsFiniteSet(Full(n) \ {f})
  BY <1>6, ForksAre, FS_RemoveElement, FS_CardinalityType
<1>8. node[n].forkVNodesCount = Cardinality(Full(n)) +
                                IF node[n].attachOutstanding THEN 1 ELSE 0
  BY <1>1 DEF IInv, Counted, CountsItself
<1>9. ASSUME node[n].forkVNodesCount = 1
      PROVE  /\ ~node[n].attachOutstanding
             /\ \A g \in Forks : node[n].forkVNodes[g] \in {v, NULL}
  <2>1. Cardinality(Full(n) \ {f}) = 0 /\ ~node[n].attachOutstanding
    BY <1>7, <1>8, <1>9
  <2>2. Full(n) \ {f} = {}
    BY <1>7, <2>1, FS_EmptySet
  <2>. QED BY <1>3, <2>1, <2>2 DEF Full
<1>10. node[n].forkVNodesCount \in Nat \ {0}
  BY <1>7, <1>8
<1>. QED BY <1>1, <1>3, <1>4, <1>5, <1>9, <1>10

(* What the types say of what a thread, a node and a vnode refer to.       *)
LEMMA Kinds ==
  ASSUME IInv
  PROVE  /\ NULL \notin Threads \cup Inodes \cup Nodes \cup Vnodes
         /\ \A t \in Threads :
              /\ local[t].fork \in Forks /\ local[t].vid \in Nat
              /\ local[t].newNode \in Nodes \cup {NULL}
              /\ local[t].thisNode \in Nodes \cup {NULL}
              /\ local[t].vn \in Vnodes \cup {NULL}
         /\ \A n \in Nodes, f \in Forks :
              node[n].forkVNodes[f] \in Vnodes \cup {NULL}
         /\ \A v \in Vnodes : /\ vnode[v].fsnode \in Nodes \cup {NULL}
                              /\ vnode[v].vid \in Nat
                              /\ vnode[v].uses \in SUBSET Threads
         /\ table \in SUBSET Nodes
<1>1. \A t \in Threads : local[t] \in Local
  BY DEF IInv, Typed
<1>2. \A n \in Nodes : node[n] \in HNode
  BY DEF IInv, Typed
<1>3. \A v \in Vnodes : vnode[v] \in Vnode
  BY DEF IInv, Typed
<1>4. table \in SUBSET Nodes
  BY DEF IInv, Typed
<1>5. \A t \in Threads :
        /\ local[t].fork \in Forks /\ local[t].vid \in Nat
        /\ local[t].newNode \in Nodes \cup {NULL}
        /\ local[t].thisNode \in Nodes \cup {NULL}
        /\ local[t].vn \in Vnodes \cup {NULL}
  BY <1>1 DEF Local
<1>6. \A n \in Nodes, f \in Forks :
        node[n].forkVNodes[f] \in Vnodes \cup {NULL}
  BY <1>2 DEF HNode
<1>7. \A v \in Vnodes : /\ vnode[v].fsnode \in Nodes \cup {NULL}
                        /\ vnode[v].vid \in Nat
                        /\ vnode[v].uses \in SUBSET Threads
  BY <1>3 DEF Vnode
<1>. QED BY <1>4, <1>5, <1>6, <1>7, ForksAre

(* What detaching a vnode does to the vnodes and to the forks.             *)
LEMMA DetachedForks ==
  ASSUME IInv, NEW th \in Threads, Detaches(th)
  PROVE  LET v == local[th].vn
         IN  /\ v \in Vnodes /\ vnode[v].state = "reclaim"
             /\ vnode[v].fsnode = local[th].thisNode
             /\ vnode'[v].state = "reclaim" /\ vnode'[v].vid = vnode[v].vid
             /\ vnode'[v].fsnode = NULL
             /\ \A w \in Vnodes \ {v} : vnode'[w] = vnode[w]
             /\ \A n \in Nodes : node'[n].ino = node[n].ino
             /\ \A n \in Nodes, f \in Forks : node'[n].forkVNodes[f] =
                  IF node[n].forkVNodes[f] = v THEN NULL
                  ELSE node[n].forkVNodes[f]
<1>. DEFINE n == local[th].thisNode
            v == local[th].vn
<1>1. pc[th] = "detach"
  BY DEF Detaches
<1>2. /\ n \in Nodes /\ v \in Vnodes /\ vnode[v].fsnode = n
      /\ vnode[v].state = "reclaim"
  BY <1>1, LastDetached
<1>3. /\ vnode'[v].state = vnode[v].state /\ vnode'[v].vid = vnode[v].vid
      /\ vnode'[v].fsnode = NULL
      /\ \A w \in Vnodes \ {v} : vnode'[w] = vnode[w]
      /\ node'[n].ino = node[n].ino
      /\ \A f \in Forks : node'[n].forkVNodes[f] =
           IF node[n].forkVNodes[f] = v THEN NULL ELSE node[n].forkVNodes[f]
      /\ \A m \in Nodes \ {n} : SameNode(m)
  BY DEF Detaches
<1>. HIDE DEF n, v
<1>4. ASSUME NEW m \in Nodes \ {n}, NEW f \in Forks
      PROVE  node[m].forkVNodes[f] # v
  BY <1>2, ForksAre DEF IInv, Linked
<1>5. \A m \in Nodes : node'[m].ino = node[m].ino
  BY <1>3 DEF SameNode
<1>6. \A m \in Nodes, f \in Forks : node'[m].forkVNodes[f] =
        IF node[m].forkVNodes[f] = v THEN NULL ELSE node[m].forkVNodes[f]
  BY <1>3, <1>4 DEF SameNode
<1>. QED BY <1>2, <1>3, <1>5, <1>6 DEF n, v

(* The node of a vnode that is detached leaves the table with its last     *)
(* vnode, and with nothing attached or claimed.                            *)
LEMMA DetachedNode ==
  ASSUME IInv, NEW th \in Threads, Detaches(th)
  PROVE  LET n == local[th].thisNode
         IN  /\ n \in table /\ n \in Nodes /\ pc[th] = "detach"
             /\ node[n].forkVNodesCount \in Nat \ {0}
             /\ node'[n].forkVNodesCount = node[n].forkVNodesCount - 1
             /\ \A m \in Nodes \ {n} : SameNode(m)
             /\ \A m \in Nodes :
                  /\ node'[m].allocated = node[m].allocated
                  /\ node'[m].ino = node[m].ino
                  /\ node'[m].attachOutstanding = node[m].attachOutstanding
                  /\ node'[m].waiting = node[m].waiting
             /\ IF node[n].forkVNodesCount = 1
                THEN /\ table' = table \ {n} /\ ~node[n].attachOutstanding
                     /\ \A f \in Forks : node'[n].forkVNodes[f] = NULL
                ELSE table' = table
             /\ \A t \in Threads : SameLocal(t) /\ (t # th => pc'[t] = pc[t])
<1>. DEFINE n == local[th].thisNode
            v == local[th].vn
<1>1. pc[th] = "detach"
  BY DEF Detaches
<1>2. /\ n \in table /\ n \in Nodes
      /\ node[n].forkVNodesCount \in Nat \ {0}
      /\ node[n].forkVNodesCount = 1 =>
           /\ ~node[n].attachOutstanding
           /\ \A g \in Forks : node[n].forkVNodes[g] \in {v, NULL}
  BY <1>1, LastDetached
<1>3. /\ node'[n].forkVNodesCount = node[n].forkVNodesCount - 1
      /\ node'[n].allocated = node[n].allocated /\ node'[n].ino = node[n].ino
      /\ node'[n].attachOutstanding = node[n].attachOutstanding
      /\ node'[n].waiting = node[n].waiting
      /\ \A f \in Forks : node'[n].forkVNodes[f] =
           IF node[n].forkVNodes[f] = v THEN NULL ELSE node[n].forkVNodes[f]
      /\ \A m \in Nodes \ {n} : SameNode(m)
      /\ IF node[n].forkVNodesCount = 1 THEN table' = table \ {n}
         ELSE table' = table
  BY DEF Detaches, Leaves, SameTable
<1>4. \A t \in Threads : SameLocal(t) /\ (t # th => pc'[t] = pc[t])
  BY DEF Detaches, OnlyThread, SameThread
<1>. HIDE DEF n, v
<1>5. \A m \in Nodes :
        /\ node'[m].allocated = node[m].allocated
        /\ node'[m].ino = node[m].ino
        /\ node'[m].attachOutstanding = node[m].attachOutstanding
        /\ node'[m].waiting = node[m].waiting
  BY <1>3 DEF SameNode
<1>6. node[n].forkVNodesCount = 1 =>
        \A f \in Forks : node'[n].forkVNodes[f] = NULL
  BY <1>2, <1>3
<1>. QED BY <1>1, <1>2, <1>3, <1>4, <1>5, <1>6 DEF n

(* A vnode that is attached fills one fork that had none.                  *)
LEMMA AttachedForks ==
  ASSUME IInv, NEW th \in Threads, Succeeds(th)
  PROVE  LET n == local[th].thisNode
             v == local[th].vn
             g == local[th].fork
         IN  /\ n \in Nodes /\ n \in table /\ v \in Vnodes /\ g \in Forks
             /\ vnode[v].state = "live" /\ vnode[v].fsnode = n
             /\ th \in vnode[v].uses /\ node[n].ino = local[th].ino
             /\ node[n].forkVNodes[g] = NULL
             /\ \A f \in Forks : node[n].forkVNodes[f] # v
             /\ vnode' = vnode
             /\ \A m \in Nodes : node'[m].ino = node[m].ino
             /\ \A m \in Nodes, f \in Forks : node'[m].forkVNodes[f] =
                  IF m = n /\ f = g THEN v ELSE node[m].forkVNodes[f]
<1>. DEFINE n == local[th].thisNode
            v == local[th].vn
            g == local[th].fork
<1>1. pc[th] = "attach" /\ v # NULL
  BY DEF Succeeds
<1>2. /\ n \in Nodes /\ n \in table /\ v \in Vnodes /\ g \in Forks
      /\ node[n].ino = local[th].ino /\ node[n].forkVNodes[g] = NULL
  BY <1>1, Kinds DEF IInv, Attached, AttachPCs
<1>3. /\ vnode[v].state = "live" /\ vnode[v].fsnode = n
      /\ th \in vnode[v].uses
      /\ \A f \in Forks : node[n].forkVNodes[f] # v
  BY <1>1 DEF IInv, Linked, AttachPCs
<1>4. /\ vnode' = vnode /\ node'[n].ino = node[n].ino
      /\ node'[n].forkVNodes = [node[n].forkVNodes EXCEPT ![g] = v]
      /\ \A m \in Nodes \ {n} : SameNode(m)
  BY DEF Succeeds
<1>. HIDE DEF n, v, g
<1>5. node[n].forkVNodes \in [Forks -> Vnodes \cup {NULL}]
  BY <1>2 DEF IInv, Typed, HNode
<1>6. \A m \in Nodes : node'[m].ino = node[m].ino
  BY <1>4 DEF SameNode
<1>7. \A m \in Nodes, f \in Forks : node'[m].forkVNodes[f] =
        IF m = n /\ f = g THEN v ELSE node[m].forkVNodes[f]
  BY <1>4, <1>5 DEF SameNode
<1>. QED BY <1>2, <1>3, <1>4, <1>6, <1>7 DEF n, v, g

(* Most steps change neither the vnodes nor what the forks have.           *)
LEMMA KeptForks ==
  ASSUME NEW th \in Threads, Moves(th) \/ Begins(th) \/ Sleeps(th)
                               \/ Finds(th) \/ Fails(th)
  PROVE  /\ vnode' = vnode
         /\ \A n \in Nodes : /\ node'[n].forkVNodes = node[n].forkVNodes
                             /\ node'[n].ino = node[n].ino
<1>1. CASE Moves(th)
  BY <1>1 DEF Moves, SameNodes, SameNode
<1>2. CASE Begins(th)
  BY <1>2 DEF Begins, SameNodes, SameNode
<1>3. CASE Sleeps(th)
  BY <1>3 DEF Sleeps, SameNode
<1>4. CASE Finds(th)
  BY <1>4 DEF Finds, SameNodes, SameNode
<1>5. CASE Fails(th)
  BY <1>5 DEF Fails, SameNode
<1>. QED BY <1>1, <1>2, <1>3, <1>4, <1>5

(* The nodes and the vnodes that a thread names where it does.             *)
LEMMA InHand ==
  ASSUME IInv, NEW th \in Threads
  PROVE  /\ pc[th] \in {"create", "creating", "created", "attach", "using",
                        "getvnode", "quickget", "scrub", "reclaim", "detach"}
              => local[th].thisNode \in Nodes
         /\ pc[th] \in {"using", "getvnode", "quickget", "reclaim", "detach",
                        "reclaimed"}
              => local[th].vn \in Vnodes
<1>1. pc[th] \in AttachPCs => local[th].thisNode \in Nodes
  BY Kinds DEF IInv, Attached
<1>2. pc[th] = "scrub" => local[th].thisNode \in Nodes
  BY Kinds DEF IInv, Owned
<1>3. pc[th] \in {"using", "getvnode", "quickget"} =>
        local[th].thisNode \in Nodes /\ local[th].vn \in Vnodes
  BY Kinds DEF IInv, Using, Chosen, Used, GettingPCs
<1>4. pc[th] \in {"reclaim", "detach", "reclaimed"} => local[th].vn \in Vnodes
  BY Kinds DEF IInv, Reclaiming, Reclaims, ReclaimPCs
<1>5. pc[th] \in {"reclaim", "detach"} => local[th].thisNode \in Nodes
  BY Kinds DEF IInv, Reclaiming, Reclaims, ReclaimPCs
<1>. QED BY <1>1, <1>2, <1>3, <1>4, <1>5 DEF AttachPCs

-----------------------------------------------------------------------------
(* The invariant is kept, conjunct by conjunct.                            *)

(* Who searches keeps the inode it was asked for.                          *)
LEMMA AskedStep ==
  ASSUME IInv, NEW th \in Threads, Step(th)
  PROVE  Asked'
<1>1. CASE Moves(th)
  BY <1>1, ForksAre
  DEF Moves, Ways, SameLocal, SameThread, OnlyThread, IInv, Typed, HNode,
      Local, Vnode, Asked, Searching, AttachPCs
<1>2. CASE Begins(th)
  BY <1>2, ForksAre
  DEF Begins, SameLocal, SameThread, OnlyThread, IInv, HNode, Local, Vnode,
      Asked, Searching, AttachPCs
<1>3. CASE Allocates(th)
  BY <1>3, ForksAre
  DEF Allocates, SameLocal, SameThread, OnlyThread, IInv, HNode, Local,
      Vnode, Asked, Searching, AttachPCs
<1>4. CASE Returns(th)
  BY <1>4, ForksAre
  DEF Returns, SameLocal, SameThread, OnlyThread, IInv, Typed, HNode, Local,
      Vnode, Asked, Searching, AttachPCs
<1>5. CASE AttachesNew(th)
  BY <1>5, ForksAre
  DEF AttachesNew, Attaches, SameLocal, SameThread, OnlyThread, IInv, Typed,
      HNode, Local, Vnode, Asked, Searching, AttachPCs
<1>6. CASE AttachesOld(th)
  BY <1>6, ForksAre
  DEF AttachesOld, Attaches, SameLocal, SameThread, OnlyThread, SameTable,
      IInv, Typed, HNode, Local, Vnode, Asked, Searching, AttachPCs
<1>7. CASE Sleeps(th)
  BY <1>7, ForksAre
  DEF Sleeps, SameLocal, SameThread, OnlyThread, IInv, HNode, Local, Vnode,
      Asked, Searching, AttachPCs
<1>8. CASE Finds(th)
  BY <1>8, ForksAre
  DEF Finds, SameLocal, SameThread, OnlyThread, IInv, HNode, Local, Vnode,
      Asked, Searching, AttachPCs
<1>9. CASE Gets(th)
  BY <1>9, ForksAre
  DEF Gets, SameLocal, SameThread, OnlyThread, IInv, Typed, HNode, Local,
      Vnode, Asked, Searching, AttachPCs
<1>10. CASE Puts(th)
  BY <1>10, ForksAre
  DEF Puts, SameLocal, SameThread, OnlyThread, IInv, HNode, Local, Vnode,
      Asked, Searching, AttachPCs
<1>11. CASE Creates(th)
  BY <1>11, ForksAre
  DEF Creates, SameLocal, SameThread, OnlyThread, IInv, HNode, Local, Vnode,
      Asked, Searching, AttachPCs
<1>12. CASE Succeeds(th)
  BY <1>12, ForksAre, FailedAttach
  DEF Succeeds, Wakes, SameLocal, IInv, Typed, HNode, Local, Vnode, Asked,
      Searching, AttachPCs
<1>13. CASE Fails(th)
  BY <1>13, ForksAre, FailedAttach
  DEF Fails, Wakes, SameLocal, IInv, Typed, HNode, Local, Vnode, Asked,
      Searching, AttachPCs
<1>14. CASE Frees(th)
  BY <1>14, ForksAre
  DEF Frees, SameLocal, SameThread, OnlyThread, IInv, Typed, HNode, Local,
      Vnode, Asked, Searching, AttachPCs
<1>15. CASE TakesBack(th)
  BY <1>15, ForksAre
  DEF TakesBack, SameLocal, SameThread, OnlyThread, IInv, HNode, Local,
      Vnode, Asked, Searching, AttachPCs
<1>16. CASE Detaches(th)
  BY <1>16, ForksAre, LastDetached, SMTT(20)
  DEF Detaches, Leaves, SameLocal, SameThread, OnlyThread, SameNodes,
      SameNode, SameTable, IInv, Typed, HNode, Local, Vnode, Asked,
      Searching, AttachPCs
<1>17. CASE GivesBack(th)
  BY <1>17, ForksAre
  DEF GivesBack, SameLocal, SameThread, OnlyThread, IInv, HNode, Local,
      Vnode, Asked, Searching, AttachPCs
<1>. QED BY <1>1, <1>2, <1>3, <1>4, <1>5, <1>6, <1>7, <1>8, <1>9, <1>10,
           <1>11, <1>12, <1>13, <1>14, <1>15, <1>16, <1>17 DEF Step

(* Who sleeps on a node is seen by the thread that will take it out or end *)
(* the attach: the node stays, and says that somebody waits.               *)
LEMMA SleepingStep ==
  ASSUME IInv, NEW th \in Threads, Step(th)
  PROVE  (\A t \in Threads : pc[t] = "sleep" =>
            LET n == local[t].thisNode
            IN  n \in table /\ node[n].waiting)'
<1>1. CASE Moves(th)
  BY <1>1, ForksAre
  DEF Moves, Ways, SameLocal, SameThread, OnlyThread, SameNodes, SameNode,
      SameTable, IInv, Typed, SleepersWillWake
<1>2. CASE Begins(th)
  BY <1>2, ForksAre
  DEF Begins, SameLocal, SameThread, OnlyThread, SameNodes, SameNode,
      SameTable, IInv, Typed, SleepersWillWake
<1>3. CASE Allocates(th)
  BY <1>3, ForksAre
  DEF Allocates, SameLocal, SameThread, OnlyThread, SameNode, SameTable,
      IInv, Typed, SleepersWillWake, Tabled
<1>4. CASE Returns(th)
  BY <1>4, ForksAre
  DEF Returns, Trims, SameLocal, SameThread, OnlyThread, SameNodes, SameNode,
      SameTable, IInv, Typed, SleepersWillWake, Owned, Owns, OwnsNew
<1>5. CASE AttachesNew(th)
  BY <1>5, ForksAre
  DEF AttachesNew, Attaches, SameLocal, SameThread, OnlyThread, SameNode,
      IInv, Typed, SleepersWillWake, Owned, Owns, OwnsNew
<1>6. CASE AttachesOld(th)
  BY <1>6, ForksAre
  DEF AttachesOld, Attaches, SameLocal, SameThread, OnlyThread, SameNode,
      SameTable, IInv, Typed, SleepersWillWake, Owned, Owns, OwnsNew
<1>7. CASE Sleeps(th)
  BY <1>7, ForksAre
  DEF Sleeps, SameLocal, SameThread, OnlyThread, SameNode, SameTable, IInv,
      Typed, SleepersWillWake
<1>8. CASE Finds(th)
  BY <1>8, ForksAre
  DEF Finds, SameLocal, SameThread, OnlyThread, SameNodes, SameNode,
      SameTable, IInv, Typed, SleepersWillWake
<1>9. CASE Gets(th)
  BY <1>9, ForksAre
  DEF Gets, Trims, SameLocal, SameThread, OnlyThread, SameNode, SameTable,
      IInv, Typed, SleepersWillWake, Owned, Owns, OwnsNew
<1>10. CASE Puts(th)
  BY <1>10, ForksAre
  DEF Puts, SameLocal, SameThread, OnlyThread, SameNodes, SameNode,
      SameTable, IInv, Typed, SleepersWillWake
<1>11. CASE Creates(th)
  BY <1>11, ForksAre
  DEF Creates, SameLocal, SameThread, OnlyThread, SameNodes, SameNode,
      SameTable, IInv, Typed, SleepersWillWake
<1>12. CASE Succeeds(th)
  BY <1>12, ForksAre, FailedAttach
  DEF Succeeds, Wakes, SameLocal, SameNode, SameTable, IInv, Typed,
      SleepersWillWake
<1>13. CASE Fails(th)
  BY <1>13, ForksAre, FailedAttach
  DEF Fails, Wakes, Leaves, SameLocal, SameNode, SameTable, IInv, Typed,
      SleepersWillWake
<1>14. CASE Frees(th)
  BY <1>14, ForksAre
  DEF Frees, SameLocal, SameThread, OnlyThread, SameNode, SameTable, IInv,
      Typed, SleepersWillWake, Owned, Owns, Scrubs
<1>15. CASE TakesBack(th)
  BY <1>15, ForksAre
  DEF TakesBack, SameLocal, SameThread, OnlyThread, SameNodes, SameNode,
      SameTable, IInv, Typed, SleepersWillWake
<1>16. CASE Detaches(th)
  <2>1. ASSUME NEW t \in Threads, pc'[t] = "sleep"
        PROVE  LET m == local[t].thisNode
               IN  m \in table' /\ node'[m].waiting
    <3>1. pc[t] = "sleep"
      BY <1>16, <2>1, DetachedNode DEF Detaches
    <3>2. LET m == local[t].thisNode
          IN  m \in table /\ m \in Nodes /\ node[m].waiting
              /\ node[m].attachOutstanding
      BY <3>1 DEF IInv, Typed, SleepersWillWake
    <3>. QED BY <1>16, <3>2, DetachedNode
  <2>2. \A t \in Threads : local'[t].thisNode = local[t].thisNode
    BY <1>16, DetachedNode DEF SameLocal
  <2>. QED BY <2>1, <2>2
<1>17. CASE GivesBack(th)
  BY <1>17, ForksAre
  DEF GivesBack, SameLocal, SameThread, OnlyThread, SameNodes, SameNode,
      SameTable, IInv, Typed, SleepersWillWake
<1>. QED BY <1>1, <1>2, <1>3, <1>4, <1>5, <1>6, <1>7, <1>8, <1>9, <1>10,
           <1>11, <1>12, <1>13, <1>14, <1>15, <1>16, <1>17 DEF Step

(* Somebody waits only for an attach that is under way.                    *)
LEMMA WaitingStep ==
  ASSUME IInv, NEW th \in Threads, Step(th)
  PROVE  (\A n \in Nodes : node[n].waiting => node[n].attachOutstanding)'
<1>1. CASE Moves(th)
  BY <1>1, ForksAre
  DEF Moves, SameNodes, SameNode, IInv, Typed, SleepersWillWake
<1>2. CASE Begins(th)
  BY <1>2, ForksAre DEF Begins, SameNodes, SameNode, IInv, SleepersWillWake
<1>3. CASE Allocates(th)
  BY <1>3, ForksAre DEF Allocates, SameNode, IInv, SleepersWillWake
<1>4. CASE Returns(th)
  BY <1>4, ForksAre
  DEF Returns, Trims, Blank, SameNodes, SameNode, IInv, Typed,
      SleepersWillWake
<1>5. CASE AttachesNew(th)
  BY <1>5, ForksAre
  DEF AttachesNew, Attaches, Claims, SameNode, IInv, Typed, SleepersWillWake
<1>6. CASE AttachesOld(th)
  BY <1>6, ForksAre
  DEF AttachesOld, Attaches, Claims, Blank, SameNode, SameTable, IInv, Typed,
      SleepersWillWake
<1>7. CASE Sleeps(th)
  BY <1>7, ForksAre DEF Sleeps, SameNode, IInv, SleepersWillWake
<1>8. CASE Finds(th)
  BY <1>8, ForksAre DEF Finds, SameNodes, SameNode, IInv, SleepersWillWake
<1>9. CASE Gets(th)
  BY <1>9, ForksAre
  DEF Gets, Trims, Blank, SameNode, IInv, Typed, SleepersWillWake
<1>10. CASE Puts(th)
  BY <1>10, ForksAre DEF Puts, SameNodes, SameNode, IInv, SleepersWillWake
<1>11. CASE Creates(th)
  BY <1>11, ForksAre DEF Creates, SameNodes, SameNode, IInv, SleepersWillWake
<1>12. CASE Succeeds(th)
  BY <1>12, ForksAre, FailedAttach
  DEF Succeeds, SameNode, IInv, Typed, SleepersWillWake
<1>13. CASE Fails(th)
  BY <1>13, ForksAre, FailedAttach
  DEF Fails, SameLocal, SameNode, IInv, Typed, SleepersWillWake
<1>14. CASE Frees(th)
  BY <1>14, ForksAre DEF Frees, Blank, SameNode, IInv, Typed, SleepersWillWake
<1>15. CASE TakesBack(th)
  BY <1>15, ForksAre
  DEF TakesBack, SameNodes, SameNode, IInv, SleepersWillWake
<1>16. CASE Detaches(th)
  BY <1>16, ForksAre, LastDetached
  DEF Detaches, SameNode, IInv, Typed, SleepersWillWake
<1>17. CASE GivesBack(th)
  BY <1>17, ForksAre
  DEF GivesBack, SameNodes, SameNode, IInv, SleepersWillWake
<1>. QED BY <1>1, <1>2, <1>3, <1>4, <1>5, <1>6, <1>7, <1>8, <1>9, <1>10,
           <1>11, <1>12, <1>13, <1>14, <1>15, <1>16, <1>17 DEF Step

(* A node enters the table only after its inode was looked for there under *)
(* the mutex, so that no inode gets two.                                   *)
LEMMA OneNodeStep ==
  ASSUME IInv, NEW th \in Threads, Step(th)
  PROVE  OneNodePerInode'
<1>1. CASE Moves(th)
  BY <1>1, ForksAre
  DEF Moves, SameNodes, SameNode, SameTable, IInv, Typed, HNode, Local,
      Vnode, OneNodePerInode, Tabled, Attached, AttachPCs, Owned, Owns,
      OwnsNew, Scrubs, Reclaiming, ReclaimPCs
<1>2. CASE Begins(th)
  BY <1>2, ForksAre
  DEF Begins, SameNodes, SameNode, SameTable, IInv, Typed, HNode, Local,
      Vnode, OneNodePerInode, Tabled, Attached, AttachPCs, Owned, Owns,
      OwnsNew, Scrubs, Reclaiming, ReclaimPCs
<1>3. CASE Allocates(th)
  BY <1>3, ForksAre
  DEF Allocates, SameNode, SameTable, IInv, Typed, HNode, Local, Vnode,
      OneNodePerInode, Tabled, Attached, AttachPCs, Owned, Owns, OwnsNew,
      Scrubs, Reclaiming, ReclaimPCs
<1>4. CASE Returns(th)
  BY <1>4, ForksAre
  DEF Returns, Trims, SameNodes, SameNode, SameTable, IInv, Typed, HNode,
      Local, Vnode, OneNodePerInode, Tabled, Attached, AttachPCs, Owned,
      Owns, OwnsNew, Scrubs, Reclaiming, ReclaimPCs
<1>5. CASE AttachesNew(th)
  BY <1>5, ForksAre
  DEF AttachesNew, Attaches, Claims, SameNode, IInv, Typed, HNode, Local,
      Vnode, OneNodePerInode, Tabled, Attached, AttachPCs, Owned, Owns,
      OwnsNew, Scrubs, Reclaiming, ReclaimPCs
<1>6. CASE AttachesOld(th)
  BY <1>6, ForksAre
  DEF AttachesOld, Attaches, Claims, SameNode, SameTable, IInv, Typed, HNode,
      Local, Vnode, OneNodePerInode, Tabled, Attached, AttachPCs, Owned,
      Owns, OwnsNew, Scrubs, Reclaiming, ReclaimPCs
<1>7. CASE Sleeps(th)
  BY <1>7, ForksAre
  DEF Sleeps, SameNode, SameTable, IInv, Typed, HNode, Local, Vnode,
      OneNodePerInode, Tabled, Attached, AttachPCs, Owned, Owns, OwnsNew,
      Scrubs, Reclaiming, ReclaimPCs
<1>8. CASE Finds(th)
  BY <1>8, ForksAre
  DEF Finds, SameNodes, SameNode, SameTable, IInv, Typed, HNode, Local,
      Vnode, OneNodePerInode, Tabled, Attached, AttachPCs, Owned, Owns,
      OwnsNew, Scrubs, Reclaiming, ReclaimPCs
<1>9. CASE Gets(th)
  BY <1>9, ForksAre
  DEF Gets, Trims, SameNode, SameTable, IInv, Typed, HNode, Local, Vnode,
      OneNodePerInode, Tabled, Attached, AttachPCs, Owned, Owns, OwnsNew,
      Scrubs, Reclaiming, ReclaimPCs
<1>10. CASE Puts(th)
  BY <1>10, ForksAre
  DEF Puts, SameNodes, SameNode, SameTable, IInv, Typed, HNode, Local, Vnode,
      OneNodePerInode, Tabled, Attached, AttachPCs, Owned, Owns, OwnsNew,
      Scrubs, Reclaiming, ReclaimPCs
<1>11. CASE Creates(th)
  BY <1>11, ForksAre
  DEF Creates, SameNodes, SameNode, SameTable, IInv, Typed, HNode, Local,
      Vnode, OneNodePerInode, Tabled, Attached, AttachPCs, Owned, Owns,
      OwnsNew, Scrubs, Reclaiming, ReclaimPCs
<1>12. CASE Succeeds(th)
  BY <1>12, ForksAre, FailedAttach
  DEF Succeeds, SameNode, SameTable, IInv, Typed, HNode, Local, Vnode,
      OneNodePerInode, Tabled, Attached, AttachPCs, Owned, Owns, OwnsNew,
      Scrubs, Reclaiming, ReclaimPCs
<1>13. CASE Fails(th)
  <2>1. table' \subseteq table /\ \A m \in table : node'[m].ino = node[m].ino
    BY <1>13 DEF Fails, Leaves, SameTable, SameNode, IInv, Typed
  <2>. QED BY <2>1 DEF IInv, OneNodePerInode
<1>14. CASE Frees(th)
  BY <1>14, ForksAre
  DEF Frees, SameNode, SameTable, IInv, Typed, HNode, Local, Vnode,
      OneNodePerInode, Tabled, Attached, AttachPCs, Owned, Owns, OwnsNew,
      Scrubs, Reclaiming, ReclaimPCs
<1>15. CASE TakesBack(th)
  BY <1>15, ForksAre
  DEF TakesBack, SameNodes, SameNode, SameTable, IInv, Typed, HNode, Local,
      Vnode, OneNodePerInode, Tabled, Attached, AttachPCs, Owned, Owns,
      OwnsNew, Scrubs, Reclaiming, ReclaimPCs
<1>16. CASE Detaches(th)
  <2>1. /\ table' \subseteq table
        /\ \A m \in Nodes : node'[m].ino = node[m].ino
    BY <1>16 DEF Detaches, Leaves, SameNode, SameTable
  <2>. QED BY <2>1 DEF IInv, Typed, OneNodePerInode
<1>17. CASE GivesBack(th)
  BY <1>17, ForksAre
  DEF GivesBack, SameNodes, SameNode, SameTable, IInv, Typed, HNode, Local,
      Vnode, OneNodePerInode, Tabled, Attached, AttachPCs, Owned, Owns,
      OwnsNew, Scrubs, Reclaiming, ReclaimPCs
<1>. QED BY <1>1, <1>2, <1>3, <1>4, <1>5, <1>6, <1>7, <1>8, <1>9, <1>10,
           <1>11, <1>12, <1>13, <1>14, <1>15, <1>16, <1>17 DEF Step

(* What leaves the last reference leaves the table in the same step.       *)
LEMMA InTableStep ==
  ASSUME IInv, NEW th \in Threads, Step(th)
  PROVE  (\A n \in table : /\ node[n].allocated /\ node[n].ino \in Inodes
                         /\ node[n].forkVNodesCount > 0)'
<1>1. CASE Moves(th)
  BY <1>1, ForksAre
  DEF Moves, SameNodes, SameNode, SameTable, IInv, Typed, HNode, Tabled,
      Asked, Searching, Owned, Owns, OwnsNew, Scrubs
<1>2. CASE Begins(th)
  BY <1>2, ForksAre
  DEF Begins, SameNodes, SameNode, SameTable, IInv, Typed, HNode, Tabled,
      Asked, Searching, Owned, Owns, OwnsNew, Scrubs
<1>3. CASE Allocates(th)
  BY <1>3, ForksAre
  DEF Allocates, SameNode, SameTable, IInv, Typed, HNode, Tabled, Asked,
      Searching, Owned, Owns, OwnsNew, Scrubs
<1>4. CASE Returns(th)
  BY <1>4, ForksAre
  DEF Returns, Trims, SameNodes, SameNode, SameTable, IInv, Typed, HNode,
      Tabled, Asked, Searching, Owned, Owns, OwnsNew, Scrubs
<1>5. CASE AttachesNew(th)
  BY <1>5, ForksAre
  DEF AttachesNew, Attaches, Claims, SameNode, IInv, Typed, HNode, Tabled,
      Asked, Searching, Owned, Owns, OwnsNew, Scrubs
<1>6. CASE AttachesOld(th)
  BY <1>6, ForksAre
  DEF AttachesOld, Attaches, Claims, SameNode, SameTable, IInv, Typed, HNode,
      Tabled, Asked, Searching, Owned, Owns, OwnsNew, Scrubs
<1>7. CASE Sleeps(th)
  BY <1>7, ForksAre
  DEF Sleeps, SameNode, SameTable, IInv, Typed, HNode, Tabled, Asked,
      Searching, Owned, Owns, OwnsNew, Scrubs
<1>8. CASE Finds(th)
  BY <1>8, ForksAre
  DEF Finds, SameNodes, SameNode, SameTable, IInv, Typed, HNode, Tabled,
      Asked, Searching, Owned, Owns, OwnsNew, Scrubs
<1>9. CASE Gets(th)
  BY <1>9, ForksAre
  DEF Gets, Trims, SameNode, SameTable, IInv, Typed, HNode, Tabled, Asked,
      Searching, Owned, Owns, OwnsNew, Scrubs
<1>10. CASE Puts(th)
  BY <1>10, ForksAre
  DEF Puts, SameNodes, SameNode, SameTable, IInv, Typed, HNode, Tabled,
      Asked, Searching, Owned, Owns, OwnsNew, Scrubs
<1>11. CASE Creates(th)
  BY <1>11, ForksAre
  DEF Creates, SameNodes, SameNode, SameTable, IInv, Typed, HNode, Tabled,
      Asked, Searching, Owned, Owns, OwnsNew, Scrubs
<1>12. CASE Succeeds(th)
  BY <1>12, ForksAre, FailedAttach
  DEF Succeeds, SameNode, SameTable, IInv, Typed, HNode, Tabled, Asked,
      Searching, Owned, Owns, OwnsNew, Scrubs
<1>13. CASE Fails(th)
  <2>. DEFINE n == local[th].thisNode
  <2>1. /\ n \in table /\ n \in Nodes /\ node[n].forkVNodesCount \in Nat \ {0}
        /\ node[n].forkVNodesCount = 1 =>
             Full(n) = {}
    <3>1. pc[th] = "attach"
      BY <1>13 DEF Fails
    <3>. QED BY <3>1, FailedAttach
  <2>2. /\ node'[n].allocated /\ node'[n].ino \in Inodes
        /\ node'[n].forkVNodesCount = node[n].forkVNodesCount - 1
        /\ \A m \in Nodes \ {n} : SameNode(m)
        /\ IF node[n].forkVNodesCount = 1 THEN table' = table \ {n}
           ELSE table' = table
    BY <1>13, <2>1 DEF Fails, Leaves, SameTable, IInv, Tabled
  <2>. HIDE DEF n
  <2>. QED BY <2>1, <2>2 DEF SameNode, IInv, Typed, Tabled
<1>14. CASE Frees(th)
  BY <1>14, ForksAre
  DEF Frees, SameNode, SameTable, IInv, Typed, HNode, Tabled, Asked,
      Searching, Owned, Owns, OwnsNew, Scrubs
<1>15. CASE TakesBack(th)
  BY <1>15, ForksAre
  DEF TakesBack, SameNodes, SameNode, SameTable, IInv, Typed, HNode, Tabled,
      Asked, Searching, Owned, Owns, OwnsNew, Scrubs
<1>16. CASE Detaches(th)
  <2>. DEFINE n == local[th].thisNode
  <2>1. /\ n \in table /\ node[n].forkVNodesCount \in Nat \ {0}
        /\ node'[n].forkVNodesCount = node[n].forkVNodesCount - 1
        /\ \A m \in Nodes \ {n} : SameNode(m)
        /\ \A m \in Nodes : /\ node'[m].allocated = node[m].allocated
                            /\ node'[m].ino = node[m].ino
        /\ IF node[n].forkVNodesCount = 1 THEN table' = table \ {n}
           ELSE table' = table
    BY <1>16, DetachedNode
  <2>. HIDE DEF n
  <2>. QED BY <2>1 DEF SameNode, IInv, Typed, Tabled
<1>17. CASE GivesBack(th)
  BY <1>17, ForksAre
  DEF GivesBack, SameNodes, SameNode, SameTable, IInv, Typed, HNode, Tabled,
      Asked, Searching, Owned, Owns, OwnsNew, Scrubs
<1>. QED BY <1>1, <1>2, <1>3, <1>4, <1>5, <1>6, <1>7, <1>8, <1>9, <1>10,
           <1>11, <1>12, <1>13, <1>14, <1>15, <1>16, <1>17 DEF Step

(* Outside the table nothing counts for a node, and nothing is added to    *)
(* one that is not in the table.                                           *)
LEMMA OutOfTableStep ==
  ASSUME IInv, NEW th \in Threads, Step(th)
  PROVE  (\A n \in Nodes \ table : /\ node[n].forkVNodesCount = 0
                                 /\ ~node[n].attachOutstanding
                                 /\ \A f \in Forks :
                                      node[n].forkVNodes[f] = NULL)'
<1>1. CASE Moves(th)
  BY <1>1, ForksAre
  DEF Moves, SameNodes, SameNode, SameTable, IInv, Typed, HNode, Full,
      Tabled, Owned, Owns, OwnsNew, Scrubs
<1>2. CASE Begins(th)
  BY <1>2, ForksAre
  DEF Begins, SameNodes, SameNode, SameTable, IInv, HNode, Full, Tabled,
      Owned, Owns, OwnsNew, Scrubs
<1>3. CASE Allocates(th)
  BY <1>3, ForksAre
  DEF Allocates, SameNode, SameTable, IInv, HNode, Full, Tabled, Owned, Owns,
      OwnsNew, Scrubs
<1>4. CASE Returns(th)
  BY <1>4, ForksAre
  DEF Returns, Trims, Blank, SameNodes, SameNode, SameTable, IInv, Typed,
      HNode, Full, Tabled, Owned, Owns, OwnsNew, Scrubs
<1>5. CASE AttachesNew(th)
  BY <1>5, ForksAre
  DEF AttachesNew, SameNode, IInv, Typed, HNode, Full, Tabled, Owned, Owns,
      OwnsNew, Scrubs
<1>6. CASE AttachesOld(th)
  BY <1>6, ForksAre
  DEF AttachesOld, Blank, SameNode, SameTable, IInv, Typed, HNode, Full,
      Tabled, Owned, Owns, OwnsNew, Scrubs
<1>7. CASE Sleeps(th)
  BY <1>7, ForksAre
  DEF Sleeps, SameNode, SameTable, IInv, HNode, Full, Tabled, Owned, Owns,
      OwnsNew, Scrubs
<1>8. CASE Finds(th)
  BY <1>8, ForksAre
  DEF Finds, SameNodes, SameNode, SameTable, IInv, HNode, Full, Tabled,
      Owned, Owns, OwnsNew, Scrubs
<1>9. CASE Gets(th)
  BY <1>9, ForksAre
  DEF Gets, Trims, Blank, SameNode, SameTable, IInv, Typed, HNode, Full,
      Tabled, Owned, Owns, OwnsNew, Scrubs
<1>10. CASE Puts(th)
  BY <1>10, ForksAre
  DEF Puts, SameNodes, SameNode, SameTable, IInv, HNode, Full, Tabled, Owned,
      Owns, OwnsNew, Scrubs
<1>11. CASE Creates(th)
  BY <1>11, ForksAre
  DEF Creates, SameNodes, SameNode, SameTable, IInv, HNode, Full, Tabled,
      Owned, Owns, OwnsNew, Scrubs
<1>12. CASE Succeeds(th)
  <2>. DEFINE n == local[th].thisNode
  <2>1. n \in table /\ n \in Nodes
    BY <1>12, FailedAttach DEF Succeeds
  <2>2. table' = table /\ \A m \in Nodes \ {n} : SameNode(m)
    BY <1>12 DEF Succeeds, SameTable
  <2>. HIDE DEF n
  <2>. QED BY <2>1, <2>2 DEF SameNode, IInv, Tabled
<1>13. CASE Fails(th)
  <2>. DEFINE n == local[th].thisNode
  <2>1. /\ n \in table /\ n \in Nodes /\ node[n].forkVNodesCount \in Nat \ {0}
        /\ node[n].forkVNodesCount = 1 =>
             Full(n) = {}
    <3>1. pc[th] = "attach"
      BY <1>13 DEF Fails
    <3>. QED BY <3>1, FailedAttach
  <2>2. /\ node'[n].allocated /\ node'[n].ino \in Inodes
        /\ node'[n].forkVNodesCount = node[n].forkVNodesCount - 1
        /\ \A m \in Nodes \ {n} : SameNode(m)
        /\ IF node[n].forkVNodesCount = 1 THEN table' = table \ {n}
           ELSE table' = table
    BY <1>13, <2>1 DEF Fails, Leaves, SameTable, IInv, Tabled
  <2>3. /\ node'[n].forkVNodes = node[n].forkVNodes
        /\ ~node'[n].attachOutstanding
        /\ node[n].forkVNodesCount = 1 <=> Full(n) = {}
    BY <1>13, FailedAttach DEF Fails
  <2>. HIDE DEF n
  <2>4. ASSUME n \notin table'
        PROVE  /\ node'[n].forkVNodesCount = 0 /\ ~node'[n].attachOutstanding
               /\ \A f \in Forks : node'[n].forkVNodes[f] = NULL
    BY <2>1, <2>2, <2>3, <2>4 DEF Full
  <2>. QED BY <2>1, <2>2, <2>4 DEF SameNode, IInv, Tabled
<1>14. CASE Frees(th)
  BY <1>14, ForksAre
  DEF Frees, Blank, SameNode, SameTable, IInv, Typed, HNode, Full, Tabled,
      Owned, Owns, OwnsNew, Scrubs
<1>15. CASE TakesBack(th)
  BY <1>15, ForksAre
  DEF TakesBack, SameNodes, SameNode, SameTable, IInv, HNode, Full, Tabled,
      Owned, Owns, OwnsNew, Scrubs
<1>16. CASE Detaches(th)
  <2>. DEFINE n == local[th].thisNode
  <2>1. /\ n \in table
        /\ node'[n].forkVNodesCount = node[n].forkVNodesCount - 1
        /\ \A m \in Nodes \ {n} : SameNode(m)
        /\ \A m \in Nodes :
             node'[m].attachOutstanding = node[m].attachOutstanding
        /\ IF node[n].forkVNodesCount = 1
           THEN /\ table' = table \ {n} /\ ~node[n].attachOutstanding
                /\ \A f \in Forks : node'[n].forkVNodes[f] = NULL
           ELSE table' = table
    BY <1>16, DetachedNode
  <2>. HIDE DEF n
  <2>. QED BY <2>1 DEF SameNode, IInv, Tabled
<1>17. CASE GivesBack(th)
  BY <1>17, ForksAre
  DEF GivesBack, SameNodes, SameNode, SameTable, IInv, HNode, Full, Tabled,
      Owned, Owns, OwnsNew, Scrubs
<1>. QED BY <1>1, <1>2, <1>3, <1>4, <1>5, <1>6, <1>7, <1>8, <1>9, <1>10,
           <1>11, <1>12, <1>13, <1>14, <1>15, <1>16, <1>17 DEF Step

(* Memory allocated for an inode is handed in, freed or kept for that      *)
(* inode.                                                                  *)
LEMMA NewNodeStep ==
  ASSUME IInv, NEW th \in Threads, Step(th)
  PROVE  (\A t \in Threads : local[t].newNode # NULL =>
            pc[t] \in Searching /\ node[local[t].newNode].ino = local[t].ino)'
<1>1. CASE Moves(th)
  BY <1>1, ForksAre
  DEF Moves, Ways, SameLocal, SameThread, OnlyThread, SameNodes, SameNode,
      IInv, Typed, Local, Tabled, Owned, Owns, OwnsNew, Scrubs, Searching,
      AttachPCs
<1>2. CASE Begins(th)
  BY <1>2, ForksAre
  DEF Begins, SameLocal, SameThread, OnlyThread, SameNodes, SameNode, IInv,
      Typed, Local, Tabled, Owned, Owns, OwnsNew, Scrubs, Searching,
      AttachPCs
<1>3. CASE Allocates(th)
  BY <1>3, ForksAre
  DEF Allocates, SameLocal, SameThread, OnlyThread, SameNode, IInv, Typed,
      Local, Tabled, Owned, Owns, OwnsNew, Scrubs, Searching, AttachPCs
<1>4. CASE Returns(th)
  BY <1>4, ForksAre
  DEF Returns, Trims, SameLocal, SameThread, OnlyThread, SameNodes, SameNode,
      IInv, Typed, Local, Tabled, Owned, Owns, OwnsNew, Scrubs, Searching,
      AttachPCs
<1>5. CASE AttachesNew(th)
  BY <1>5, ForksAre
  DEF AttachesNew, Attaches, SameLocal, SameThread, OnlyThread, SameNode,
      IInv, Typed, Local, Tabled, Owned, Owns, OwnsNew, Scrubs, Searching,
      AttachPCs
<1>6. CASE AttachesOld(th)
  BY <1>6, ForksAre
  DEF AttachesOld, Attaches, SameLocal, SameThread, OnlyThread, SameNode,
      SameTable, IInv, Typed, Local, Tabled, Owned, Owns, OwnsNew, Scrubs,
      Searching, AttachPCs
<1>7. CASE Sleeps(th)
  BY <1>7, ForksAre
  DEF Sleeps, SameLocal, SameThread, OnlyThread, SameNode, IInv, Typed,
      Local, Tabled, Owned, Owns, OwnsNew, Scrubs, Searching, AttachPCs
<1>8. CASE Finds(th)
  BY <1>8, ForksAre, SMTT(20)
  DEF Finds, SameLocal, SameThread, OnlyThread, SameNodes, SameNode,
      SameTable, IInv, Typed, Local, Tabled, Owned, Owns, OwnsNew, Scrubs,
      Searching, AttachPCs
<1>9. CASE Gets(th)
  BY <1>9, ForksAre
  DEF Gets, Trims, SameLocal, SameThread, OnlyThread, SameNode, IInv, Typed,
      Local, Tabled, Owned, Owns, OwnsNew, Scrubs, Searching, AttachPCs
<1>10. CASE Puts(th)
  BY <1>10, ForksAre
  DEF Puts, SameLocal, SameThread, OnlyThread, SameNodes, SameNode, IInv,
      Typed, Local, Tabled, Owned, Owns, OwnsNew, Scrubs, Searching,
      AttachPCs
<1>11. CASE Creates(th)
  BY <1>11, ForksAre
  DEF Creates, SameLocal, SameThread, OnlyThread, SameNodes, SameNode, IInv,
      Typed, Local, Tabled, Owned, Owns, OwnsNew, Scrubs, Searching,
      AttachPCs
<1>12. CASE Succeeds(th)
  BY <1>12, ForksAre, FailedAttach
  DEF Succeeds, Wakes, SameLocal, SameNode, IInv, Typed, Local, Tabled,
      Owned, Owns, OwnsNew, Scrubs, Searching, AttachPCs
<1>13. CASE Fails(th)
  BY <1>13, ForksAre, FailedAttach
  DEF Fails, Wakes, SameLocal, SameNode, IInv, Typed, Local, Tabled, Owned,
      Owns, OwnsNew, Scrubs, Searching, AttachPCs
<1>14. CASE Frees(th)
  BY <1>14, ForksAre
  DEF Frees, SameLocal, SameThread, OnlyThread, SameNode, IInv, Typed, Local,
      Tabled, Owned, Owns, OwnsNew, Scrubs, Searching, AttachPCs
<1>15. CASE TakesBack(th)
  BY <1>15, ForksAre
  DEF TakesBack, SameLocal, SameThread, OnlyThread, SameNodes, SameNode,
      IInv, Typed, Local, Tabled, Owned, Owns, OwnsNew, Scrubs, Searching,
      AttachPCs
<1>16. CASE Detaches(th)
  <2>1. /\ \A t \in Threads : SameLocal(t) /\ (t # th => pc'[t] = pc[t])
        /\ \A m \in Nodes : node'[m].ino = node[m].ino
        /\ pc[th] = "detach"
    BY <1>16, DetachedNode
  <2>2. local[th].newNode = NULL
    BY <2>1 DEF IInv, Owned, Searching
  <2>. QED BY <2>1, <2>2, Kinds DEF SameLocal, IInv, Owned
<1>17. CASE GivesBack(th)
  BY <1>17, ForksAre
  DEF GivesBack, SameLocal, SameThread, OnlyThread, SameNodes, SameNode,
      IInv, Typed, Local, Tabled, Owned, Owns, OwnsNew, Scrubs, Searching,
      AttachPCs
<1>. QED BY <1>1, <1>2, <1>3, <1>4, <1>5, <1>6, <1>7, <1>8, <1>9, <1>10,
           <1>11, <1>12, <1>13, <1>14, <1>15, <1>16, <1>17 DEF Step

(* What is about to be freed is a node.                                    *)
LEMMA ScrubbedStep ==
  ASSUME IInv, NEW th \in Threads, Step(th)
  PROVE  (\A t \in Threads : pc[t] = "scrub" => local[t].thisNode # NULL)'
<1>1. CASE Moves(th)
  BY <1>1, ForksAre
  DEF Moves, Ways, SameLocal, SameThread, OnlyThread, IInv, Typed, Local,
      Tabled, Owned, Owns, OwnsNew, Scrubs, Searching, AttachPCs
<1>2. CASE Begins(th)
  BY <1>2, ForksAre
  DEF Begins, SameLocal, SameThread, OnlyThread, IInv, Local, Tabled, Owned,
      Owns, OwnsNew, Scrubs, Searching, AttachPCs
<1>3. CASE Allocates(th)
  BY <1>3, ForksAre
  DEF Allocates, SameLocal, SameThread, OnlyThread, IInv, Local, Tabled,
      Owned, Owns, OwnsNew, Scrubs, Searching, AttachPCs
<1>4. CASE Returns(th)
  BY <1>4, ForksAre
  DEF Returns, SameLocal, SameThread, OnlyThread, IInv, Typed, Local, Tabled,
      Owned, Owns, OwnsNew, Scrubs, Searching, AttachPCs
<1>5. CASE AttachesNew(th)
  BY <1>5, ForksAre
  DEF AttachesNew, Attaches, SameLocal, SameThread, OnlyThread, IInv, Typed,
      Local, Tabled, Owned, Owns, OwnsNew, Scrubs, Searching, AttachPCs
<1>6. CASE AttachesOld(th)
  BY <1>6, ForksAre
  DEF AttachesOld, Attaches, SameLocal, SameThread, OnlyThread, SameTable,
      IInv, Typed, Local, Tabled, Owned, Owns, OwnsNew, Scrubs, Searching,
      AttachPCs
<1>7. CASE Sleeps(th)
  BY <1>7, ForksAre
  DEF Sleeps, SameLocal, SameThread, OnlyThread, IInv, Local, Tabled, Owned,
      Owns, OwnsNew, Scrubs, Searching, AttachPCs
<1>8. CASE Finds(th)
  BY <1>8, ForksAre
  DEF Finds, SameLocal, SameThread, OnlyThread, IInv, Local, Tabled, Owned,
      Owns, OwnsNew, Scrubs, Searching, AttachPCs
<1>9. CASE Gets(th)
  BY <1>9, ForksAre
  DEF Gets, SameLocal, SameThread, OnlyThread, IInv, Typed, Local, Tabled,
      Owned, Owns, OwnsNew, Scrubs, Searching, AttachPCs
<1>10. CASE Puts(th)
  BY <1>10, ForksAre
  DEF Puts, SameLocal, SameThread, OnlyThread, IInv, Local, Tabled, Owned,
      Owns, OwnsNew, Scrubs, Searching, AttachPCs
<1>11. CASE Creates(th)
  BY <1>11, ForksAre
  DEF Creates, SameLocal, SameThread, OnlyThread, IInv, Local, Tabled, Owned,
      Owns, OwnsNew, Scrubs, Searching, AttachPCs
<1>12. CASE Succeeds(th)
  BY <1>12, ForksAre, FailedAttach
  DEF Succeeds, Wakes, SameLocal, IInv, Typed, Local, Tabled, Owned, Owns,
      OwnsNew, Scrubs, Searching, AttachPCs
<1>13. CASE Fails(th)
  BY <1>13, ForksAre, FailedAttach
  DEF Fails, Wakes, SameLocal, IInv, Typed, Local, Tabled, Owned, Owns,
      OwnsNew, Scrubs, Searching, AttachPCs
<1>14. CASE Frees(th)
  BY <1>14, ForksAre
  DEF Frees, SameLocal, SameThread, OnlyThread, IInv, Typed, Local, Tabled,
      Owned, Owns, OwnsNew, Scrubs, Searching, AttachPCs
<1>15. CASE TakesBack(th)
  BY <1>15, ForksAre
  DEF TakesBack, SameLocal, SameThread, OnlyThread, IInv, Local, Tabled,
      Owned, Owns, OwnsNew, Scrubs, Searching, AttachPCs
<1>16. CASE Detaches(th)
  <2>1. \A t \in Threads : SameLocal(t) /\ (t # th => pc'[t] = pc[t])
    BY <1>16, DetachedNode
  <2>2. local[th].thisNode # NULL
    BY <1>16, DetachedNode, Kinds
  <2>. QED BY <2>1, <2>2 DEF SameLocal, IInv, Owned
<1>17. CASE GivesBack(th)
  BY <1>17, ForksAre
  DEF GivesBack, SameLocal, SameThread, OnlyThread, IInv, Local, Tabled,
      Owned, Owns, OwnsNew, Scrubs, Searching, AttachPCs
<1>. QED BY <1>1, <1>2, <1>3, <1>4, <1>5, <1>6, <1>7, <1>8, <1>9, <1>10,
           <1>11, <1>12, <1>13, <1>14, <1>15, <1>16, <1>17 DEF Step

(* Nobody finds in the table what a thread has just allocated or is about  *)
(* to free.                                                                *)
LEMMA OwnedOutsideStep ==
  ASSUME IInv, NEW th \in Threads, Step(th)
  PROVE  (\A t \in Threads, n \in Nodes : Owns(t, n) =>
            n \notin table /\ node[n].allocated)'
<1>1. CASE Moves(th)
  BY <1>1, ForksAre
  DEF Moves, Ways, SameLocal, SameThread, OnlyThread, SameNodes, SameNode,
      SameTable, IInv, Typed, Local, Tabled, Owned, Owns, OwnsNew, Scrubs,
      Searching, AttachPCs
<1>2. CASE Begins(th)
  BY <1>2, ForksAre
  DEF Begins, SameLocal, SameThread, OnlyThread, SameNodes, SameNode,
      SameTable, IInv, Local, Tabled, Owned, Owns, OwnsNew, Scrubs,
      Searching, AttachPCs
<1>3. CASE Allocates(th)
  BY <1>3, ForksAre
  DEF Allocates, SameLocal, SameThread, OnlyThread, SameNode, SameTable,
      IInv, Local, Tabled, Owned, Owns, OwnsNew, Scrubs, Searching, AttachPCs
<1>4. CASE Returns(th)
  BY <1>4, ForksAre
  DEF Returns, Trims, SameLocal, SameThread, OnlyThread, SameNodes, SameNode,
      SameTable, IInv, Typed, Local, Tabled, Owned, Owns, OwnsNew, Scrubs,
      Searching, AttachPCs
<1>5. CASE AttachesNew(th)
  BY <1>5, ForksAre
  DEF AttachesNew, Attaches, SameLocal, SameThread, OnlyThread, SameNode,
      IInv, Typed, Local, Tabled, Owned, Owns, OwnsNew, Scrubs, Searching,
      AttachPCs
<1>6. CASE AttachesOld(th)
  BY <1>6, ForksAre
  DEF AttachesOld, Attaches, SameLocal, SameThread, OnlyThread, SameNode,
      SameTable, IInv, Typed, Local, Tabled, Owned, Owns, OwnsNew, Scrubs,
      Searching, AttachPCs
<1>7. CASE Sleeps(th)
  BY <1>7, ForksAre
  DEF Sleeps, SameLocal, SameThread, OnlyThread, SameNode, SameTable, IInv,
      Local, Tabled, Owned, Owns, OwnsNew, Scrubs, Searching, AttachPCs
<1>8. CASE Finds(th)
  BY <1>8, ForksAre
  DEF Finds, SameLocal, SameThread, OnlyThread, SameNodes, SameNode,
      SameTable, IInv, Local, Tabled, Owned, Owns, OwnsNew, Scrubs,
      Searching, AttachPCs
<1>9. CASE Gets(th)
  BY <1>9, ForksAre
  DEF Gets, Trims, SameLocal, SameThread, OnlyThread, SameNode, SameTable,
      IInv, Typed, Local, Tabled, Owned, Owns, OwnsNew, Scrubs, Searching,
      AttachPCs
<1>10. CASE Puts(th)
  BY <1>10, ForksAre
  DEF Puts, SameLocal, SameThread, OnlyThread, SameNodes, SameNode,
      SameTable, IInv, Local, Tabled, Owned, Owns, OwnsNew, Scrubs,
      Searching, AttachPCs
<1>11. CASE Creates(th)
  BY <1>11, ForksAre
  DEF Creates, SameLocal, SameThread, OnlyThread, SameNodes, SameNode,
      SameTable, IInv, Local, Tabled, Owned, Owns, OwnsNew, Scrubs,
      Searching, AttachPCs
<1>12. CASE Succeeds(th)
  BY <1>12, ForksAre, FailedAttach
  DEF Succeeds, Wakes, SameLocal, SameNode, SameTable, IInv, Typed, Local,
      Tabled, Owned, Owns, OwnsNew, Scrubs, Searching, AttachPCs
<1>13. CASE Fails(th)
  BY <1>13, ForksAre, FailedAttach
  DEF Fails, Wakes, Leaves, SameLocal, SameNode, SameTable, IInv, Typed,
      Local, Tabled, Owned, Owns, OwnsNew, Scrubs, Searching, AttachPCs
<1>14. CASE Frees(th)
  BY <1>14, ForksAre
  DEF Frees, SameLocal, SameThread, OnlyThread, SameNode, SameTable, IInv,
      Typed, Local, Tabled, Owned, Owns, OwnsNew, Scrubs, Searching,
      AttachPCs
<1>15. CASE TakesBack(th)
  BY <1>15, ForksAre
  DEF TakesBack, SameLocal, SameThread, OnlyThread, SameNodes, SameNode,
      SameTable, IInv, Local, Tabled, Owned, Owns, OwnsNew, Scrubs,
      Searching, AttachPCs
<1>16. CASE Detaches(th)
  <2>. DEFINE n == local[th].thisNode
  <2>1. /\ n \in table
        /\ \A m \in Nodes : node'[m].allocated = node[m].allocated
        /\ IF node[n].forkVNodesCount = 1 THEN table' = table \ {n}
           ELSE table' = table
    BY <1>16, DetachedNode
  <2>2. ASSUME NEW t \in Threads, NEW m \in Nodes, Owns(t, m)'
        PROVE  Owns(t, m) \/ (m = n /\ node[n].forkVNodesCount = 1)
    BY <1>16, <2>2
    DEF Detaches, SameLocal, SameThread, OnlyThread, Owns, OwnsNew, Scrubs
  <2>3. ASSUME NEW t \in Threads, NEW m \in Nodes, Owns(t, m)'
        PROVE  m \notin table' /\ node'[m].allocated
    <3>. HIDE DEF n
    <3>. QED BY <2>1, <2>2, <2>3 DEF IInv, Owned, Tabled
  <2>. QED BY <2>3
<1>17. CASE GivesBack(th)
  BY <1>17, ForksAre
  DEF GivesBack, SameLocal, SameThread, OnlyThread, SameNodes, SameNode,
      SameTable, IInv, Local, Tabled, Owned, Owns, OwnsNew, Scrubs,
      Searching, AttachPCs
<1>. QED BY <1>1, <1>2, <1>3, <1>4, <1>5, <1>6, <1>7, <1>8, <1>9, <1>10,
           <1>11, <1>12, <1>13, <1>14, <1>15, <1>16, <1>17 DEF Step

(* No two threads free, or insert, the same memory.                        *)
LEMMA OneOwnerStep ==
  ASSUME IInv, NEW th \in Threads, Step(th)
  PROVE  (\A s, t \in Threads, n \in Nodes :
            Owns(s, n) /\ Owns(t, n) => s = t)'
<1>1. CASE Moves(th)
  BY <1>1, ForksAre
  DEF Moves, Ways, SameLocal, SameThread, OnlyThread, IInv, Typed, Local,
      Tabled, Owned, Owns, OwnsNew, Scrubs, Searching, AttachPCs
<1>2. CASE Begins(th)
  BY <1>2, ForksAre
  DEF Begins, SameLocal, SameThread, OnlyThread, IInv, Local, Tabled, Owned,
      Owns, OwnsNew, Scrubs, Searching, AttachPCs
<1>3. CASE Allocates(th)
  BY <1>3, ForksAre
  DEF Allocates, SameLocal, SameThread, OnlyThread, IInv, Local, Tabled,
      Owned, Owns, OwnsNew, Scrubs, Searching, AttachPCs
<1>4. CASE Returns(th)
  BY <1>4, ForksAre
  DEF Returns, SameLocal, SameThread, OnlyThread, IInv, Typed, Local, Tabled,
      Owned, Owns, OwnsNew, Scrubs, Searching, AttachPCs
<1>5. CASE AttachesNew(th)
  BY <1>5, ForksAre
  DEF AttachesNew, Attaches, SameLocal, SameThread, OnlyThread, IInv, Typed,
      Local, Tabled, Owned, Owns, OwnsNew, Scrubs, Searching, AttachPCs
<1>6. CASE AttachesOld(th)
  BY <1>6, ForksAre
  DEF AttachesOld, Attaches, SameLocal, SameThread, OnlyThread, SameTable,
      IInv, Typed, Local, Tabled, Owned, Owns, OwnsNew, Scrubs, Searching,
      AttachPCs
<1>7. CASE Sleeps(th)
  BY <1>7, ForksAre
  DEF Sleeps, SameLocal, SameThread, OnlyThread, IInv, Local, Tabled, Owned,
      Owns, OwnsNew, Scrubs, Searching, AttachPCs
<1>8. CASE Finds(th)
  BY <1>8, ForksAre
  DEF Finds, SameLocal, SameThread, OnlyThread, IInv, Local, Tabled, Owned,
      Owns, OwnsNew, Scrubs, Searching, AttachPCs
<1>9. CASE Gets(th)
  BY <1>9, ForksAre
  DEF Gets, SameLocal, SameThread, OnlyThread, IInv, Typed, Local, Tabled,
      Owned, Owns, OwnsNew, Scrubs, Searching, AttachPCs
<1>10. CASE Puts(th)
  BY <1>10, ForksAre
  DEF Puts, SameLocal, SameThread, OnlyThread, IInv, Local, Tabled, Owned,
      Owns, OwnsNew, Scrubs, Searching, AttachPCs
<1>11. CASE Creates(th)
  BY <1>11, ForksAre
  DEF Creates, SameLocal, SameThread, OnlyThread, IInv, Local, Tabled, Owned,
      Owns, OwnsNew, Scrubs, Searching, AttachPCs
<1>12. CASE Succeeds(th)
  BY <1>12, ForksAre, FailedAttach
  DEF Succeeds, Wakes, SameLocal, IInv, Typed, Local, Tabled, Owned, Owns,
      OwnsNew, Scrubs, Searching, AttachPCs
<1>13. CASE Fails(th)
  <2>. DEFINE n == local[th].thisNode
  <2>1. pc[th] = "attach" /\ n \in table
    <3>1. pc[th] = "attach"
      BY <1>13 DEF Fails
    <3>. QED BY <3>1, FailedAttach
  <2>2. ASSUME NEW t \in Threads, NEW m \in Nodes, Owns(t, m)'
        PROVE  Owns(t, m) \/ (t = th /\ m = n)
    BY <1>13, <2>2, Kinds DEF Fails, Wakes, SameLocal, Owns, OwnsNew, Scrubs
  <2>3. /\ \A t \in Threads, m \in Nodes : Owns(t, m) => m \notin table
        /\ \A s, t \in Threads, m \in Nodes :
             Owns(s, m) /\ Owns(t, m) => s = t
    BY DEF IInv, Owned
  <2>. QED BY <2>1, <2>2, <2>3
<1>14. CASE Frees(th)
  BY <1>14, ForksAre
  DEF Frees, SameLocal, SameThread, OnlyThread, IInv, Typed, Local, Tabled,
      Owned, Owns, OwnsNew, Scrubs, Searching, AttachPCs
<1>15. CASE TakesBack(th)
  BY <1>15, ForksAre
  DEF TakesBack, SameLocal, SameThread, OnlyThread, IInv, Local, Tabled,
      Owned, Owns, OwnsNew, Scrubs, Searching, AttachPCs
<1>16. CASE Detaches(th)
  <2>. DEFINE n == local[th].thisNode
  <2>1. pc[th] = "detach" /\ n \in table
    <3>1. pc[th] = "detach"
      BY <1>16 DEF Detaches
    <3>. QED BY <3>1, LastDetached
  <2>2. ASSUME NEW t \in Threads, NEW m \in Nodes, Owns(t, m)'
        PROVE  Owns(t, m) \/ (t = th /\ m = n)
    BY <1>16, <2>2
    DEF Detaches, SameLocal, SameThread, OnlyThread, Owns, OwnsNew, Scrubs
  <2>3. /\ \A t \in Threads, m \in Nodes : Owns(t, m) => m \notin table
        /\ \A s, t \in Threads, m \in Nodes :
             Owns(s, m) /\ Owns(t, m) => s = t
    BY DEF IInv, Owned
  <2>. QED BY <2>1, <2>2, <2>3
<1>17. CASE GivesBack(th)
  BY <1>17, ForksAre
  DEF GivesBack, SameLocal, SameThread, OnlyThread, IInv, Local, Tabled,
      Owned, Owns, OwnsNew, Scrubs, Searching, AttachPCs
<1>. QED BY <1>1, <1>2, <1>3, <1>4, <1>5, <1>6, <1>7, <1>8, <1>9, <1>10,
           <1>11, <1>12, <1>13, <1>14, <1>15, <1>16, <1>17 DEF Step

(* What leaves the table goes to the thread that took it out, and what a   *)
(* thread gives up is freed or in the table: no memory is lost.            *)
LEMMA NoOwnerlessStep ==
  ASSUME IInv, NEW th \in Threads, Step(th)
  PROVE  (\A n \in Nodes \ table :
            node[n].allocated => \E t \in Threads : Owns(t, n))'
<1>1. CASE Moves(th)
  BY <1>1, ForksAre, SMTT(20)
  DEF Moves, Ways, SameLocal, SameThread, OnlyThread, SameNodes, SameNode,
      SameTable, IInv, Typed, Local, Tabled, Owned, Owns, OwnsNew, Scrubs,
      Searching, AttachPCs
<1>2. CASE Begins(th)
  <2>1. ASSUME NEW n \in Nodes, n \notin table', node'[n].allocated
        PROVE  \E t \in Threads : Owns(t, n)'
    <3>1. n \notin table /\ node[n].allocated
      BY <1>2, <2>1, ForksAre DEF Begins, SameNodes, SameNode, SameTable
    <3>2. PICK t \in Threads : Owns(t, n)
      BY <3>1 DEF IInv, Owned
    <3>3. Owns(t, n)'
      BY <1>2, <2>1, <3>1, <3>2
      DEF Begins, SameLocal, SameThread, OnlyThread, Owns, OwnsNew, Scrubs,
          IInv, Owned, Searching, GettingPCs
    <3>. QED BY <3>3
  <2>. QED BY <2>1
<1>3. CASE Allocates(th)
  BY <1>3, ForksAre, SMTT(20)
  DEF Allocates, SameLocal, SameThread, OnlyThread, SameNodes, SameNode,
      SameTable, IInv, Typed, Local, Tabled, Owned, Owns, OwnsNew, Scrubs,
      Searching, AttachPCs
<1>4. CASE Returns(th)
  BY <1>4, ForksAre
  DEF Returns, Trims, Blank, SameLocal, SameThread, OnlyThread, SameNodes,
      SameNode, SameTable, IInv, Typed, Local, Tabled, Owned, Owns, OwnsNew,
      Scrubs, Searching, AttachPCs
<1>5. CASE AttachesNew(th)
  BY <1>5, ForksAre, SMTT(60)
  DEF AttachesNew, Attaches, Claims, SameLocal, SameThread, OnlyThread,
      SameNodes, SameNode, SameTable, IInv, Typed, Local, Tabled, Owned,
      Owns, OwnsNew, Scrubs, Searching, AttachPCs
<1>6. CASE AttachesOld(th)
  BY <1>6, ForksAre
  DEF AttachesOld, Attaches, Blank, SameLocal, SameThread, OnlyThread,
      SameNode, SameTable, IInv, Typed, Local, Tabled, Owned, Owns, OwnsNew,
      Scrubs, Searching, AttachPCs
<1>7. CASE Sleeps(th)
  BY <1>7, ForksAre
  DEF Sleeps, SameLocal, SameThread, OnlyThread, SameNode, SameTable, IInv,
      Local, Tabled, Owned, Owns, OwnsNew, Scrubs, Searching, AttachPCs
<1>8. CASE Finds(th)
  <2>1. ASSUME NEW n \in Nodes, n \notin table', node'[n].allocated
        PROVE  \E t \in Threads : Owns(t, n)'
    <3>1. n \notin table /\ node[n].allocated
      BY <1>8, <2>1, ForksAre DEF Finds, SameNodes, SameNode, SameTable
    <3>2. PICK t \in Threads : Owns(t, n)
      BY <3>1 DEF IInv, Owned
    <3>3. Owns(t, n)'
      BY <1>8, <2>1, <3>1, <3>2
      DEF Finds, SameLocal, SameThread, OnlyThread, Owns, OwnsNew, Scrubs,
          IInv, Owned, Searching, GettingPCs
    <3>. QED BY <3>3
  <2>. QED BY <2>1
<1>9. CASE Gets(th)
  <2>1. ASSUME NEW n \in Nodes, n \notin table', node'[n].allocated
        PROVE  \E t \in Threads : Owns(t, n)'
    <3>1. n \notin table /\ node[n].allocated
      BY <1>9, <2>1, ForksAre
      DEF Gets, Trims, Blank, SameNode, SameTable, IInv, Typed
    <3>2. PICK t \in Threads : Owns(t, n)
      BY <3>1 DEF IInv, Owned
    <3>3. Owns(t, n)'
      BY <1>9, <2>1, <3>1, <3>2
      DEF Gets, Trims, Blank, SameLocal, SameThread, OnlyThread, Owns,
          OwnsNew, Scrubs, IInv, Owned, Searching, GettingPCs
    <3>. QED BY <3>3
  <2>. QED BY <2>1
<1>10. CASE Puts(th)
  <2>1. ASSUME NEW n \in Nodes, n \notin table', node'[n].allocated
        PROVE  \E t \in Threads : Owns(t, n)'
    <3>1. n \notin table /\ node[n].allocated
      BY <1>10, <2>1, ForksAre DEF Puts, SameNodes, SameNode, SameTable
    <3>2. PICK t \in Threads : Owns(t, n)
      BY <3>1 DEF IInv, Owned
    <3>3. Owns(t, n)'
      BY <1>10, <2>1, <3>1, <3>2
      DEF Puts, SameLocal, SameThread, OnlyThread, Owns, OwnsNew, Scrubs,
          IInv, Owned, Searching, GettingPCs
    <3>. QED BY <3>3
  <2>. QED BY <2>1
<1>11. CASE Creates(th)
  BY <1>11, ForksAre
  DEF Creates, SameLocal, SameThread, OnlyThread, SameNodes, SameNode,
      SameTable, IInv, Local, Tabled, Owned, Owns, OwnsNew, Scrubs,
      Searching, AttachPCs
<1>12. CASE Succeeds(th)
  BY <1>12, ForksAre, FailedAttach
  DEF Succeeds, Wakes, SameLocal, SameNode, SameTable, IInv, Typed, Local,
      Tabled, Owned, Owns, OwnsNew, Scrubs, Searching, AttachPCs
<1>13. CASE Fails(th)
  <2>1. ASSUME NEW n \in Nodes, n \notin table', node'[n].allocated
        PROVE  \E t \in Threads : Owns(t, n)'
    <3>1. CASE n = local[th].thisNode
      <4>1. Scrubs(th, n)'
        BY <1>13, <2>1, <3>1, FailedAttach
        DEF Fails, Leaves, SameLocal, SameTable, Scrubs
      <4>. QED BY <4>1 DEF Owns
    <3>2. CASE n # local[th].thisNode
      <4>1. n \notin table /\ node[n].allocated
        BY <1>13, <2>1, <3>2 DEF Fails, Leaves, SameNode, SameTable
      <4>2. PICK t \in Threads : Owns(t, n)
        BY <4>1 DEF IInv, Owned
      <4>3. Owns(t, n)'
        BY <1>13, <3>2, <4>1, <4>2
        DEF Fails, Wakes, SameLocal, Owns, OwnsNew, Scrubs, IInv, Owned,
            Searching
      <4>. QED BY <4>3
    <3>. QED BY <3>1, <3>2
  <2>. QED BY <2>1
<1>14. CASE Frees(th)
  BY <1>14, ForksAre, SMTT(60)
  DEF Frees, Blank, SameLocal, SameThread, OnlyThread, SameNodes, SameNode,
      SameTable, IInv, Typed, Local, Tabled, Owned, Owns, OwnsNew, Scrubs,
      Searching, AttachPCs
<1>15. CASE TakesBack(th)
  BY <1>15, ForksAre
  DEF TakesBack, SameLocal, SameThread, OnlyThread, SameNodes, SameNode,
      SameTable, IInv, Local, Tabled, Owned, Owns, OwnsNew, Scrubs,
      Searching, AttachPCs
<1>16. CASE Detaches(th)
  <2>1. ASSUME NEW n \in Nodes, n \notin table', node'[n].allocated
        PROVE  \E t \in Threads : Owns(t, n)'
    <3>1. CASE n = local[th].thisNode
      <4>1. Scrubs(th, n)'
        BY <1>16, <2>1, <3>1, LastDetached
        DEF Detaches, Leaves, SameLocal, SameThread, OnlyThread, SameTable,
            Scrubs
      <4>. QED BY <4>1 DEF Owns
    <3>2. CASE n # local[th].thisNode
      <4>1. n \notin table /\ node[n].allocated
        BY <1>16, <2>1, <3>2 DEF Detaches, Leaves, SameNode, SameTable
      <4>2. PICK t \in Threads : Owns(t, n)
        BY <4>1 DEF IInv, Owned
      <4>3. Owns(t, n)'
        BY <1>16, <3>2, <4>1, <4>2
        DEF Detaches, SameLocal, SameThread, OnlyThread, Owns, OwnsNew,
            Scrubs, IInv, Owned, Searching
      <4>. QED BY <4>3
    <3>. QED BY <3>1, <3>2
  <2>. QED BY <2>1
<1>17. CASE GivesBack(th)
  BY <1>17, ForksAre, SMTT(20)
  DEF GivesBack, SameLocal, SameThread, OnlyThread, SameNodes, SameNode,
      SameTable, IInv, Typed, Local, Tabled, Owned, Owns, OwnsNew, Scrubs,
      Searching, AttachPCs
<1>. QED BY <1>1, <1>2, <1>3, <1>4, <1>5, <1>6, <1>7, <1>8, <1>9, <1>10,
           <1>11, <1>12, <1>13, <1>14, <1>15, <1>16, <1>17 DEF Step

(* Nobody ends an attach but the thread that began it, nor fills the fork  *)
(* that it will fill.                                                      *)
LEMMA AttachStep ==
  ASSUME IInv, NEW th \in Threads, Step(th)
  PROVE  (\A t \in Threads : pc[t] \in AttachPCs =>
            LET n == local[t].thisNode
            IN  /\ n \in table /\ node[n].attachOutstanding
                /\ node[n].ino = local[t].ino
                /\ node[n].forkVNodes[local[t].fork] = NULL)'
<1>1. CASE Moves(th)
  BY <1>1, ForksAre
  DEF Moves, Ways, SameLocal, SameThread, OnlyThread, SameNodes, SameNode,
      SameTable, IInv, Typed, Local, Attached, AttachPCs, Tabled, GettingPCs,
      Owned, Owns, OwnsNew, Scrubs
<1>2. CASE Begins(th)
  BY <1>2, ForksAre
  DEF Begins, SameLocal, SameThread, OnlyThread, SameNodes, SameNode,
      SameTable, IInv, Typed, Local, Attached, AttachPCs, Tabled, GettingPCs,
      Owned, Owns, OwnsNew, Scrubs
<1>3. CASE Allocates(th)
  BY <1>3, ForksAre
  DEF Allocates, SameLocal, SameThread, OnlyThread, SameNode, SameTable,
      IInv, Typed, Local, Attached, AttachPCs, Tabled, GettingPCs, Owned,
      Owns, OwnsNew, Scrubs
<1>4. CASE Returns(th)
  BY <1>4, ForksAre
  DEF Returns, Trims, SameLocal, SameThread, OnlyThread, SameNodes, SameNode,
      SameTable, IInv, Typed, Local, Attached, AttachPCs, Tabled, GettingPCs,
      Owned, Owns, OwnsNew, Scrubs
<1>5. CASE AttachesNew(th)
  BY <1>5, ForksAre
  DEF AttachesNew, Attaches, Claims, SameLocal, SameThread, OnlyThread,
      SameNode, IInv, Typed, Local, Attached, AttachPCs, Tabled, GettingPCs,
      Owned, Owns, OwnsNew, Scrubs
<1>6. CASE AttachesOld(th)
  BY <1>6, ForksAre, SMTT(20)
  DEF AttachesOld, Attaches, Claims, Blank, SameLocal, SameThread,
      OnlyThread, SameNodes, SameNode, SameTable, IInv, Typed, Local,
      Attached, AttachPCs, Tabled, GettingPCs, Owned, Owns, OwnsNew, Scrubs
<1>7. CASE Sleeps(th)
  BY <1>7, ForksAre
  DEF Sleeps, SameLocal, SameThread, OnlyThread, SameNode, SameTable, IInv,
      Typed, Local, Attached, AttachPCs, Tabled, GettingPCs, Owned, Owns,
      OwnsNew, Scrubs
<1>8. CASE Finds(th)
  <2>1. \A t \in Threads : pc'[t] \in AttachPCs =>
          pc[t] \in AttachPCs /\ SameLocal(t)
    BY <1>8 DEF Finds, SameThread, OnlyThread, AttachPCs
  <2>. QED BY <1>8, <2>1
       DEF Finds, SameLocal, SameNodes, SameNode, SameTable, IInv, Typed,
           Attached
<1>9. CASE Gets(th)
  BY <1>9, ForksAre
  DEF Gets, Trims, SameLocal, SameThread, OnlyThread, SameNode, SameTable,
      IInv, Typed, Local, Attached, AttachPCs, Tabled, GettingPCs, Owned,
      Owns, OwnsNew, Scrubs
<1>10. CASE Puts(th)
  BY <1>10, ForksAre
  DEF Puts, SameLocal, SameThread, OnlyThread, SameNodes, SameNode,
      SameTable, IInv, Typed, Local, Attached, AttachPCs, Tabled, GettingPCs,
      Owned, Owns, OwnsNew, Scrubs
<1>11. CASE Creates(th)
  BY <1>11, ForksAre
  DEF Creates, SameLocal, SameThread, OnlyThread, SameNodes, SameNode,
      SameTable, IInv, Typed, Local, Attached, AttachPCs, Tabled, GettingPCs,
      Owned, Owns, OwnsNew, Scrubs
<1>12. CASE Succeeds(th)
  <2>. DEFINE n == local[th].thisNode
  <2>1. /\ pc[th] = "attach" /\ pc'[th] \notin AttachPCs
        /\ table' = table /\ \A m \in Nodes \ {n} : SameNode(m)
    BY <1>12 DEF Succeeds, Leaves, SameTable, AttachPCs
  <2>2. \A t \in Threads : pc'[t] \in AttachPCs =>
          t # th /\ pc[t] \in AttachPCs /\ SameLocal(t)
    BY <1>12, <2>1 DEF Succeeds, Wakes, AttachPCs
  <2>3. \A t \in Threads \ {th} :
          pc[t] \in AttachPCs => local[t].thisNode # n
    BY <2>1 DEF IInv, Attached, AttachPCs
  <2>. HIDE DEF n
  <2>. QED BY <2>1, <2>2, <2>3 DEF SameLocal, SameNode, IInv, Typed, Attached
<1>13. CASE Fails(th)
  <2>. DEFINE n == local[th].thisNode
  <2>1. /\ pc[th] = "attach" /\ pc'[th] \notin AttachPCs
        /\ table \ {n} \subseteq table' /\ \A m \in Nodes \ {n} : SameNode(m)
    BY <1>13 DEF Fails, Leaves, SameTable, AttachPCs
  <2>2. \A t \in Threads : pc'[t] \in AttachPCs =>
          t # th /\ pc[t] \in AttachPCs /\ SameLocal(t)
    BY <1>13, <2>1 DEF Fails, Wakes, AttachPCs
  <2>3. \A t \in Threads \ {th} :
          pc[t] \in AttachPCs => local[t].thisNode # n
    BY <2>1 DEF IInv, Attached, AttachPCs
  <2>. HIDE DEF n
  <2>. QED BY <2>1, <2>2, <2>3 DEF SameLocal, SameNode, IInv, Typed, Attached
<1>14. CASE Frees(th)
  BY <1>14, ForksAre
  DEF Frees, SameLocal, SameThread, OnlyThread, SameNode, SameTable, IInv,
      Typed, Local, Attached, AttachPCs, Tabled, GettingPCs, Owned, Owns,
      OwnsNew, Scrubs
<1>15. CASE TakesBack(th)
  BY <1>15, ForksAre
  DEF TakesBack, SameLocal, SameThread, OnlyThread, SameNodes, SameNode,
      SameTable, IInv, Typed, Local, Attached, AttachPCs, Tabled, GettingPCs,
      Owned, Owns, OwnsNew, Scrubs
<1>16. CASE Detaches(th)
  <2>1. ASSUME NEW t \in Threads, pc'[t] \in AttachPCs
        PROVE  LET n == local'[t].thisNode
               IN  /\ n \in table' /\ node'[n].attachOutstanding
                   /\ node'[n].ino = local'[t].ino
                   /\ node'[n].forkVNodes[local'[t].fork] = NULL
    <3>. DEFINE m == local[t].thisNode
                n == local[th].thisNode
    <3>1. pc[th] = "detach" /\ t # th
      BY <1>16, <2>1 DEF Detaches, AttachPCs
    <3>2. SameLocal(t) /\ pc'[t] = pc[t]
      BY <1>16, <3>1 DEF Detaches, OnlyThread, SameThread
    <3>3. /\ m \in table /\ m \in Nodes /\ local[t].fork \in Forks
          /\ node[m].attachOutstanding /\ node[m].ino = local[t].ino
          /\ node[m].forkVNodes[local[t].fork] = NULL
      BY <2>1, <3>2, Kinds DEF IInv, Typed, Attached
    <3>4. /\ node'[m].attachOutstanding /\ node'[m].ino = node[m].ino
          /\ node'[m].forkVNodes[local[t].fork] = NULL
      <4>1. /\ node'[m].ino = node[m].ino
            /\ node'[m].forkVNodes[local[t].fork] = NULL
        BY <1>16, <3>3, DetachedForks
      <4>. QED BY <1>16, <3>3, <4>1 DEF Detaches, SameNode
    <3>5. node[n].forkVNodesCount = 1 => m # n
      BY <3>1, <3>3, LastDetached
    <3>6. m \in table'
      BY <1>16, <3>3, <3>5 DEF Detaches, Leaves, SameTable
    <3>. QED BY <3>2, <3>3, <3>4, <3>6 DEF SameLocal
  <2>. QED BY <2>1
<1>17. CASE GivesBack(th)
  BY <1>17, ForksAre
  DEF GivesBack, SameLocal, SameThread, OnlyThread, SameNodes, SameNode,
      SameTable, IInv, Typed, Local, Attached, AttachPCs, Tabled, GettingPCs,
      Owned, Owns, OwnsNew, Scrubs
<1>. QED BY <1>1, <1>2, <1>3, <1>4, <1>5, <1>6, <1>7, <1>8, <1>9, <1>10,
           <1>11, <1>12, <1>13, <1>14, <1>15, <1>16, <1>17 DEF Step

(* attachOutstanding goes with the thread that set it.                     *)
LEMMA SomeAttachStep ==
  ASSUME IInv, NEW th \in Threads, Step(th)
  PROVE  (\A n \in Nodes : node[n].attachOutstanding =>
            \E t \in Threads : pc[t] \in AttachPCs /\ local[t].thisNode = n)'
<1>1. CASE Moves(th)
  <2>1. /\ \A n \in Nodes :
             node'[n].attachOutstanding = node[n].attachOutstanding
        /\ \A t \in Threads : pc[t] \in AttachPCs =>
             /\ pc'[t] \in AttachPCs
             /\ local'[t].thisNode = local[t].thisNode
    BY <1>1
    DEF Moves, Ways, SameNodes, SameNode, SameLocal, SameThread, OnlyThread,
        AttachPCs
  <2>. QED BY <2>1 DEF IInv, Attached
<1>2. CASE Begins(th)
  BY <1>2, ForksAre
  DEF Begins, SameLocal, SameThread, OnlyThread, SameNodes, SameNode, IInv,
      Local, Attached, AttachPCs, GettingPCs
<1>3. CASE Allocates(th)
  BY <1>3, ForksAre
  DEF Allocates, SameLocal, SameThread, OnlyThread, SameNode, SameTable,
      IInv, Local, Attached, AttachPCs, GettingPCs
<1>4. CASE Returns(th)
  BY <1>4, ForksAre
  DEF Returns, Trims, Blank, SameLocal, SameThread, OnlyThread, SameNodes,
      SameNode, IInv, Typed, Local, Attached, AttachPCs, GettingPCs
<1>5. CASE AttachesNew(th)
  <2>1. PICK n \in Nodes :
          Attaches(th, n) /\ \A m \in Nodes \ {n} : SameNode(m)
    BY <1>5 DEF AttachesNew, Attaches
  <2>2. pc'[th] \in AttachPCs /\ local'[th].thisNode = n
    BY <2>1 DEF Attaches, AttachPCs
  <2>3. \A t \in Threads : pc[t] \in AttachPCs =>
          /\ pc'[t] \in AttachPCs
          /\ local'[t].thisNode = local[t].thisNode
    BY <2>1 DEF Attaches, OnlyThread, SameThread, SameLocal, AttachPCs
  <2>. QED BY <2>1, <2>2, <2>3 DEF SameNode, IInv, Attached
<1>6. CASE AttachesOld(th)
  BY <1>6, ForksAre, SMTT(20)
  DEF AttachesOld, Attaches, Claims, Blank, SameLocal, SameThread,
      OnlyThread, SameNodes, SameNode, SameTable, IInv, Typed, Local,
      Attached, AttachPCs, GettingPCs
<1>7. CASE Sleeps(th)
  BY <1>7, ForksAre
  DEF Sleeps, SameLocal, SameThread, OnlyThread, SameNode, IInv, Local,
      Attached, AttachPCs, GettingPCs
<1>8. CASE Finds(th)
  BY <1>8, ForksAre
  DEF Finds, SameLocal, SameThread, OnlyThread, SameNodes, SameNode,
      SameTable, IInv, Local, Attached, AttachPCs, GettingPCs
<1>9. CASE Gets(th)
  BY <1>9, ForksAre
  DEF Gets, Trims, Blank, SameLocal, SameThread, OnlyThread, SameNode,
      SameTable, IInv, Typed, Local, Attached, AttachPCs, GettingPCs
<1>10. CASE Puts(th)
  BY <1>10, ForksAre
  DEF Puts, SameLocal, SameThread, OnlyThread, SameNodes, SameNode, IInv,
      Local, Attached, AttachPCs, GettingPCs
<1>11. CASE Creates(th)
  <2>1. /\ \A n \in Nodes :
             node'[n].attachOutstanding = node[n].attachOutstanding
        /\ \A t \in Threads : pc[t] \in AttachPCs =>
             /\ pc'[t] \in AttachPCs
             /\ local'[t].thisNode = local[t].thisNode
    BY <1>11
    DEF Creates, SameNodes, SameNode, SameLocal, SameThread, OnlyThread,
        AttachPCs
  <2>. QED BY <2>1 DEF IInv, Attached
<1>12. CASE Succeeds(th)
  <2>1. \A m \in Nodes : node'[m].attachOutstanding =>
          node[m].attachOutstanding /\ m # local[th].thisNode
    BY <1>12 DEF Succeeds, SameNode
  <2>2. \A t \in Threads \ {th} : pc[t] \in AttachPCs =>
          pc'[t] = pc[t] /\ local'[t].thisNode = local[t].thisNode
    BY <1>12 DEF Succeeds, Wakes, SameLocal, AttachPCs
  <2>. QED BY <2>1, <2>2 DEF IInv, Attached
<1>13. CASE Fails(th)
  BY <1>13, ForksAre, FailedAttach, SMTT(20)
  DEF Fails, Wakes, Leaves, SameLocal, SameThread, OnlyThread, SameNodes,
      SameNode, SameTable, IInv, Typed, Local, Attached, AttachPCs,
      GettingPCs
<1>14. CASE Frees(th)
  BY <1>14, ForksAre
  DEF Frees, Blank, SameLocal, SameThread, OnlyThread, SameNode, IInv, Typed,
      Local, Attached, AttachPCs, GettingPCs
<1>15. CASE TakesBack(th)
  BY <1>15, ForksAre, SMTT(20)
  DEF TakesBack, SameLocal, SameThread, OnlyThread, SameNodes, SameNode,
      SameTable, IInv, Typed, Local, Attached, AttachPCs, GettingPCs
<1>16. CASE Detaches(th)
  <2>1. \A n \in Nodes :
          node'[n].attachOutstanding = node[n].attachOutstanding
    BY <1>16 DEF Detaches, SameNode
  <2>2. \A t \in Threads : pc[t] \in AttachPCs =>
          pc'[t] = pc[t] /\ local'[t].thisNode = local[t].thisNode
    BY <1>16 DEF Detaches, SameLocal, SameThread, OnlyThread, AttachPCs
  <2>. QED BY <2>1, <2>2 DEF IInv, Attached
<1>17. CASE GivesBack(th)
  BY <1>17, ForksAre
  DEF GivesBack, SameLocal, SameThread, OnlyThread, SameNodes, SameNode,
      IInv, Local, Attached, AttachPCs, GettingPCs
<1>. QED BY <1>1, <1>2, <1>3, <1>4, <1>5, <1>6, <1>7, <1>8, <1>9, <1>10,
           <1>11, <1>12, <1>13, <1>14, <1>15, <1>16, <1>17 DEF Step

(* An attach begins only on a node without one.                            *)
LEMMA OneAttachStep ==
  ASSUME IInv, NEW th \in Threads, Step(th)
  PROVE  (\A s, t \in Threads :
            pc[s] \in AttachPCs /\ pc[t] \in AttachPCs
              /\ local[s].thisNode = local[t].thisNode => s = t)'
<1>1. CASE Moves(th)
  BY <1>1, Kinds
  DEF Moves, Ways, SameLocal, SameThread, OnlyThread, IInv, Attached,
      AttachPCs, GettingPCs, Tabled, Owned, Owns, OwnsNew, Scrubs
<1>2. CASE Begins(th)
  BY <1>2, Kinds
  DEF Begins, SameLocal, SameThread, OnlyThread, IInv, Attached, AttachPCs,
      GettingPCs, Tabled, Owned, Owns, OwnsNew, Scrubs
<1>3. CASE Allocates(th)
  BY <1>3, Kinds
  DEF Allocates, SameLocal, SameThread, OnlyThread, IInv, Attached,
      AttachPCs, GettingPCs, Tabled, Owned, Owns, OwnsNew, Scrubs
<1>4. CASE Returns(th)
  BY <1>4, Kinds
  DEF Returns, SameLocal, SameThread, OnlyThread, IInv, Attached, AttachPCs,
      GettingPCs, Tabled, Owned, Owns, OwnsNew, Scrubs
<1>5. CASE AttachesNew(th)
  BY <1>5, Kinds
  DEF AttachesNew, Attaches, SameLocal, SameThread, OnlyThread, IInv,
      Attached, AttachPCs, GettingPCs, Tabled, Owned, Owns, OwnsNew, Scrubs
<1>6. CASE AttachesOld(th)
  BY <1>6, Kinds
  DEF AttachesOld, Attaches, SameLocal, SameThread, OnlyThread, SameTable,
      IInv, Attached, AttachPCs, GettingPCs, Tabled, Owned, Owns, OwnsNew,
      Scrubs
<1>7. CASE Sleeps(th)
  BY <1>7, Kinds
  DEF Sleeps, SameLocal, SameThread, OnlyThread, IInv, Attached, AttachPCs,
      GettingPCs, Tabled, Owned, Owns, OwnsNew, Scrubs
<1>8. CASE Finds(th)
  <2>1. \A t \in Threads : pc'[t] \in AttachPCs =>
          pc[t] \in AttachPCs /\ local'[t].thisNode = local[t].thisNode
    BY <1>8 DEF Finds, SameLocal, SameThread, OnlyThread, AttachPCs
  <2>. QED BY <2>1 DEF IInv, Attached
<1>9. CASE Gets(th)
  BY <1>9, Kinds
  DEF Gets, SameLocal, SameThread, OnlyThread, IInv, Attached, AttachPCs,
      GettingPCs, Tabled, Owned, Owns, OwnsNew, Scrubs
<1>10. CASE Puts(th)
  BY <1>10, Kinds
  DEF Puts, SameLocal, SameThread, OnlyThread, IInv, Attached, AttachPCs,
      GettingPCs, Tabled, Owned, Owns, OwnsNew, Scrubs
<1>11. CASE Creates(th)
  BY <1>11, Kinds
  DEF Creates, SameLocal, SameThread, OnlyThread, IInv, Attached, AttachPCs,
      GettingPCs, Tabled, Owned, Owns, OwnsNew, Scrubs
<1>12. CASE Succeeds(th)
  <2>1. \A t \in Threads : pc'[t] \in AttachPCs =>
          pc[t] \in AttachPCs /\ local'[t].thisNode = local[t].thisNode
    BY <1>12 DEF Succeeds, Wakes, SameLocal, AttachPCs
  <2>. QED BY <2>1 DEF IInv, Attached
<1>13. CASE Fails(th)
  <2>1. \A t \in Threads : pc'[t] \in AttachPCs =>
          pc[t] \in AttachPCs /\ local'[t].thisNode = local[t].thisNode
    BY <1>13 DEF Fails, Wakes, SameLocal, AttachPCs
  <2>. QED BY <2>1 DEF IInv, Attached
<1>14. CASE Frees(th)
  BY <1>14, Kinds
  DEF Frees, SameLocal, SameThread, OnlyThread, IInv, Attached, AttachPCs,
      GettingPCs, Tabled, Owned, Owns, OwnsNew, Scrubs
<1>15. CASE TakesBack(th)
  BY <1>15, Kinds
  DEF TakesBack, SameLocal, SameThread, OnlyThread, IInv, Attached,
      AttachPCs, GettingPCs, Tabled, Owned, Owns, OwnsNew, Scrubs
<1>16. CASE Detaches(th)
  <2>1. pc'[th] \notin AttachPCs
    BY <1>16 DEF Detaches, AttachPCs
  <2>2. \A t \in Threads \ {th} : SameThread(t)
    BY <1>16 DEF Detaches, OnlyThread
  <2>. QED BY <2>1, <2>2 DEF SameThread, SameLocal, IInv, Attached
<1>17. CASE GivesBack(th)
  BY <1>17, Kinds
  DEF GivesBack, SameLocal, SameThread, OnlyThread, IInv, Attached,
      AttachPCs, GettingPCs, Tabled, Owned, Owns, OwnsNew, Scrubs
<1>. QED BY <1>1, <1>2, <1>3, <1>4, <1>5, <1>6, <1>7, <1>8, <1>9, <1>10,
           <1>11, <1>12, <1>13, <1>14, <1>15, <1>16, <1>17 DEF Step

(* Only the thread that reclaims a vnode takes it from its fork.           *)
LEMMA KeptFork ==
  ASSUME IInv, NEW th \in Threads, Step(th)
  PROVE  \A n \in Nodes, f \in Forks :
            LET v == node[n].forkVNodes[f]
            IN  v # NULL /\ ~(pc[th] = "detach" /\ local[th].vn = v) =>
                  node'[n].forkVNodes[f] = v /\ node'[n].ino = node[n].ino
<1>1. CASE Moves(th)
  BY <1>1, Kinds, KeptForks
<1>2. CASE Begins(th)
  BY <1>2, Kinds, KeptForks
<1>3. CASE Allocates(th)
  BY <1>3, Kinds
  DEF Allocates, SameNode, IInv, Tabled, Owned, Owns, OwnsNew, Scrubs,
      Attached, AttachPCs
<1>4. CASE Returns(th)
  BY <1>4, Kinds
  DEF Returns, Trims, SameNodes, SameNode, IInv, Tabled, Owned, Owns,
      OwnsNew, Scrubs, Attached, AttachPCs
<1>5. CASE AttachesNew(th)
  BY <1>5, Kinds
  DEF AttachesNew, SameNode, IInv, Tabled, Owned, Owns, OwnsNew, Scrubs,
      Attached, AttachPCs
<1>6. CASE AttachesOld(th)
  BY <1>6, Kinds
  DEF AttachesOld, Attaches, Claims, SameNode, SameTable, IInv, Tabled,
      Owned, Owns, OwnsNew, Scrubs, Attached, AttachPCs
<1>7. CASE Sleeps(th)
  BY <1>7, Kinds, KeptForks
<1>8. CASE Finds(th)
  BY <1>8, Kinds, KeptForks
<1>9. CASE Gets(th)
  BY <1>9, Kinds
  DEF Gets, Trims, SameNode, IInv, Tabled, Owned, Owns, OwnsNew, Scrubs,
      Attached, AttachPCs
<1>10. CASE Puts(th)
  BY <1>10, Kinds
  DEF Puts, SameNodes, SameNode, Owned, Owns, OwnsNew, Scrubs, Attached,
      AttachPCs
<1>11. CASE Creates(th)
  BY <1>11, Kinds
  DEF Creates, SameNodes, SameNode, Owned, Owns, OwnsNew, Scrubs, Attached,
      AttachPCs
<1>12. CASE Succeeds(th)
  BY <1>12, Kinds, AttachedForks
<1>13. CASE Fails(th)
  BY <1>13, Kinds, KeptForks
<1>14. CASE Frees(th)
  BY <1>14, Kinds
  DEF Frees, SameNode, IInv, Tabled, Owned, Owns, OwnsNew, Scrubs, Attached,
      AttachPCs
<1>15. CASE TakesBack(th)
  BY <1>15, Kinds
  DEF TakesBack, SameNodes, SameNode, Owned, Owns, OwnsNew, Scrubs, Attached,
      AttachPCs
<1>16. CASE Detaches(th)
  <2>1. pc[th] = "detach"
    BY <1>16 DEF Detaches
  <2>2. /\ \A n \in Nodes : node'[n].ino = node[n].ino
        /\ \A n \in Nodes, f \in Forks : node'[n].forkVNodes[f] =
             IF node[n].forkVNodes[f] = local[th].vn THEN NULL
             ELSE node[n].forkVNodes[f]
    BY <1>16, DetachedForks
  <2>. QED BY <2>1, <2>2
<1>17. CASE GivesBack(th)
  BY <1>17, Kinds
  DEF GivesBack, SameNodes, SameNode, Owned, Owns, OwnsNew, Scrubs, Attached,
      AttachPCs
<1>. QED BY <1>1, <1>2, <1>3, <1>4, <1>5, <1>6, <1>7, <1>8, <1>9, <1>10,
           <1>11, <1>12, <1>13, <1>14, <1>15, <1>16, <1>17 DEF Step

(* A v_id never goes back, and a vnode keeps its v_id until it is free.    *)
LEMMA KeptVnode ==
  ASSUME IInv, NEW th \in Threads, Step(th)
  PROVE  \A v \in Vnodes :
            vnode'[v].vid = vnode[v].vid \/ vnode'[v].vid = vnode[v].vid + 1
<1>1. CASE Moves(th)
  BY <1>1, Kinds, KeptForks
<1>2. CASE Begins(th)
  BY <1>2, Kinds, KeptForks
<1>3. CASE Allocates(th)
  BY <1>3 DEF Allocates
<1>4. CASE Returns(th)
  BY <1>4, Kinds DEF Returns
<1>5. CASE AttachesNew(th)
  BY <1>5, Kinds DEF AttachesNew, Attaches
<1>6. CASE AttachesOld(th)
  BY <1>6, Kinds DEF AttachesOld, Attaches, SameTable
<1>7. CASE Sleeps(th)
  BY <1>7, Kinds, KeptForks
<1>8. CASE Finds(th)
  BY <1>8, Kinds, KeptForks
<1>9. CASE Gets(th)
  BY <1>9, Kinds DEF Gets
<1>10. CASE Puts(th)
  BY <1>10 DEF Puts
<1>11. CASE Creates(th)
  BY <1>11 DEF Creates
<1>12. CASE Succeeds(th)
  BY <1>12, Kinds, AttachedForks
<1>13. CASE Fails(th)
  BY <1>13, Kinds, KeptForks
<1>14. CASE Frees(th)
  BY <1>14 DEF Frees
<1>15. CASE TakesBack(th)
  BY <1>15 DEF TakesBack
<1>16. CASE Detaches(th)
  BY <1>16, Kinds, DetachedForks
<1>17. CASE GivesBack(th)
  BY <1>17 DEF GivesBack
<1>. QED BY <1>1, <1>2, <1>3, <1>4, <1>5, <1>6, <1>7, <1>8, <1>9, <1>10,
           <1>11, <1>12, <1>13, <1>14, <1>15, <1>16, <1>17 DEF Step

(* A vnode in a fork has the node of that fork, until it is detached.      *)
LEMMA ForkLinkStep ==
  ASSUME IInv, NEW th \in Threads, Step(th)
  PROVE  (\A n \in Nodes, f \in Forks : LET v == node[n].forkVNodes[f] IN
            v # NULL => vnode[v].fsnode = n /\ vnode[v].state # "free")'
<1>1. CASE Moves(th)
  BY <1>1, KeptForks DEF IInv, Linked
<1>2. CASE Begins(th)
  BY <1>2, KeptForks DEF IInv, Linked
<1>3. CASE Allocates(th)
  BY <1>3, Kinds
  DEF Allocates, SameNode, IInv, Linked, AttachPCs, GettingPCs, Tabled,
      Attached, Owned, Owns, OwnsNew, Scrubs
<1>4. CASE Returns(th)
  BY <1>4, Kinds
  DEF Returns, Trims, Blank, SameNodes, SameNode, IInv, Linked, AttachPCs,
      GettingPCs, Tabled, Attached, Owned, Owns, OwnsNew, Scrubs
<1>5. CASE AttachesNew(th)
  <2>1. /\ vnode' = vnode
        /\ \A n \in Nodes : node'[n].forkVNodes = node[n].forkVNodes
    BY <1>5 DEF AttachesNew, Attaches, Claims, SameNode
  <2>. QED BY <2>1 DEF IInv, Linked
<1>6. CASE AttachesOld(th)
  BY <1>6, Kinds
  DEF AttachesOld, Attaches, Claims, Blank, SameNode, SameTable, IInv,
      Linked, AttachPCs, GettingPCs, Tabled, Attached, Owned, Owns, OwnsNew,
      Scrubs
<1>7. CASE Sleeps(th)
  BY <1>7, KeptForks DEF IInv, Linked
<1>8. CASE Finds(th)
  BY <1>8, KeptForks DEF IInv, Linked
<1>9. CASE Gets(th)
  <2>1. \A n \in Nodes, f \in Forks : node'[n].forkVNodes[f] # NULL =>
          node'[n].forkVNodes[f] = node[n].forkVNodes[f]
    BY <1>9 DEF Gets, Trims, Blank, SameNode
  <2>2. \A v \in Vnodes : /\ vnode'[v].fsnode = vnode[v].fsnode
                          /\ vnode'[v].state = vnode[v].state
    BY <1>9 DEF Gets
  <2>. QED BY <2>1, <2>2, Kinds DEF IInv, Linked
<1>10. CASE Puts(th)
  <2>1. \A n \in Nodes : node'[n].forkVNodes = node[n].forkVNodes
    BY <1>10 DEF Puts, SameNodes, SameNode
  <2>2. \A v \in Vnodes : /\ vnode'[v].fsnode = vnode[v].fsnode
                          /\ vnode'[v].state = vnode[v].state
    BY <1>10 DEF Puts
  <2>. QED BY <2>1, <2>2, Kinds DEF IInv, Linked
<1>11. CASE Creates(th)
  BY <1>11, Kinds
  DEF Creates, SameNodes, SameNode, IInv, Linked, AttachPCs, GettingPCs,
      Tabled, Attached, Owned, Owns, OwnsNew, Scrubs
<1>12. CASE Succeeds(th)
  BY <1>12, AttachedForks DEF IInv, Linked
<1>13. CASE Fails(th)
  BY <1>13, KeptForks DEF IInv, Linked
<1>14. CASE Frees(th)
  BY <1>14, Kinds
  DEF Frees, Blank, SameNode, IInv, Linked, AttachPCs, GettingPCs, Tabled,
      Attached, Owned, Owns, OwnsNew, Scrubs
<1>15. CASE TakesBack(th)
  BY <1>15, Kinds
  DEF TakesBack, SameNodes, SameNode, IInv, Linked, AttachPCs, GettingPCs,
      Tabled, Attached, Owned, Owns, OwnsNew, Scrubs
<1>16. CASE Detaches(th)
  BY <1>16, Kinds, DetachedForks DEF IInv, Linked
<1>17. CASE GivesBack(th)
  <2>. DEFINE v == local[th].vn
  <2>1. vnode[v].fsnode = NULL
    BY <1>17 DEF GivesBack, IInv, Reclaiming, Reclaims, ReclaimPCs
  <2>2. \A n \in Nodes, f \in Forks : node[n].forkVNodes[f] # NULL =>
          /\ node[n].forkVNodes[f] \in Vnodes \ {v}
          /\ vnode[node[n].forkVNodes[f]].fsnode = n
          /\ vnode[node[n].forkVNodes[f]].state # "free"
    BY <2>1, Kinds DEF IInv, Linked
  <2>3. /\ \A w \in Vnodes \ {v} : vnode'[w] = vnode[w]
        /\ \A n \in Nodes : node'[n].forkVNodes = node[n].forkVNodes
    BY <1>17 DEF GivesBack, SameNodes, SameNode
  <2>. HIDE DEF v
  <2>. QED BY <2>2, <2>3
<1>. QED BY <1>1, <1>2, <1>3, <1>4, <1>5, <1>6, <1>7, <1>8, <1>9, <1>10,
           <1>11, <1>12, <1>13, <1>14, <1>15, <1>16, <1>17 DEF Step

(* No vnode is in two forks.                                               *)
LEMMA OneForkStep ==
  ASSUME IInv, NEW th \in Threads, Step(th)
  PROVE  (\A n \in Nodes, f, g \in Forks :
            node[n].forkVNodes[f] # NULL
              /\ node[n].forkVNodes[f] = node[n].forkVNodes[g] => f = g)'
<1>1. CASE Moves(th)
  BY <1>1, KeptForks DEF IInv, Linked
<1>2. CASE Begins(th)
  BY <1>2, KeptForks DEF IInv, Linked
<1>3. CASE Allocates(th)
  BY <1>3, Kinds DEF Allocates, SameNode, IInv, Linked, AttachPCs
<1>4. CASE Returns(th)
  BY <1>4, Kinds
  DEF Returns, Trims, Blank, SameNodes, SameNode, IInv, Linked, AttachPCs
<1>5. CASE AttachesNew(th)
  <2>1. \A n \in Nodes : node'[n].forkVNodes = node[n].forkVNodes
    BY <1>5 DEF AttachesNew, Attaches, Claims, SameNode
  <2>. QED BY <2>1 DEF IInv, Linked
<1>6. CASE AttachesOld(th)
  BY <1>6, Kinds
  DEF AttachesOld, Attaches, Claims, Blank, SameNode, SameTable, IInv,
      Linked, AttachPCs
<1>7. CASE Sleeps(th)
  BY <1>7, KeptForks DEF IInv, Linked
<1>8. CASE Finds(th)
  BY <1>8, KeptForks DEF IInv, Linked
<1>9. CASE Gets(th)
  BY <1>9, Kinds DEF Gets, Trims, Blank, SameNode, IInv, Linked, AttachPCs
<1>10. CASE Puts(th)
  <2>1. \A n \in Nodes : node'[n].forkVNodes = node[n].forkVNodes
    BY <1>10 DEF Puts, SameNodes, SameNode
  <2>. QED BY <2>1 DEF IInv, Linked
<1>11. CASE Creates(th)
  BY <1>11, Kinds DEF Creates, SameNodes, SameNode, IInv, Linked, AttachPCs
<1>12. CASE Succeeds(th)
  BY <1>12, AttachedForks DEF IInv, Linked
<1>13. CASE Fails(th)
  BY <1>13, KeptForks DEF IInv, Linked
<1>14. CASE Frees(th)
  BY <1>14, Kinds DEF Frees, Blank, SameNode, IInv, Linked, AttachPCs
<1>15. CASE TakesBack(th)
  BY <1>15, Kinds DEF TakesBack, SameNodes, SameNode, IInv, Linked, AttachPCs
<1>16. CASE Detaches(th)
  BY <1>16, DetachedForks DEF IInv, Linked
<1>17. CASE GivesBack(th)
  BY <1>17, Kinds DEF GivesBack, SameNodes, SameNode, IInv, Linked, AttachPCs
<1>. QED BY <1>1, <1>2, <1>3, <1>4, <1>5, <1>6, <1>7, <1>8, <1>9, <1>10,
           <1>11, <1>12, <1>13, <1>14, <1>15, <1>16, <1>17 DEF Step

(* A live vnode has its node from the start.                               *)
LEMMA LiveLinkStep ==
  ASSUME IInv, NEW th \in Threads, Step(th)
  PROVE  (\A v \in Vnodes : vnode[v].state = "live" => vnode[v].fsnode # NULL)'
<1>1. CASE Moves(th)
  BY <1>1, KeptForks DEF IInv, Linked
<1>2. CASE Begins(th)
  BY <1>2, KeptForks DEF IInv, Linked
<1>3. CASE Allocates(th)
  BY <1>3, Kinds
  DEF Allocates, IInv, Linked, AttachPCs, GettingPCs, Tabled, Attached,
      Owned, Owns, OwnsNew, Scrubs
<1>4. CASE Returns(th)
  BY <1>4, Kinds
  DEF Returns, IInv, Linked, AttachPCs, GettingPCs, Tabled, Attached, Owned,
      Owns, OwnsNew, Scrubs
<1>5. CASE AttachesNew(th)
  BY <1>5, Kinds
  DEF AttachesNew, Attaches, IInv, Linked, AttachPCs, GettingPCs, Tabled,
      Attached, Owned, Owns, OwnsNew, Scrubs
<1>6. CASE AttachesOld(th)
  BY <1>6, Kinds
  DEF AttachesOld, Attaches, SameTable, IInv, Linked, AttachPCs, GettingPCs,
      Tabled, Attached, Owned, Owns, OwnsNew, Scrubs
<1>7. CASE Sleeps(th)
  BY <1>7, KeptForks DEF IInv, Linked
<1>8. CASE Finds(th)
  BY <1>8, KeptForks DEF IInv, Linked
<1>9. CASE Gets(th)
  <2>1. \A v \in Vnodes : /\ vnode'[v].fsnode = vnode[v].fsnode
                          /\ vnode'[v].state = vnode[v].state
    BY <1>9 DEF Gets
  <2>. QED BY <2>1 DEF IInv, Linked
<1>10. CASE Puts(th)
  <2>1. \A v \in Vnodes : /\ vnode'[v].fsnode = vnode[v].fsnode
                          /\ vnode'[v].state = vnode[v].state
    BY <1>10 DEF Puts
  <2>. QED BY <2>1 DEF IInv, Linked
<1>11. CASE Creates(th)
  BY <1>11, Kinds
  DEF Creates, IInv, Linked, AttachPCs, GettingPCs, Tabled, Attached, Owned,
      Owns, OwnsNew, Scrubs
<1>12. CASE Succeeds(th)
  BY <1>12, AttachedForks DEF IInv, Linked
<1>13. CASE Fails(th)
  BY <1>13, KeptForks DEF IInv, Linked
<1>14. CASE Frees(th)
  BY <1>14, Kinds
  DEF Frees, IInv, Linked, AttachPCs, GettingPCs, Tabled, Attached, Owned,
      Owns, OwnsNew, Scrubs
<1>15. CASE TakesBack(th)
  BY <1>15, Kinds
  DEF TakesBack, IInv, Linked, AttachPCs, GettingPCs, Tabled, Attached,
      Owned, Owns, OwnsNew, Scrubs
<1>16. CASE Detaches(th)
  BY <1>16, DetachedForks DEF IInv, Linked
<1>17. CASE GivesBack(th)
  BY <1>17 DEF GivesBack, IInv, Linked
<1>. QED BY <1>1, <1>2, <1>3, <1>4, <1>5, <1>6, <1>7, <1>8, <1>9, <1>10,
           <1>11, <1>12, <1>13, <1>14, <1>15, <1>16, <1>17 DEF Step

(* A step changes nothing of the other threads, but wakes sleepers.        *)
LEMMA OthersKeep ==
  ASSUME IInv, NEW th \in Threads, Step(th)
  PROVE  \A t \in Threads \ {th} :
           /\ SameLocal(t)
           /\ pc'[t] = pc[t] \/ (pc[t] = "sleep" /\ pc'[t] = "lookup")
<1>1. CASE Moves(th)
  BY <1>1 DEF Moves, SameThread, OnlyThread
<1>2. CASE Begins(th)
  BY <1>2 DEF Begins, SameThread, OnlyThread
<1>3. CASE Allocates(th)
  BY <1>3 DEF Allocates, SameThread, OnlyThread
<1>4. CASE Returns(th)
  BY <1>4 DEF Returns, SameThread, OnlyThread
<1>5. CASE AttachesNew(th)
  BY <1>5 DEF AttachesNew, Attaches, SameThread, OnlyThread
<1>6. CASE AttachesOld(th)
  BY <1>6 DEF AttachesOld, Attaches, SameThread, OnlyThread, SameTable
<1>7. CASE Sleeps(th)
  BY <1>7 DEF Sleeps, SameThread, OnlyThread
<1>8. CASE Finds(th)
  BY <1>8 DEF Finds, SameThread, OnlyThread
<1>9. CASE Gets(th)
  BY <1>9 DEF Gets, SameThread, OnlyThread
<1>10. CASE Puts(th)
  BY <1>10 DEF Puts, SameThread, OnlyThread
<1>11. CASE Creates(th)
  BY <1>11 DEF Creates, SameThread, OnlyThread
<1>12. CASE Succeeds(th)
  BY <1>12 DEF Succeeds, Wakes
<1>13. CASE Fails(th)
  BY <1>13 DEF Fails, Wakes
<1>14. CASE Frees(th)
  BY <1>14 DEF Frees, SameThread, OnlyThread
<1>15. CASE TakesBack(th)
  BY <1>15 DEF TakesBack, SameThread, OnlyThread
<1>16. CASE Detaches(th)
  BY <1>16 DEF Detaches, SameThread, OnlyThread
<1>17. CASE GivesBack(th)
  BY <1>17 DEF GivesBack, SameThread, OnlyThread
<1>. QED BY <1>1, <1>2, <1>3, <1>4, <1>5, <1>6, <1>7, <1>8, <1>9, <1>10,
           <1>11, <1>12, <1>13, <1>14, <1>15, <1>16, <1>17 DEF Step

(* What a vnode is held by keeps it, in every step that leaves its node.   *)
LEMMA HeldStill ==
  ASSUME IInv, NEW th \in Threads, Step(th), NEW v \in Vnodes,
         vnode[v].fsnode # NULL, vnode'[v].fsnode = vnode[v].fsnode,
         vnode'[v].state = "free" => vnode[v].state = "free"
  PROVE  Held(v)'
<1>1. Held(v) /\ vnode[v].fsnode \in Nodes
  BY Kinds DEF IInv, Linked
<1>2. ASSUME NEW f \in Forks, node[vnode[v].fsnode].forkVNodes[f] = v
      PROVE  \E g \in Forks : node'[vnode[v].fsnode].forkVNodes[g] = v
  <2>1. ~(pc[th] = "detach" /\ local[th].vn = v)
    <3>1. SUFFICES ASSUME pc[th] = "detach", local[th].vn = v PROVE FALSE
      OBVIOUS
    <3>2. Detaches(th)
      BY <3>1
      DEF Step, Moves, Ways, Begins, Allocates, Returns, AttachesNew,
          AttachesOld, Attaches, Sleeps, Finds, Gets, GettingPCs, Puts,
          Creates, Succeeds, Fails, Frees, TakesBack, GivesBack
    <3>. QED BY <3>1, <3>2, DetachedForks, Kinds
  <2>2. node'[vnode[v].fsnode].forkVNodes[f] = v
    BY <1>1, <1>2, <2>1, KeptFork, Kinds
  <2>. QED BY <2>2
<1>3. ASSUME NEW t \in Threads, pc[t] \in AttachPCs, local[t].vn = v,
             local[t].thisNode = vnode[v].fsnode
      PROVE  \/ \E f \in Forks : node'[vnode[v].fsnode].forkVNodes[f] = v
             \/ /\ pc'[t] \in AttachPCs /\ local'[t].vn = v
                /\ local'[t].thisNode = vnode[v].fsnode
  <2>1. CASE t # th
    BY <1>3, <2>1, OthersKeep DEF SameLocal, AttachPCs
  <2>2. CASE t = th
    <3>1. pc[th] \in {"created", "attach"} /\ v # NULL
      BY <1>3, <2>2, Kinds DEF IInv, Linked
    <3>2. Moves(th) \/ Succeeds(th)
      BY <1>3, <2>2, <3>1
      DEF Step, Begins, Allocates, Returns, AttachesNew, AttachesOld,
          Attaches, Sleeps, Finds, Gets, GettingPCs, Puts, Creates, Fails,
          Frees, TakesBack, Detaches, GivesBack
    <3>3. CASE Moves(th)
      BY <1>3, <2>2, <3>1, <3>3 DEF Moves, Ways, SameLocal, AttachPCs
    <3>4. CASE Succeeds(th)
      BY <1>3, <2>2, <3>4, AttachedForks
    <3>. QED BY <3>2, <3>3, <3>4
  <2>. QED BY <2>1, <2>2
<1>4. \/ \E f \in Forks : node'[vnode[v].fsnode].forkVNodes[f] = v
      \/ \E t \in Threads : /\ pc'[t] \in AttachPCs /\ local'[t].vn = v
                            /\ local'[t].thisNode = vnode[v].fsnode
  BY <1>1, <1>2, <1>3 DEF Held
<1>5. vnode'[v].state # "free"
  BY <1>1 DEF Held
<1>. QED BY <1>4, <1>5 DEF Held

(* A vnode with a node is in a fork of it or in the hands of the thread    *)
(* that will put it there.                                                 *)
LEMMA LinkBackStep ==
  ASSUME IInv, NEW th \in Threads, Step(th)
  PROVE  (\A v \in Vnodes : vnode[v].fsnode # NULL => Held(v))'
<1>1. CASE Moves(th)
  <2>1. ASSUME NEW v \in Vnodes, vnode'[v].fsnode # NULL
        PROVE  Held(v)'
    <3>1. /\ vnode'[v].fsnode = vnode[v].fsnode
          /\ vnode'[v].state = "free" => vnode[v].state = "free"
      BY <1>1, <2>1, KeptForks
    <3>. QED BY <1>1, <2>1, <3>1, HeldStill
  <2>. QED BY <2>1
<1>2. CASE Begins(th)
  <2>1. ASSUME NEW v \in Vnodes, vnode'[v].fsnode # NULL
        PROVE  Held(v)'
    <3>1. /\ vnode'[v].fsnode = vnode[v].fsnode
          /\ vnode'[v].state = "free" => vnode[v].state = "free"
      BY <1>2, <2>1, KeptForks
    <3>. QED BY <1>2, <2>1, <3>1, HeldStill
  <2>. QED BY <2>1
<1>3. CASE Allocates(th)
  <2>1. ASSUME NEW v \in Vnodes, vnode'[v].fsnode # NULL
        PROVE  Held(v)'
    <3>1. /\ vnode'[v].fsnode = vnode[v].fsnode
          /\ vnode'[v].state = "free" => vnode[v].state = "free"
      BY <1>3, <2>1 DEF Allocates
    <3>. QED BY <1>3, <2>1, <3>1, HeldStill
  <2>. QED BY <2>1
<1>4. CASE Returns(th)
  <2>1. ASSUME NEW v \in Vnodes, vnode'[v].fsnode # NULL
        PROVE  Held(v)'
    <3>1. /\ vnode'[v].fsnode = vnode[v].fsnode
          /\ vnode'[v].state = "free" => vnode[v].state = "free"
      BY <1>4, <2>1, Kinds DEF Returns
    <3>. QED BY <1>4, <2>1, <3>1, HeldStill
  <2>. QED BY <2>1
<1>5. CASE AttachesNew(th)
  <2>1. ASSUME NEW v \in Vnodes, vnode'[v].fsnode # NULL
        PROVE  Held(v)'
    <3>1. /\ vnode'[v].fsnode = vnode[v].fsnode
          /\ vnode'[v].state = "free" => vnode[v].state = "free"
      BY <1>5, <2>1, Kinds DEF AttachesNew, Attaches
    <3>. QED BY <1>5, <2>1, <3>1, HeldStill
  <2>. QED BY <2>1
<1>6. CASE AttachesOld(th)
  <2>1. ASSUME NEW v \in Vnodes, vnode'[v].fsnode # NULL
        PROVE  Held(v)'
    <3>1. /\ vnode'[v].fsnode = vnode[v].fsnode
          /\ vnode'[v].state = "free" => vnode[v].state = "free"
      BY <1>6, <2>1, Kinds DEF AttachesOld, Attaches, SameTable
    <3>. QED BY <1>6, <2>1, <3>1, HeldStill
  <2>. QED BY <2>1
<1>7. CASE Sleeps(th)
  <2>1. ASSUME NEW v \in Vnodes, vnode'[v].fsnode # NULL
        PROVE  Held(v)'
    <3>1. /\ vnode'[v].fsnode = vnode[v].fsnode
          /\ vnode'[v].state = "free" => vnode[v].state = "free"
      BY <1>7, <2>1, KeptForks
    <3>. QED BY <1>7, <2>1, <3>1, HeldStill
  <2>. QED BY <2>1
<1>8. CASE Finds(th)
  <2>1. ASSUME NEW v \in Vnodes, vnode'[v].fsnode # NULL
        PROVE  Held(v)'
    <3>1. /\ vnode'[v].fsnode = vnode[v].fsnode
          /\ vnode'[v].state = "free" => vnode[v].state = "free"
      BY <1>8, <2>1, KeptForks
    <3>. QED BY <1>8, <2>1, <3>1, HeldStill
  <2>. QED BY <2>1
<1>9. CASE Gets(th)
  <2>1. ASSUME NEW v \in Vnodes, vnode'[v].fsnode # NULL
        PROVE  Held(v)'
    <3>1. /\ vnode'[v].fsnode = vnode[v].fsnode
          /\ vnode'[v].state = "free" => vnode[v].state = "free"
      BY <1>9, <2>1, Kinds DEF Gets
    <3>. QED BY <1>9, <2>1, <3>1, HeldStill
  <2>. QED BY <2>1
<1>10. CASE Puts(th)
  <2>1. ASSUME NEW v \in Vnodes, vnode'[v].fsnode # NULL
        PROVE  Held(v)'
    <3>1. /\ vnode'[v].fsnode = vnode[v].fsnode
          /\ vnode'[v].state = "free" => vnode[v].state = "free"
      BY <1>10, <2>1 DEF Puts
    <3>. QED BY <1>10, <2>1, <3>1, HeldStill
  <2>. QED BY <2>1
<1>11. CASE Creates(th)
  <2>1. ASSUME NEW v \in Vnodes, vnode'[v].fsnode # NULL
        PROVE  Held(v)'
    <3>1. CASE v = local'[th].vn
      <4>1. /\ vnode'[v].state = "live"
            /\ vnode'[v].fsnode = local'[th].thisNode
            /\ pc'[th] \in AttachPCs
        BY <1>11, <3>1 DEF Creates, AttachPCs
      <4>. QED BY <3>1, <4>1 DEF Held
    <3>2. CASE v # local'[th].vn
      <4>1. vnode'[v] = vnode[v]
        BY <1>11, <3>2 DEF Creates
      <4>. QED BY <1>11, <2>1, <4>1, HeldStill
    <3>. QED BY <3>1, <3>2
  <2>. QED BY <2>1
<1>12. CASE Succeeds(th)
  <2>1. ASSUME NEW v \in Vnodes, vnode'[v].fsnode # NULL
        PROVE  Held(v)'
    <3>1. /\ vnode'[v].fsnode = vnode[v].fsnode
          /\ vnode'[v].state = "free" => vnode[v].state = "free"
      BY <1>12, <2>1, AttachedForks
    <3>. QED BY <1>12, <2>1, <3>1, HeldStill
  <2>. QED BY <2>1
<1>13. CASE Fails(th)
  <2>1. ASSUME NEW v \in Vnodes, vnode'[v].fsnode # NULL
        PROVE  Held(v)'
    <3>1. /\ vnode'[v].fsnode = vnode[v].fsnode
          /\ vnode'[v].state = "free" => vnode[v].state = "free"
      BY <1>13, <2>1, KeptForks
    <3>. QED BY <1>13, <2>1, <3>1, HeldStill
  <2>. QED BY <2>1
<1>14. CASE Frees(th)
  <2>1. ASSUME NEW v \in Vnodes, vnode'[v].fsnode # NULL
        PROVE  Held(v)'
    <3>1. /\ vnode'[v].fsnode = vnode[v].fsnode
          /\ vnode'[v].state = "free" => vnode[v].state = "free"
      BY <1>14, <2>1 DEF Frees
    <3>. QED BY <1>14, <2>1, <3>1, HeldStill
  <2>. QED BY <2>1
<1>15. CASE TakesBack(th)
  <2>1. ASSUME NEW v \in Vnodes, vnode'[v].fsnode # NULL
        PROVE  Held(v)'
    <3>1. /\ vnode'[v].fsnode = vnode[v].fsnode
          /\ vnode'[v].state = "free" => vnode[v].state = "free"
      BY <1>15, <2>1 DEF TakesBack
    <3>. QED BY <1>15, <2>1, <3>1, HeldStill
  <2>. QED BY <2>1
<1>16. CASE Detaches(th)
  <2>1. ASSUME NEW v \in Vnodes, vnode'[v].fsnode # NULL
        PROVE  Held(v)'
    <3>1. /\ vnode'[v].fsnode = vnode[v].fsnode
          /\ vnode'[v].state = "free" => vnode[v].state = "free"
      BY <1>16, <2>1, DetachedForks
    <3>. QED BY <1>16, <2>1, <3>1, HeldStill
  <2>. QED BY <2>1
<1>17. CASE GivesBack(th)
  <2>1. ASSUME NEW v \in Vnodes, vnode'[v].fsnode # NULL
        PROVE  Held(v)'
    <3>1. /\ vnode'[v].fsnode = vnode[v].fsnode
          /\ vnode'[v].state = "free" => vnode[v].state = "free"
      BY <1>17, <2>1, Kinds
      DEF GivesBack, IInv, Reclaiming, Reclaims, ReclaimPCs, AttachPCs
    <3>. QED BY <1>17, <2>1, <3>1, HeldStill
  <2>. QED BY <2>1
<1>. QED BY <1>1, <1>2, <1>3, <1>4, <1>5, <1>6, <1>7, <1>8, <1>9, <1>10,
           <1>11, <1>12, <1>13, <1>14, <1>15, <1>16, <1>17 DEF Step

(* What is in use is not taken back: the vnode keeps its node.             *)
LEMMA KeptUsed ==
  ASSUME IInv, NEW th \in Threads, Step(th)
  PROVE  \A t \in Threads \ {th}, v \in Vnodes :
            vnode[v].state = "live" /\ t \in vnode[v].uses =>
              /\ vnode'[v].state = "live" /\ t \in vnode'[v].uses
              /\ vnode'[v].fsnode = vnode[v].fsnode
<1>1. CASE Moves(th)
  BY <1>1, Kinds, KeptForks
<1>2. CASE Begins(th)
  BY <1>2, Kinds, KeptForks
<1>3. CASE Allocates(th)
  BY <1>3, Kinds DEF Allocates, Reclaims, ReclaimPCs
<1>4. CASE Returns(th)
  BY <1>4, Kinds DEF Returns, IInv, Reclaiming, Reclaims, ReclaimPCs
<1>5. CASE AttachesNew(th)
  BY <1>5, Kinds
  DEF AttachesNew, Attaches, IInv, Reclaiming, Reclaims, ReclaimPCs
<1>6. CASE AttachesOld(th)
  BY <1>6, Kinds
  DEF AttachesOld, Attaches, SameTable, IInv, Reclaiming, Reclaims,
      ReclaimPCs
<1>7. CASE Sleeps(th)
  BY <1>7, Kinds, KeptForks
<1>8. CASE Finds(th)
  BY <1>8, Kinds, KeptForks
<1>9. CASE Gets(th)
  BY <1>9, Kinds DEF Gets, IInv, Reclaiming, Reclaims, ReclaimPCs
<1>10. CASE Puts(th)
  BY <1>10, Kinds DEF Puts, Reclaims, ReclaimPCs
<1>11. CASE Creates(th)
  BY <1>11, Kinds DEF Creates, Reclaims, ReclaimPCs
<1>12. CASE Succeeds(th)
  BY <1>12, Kinds, AttachedForks
<1>13. CASE Fails(th)
  BY <1>13, Kinds, KeptForks
<1>14. CASE Frees(th)
  BY <1>14, Kinds DEF Frees, Reclaiming, Reclaims, ReclaimPCs
<1>15. CASE TakesBack(th)
  BY <1>15, Kinds DEF TakesBack, Reclaims, ReclaimPCs
<1>16. CASE Detaches(th)
  BY <1>16, Kinds, DetachedForks
<1>17. CASE GivesBack(th)
  BY <1>17, Kinds DEF GivesBack, IInv, Reclaiming, Reclaims, ReclaimPCs
<1>. QED BY <1>1, <1>2, <1>3, <1>4, <1>5, <1>6, <1>7, <1>8, <1>9, <1>10,
           <1>11, <1>12, <1>13, <1>14, <1>15, <1>16, <1>17 DEF Step

(* A thread attaches to the node that it claimed, and no vnode but its     *)
(* own.                                                                    *)
LEMMA NotAttachedByOther ==
  ASSUME IInv, NEW th \in Threads, Step(th)
  PROVE  \A t \in Threads \ {th}, v \in Vnodes, n \in table :
            pc[t] \in AttachPCs /\ local[t].thisNode = n
              /\ (\A f \in Forks : node[n].forkVNodes[f] # v) =>
            \A f \in Forks : node'[n].forkVNodes[f] # v
<1>1. CASE Moves(th)
  BY <1>1, Kinds, KeptForks
<1>2. CASE Begins(th)
  BY <1>2, Kinds, KeptForks
<1>3. CASE Allocates(th)
  BY <1>3, Kinds DEF Allocates, SameNode, Owned, Owns, OwnsNew, Scrubs
<1>4. CASE Returns(th)
  BY <1>4, Kinds
  DEF Returns, Trims, SameNodes, SameNode, IInv, Tabled, Owned, Owns,
      OwnsNew, Scrubs
<1>5. CASE AttachesNew(th)
  BY <1>5, Kinds
  DEF AttachesNew, SameNode, IInv, Tabled, Owned, Owns, OwnsNew, Scrubs
<1>6. CASE AttachesOld(th)
  BY <1>6, Kinds
  DEF AttachesOld, Attaches, Claims, SameNode, SameTable, IInv, Tabled,
      Owned, Owns, OwnsNew, Scrubs
<1>7. CASE Sleeps(th)
  BY <1>7, Kinds, KeptForks
<1>8. CASE Finds(th)
  BY <1>8, Kinds, KeptForks
<1>9. CASE Gets(th)
  BY <1>9, Kinds
  DEF Gets, Trims, SameNode, IInv, Tabled, Owned, Owns, OwnsNew, Scrubs
<1>10. CASE Puts(th)
  BY <1>10, Kinds DEF Puts, SameNodes, SameNode, Owned, Owns, OwnsNew, Scrubs
<1>11. CASE Creates(th)
  BY <1>11, Kinds
  DEF Creates, SameNodes, SameNode, Owned, Owns, OwnsNew, Scrubs
<1>12. CASE Succeeds(th)
  <2>1. ASSUME NEW t \in Threads \ {th}, pc[t] \in AttachPCs
        PROVE  local[t].thisNode # local[th].thisNode
    BY <1>12, <2>1 DEF Succeeds, IInv, Attached, AttachPCs
  <2>2. \A n \in Nodes \ {local[th].thisNode} :
          node'[n].forkVNodes = node[n].forkVNodes
    BY <1>12 DEF Succeeds, SameNode
  <2>. QED BY <2>1, <2>2 DEF IInv, Typed
<1>13. CASE Fails(th)
  BY <1>13, Kinds, KeptForks
<1>14. CASE Frees(th)
  BY <1>14, Kinds
  DEF Frees, SameNode, IInv, Tabled, Owned, Owns, OwnsNew, Scrubs
<1>15. CASE TakesBack(th)
  BY <1>15, Kinds
  DEF TakesBack, SameNodes, SameNode, Owned, Owns, OwnsNew, Scrubs
<1>16. CASE Detaches(th)
  BY <1>16, Kinds, DetachedForks
<1>17. CASE GivesBack(th)
  BY <1>17, Kinds
  DEF GivesBack, SameNodes, SameNode, Owned, Owns, OwnsNew, Scrubs
<1>. QED BY <1>1, <1>2, <1>3, <1>4, <1>5, <1>6, <1>7, <1>8, <1>9, <1>10,
           <1>11, <1>12, <1>13, <1>14, <1>15, <1>16, <1>17 DEF Step

(* A vnode just created stays in the hands of its creator.                 *)
LEMMA NewLinkStep ==
  ASSUME IInv, NEW th \in Threads, Step(th)
  PROVE  (\A t \in Threads : pc[t] \in AttachPCs /\ local[t].vn # NULL =>
            LET v == local[t].vn
            IN  /\ pc[t] \in {"created", "attach"} /\ vnode[v].state = "live"
                /\ vnode[v].fsnode = local[t].thisNode /\ t \in vnode[v].uses
                /\ \A f \in Forks :
                     node[local[t].thisNode].forkVNodes[f] # v)'
<1>. DEFINE New(t) ==
             LET v == local[t].vn
             IN  /\ pc[t] \in {"created", "attach"} /\ vnode[v].state = "live"
                 /\ vnode[v].fsnode = local[t].thisNode /\ t \in vnode[v].uses
                 /\ \A f \in Forks :
                      node[local[t].thisNode].forkVNodes[f] # v
<1>1. ASSUME NEW t \in Threads \ {th}, pc'[t] \in AttachPCs,
             local'[t].vn # NULL
      PROVE  New(t)'
  <2>. DEFINE v == local[t].vn
              n == local[t].thisNode
  <2>1. /\ SameLocal(t) /\ pc'[t] = pc[t]
    BY <1>1, OthersKeep DEF AttachPCs
  <2>2. New(t) /\ v \in Vnodes /\ n \in Nodes /\ n \in table
    BY <1>1, <2>1, Kinds DEF SameLocal, IInv, Linked, Attached
  <2>3. /\ vnode'[v].state = "live" /\ vnode'[v].fsnode = n
        /\ t \in vnode'[v].uses
    BY <1>1, <2>1, <2>2, KeptUsed
  <2>4. \A f \in Forks : node'[n].forkVNodes[f] # v
    BY <1>1, <2>1, <2>2, NotAttachedByOther
  <2>. HIDE DEF v, n
  <2>5. local'[t].vn = v /\ local'[t].thisNode = n
    BY <2>1 DEF SameLocal, v, n
  <2>6. pc'[t] \in {"created", "attach"}
    BY <2>1, <2>2
  <2>. QED BY <2>3, <2>4, <2>5, <2>6
<1>2. ASSUME pc'[th] \in AttachPCs, local'[th].vn # NULL
      PROVE  New(th)'
  <2>1. Moves(th) \/ Creates(th)
    BY <1>2
    DEF Step, Begins, Allocates, Returns, AttachesNew, AttachesOld, Attaches,
        Sleeps, Finds, Gets, Puts, Succeeds, Fails, Frees, TakesBack,
        Detaches, GivesBack, AttachPCs
  <2>2. CASE Moves(th)
    <3>1. pc[th] \in AttachPCs /\ local[th].vn # NULL
      BY <1>2, <2>2 DEF Moves, Ways, SameLocal, AttachPCs
    <3>2. New(th)
      BY <3>1 DEF IInv, Linked
    <3>3. /\ SameLocal(th) /\ vnode' = vnode /\ local[th].thisNode \in Nodes
          /\ \A m \in Nodes : node'[m].forkVNodes = node[m].forkVNodes
          /\ pc'[th] \in {"created", "attach"}
      BY <1>2, <2>2, <3>1, <3>2, KeptForks, Kinds
      DEF Moves, Ways, IInv, Attached
    <3>. QED BY <3>2, <3>3 DEF SameLocal
  <2>3. CASE Creates(th)
    <3>. DEFINE n == local[th].thisNode
    <3>1. n \in Nodes
      BY <2>3, Kinds DEF Creates, IInv, Attached, AttachPCs
    <3>2. PICK v \in Vnodes :
            /\ vnode[v].state = "free" /\ local'[th].vn = v
            /\ vnode'[v].state = "live" /\ vnode'[v].fsnode = n
            /\ vnode'[v].uses = {th}
      BY <2>3 DEF Creates
    <3>3. /\ local'[th].thisNode = n /\ pc'[th] = "created"
          /\ node'[n].forkVNodes = node[n].forkVNodes
      BY <2>3, <3>1 DEF Creates, SameNodes, SameNode
    <3>4. \A f \in Forks : node[n].forkVNodes[f] # v
      BY <3>1, <3>2, Kinds DEF IInv, Linked
    <3>. HIDE DEF n
    <3>. QED BY <3>2, <3>3, <3>4
  <2>. QED BY <2>1, <2>2, <2>3
<1>. QED BY <1>1, <1>2

(* A live vnode stays in its fork.                                         *)
LEMMA LiveForkKept ==
  ASSUME IInv, NEW th \in Threads, Step(th), NEW n \in Nodes, NEW f \in Forks,
         NEW v \in Vnodes, node[n].forkVNodes[f] = v, vnode[v].state = "live"
  PROVE  node'[n].forkVNodes[f] = v /\ node'[n].ino = node[n].ino
<1>1. ~(pc[th] = "detach" /\ local[th].vn = v)
  BY LastDetached
<1>. QED BY <1>1, KeptFork, Kinds

(* What a thread reclaims is left alone by the others.                     *)
LEMMA KeptByReclaim ==
  ASSUME IInv, NEW th \in Threads, Step(th)
  PROVE  \A t \in Threads \ {th} :
            pc[t] \in ReclaimPCs /\ local[t].vn # NULL =>
              LET v == local[t].vn
              IN  vnode[v].state = "reclaim" =>
                    /\ vnode'[v].state = "reclaim"
                    /\ vnode'[v].fsnode = vnode[v].fsnode
<1>1. CASE Moves(th)
  BY <1>1, Kinds, KeptForks
<1>2. CASE Begins(th)
  BY <1>2, Kinds, KeptForks
<1>3. CASE Allocates(th)
  BY <1>3, Kinds DEF Allocates, Reclaims, ReclaimPCs
<1>4. CASE Returns(th)
  BY <1>4, Kinds DEF Returns, IInv, Reclaiming, Reclaims, ReclaimPCs
<1>5. CASE AttachesNew(th)
  BY <1>5, Kinds
  DEF AttachesNew, Attaches, IInv, Reclaiming, Reclaims, ReclaimPCs
<1>6. CASE AttachesOld(th)
  BY <1>6, Kinds
  DEF AttachesOld, Attaches, SameTable, IInv, Reclaiming, Reclaims,
      ReclaimPCs
<1>7. CASE Sleeps(th)
  BY <1>7, Kinds, KeptForks
<1>8. CASE Finds(th)
  BY <1>8, Kinds, KeptForks
<1>9. CASE Gets(th)
  BY <1>9, Kinds DEF Gets, IInv, Reclaiming, Reclaims, ReclaimPCs
<1>10. CASE Puts(th)
  BY <1>10, Kinds DEF Puts, Reclaims, ReclaimPCs
<1>11. CASE Creates(th)
  BY <1>11, Kinds DEF Creates, Reclaims, ReclaimPCs
<1>12. CASE Succeeds(th)
  BY <1>12, Kinds, AttachedForks
<1>13. CASE Fails(th)
  BY <1>13, Kinds, KeptForks
<1>14. CASE Frees(th)
  BY <1>14, Kinds DEF Frees, Reclaiming, Reclaims, ReclaimPCs
<1>15. CASE TakesBack(th)
  BY <1>15, Kinds DEF TakesBack, Reclaims, ReclaimPCs
<1>16. CASE Detaches(th)
  <2>1. pc[th] \in ReclaimPCs
    BY <1>16 DEF Detaches, ReclaimPCs
  <2>2. \A w \in Vnodes \ {local[th].vn} : vnode'[w] = vnode[w]
    BY <1>16, DetachedForks
  <2>. QED BY <2>1, <2>2, Kinds DEF IInv, Reclaiming
<1>17. CASE GivesBack(th)
  BY <1>17, Kinds DEF GivesBack, IInv, Reclaiming, Reclaims, ReclaimPCs
<1>. QED BY <1>1, <1>2, <1>3, <1>4, <1>5, <1>6, <1>7, <1>8, <1>9, <1>10,
           <1>11, <1>12, <1>13, <1>14, <1>15, <1>16, <1>17 DEF Step

(* As long as the v_id is the same, a vnode goes from live to reclaimed    *)
(* and no further, and a live one keeps its node.                          *)
LEMMA KeptLive ==
  ASSUME IInv, NEW th \in Threads, Step(th)
  PROVE  \A v \in Vnodes :
            vnode'[v].vid = vnode[v].vid /\ vnode[v].state # "free" =>
              /\ vnode'[v].state # "free"
              /\ vnode'[v].state = "live" =>
                   /\ vnode[v].state = "live"
                   /\ vnode'[v].fsnode = vnode[v].fsnode
<1>1. CASE Moves(th)
  BY <1>1, Kinds, KeptForks
<1>2. CASE Begins(th)
  BY <1>2, Kinds, KeptForks
<1>3. CASE Allocates(th)
  BY <1>3, Kinds DEF Allocates, Reclaims, ReclaimPCs
<1>4. CASE Returns(th)
  BY <1>4, Kinds DEF Returns, IInv, Reclaiming, Reclaims, ReclaimPCs
<1>5. CASE AttachesNew(th)
  BY <1>5, Kinds
  DEF AttachesNew, Attaches, IInv, Reclaiming, Reclaims, ReclaimPCs
<1>6. CASE AttachesOld(th)
  BY <1>6, Kinds
  DEF AttachesOld, Attaches, SameTable, IInv, Reclaiming, Reclaims,
      ReclaimPCs
<1>7. CASE Sleeps(th)
  BY <1>7, Kinds, KeptForks
<1>8. CASE Finds(th)
  BY <1>8, Kinds, KeptForks
<1>9. CASE Gets(th)
  BY <1>9, Kinds DEF Gets, IInv, Reclaiming, Reclaims, ReclaimPCs
<1>10. CASE Puts(th)
  BY <1>10, Kinds DEF Puts, Reclaims, ReclaimPCs
<1>11. CASE Creates(th)
  BY <1>11, Kinds DEF Creates, Reclaims, ReclaimPCs
<1>12. CASE Succeeds(th)
  BY <1>12, Kinds, AttachedForks
<1>13. CASE Fails(th)
  BY <1>13, Kinds, KeptForks
<1>14. CASE Frees(th)
  BY <1>14, Kinds DEF Frees, Reclaiming, Reclaims, ReclaimPCs
<1>15. CASE TakesBack(th)
  BY <1>15, Kinds DEF TakesBack, Reclaims, ReclaimPCs
<1>16. CASE Detaches(th)
  BY <1>16, Kinds, DetachedForks
<1>17. CASE GivesBack(th)
  BY <1>17, Kinds DEF GivesBack, Reclaims, ReclaimPCs
<1>. QED BY <1>1, <1>2, <1>3, <1>4, <1>5, <1>6, <1>7, <1>8, <1>9, <1>10,
           <1>11, <1>12, <1>13, <1>14, <1>15, <1>16, <1>17 DEF Step

(* A candidate found under the mutex either is still the vnode of its fork *)
(* when the thread gets it, or shows by its state or its v_id that it is   *)
(* not.                                                                    *)
LEMMA CandidateStep ==
  ASSUME IInv, NEW th \in Threads, Step(th)
  PROVE  (\A t \in Threads : pc[t] \in GettingPCs => Chosen(t))'
<1>1. ASSUME NEW t \in Threads \ {th}, pc'[t] \in GettingPCs
      PROVE  Chosen(t)'
  <2>. DEFINE v == local[t].vn
              n == local[t].thisNode
  <2>1. /\ SameLocal(t) /\ pc[t] \in GettingPCs
    BY <1>1, OthersKeep DEF GettingPCs
  <2>2. Chosen(t) /\ v \in Vnodes /\ n \in Nodes /\ local[t].vid \in Nat
    BY <2>1, Kinds DEF IInv, Using, Chosen
  <2>3. vnode'[v].vid \in {vnode[v].vid, vnode[v].vid + 1}
    BY <2>2, KeptVnode
  <2>4. local[t].vid <= vnode'[v].vid
    BY <2>2, <2>3, Kinds DEF Chosen
  <2>5. ASSUME local[t].vid = vnode'[v].vid
        PROVE  /\ vnode'[v].state # "free"
               /\ vnode'[v].state = "live" =>
                    /\ vnode'[v].fsnode = n
                    /\ node'[n].forkVNodes[local[t].fork] = v
                    /\ node'[n].ino = local[t].ino
    <3>1. vnode[v].vid = vnode'[v].vid /\ local[t].vid = vnode[v].vid
      BY <2>2, <2>3, <2>5, Kinds DEF Chosen
    <3>2. vnode[v].state # "free"
      BY <2>2, <3>1 DEF Chosen
    <3>3. /\ vnode'[v].state # "free"
          /\ vnode'[v].state = "live" =>
               vnode[v].state = "live" /\ vnode'[v].fsnode = vnode[v].fsnode
      BY <2>2, <3>1, <3>2, KeptLive
    <3>4. ASSUME vnode'[v].state = "live"
          PROVE  /\ vnode'[v].fsnode = n
                 /\ node'[n].forkVNodes[local[t].fork] = v
                 /\ node'[n].ino = local[t].ino
      BY <2>2, <3>1, <3>3, <3>4, LiveForkKept, Kinds DEF Chosen, IsVnodeFor
    <3>. QED BY <3>3, <3>4
  <2>6. /\ local'[t].vn = v /\ local'[t].thisNode = n
        /\ local'[t].vid = local[t].vid /\ local'[t].ino = local[t].ino
        /\ local'[t].fork = local[t].fork
    BY <2>1 DEF SameLocal
  <2>7. v # NULL /\ n # NULL
    BY <2>2 DEF Chosen
  <2>. HIDE DEF v, n
  <2>. QED BY <2>4, <2>5, <2>6, <2>7 DEF Chosen, IsVnodeFor
<1>2. ASSUME pc'[th] \in GettingPCs
      PROVE  Chosen(th)'
  <2>1. Finds(th)
    BY <1>2
    DEF Step, Moves, Ways, Begins, Allocates, Returns, AttachesNew,
        AttachesOld, Attaches, Sleeps, Gets, Puts, Creates, Succeeds, Fails,
        Frees, TakesBack, Detaches, GivesBack, GettingPCs
  <2>2. PICK n \in table :
          LET v == node[n].forkVNodes[local'[th].fork]
          IN  /\ v # NULL /\ local'[th].vn = v /\ local'[th].vid = vnode[v].vid
              /\ local'[th].thisNode = n /\ node[n].ino = local'[th].ino
    BY <2>1 DEF Finds
  <2>. DEFINE v == local'[th].vn
  <2>3. local'[th].fork \in Forks /\ n \in Nodes /\ n # NULL
    BY <1>2, <2>1, Kinds, <2>2 DEF Finds
  <2>4. v # NULL /\ v \in Vnodes /\ v = node[n].forkVNodes[local'[th].fork]
    BY <2>2, <2>3, Kinds
  <2>5. vnode[v].fsnode = n /\ vnode[v].state # "free"
    BY <2>3, <2>4 DEF IInv, Linked
  <2>6. /\ vnode' = vnode /\ node'[n].forkVNodes = node[n].forkVNodes
        /\ node'[n].ino = node[n].ino
    BY <2>1, <2>3, KeptForks
  <2>7. vnode[v].vid \in Nat
    BY <2>4, Kinds
  <2>. HIDE DEF v
  <2>. QED BY <2>2, <2>3, <2>4, <2>5, <2>6, <2>7 DEF Chosen, IsVnodeFor
<1>. QED BY <1>1, <1>2

(* A vnode in use stays the one that was asked for.                        *)
LEMMA UsingStep ==
  ASSUME IInv, NEW th \in Threads, Step(th)
  PROVE  (\A t \in Threads : pc[t] = "using" => Used(t))'
<1>1. ASSUME NEW t \in Threads \ {th}, pc'[t] = "using"
      PROVE  Used(t)'
  <2>. DEFINE v == local[t].vn
              n == local[t].thisNode
  <2>1. /\ SameLocal(t) /\ pc[t] = "using"
    BY <1>1, OthersKeep
  <2>2. Used(t) /\ v \in Vnodes /\ n \in Nodes
    BY <2>1, Kinds DEF IInv, Using, Used
  <2>3. /\ vnode'[v].state = "live" /\ t \in vnode'[v].uses
        /\ vnode'[v].fsnode = n
    BY <2>2, KeptUsed DEF Used, IsVnodeFor
  <2>4. /\ node'[n].forkVNodes[local[t].fork] = v
        /\ node'[n].ino = local[t].ino
    BY <2>2, LiveForkKept, Kinds DEF Used, IsVnodeFor
  <2>5. /\ local'[t].vn = v /\ local'[t].thisNode = n
        /\ local'[t].ino = local[t].ino /\ local'[t].fork = local[t].fork
    BY <2>1 DEF SameLocal
  <2>6. v # NULL /\ n # NULL
    BY <2>2 DEF Used
  <2>. HIDE DEF v, n
  <2>. QED BY <2>3, <2>4, <2>5, <2>6 DEF Used, IsVnodeFor
<1>2. ASSUME pc'[th] = "using"
      PROVE  Used(th)'
  <2>. DEFINE v == local[th].vn
              n == local[th].thisNode
              f == local[th].fork
  <2>1. Gets(th) \/ Succeeds(th)
    BY <1>2
    DEF Step, Moves, Ways, Begins, Allocates, Returns, AttachesNew,
        AttachesOld, Attaches, Sleeps, Finds, Puts, Creates, Fails, Frees,
        TakesBack, Detaches, GivesBack
  <2>2. /\ local'[th].vn = v /\ local'[th].thisNode = n
        /\ local'[th].ino = local[th].ino /\ local'[th].fork = f
    BY <2>1 DEF Gets, Succeeds, SameLocal
  <2>3. /\ v # NULL /\ n # NULL /\ vnode'[v].state = "live"
        /\ th \in vnode'[v].uses /\ vnode'[v].fsnode = n
        /\ node'[n].forkVNodes[f] = v /\ node'[n].ino = local[th].ino
    <3>1. CASE Gets(th)
      <4>1. /\ pc[th] \in GettingPCs /\ vnode[v].state = "live"
            /\ vnode[v].vid = local[th].vid
        BY <3>1 DEF Gets
      <4>2. Chosen(th) /\ IsVnodeFor(th) /\ v \in Vnodes /\ n \in Nodes
        BY <4>1, Kinds DEF IInv, Using, Chosen
      <4>3. /\ node'[n].forkVNodes[f] = v /\ node'[n].ino = local[th].ino
        BY <4>1, <4>2, LiveForkKept, Kinds DEF IsVnodeFor
      <4>4. /\ vnode'[v].state = "live" /\ vnode'[v].fsnode = vnode[v].fsnode
            /\ th \in vnode'[v].uses
        BY <3>1 DEF Gets
      <4>. QED BY <4>2, <4>3, <4>4 DEF Chosen, IsVnodeFor
    <3>2. CASE Succeeds(th)
      BY <3>2, AttachedForks, Kinds
    <3>. QED BY <2>1, <3>1, <3>2
  <2>. HIDE DEF v, n, f
  <2>. QED BY <2>2, <2>3 DEF Used, IsVnodeFor
<1>. QED BY <1>1, <1>2

(* A vnode has its node until the thread that reclaims it detaches it.     *)
LEMMA ReclaimStep ==
  ASSUME IInv, NEW th \in Threads, Step(th)
  PROVE  (\A t \in Threads :
            pc[t] \in ReclaimPCs /\ (pc[t] = "scrub" => local[t].vn # NULL) =>
              Reclaims(t))'
<1>1. ASSUME NEW t \in Threads \ {th}, pc'[t] \in ReclaimPCs,
             pc'[t] = "scrub" => local'[t].vn # NULL
      PROVE  Reclaims(t)'
  <2>. DEFINE v == local[t].vn
  <2>1. SameLocal(t) /\ pc'[t] = pc[t]
    BY <1>1, OthersKeep DEF ReclaimPCs
  <2>2. Reclaims(t) /\ v \in Vnodes
    BY <1>1, <2>1, Kinds DEF SameLocal, IInv, Reclaiming, Reclaims
  <2>3. vnode'[v].state = "reclaim" /\ vnode'[v].fsnode = vnode[v].fsnode
    BY <1>1, <2>1, <2>2, KeptByReclaim DEF Reclaims
  <2>4. local'[t].vn = v /\ local'[t].thisNode = local[t].thisNode
    BY <2>1 DEF SameLocal
  <2>. QED BY <2>1, <2>2, <2>3, <2>4 DEF Reclaims
<1>2. ASSUME pc'[th] \in ReclaimPCs,
             pc'[th] = "scrub" => local'[th].vn # NULL
      PROVE  Reclaims(th)'
  <2>1. Moves(th) \/ TakesBack(th) \/ Detaches(th) \/ Frees(th) \/ Fails(th)
    BY <1>2
    DEF Step, Begins, Allocates, Returns, AttachesNew, AttachesOld, Attaches,
        Sleeps, Finds, Gets, Puts, Creates, Succeeds, GivesBack, ReclaimPCs
  <2>2. CASE Moves(th)
    <3>1. /\ pc[th] = "reclaim" /\ pc'[th] = "detach" /\ SameLocal(th)
          /\ vnode' = vnode
      BY <1>2, <2>2 DEF Moves, Ways, ReclaimPCs
    <3>2. Reclaims(th)
      BY <3>1 DEF IInv, Reclaiming, ReclaimPCs
    <3>. QED BY <3>1, <3>2 DEF Reclaims, SameLocal
  <2>3. CASE TakesBack(th)
    <3>1. PICK v \in Vnodes :
            /\ vnode[v].state = "live"
            /\ local'[th].vn = v /\ local'[th].thisNode = vnode[v].fsnode
            /\ vnode'[v].state = "reclaim"
            /\ vnode'[v].fsnode = vnode[v].fsnode
      BY <2>3 DEF TakesBack
    <3>2. v # NULL /\ vnode[v].fsnode # NULL /\ pc'[th] = "reclaim"
      BY <2>3, <3>1, Kinds DEF TakesBack, IInv, Linked
    <3>. QED BY <3>1, <3>2 DEF Reclaims
  <2>4. CASE Detaches(th)
    <3>1. SameLocal(th) /\ pc'[th] \in {"scrub", "reclaimed"}
      BY <2>4 DEF Detaches
    <3>. QED BY <2>4, <3>1, DetachedForks, Kinds DEF Reclaims, SameLocal
  <2>5. CASE Frees(th)
    <3>1. /\ pc[th] = "scrub" /\ local[th].vn # NULL /\ SameLocal(th)
          /\ pc'[th] = "reclaimed" /\ vnode' = vnode
      BY <1>2, <2>5 DEF Frees, ReclaimPCs
    <3>2. Reclaims(th)
      BY <3>1 DEF IInv, Reclaiming, ReclaimPCs
    <3>. QED BY <3>1, <3>2 DEF Reclaims, SameLocal
  <2>6. CASE Fails(th)
    BY <1>2, <2>6 DEF Fails, SameLocal, ReclaimPCs
  <2>. QED BY <2>1, <2>2, <2>3, <2>4, <2>5, <2>6
<1>. QED BY <1>1, <1>2

(* A vnode is reclaimed by one thread.                                     *)
LEMMA OneReclaimStep ==
  ASSUME IInv, NEW th \in Threads, Step(th)
  PROVE  (\A s, t \in Threads :
            pc[s] \in ReclaimPCs /\ pc[t] \in ReclaimPCs
              /\ local[s].vn = local[t].vn /\ local[s].vn # NULL => s = t)'
<1>1. CASE Moves(th)
  BY <1>1, Kinds
  DEF Moves, Ways, SameLocal, SameThread, OnlyThread, IInv, Reclaiming,
      ReclaimPCs, Reclaims, GettingPCs, AttachPCs
<1>2. CASE Begins(th)
  BY <1>2, Kinds
  DEF Begins, SameLocal, SameThread, OnlyThread, IInv, Reclaiming,
      ReclaimPCs, Reclaims, GettingPCs, AttachPCs
<1>3. CASE Allocates(th)
  BY <1>3, Kinds
  DEF Allocates, SameLocal, SameThread, OnlyThread, IInv, Reclaiming,
      ReclaimPCs, Reclaims, GettingPCs, AttachPCs
<1>4. CASE Returns(th)
  BY <1>4, Kinds
  DEF Returns, SameLocal, SameThread, OnlyThread, IInv, Reclaiming,
      ReclaimPCs, Reclaims, GettingPCs, AttachPCs
<1>5. CASE AttachesNew(th)
  BY <1>5, Kinds
  DEF AttachesNew, Attaches, SameLocal, SameThread, OnlyThread, IInv,
      Reclaiming, ReclaimPCs, Reclaims, GettingPCs, AttachPCs
<1>6. CASE AttachesOld(th)
  BY <1>6, Kinds
  DEF AttachesOld, Attaches, SameLocal, SameThread, OnlyThread, SameTable,
      IInv, Reclaiming, ReclaimPCs, Reclaims, GettingPCs, AttachPCs
<1>7. CASE Sleeps(th)
  BY <1>7, Kinds
  DEF Sleeps, SameLocal, SameThread, OnlyThread, IInv, Reclaiming,
      ReclaimPCs, Reclaims, GettingPCs, AttachPCs
<1>8. CASE Finds(th)
  BY <1>8, Kinds
  DEF Finds, SameLocal, SameThread, OnlyThread, IInv, Reclaiming, ReclaimPCs,
      Reclaims, GettingPCs, AttachPCs
<1>9. CASE Gets(th)
  BY <1>9, Kinds
  DEF Gets, SameLocal, SameThread, OnlyThread, IInv, Reclaiming, ReclaimPCs,
      Reclaims, GettingPCs, AttachPCs
<1>10. CASE Puts(th)
  BY <1>10, Kinds
  DEF Puts, SameLocal, SameThread, OnlyThread, IInv, Reclaiming, ReclaimPCs,
      Reclaims, GettingPCs, AttachPCs
<1>11. CASE Creates(th)
  BY <1>11, Kinds
  DEF Creates, SameLocal, SameThread, OnlyThread, IInv, Reclaiming,
      ReclaimPCs, Reclaims, GettingPCs, AttachPCs
<1>12. CASE Succeeds(th)
  <2>1. \A t \in Threads : pc'[t] \in ReclaimPCs =>
          pc[t] \in ReclaimPCs /\ local'[t].vn = local[t].vn
    BY <1>12 DEF Succeeds, Wakes, SameLocal, ReclaimPCs
  <2>. QED BY <2>1 DEF IInv, Reclaiming
<1>13. CASE Fails(th)
  <2>1. \A t \in Threads : pc'[t] \in ReclaimPCs =>
          \/ pc[t] \in ReclaimPCs /\ local'[t].vn = local[t].vn
          \/ local'[t].vn = NULL
    BY <1>13 DEF Fails, Wakes, SameLocal, ReclaimPCs
  <2>. QED BY <2>1 DEF IInv, Reclaiming
<1>14. CASE Frees(th)
  BY <1>14, Kinds
  DEF Frees, SameLocal, SameThread, OnlyThread, IInv, Reclaiming, ReclaimPCs,
      Reclaims, GettingPCs, AttachPCs
<1>15. CASE TakesBack(th)
  BY <1>15, Kinds
  DEF TakesBack, SameLocal, SameThread, OnlyThread, IInv, Reclaiming,
      ReclaimPCs, Reclaims, GettingPCs, AttachPCs
<1>16. CASE Detaches(th)
  <2>1. \A t \in Threads : pc'[t] \in ReclaimPCs =>
          pc[t] \in ReclaimPCs /\ local'[t].vn = local[t].vn
    BY <1>16 DEF Detaches, SameLocal, SameThread, OnlyThread,
                    ReclaimPCs
  <2>. QED BY <2>1 DEF IInv, Reclaiming
<1>17. CASE GivesBack(th)
  BY <1>17, Kinds
  DEF GivesBack, SameLocal, SameThread, OnlyThread, IInv, Reclaiming,
      ReclaimPCs, Reclaims, GettingPCs, AttachPCs
<1>. QED BY <1>1, <1>2, <1>3, <1>4, <1>5, <1>6, <1>7, <1>8, <1>9, <1>10,
           <1>11, <1>12, <1>13, <1>14, <1>15, <1>16, <1>17 DEF Step

(* The count of one node.                                                  *)
LEMMA SameCounts ==
  ASSUME IInv, NEW n \in Nodes,
         node'[n].attachOutstanding <=> node[n].attachOutstanding,
         node'[n].forkVNodesCount = node[n].forkVNodesCount,
         node'[n].forkVNodes = node[n].forkVNodes
  PROVE  CountsItself(n)'
<1>1. Full(n)' = Full(n)
  BY DEF Full
<1>2. CountsItself(n)
  BY DEF IInv, Counted
<1>. QED BY <1>1, <1>2 DEF CountsItself

(* A node of which nothing is left counts nothing.                         *)
LEMMA BlankCounts ==
  ASSUME NEW n \in Nodes, ~node'[n].attachOutstanding,
         node'[n].forkVNodesCount = 0,
         \A f \in Forks : node'[n].forkVNodes[f] = NULL
  PROVE  CountsItself(n)'
<1>1. Full(n)' = {}
  BY DEF Full
<1>2. Cardinality(Full(n)') = 0
  BY <1>1, FS_EmptySet
<1>. QED BY <1>2 DEF CountsItself

(* A claim counts for itself.                                              *)
LEMMA ClaimCounts ==
  ASSUME IInv, NEW n \in Nodes, ~node[n].attachOutstanding, Claims(n)
  PROVE  CountsItself(n)'
<1>1. Full(n)' = Full(n)
  BY DEF Full, Claims
<1>2. CountsItself(n) /\ Cardinality(Full(n)) \in Nat
  BY ForksAre DEF IInv, Counted
<1>. QED BY <1>1, <1>2 DEF CountsItself, Claims

(* The reference count of a node changes with what it counts.              *)
LEMMA ForksCountedStep ==
  ASSUME IInv, NEW th \in Threads, Step(th)
  PROVE  (\A n \in Nodes : CountsItself(n))'
<1>1. CASE Moves(th)
  <2>. SUFFICES ASSUME NEW n \in Nodes PROVE CountsItself(n)'
    OBVIOUS
  <2>1. SameNode(n)
    BY <1>1 DEF Moves, SameNodes
  <2>. QED BY <2>1, SameCounts DEF SameNode
<1>2. CASE Begins(th)
  <2>. SUFFICES ASSUME NEW n \in Nodes PROVE CountsItself(n)'
    OBVIOUS
  <2>1. SameNode(n)
    BY <1>2 DEF Begins, SameNodes
  <2>. QED BY <2>1, SameCounts DEF SameNode
<1>3. CASE Allocates(th)
  <2>. SUFFICES ASSUME NEW n \in Nodes PROVE CountsItself(n)'
    OBVIOUS
  <2>1. \/ SameNode(n)
        \/ /\ ~node'[n].attachOutstanding /\ node'[n].forkVNodesCount = 0
           /\ \A f \in Forks : node'[n].forkVNodes[f] = NULL
    BY <1>3 DEF Allocates
  <2>. QED BY <2>1, SameCounts, BlankCounts DEF SameNode
<1>4. CASE Returns(th)
  <2>. SUFFICES ASSUME NEW n \in Nodes PROVE CountsItself(n)'
    OBVIOUS
  <2>1. SameNode(n) \/ Blank(n)
    BY <1>4 DEF Returns, SameNodes, Trims
  <2>. QED BY <2>1, SameCounts, BlankCounts DEF SameNode, Blank
<1>5. CASE AttachesNew(th)
  <2>. SUFFICES ASSUME NEW n \in Nodes PROVE CountsItself(n)'
    OBVIOUS
  <2>1. SameNode(n) \/ (n = local[th].newNode /\ Claims(n))
    BY <1>5 DEF AttachesNew, Attaches
  <2>2. n = local[th].newNode => ~node[n].attachOutstanding
    BY DEF IInv, Owned, Owns, OwnsNew, Tabled
  <2>. QED BY <2>1, <2>2, SameCounts, ClaimCounts DEF SameNode
<1>6. CASE AttachesOld(th)
  <2>. SUFFICES ASSUME NEW n \in Nodes PROVE CountsItself(n)'
    OBVIOUS
  <2>1. \/ SameNode(n) \/ Blank(n)
        \/ ~node[n].attachOutstanding /\ Claims(n)
    BY <1>6 DEF AttachesOld, Attaches
  <2>. QED BY <2>1, SameCounts, BlankCounts, ClaimCounts DEF SameNode, Blank
<1>7. CASE Sleeps(th)
  <2>. SUFFICES ASSUME NEW n \in Nodes PROVE CountsItself(n)'
    OBVIOUS
  <2>1. /\ node'[n].attachOutstanding <=> node[n].attachOutstanding
        /\ node'[n].forkVNodesCount = node[n].forkVNodesCount
        /\ node'[n].forkVNodes = node[n].forkVNodes
    BY <1>7 DEF Sleeps, SameNode
  <2>. QED BY <2>1, SameCounts
<1>8. CASE Finds(th)
  <2>. SUFFICES ASSUME NEW n \in Nodes PROVE CountsItself(n)'
    OBVIOUS
  <2>1. SameNode(n)
    BY <1>8 DEF Finds, SameNodes
  <2>. QED BY <2>1, SameCounts DEF SameNode
<1>9. CASE Gets(th)
  <2>. SUFFICES ASSUME NEW n \in Nodes PROVE CountsItself(n)'
    OBVIOUS
  <2>1. SameNode(n) \/ Blank(n)
    BY <1>9 DEF Gets, Trims
  <2>. QED BY <2>1, SameCounts, BlankCounts DEF SameNode, Blank
<1>10. CASE Puts(th)
  <2>. SUFFICES ASSUME NEW n \in Nodes PROVE CountsItself(n)'
    OBVIOUS
  <2>1. SameNode(n)
    BY <1>10 DEF Puts, SameNodes
  <2>. QED BY <2>1, SameCounts DEF SameNode
<1>11. CASE Creates(th)
  <2>. SUFFICES ASSUME NEW n \in Nodes PROVE CountsItself(n)'
    OBVIOUS
  <2>1. SameNode(n)
    BY <1>11 DEF Creates, SameNodes
  <2>. QED BY <2>1, SameCounts DEF SameNode
<1>12. CASE Succeeds(th)
  <2>. SUFFICES ASSUME NEW n \in Nodes PROVE CountsItself(n)'
    OBVIOUS
  <2>. DEFINE k == local[th].thisNode
              g == local[th].fork
  <2>1. CASE n # k
    BY <1>12, <2>1, SameCounts DEF Succeeds, SameNode
  <2>2. CASE n = k
    <3>1. /\ ~node'[n].attachOutstanding /\ node[n].attachOutstanding
          /\ node'[n].forkVNodesCount = node[n].forkVNodesCount
      BY <1>12, <2>2, FailedAttach DEF Succeeds
    <3>2. /\ g \notin Full(n) /\ Full(n)' = Full(n) \cup {g}
      BY <1>12, <2>2, AttachedForks DEF Full
    <3>3. Cardinality(Full(n) \cup {g}) = Cardinality(Full(n)) + 1
      BY <3>2, ForksAre, FS_AddElement
    <3>4. CountsItself(n) /\ Cardinality(Full(n)) \in Nat
      BY ForksAre DEF IInv, Counted
    <3>. QED BY <3>1, <3>2, <3>3, <3>4 DEF CountsItself
  <2>. QED BY <2>1, <2>2
<1>13. CASE Fails(th)
  <2>. SUFFICES ASSUME NEW n \in Nodes PROVE CountsItself(n)'
    OBVIOUS
  <2>. DEFINE k == local[th].thisNode
  <2>1. CASE n # k
    BY <1>13, <2>1, SameCounts DEF Fails, SameNode
  <2>2. CASE n = k
    <3>1. /\ ~node'[n].attachOutstanding
          /\ node'[n].forkVNodesCount = node[n].forkVNodesCount - 1
          /\ node'[n].forkVNodes = node[n].forkVNodes
      BY <1>13, <2>2 DEF Fails
    <3>2. pc[th] = "attach"
      BY <1>13 DEF Fails
    <3>3. node[n].forkVNodesCount = Cardinality(Full(n)) + 1
      BY <2>2, <3>2, FailedAttach
    <3>4. Full(n)' = Full(n) /\ Cardinality(Full(n)) \in Nat
      BY <3>1, ForksAre DEF Full
    <3>. QED BY <3>1, <3>3, <3>4 DEF CountsItself
  <2>. QED BY <2>1, <2>2
<1>14. CASE Frees(th)
  <2>. SUFFICES ASSUME NEW n \in Nodes PROVE CountsItself(n)'
    OBVIOUS
  <2>1. SameNode(n) \/ Blank(n)
    BY <1>14 DEF Frees
  <2>. QED BY <2>1, SameCounts, BlankCounts DEF SameNode, Blank
<1>15. CASE TakesBack(th)
  <2>. SUFFICES ASSUME NEW n \in Nodes PROVE CountsItself(n)'
    OBVIOUS
  <2>1. SameNode(n)
    BY <1>15 DEF TakesBack, SameNodes
  <2>. QED BY <2>1, SameCounts DEF SameNode
<1>16. CASE Detaches(th)
  <2>. SUFFICES ASSUME NEW n \in Nodes PROVE CountsItself(n)'
    OBVIOUS
  <2>. DEFINE k == local[th].thisNode
              v == local[th].vn
  <2>1. CASE n # k
    BY <1>16, <2>1, SameCounts DEF Detaches, SameNode
  <2>2. CASE n = k
    <3>1. /\ node'[n].attachOutstanding = node[n].attachOutstanding
          /\ node'[n].forkVNodesCount = node[n].forkVNodesCount - 1
          /\ pc[th] = "detach"
      BY <1>16, <2>2 DEF Detaches
    <3>2. PICK f \in Forks : /\ node[n].forkVNodes[f] = v
                             /\ \A g \in Forks \ {f} :
                                  node[n].forkVNodes[g] # v
      BY <2>2, <3>1, LastDetached
    <3>3. f \in Full(n) /\ Full(n)' = Full(n) \ {f}
      BY <1>16, <3>2, DetachedForks, Kinds DEF Full
    <3>4. Cardinality(Full(n) \ {f}) = Cardinality(Full(n)) - 1
      BY <3>3, ForksAre, FS_RemoveElement
    <3>5. CountsItself(n) /\ Cardinality(Full(n)) \in Nat
      BY ForksAre DEF IInv, Counted
    <3>. QED BY <3>1, <3>3, <3>4, <3>5 DEF CountsItself
  <2>. QED BY <2>1, <2>2
<1>17. CASE GivesBack(th)
  <2>. SUFFICES ASSUME NEW n \in Nodes PROVE CountsItself(n)'
    OBVIOUS
  <2>1. SameNode(n)
    BY <1>17 DEF GivesBack, SameNodes
  <2>. QED BY <2>1, SameCounts DEF SameNode
<1>. QED BY <1>1, <1>2, <1>3, <1>4, <1>5, <1>6, <1>7, <1>8, <1>9, <1>10,
           <1>11, <1>12, <1>13, <1>14, <1>15, <1>16, <1>17 DEF Step

(* The number of nodes changes with the table.                             *)
LEMMA TableCountedStep ==
  ASSUME IInv, NEW th \in Threads, Step(th)
  PROVE  (IsFiniteSet(table) /\ count = Cardinality(table))'
<1>1. CASE Moves(th)
  BY <1>1 DEF Moves, SameTable, IInv, Counted
<1>2. CASE Begins(th)
  BY <1>2 DEF Begins, SameTable, IInv, Counted
<1>3. CASE Allocates(th)
  BY <1>3 DEF Allocates, SameTable, IInv, Counted
<1>4. CASE Returns(th)
  BY <1>4 DEF Returns, SameTable, IInv, Counted
<1>5. CASE AttachesNew(th)
  <2>. DEFINE n == local[th].newNode
  <2>1. n \notin table /\ table' = table \cup {n} /\ count' = count + 1
    BY <1>5 DEF AttachesNew, IInv, Owned
  <2>2. IsFiniteSet(table) /\ count = Cardinality(table)
    BY DEF IInv, Counted
  <2>. QED BY <2>1, <2>2, FS_AddElement
<1>6. CASE AttachesOld(th)
  BY <1>6 DEF AttachesOld, SameTable, IInv, Counted
<1>7. CASE Sleeps(th)
  BY <1>7 DEF Sleeps, SameTable, IInv, Counted
<1>8. CASE Finds(th)
  BY <1>8 DEF Finds, SameTable, IInv, Counted
<1>9. CASE Gets(th)
  BY <1>9 DEF Gets, SameTable, IInv, Counted
<1>10. CASE Puts(th)
  BY <1>10 DEF Puts, SameTable, IInv, Counted
<1>11. CASE Creates(th)
  BY <1>11 DEF Creates, SameTable, IInv, Counted
<1>12. CASE Succeeds(th)
  BY <1>12 DEF Succeeds, SameTable, IInv, Counted
<1>13. CASE Fails(th)
  <2>. DEFINE n == local[th].thisNode
  <2>1. pc[th] = "attach"
    BY <1>13 DEF Fails
  <2>2. n \in table
    BY <2>1, FailedAttach
  <2>3. \/ table' = table \ {n} /\ count' = count - 1
        \/ table' = table /\ count' = count
    BY <1>13 DEF Fails, Leaves, SameTable
  <2>4. IsFiniteSet(table) /\ count = Cardinality(table)
    BY DEF IInv, Counted
  <2>. HIDE DEF n
  <2>. QED BY <2>2, <2>3, <2>4, FS_RemoveElement
<1>14. CASE Frees(th)
  BY <1>14 DEF Frees, SameTable, IInv, Counted
<1>15. CASE TakesBack(th)
  BY <1>15 DEF TakesBack, SameTable, IInv, Counted
<1>16. CASE Detaches(th)
  <2>. DEFINE n == local[th].thisNode
  <2>1. pc[th] = "detach"
    BY <1>16 DEF Detaches
  <2>2. n \in table
    BY <2>1, LastDetached
  <2>3. \/ table' = table \ {n} /\ count' = count - 1
        \/ table' = table /\ count' = count
    BY <1>16 DEF Detaches, Leaves, SameTable
  <2>4. IsFiniteSet(table) /\ count = Cardinality(table)
    BY DEF IInv, Counted
  <2>. HIDE DEF n
  <2>. QED BY <2>2, <2>3, <2>4, FS_RemoveElement
<1>17. CASE GivesBack(th)
  BY <1>17 DEF GivesBack, SameTable, IInv, Counted
<1>. QED BY <1>1, <1>2, <1>3, <1>4, <1>5, <1>6, <1>7, <1>8, <1>9, <1>10,
           <1>11, <1>12, <1>13, <1>14, <1>15, <1>16, <1>17 DEF Step

(* Types of the records.                                                   *)
LEMMA RecordsTyped ==
  /\ FreeNode \in HNode /\ NoLocals \in Local
  /\ \A i \in Inodes, f \in Forks : NewNode(i, f) \in HNode
  /\ \A h \in HNode : Outstanding(h) \in HNode /\ Complete(h) \in HNode
<1>1. 0 \in Forks
  BY HNodeAssumption DEF Forks
<1>2. NoForks \in [Forks -> Vnodes \cup {NULL}]
  BY DEF NoForks
<1>3. FreeNode \in HNode
  BY <1>2 DEF FreeNode, HNode
<1>4. NoLocals \in Local
  BY <1>1 DEF NoLocals, Local
<1>5. ASSUME NEW i \in Inodes, NEW f \in Forks
      PROVE  NewNode(i, f) \in HNode
  <2>1. f + 1 \in Nat
    BY DEF Forks
  <2>. QED BY <1>3, <2>1 DEF NewNode, HNode
<1>6. ASSUME NEW h \in HNode
      PROVE  Outstanding(h) \in HNode /\ Complete(h) \in HNode
  <2>1. h.forkVNodesCount + 1 \in Int
    BY DEF HNode
  <2>2. Outstanding(h) = [[h EXCEPT !.attachOutstanding = TRUE]
                          EXCEPT !.forkVNodesCount = h.forkVNodesCount + 1]
    BY DEF Outstanding, HNode
  <2>3. [h EXCEPT !.attachOutstanding = TRUE] \in HNode
    BY DEF HNode
  <2>4. \A k \in HNode, c \in Int : [k EXCEPT !.forkVNodesCount = c] \in HNode
    BY DEF HNode
  <2>5. Outstanding(h) \in HNode
    BY <2>1, <2>2, <2>3, <2>4
  <2>6. Complete(h) \in HNode
    BY DEF Complete, HNode
  <2>. QED BY <2>5, <2>6
<1>. QED BY <1>3, <1>4, <1>5, <1>6

(* Freeing the memory that was not needed leaves nodes.                    *)
LEMMA TrimmedTyped ==
  ASSUME IInv, NEW th \in Threads
  PROVE  Trimmed(th) \in [Nodes -> HNode]
BY RecordsTyped DEF IInv, Typed, Trimmed

(* Noting a node and a vnode leaves the types of the locals.               *)
LEMMA KeepingTyped ==
  ASSUME IInv, NEW th \in Threads, NEW n \in Nodes \cup {NULL},
         NEW v \in Vnodes \cup {NULL}, Keeping(th, n, v)
  PROVE  local' \in [Threads -> Local]
<1>1. local[th] \in Local /\ local \in [Threads -> Local]
  BY DEF IInv, Typed
<1>2. [local[th] EXCEPT !.newNode = NULL, !.newForkBuffer = FALSE,
                        !.thisNode = n, !.vn = v, !.vid = 0] \in Local
  BY <1>1 DEF Local
<1>. QED BY <1>1, <1>2 DEF Keeping

(* What vnode_create and the end of a reclaim do. *)
(* What vnode_create makes of a vnode.                                     *)
NewVnode(th, v) ==
  [vnode[v] EXCEPT !.state = "live", !.fsnode = local[th].thisNode,
                   !.uses = {th}]

(* What CreateVnode changes: nothing if it fails, or one free vnode.       *)
LEMMA CreateVnodeDoes ==
  ASSUME IInv, NEW th \in Threads, CreateVnode(th)
  PROVE  /\ pc' = [pc EXCEPT ![th] = "created"]
         /\ UNCHANGED <<node, table, count, biglock>>
         /\ \/ vnode' = vnode /\ local' = local
            \/ \E v \in Vnodes :
                 /\ vnode[v].state = "free"
                 /\ vnode' = [vnode EXCEPT ![v] = NewVnode(th, v)]
                 /\ local' = [local EXCEPT ![th].vn = v]
<1>1. /\ pc' = [pc EXCEPT ![th] = "created"]
      /\ UNCHANGED <<node, table, count, biglock>>
      /\ \/ vnode' = vnode /\ local' = local
         \/ \E v \in Vnodes :
              /\ vnode[v].state = "free"
              /\ vnode' = [vnode EXCEPT ![v] = NewVnode(th, v)]
              /\ local' = [local EXCEPT ![th].vn = v]
  BY Zenon DEF CreateVnode, Goto, NewVnode
<1>. QED BY <1>1, Zenon

(* The type of pc.                                                         *)
LEMMA PlacesTyped ==
  ASSUME IInv, Next
  PROVE  (pc \in [Threads -> PCs])'
<1>1. ASSUME NEW th \in Threads, NEW i \in Inodes, NEW f \in Forks,
             Begin(th, i, f)
      PROVE  (pc \in [Threads -> PCs])'
  BY <1>1 DEF Begin, Goto, IInv, Typed, PCs, Searching, ReclaimPCs, GettingPCs
<1>2. ASSUME NEW th \in Threads, NEW i \in Inodes, QuickLookup(th, i)
      PROVE  (pc \in [Threads -> PCs])'
  BY <1>2 DEF QuickLookup, Goto, IInv, Typed, PCs, ReclaimPCs, GettingPCs
<1>3. ASSUME NEW th \in Threads, Reclaim(th)
      PROVE  (pc \in [Threads -> PCs])'
  BY <1>3 DEF Reclaim, Goto, IInv, Typed, PCs, ReclaimPCs, GettingPCs
<1>4. ASSUME NEW th \in Threads, NeedNode(th)
      PROVE  (pc \in [Threads -> PCs])'
  BY <1>4 DEF NeedNode, Goto, IInv, Typed, PCs, GettingPCs
<1>5. ASSUME NEW th \in Threads, InsertNode(th)
      PROVE  (pc \in [Threads -> PCs])'
  BY <1>5
  DEF InsertNode, Goto, IInv, Typed, PCs, AttachPCs, ReclaimPCs, GettingPCs
<1>6. ASSUME NEW th \in Threads, WaitForAttach(th)
      PROVE  (pc \in [Threads -> PCs])'
  BY <1>6 DEF WaitForAttach, Goto, IInv, Typed, PCs, Searching, GettingPCs
<1>7. ASSUME NEW th \in Threads, NeedBuffer(th)
      PROVE  (pc \in [Threads -> PCs])'
  BY <1>7 DEF NeedBuffer, Goto, IInv, Typed, PCs, Searching, GettingPCs
<1>8. ASSUME NEW th \in Threads, InstallBuffer(th)
      PROVE  (pc \in [Threads -> PCs])'
  BY <1>8 DEF InstallBuffer, IInv, Typed
<1>9. ASSUME NEW th \in Threads, ClaimFork(th)
      PROVE  (pc \in [Threads -> PCs])'
  BY <1>9
  DEF ClaimFork, Goto, IInv, Typed, PCs, AttachPCs, ReclaimPCs, GettingPCs
<1>10. ASSUME NEW th \in Threads, Candidate(th)
       PROVE  (pc \in [Threads -> PCs])'
  BY <1>10
  DEF Candidate, Goto, IInv, Typed, PCs, Searching, ReclaimPCs, GettingPCs
<1>11. ASSUME NEW th \in Threads, Alloc(th)
       PROVE  (pc \in [Threads -> PCs])'
  BY <1>11
  DEF Alloc, Goto, Return, IInv, Typed, PCs, Searching, ReclaimPCs,
      GettingPCs
<1>12. ASSUME NEW th \in Threads, AllocBuffer(th)
       PROVE  (pc \in [Threads -> PCs])'
  BY <1>12
  DEF AllocBuffer, Goto, Return, IInv, Typed, PCs, Searching, ReclaimPCs,
      GettingPCs
<1>13. ASSUME NEW th \in Threads, GetVnode(th)
       PROVE  (pc \in [Threads -> PCs])'
  BY <1>13
  DEF GetVnode, GotVnode, Goto, IInv, Typed, PCs, Searching, AttachPCs,
      ReclaimPCs, GettingPCs
<1>14. ASSUME NEW th \in Threads, GetVnodeAgain(th)
       PROVE  (pc \in [Threads -> PCs])'
  BY <1>14
  DEF GetVnodeAgain, Goto, IInv, Typed, PCs, Searching, ReclaimPCs,
      GettingPCs
<1>15. ASSUME NEW th \in Threads, Put(th)
       PROVE  (pc \in [Threads -> PCs])'
  BY <1>15 DEF Put, Return, Goto, IInv, Typed, PCs, ReclaimPCs, GettingPCs
<1>16. ASSUME NEW th \in Threads, DropBiglock(th)
       PROVE  (pc \in [Threads -> PCs])'
  BY <1>16 DEF DropBiglock, Goto, IInv, Typed, PCs, AttachPCs, GettingPCs
<1>17. ASSUME NEW th \in Threads, CreateVnode(th)
       PROVE  (pc \in [Threads -> PCs])'
  BY <1>17, CreateVnodeDoes DEF IInv, Typed, PCs, AttachPCs
<1>18. ASSUME NEW th \in Threads, TakeBiglock(th)
       PROVE  (pc \in [Threads -> PCs])'
  BY <1>18
  DEF TakeBiglock, Goto, IInv, Typed, PCs, AttachPCs, ReclaimPCs, GettingPCs
<1>19. ASSUME NEW th \in Threads, AttachVNodeSucceeded(th)
       PROVE  (pc \in [Threads -> PCs])'
  BY <1>19
  DEF AttachVNodeSucceeded, WakeAndGoto, IInv, Typed, PCs, Searching,
      ReclaimPCs, GettingPCs
<1>20. ASSUME NEW th \in Threads, AttachVNodeFailed(th)
       PROVE  (pc \in [Threads -> PCs])'
  BY <1>20
  DEF AttachVNodeFailed, WakeAndGoto, IInv, Typed, PCs, Searching, AttachPCs,
      ReclaimPCs, GettingPCs
<1>21. ASSUME NEW th \in Threads, Scrub(th)
       PROVE  (pc \in [Threads -> PCs])'
  BY <1>21 DEF Scrub, Return, Goto, IInv, Typed, PCs, ReclaimPCs, GettingPCs
<1>22. ASSUME NEW th \in Threads, DetachVNode(th)
       PROVE  (pc \in [Threads -> PCs])'
  BY <1>22
  DEF DetachVNode, Goto, IInv, Typed, PCs, AttachPCs, ReclaimPCs, GettingPCs
<1>23. ASSUME NEW th \in Threads, Reclaimed(th)
       PROVE  (pc \in [Threads -> PCs])'
  BY <1>23
  DEF Reclaimed, Return, Goto, IInv, Typed, PCs, ReclaimPCs, GettingPCs
<1>24. ASSUME NEW th \in Threads, QuickGet(th)
       PROVE  (pc \in [Threads -> PCs])'
  BY <1>24
  DEF QuickGet, GotVnode, Goto, IInv, Typed, PCs, Searching, AttachPCs,
      ReclaimPCs, GettingPCs
<1>25. ASSUME NEW th \in Threads, QuickGiveUp(th)
       PROVE  (pc \in [Threads -> PCs])'
  BY <1>25
  DEF QuickGiveUp, Return, Goto, IInv, Typed, PCs, AttachPCs, ReclaimPCs,
      GettingPCs
<1>. QED BY <1>1, <1>2, <1>3, <1>4, <1>5, <1>6, <1>7, <1>8, <1>9, <1>10,
           <1>11, <1>12, <1>13, <1>14, <1>15, <1>16, <1>17, <1>18, <1>19,
           <1>20, <1>21, <1>22, <1>23, <1>24, <1>25 DEF Next, Advance, Search

(* The type of the table.                                                  *)
LEMMA TableTyped ==
  ASSUME IInv, Next
  PROVE  (table \in SUBSET Nodes)'
<1>1. ASSUME NEW th \in Threads, NEW i \in Inodes, NEW f \in Forks,
             Begin(th, i, f)
      PROVE  (table \in SUBSET Nodes)'
  BY <1>1, Kinds DEF Begin
<1>2. ASSUME NEW th \in Threads, NEW i \in Inodes, QuickLookup(th, i)
      PROVE  (table \in SUBSET Nodes)'
  BY <1>2, Kinds DEF QuickLookup
<1>3. ASSUME NEW th \in Threads, Reclaim(th)
      PROVE  (table \in SUBSET Nodes)'
  BY <1>3, Kinds DEF Reclaim
<1>4. ASSUME NEW th \in Threads, NeedNode(th)
      PROVE  (table \in SUBSET Nodes)'
  BY <1>4, Kinds DEF NeedNode
<1>5. ASSUME NEW th \in Threads, InsertNode(th)
      PROVE  (table \in SUBSET Nodes)'
  BY <1>5, Kinds DEF InsertNode, Inserts
<1>6. ASSUME NEW th \in Threads, WaitForAttach(th)
      PROVE  (table \in SUBSET Nodes)'
  BY <1>6, Kinds DEF WaitForAttach
<1>7. ASSUME NEW th \in Threads, NeedBuffer(th)
      PROVE  (table \in SUBSET Nodes)'
  BY <1>7, Kinds DEF NeedBuffer
<1>8. ASSUME NEW th \in Threads, InstallBuffer(th)
      PROVE  (table \in SUBSET Nodes)'
  BY <1>8, Kinds DEF InstallBuffer
<1>9. ASSUME NEW th \in Threads, ClaimFork(th)
      PROVE  (table \in SUBSET Nodes)'
  BY <1>9, Kinds DEF ClaimFork
<1>10. ASSUME NEW th \in Threads, Candidate(th)
       PROVE  (table \in SUBSET Nodes)'
  BY <1>10, Kinds DEF Candidate
<1>11. ASSUME NEW th \in Threads, Alloc(th)
       PROVE  (table \in SUBSET Nodes)'
  BY <1>11, Kinds DEF Alloc
<1>12. ASSUME NEW th \in Threads, AllocBuffer(th)
       PROVE  (table \in SUBSET Nodes)'
  BY <1>12, Kinds DEF AllocBuffer
<1>13. ASSUME NEW th \in Threads, GetVnode(th)
       PROVE  (table \in SUBSET Nodes)'
  BY <1>13, Kinds DEF GetVnode, GotVnode
<1>14. ASSUME NEW th \in Threads, GetVnodeAgain(th)
       PROVE  (table \in SUBSET Nodes)'
  BY <1>14, Kinds DEF GetVnodeAgain
<1>15. ASSUME NEW th \in Threads, Put(th)
       PROVE  (table \in SUBSET Nodes)'
  BY <1>15, Kinds DEF Put
<1>16. ASSUME NEW th \in Threads, DropBiglock(th)
       PROVE  (table \in SUBSET Nodes)'
  BY <1>16, Kinds DEF DropBiglock
<1>17. ASSUME NEW th \in Threads, CreateVnode(th)
       PROVE  (table \in SUBSET Nodes)'
  BY <1>17, CreateVnodeDoes DEF IInv, Typed
<1>18. ASSUME NEW th \in Threads, TakeBiglock(th)
       PROVE  (table \in SUBSET Nodes)'
  BY <1>18, Kinds DEF TakeBiglock
<1>19. ASSUME NEW th \in Threads, AttachVNodeSucceeded(th)
       PROVE  (table \in SUBSET Nodes)'
  BY <1>19, Kinds DEF AttachVNodeSucceeded
<1>20. ASSUME NEW th \in Threads, AttachVNodeFailed(th)
       PROVE  (table \in SUBSET Nodes)'
  BY <1>20, Kinds DEF AttachVNodeFailed, Decrement
<1>21. ASSUME NEW th \in Threads, Scrub(th)
       PROVE  (table \in SUBSET Nodes)'
  BY <1>21, Kinds DEF Scrub
<1>22. ASSUME NEW th \in Threads, DetachVNode(th)
       PROVE  (table \in SUBSET Nodes)'
  BY <1>22, Kinds DEF DetachVNode, Decrement
<1>23. ASSUME NEW th \in Threads, Reclaimed(th)
       PROVE  (table \in SUBSET Nodes)'
  BY <1>23, Kinds DEF Reclaimed
<1>24. ASSUME NEW th \in Threads, QuickGet(th)
       PROVE  (table \in SUBSET Nodes)'
  BY <1>24, Kinds DEF QuickGet, GotVnode
<1>25. ASSUME NEW th \in Threads, QuickGiveUp(th)
       PROVE  (table \in SUBSET Nodes)'
  BY <1>25, Kinds DEF QuickGiveUp
<1>. QED BY <1>1, <1>2, <1>3, <1>4, <1>5, <1>6, <1>7, <1>8, <1>9, <1>10,
           <1>11, <1>12, <1>13, <1>14, <1>15, <1>16, <1>17, <1>18, <1>19,
           <1>20, <1>21, <1>22, <1>23, <1>24, <1>25 DEF Next, Advance, Search

(* The type of the big lock.                                               *)
LEMMA BiglockTyped ==
  ASSUME IInv, Next
  PROVE  (biglock \in Threads \cup {NULL})'
<1>1. ASSUME NEW th \in Threads, NEW i \in Inodes, NEW f \in Forks,
             Begin(th, i, f)
      PROVE  (biglock \in Threads \cup {NULL})'
  BY <1>1 DEF Begin, Take
<1>2. ASSUME NEW th \in Threads, NEW i \in Inodes, QuickLookup(th, i)
      PROVE  (biglock \in Threads \cup {NULL})'
  BY <1>2 DEF QuickLookup, IInv, Typed
<1>3. ASSUME NEW th \in Threads, Reclaim(th)
      PROVE  (biglock \in Threads \cup {NULL})'
  BY <1>3 DEF Reclaim, IInv, Typed
<1>4. ASSUME NEW th \in Threads, NeedNode(th)
      PROVE  (biglock \in Threads \cup {NULL})'
  BY <1>4 DEF NeedNode, IInv, Typed
<1>5. ASSUME NEW th \in Threads, InsertNode(th)
      PROVE  (biglock \in Threads \cup {NULL})'
  BY <1>5 DEF InsertNode, IInv, Typed
<1>6. ASSUME NEW th \in Threads, WaitForAttach(th)
      PROVE  (biglock \in Threads \cup {NULL})'
  BY <1>6 DEF WaitForAttach, IInv, Typed
<1>7. ASSUME NEW th \in Threads, NeedBuffer(th)
      PROVE  (biglock \in Threads \cup {NULL})'
  BY <1>7 DEF NeedBuffer, IInv, Typed
<1>8. ASSUME NEW th \in Threads, InstallBuffer(th)
      PROVE  (biglock \in Threads \cup {NULL})'
  BY <1>8 DEF InstallBuffer, IInv, Typed
<1>9. ASSUME NEW th \in Threads, ClaimFork(th)
      PROVE  (biglock \in Threads \cup {NULL})'
  BY <1>9 DEF ClaimFork, IInv, Typed
<1>10. ASSUME NEW th \in Threads, Candidate(th)
       PROVE  (biglock \in Threads \cup {NULL})'
  BY <1>10 DEF Candidate, IInv, Typed
<1>11. ASSUME NEW th \in Threads, Alloc(th)
       PROVE  (biglock \in Threads \cup {NULL})'
  BY <1>11 DEF Alloc, Return, Release, IInv, Typed
<1>12. ASSUME NEW th \in Threads, AllocBuffer(th)
       PROVE  (biglock \in Threads \cup {NULL})'
  BY <1>12 DEF AllocBuffer, Return, Release, IInv, Typed
<1>13. ASSUME NEW th \in Threads, GetVnode(th)
       PROVE  (biglock \in Threads \cup {NULL})'
  BY <1>13 DEF GetVnode, GotVnode, Release, IInv, Typed, Take
<1>14. ASSUME NEW th \in Threads, GetVnodeAgain(th)
       PROVE  (biglock \in Threads \cup {NULL})'
  BY <1>14 DEF GetVnodeAgain, IInv, Typed
<1>15. ASSUME NEW th \in Threads, Put(th)
       PROVE  (biglock \in Threads \cup {NULL})'
  BY <1>15 DEF Put, Return, Release, IInv, Typed
<1>16. ASSUME NEW th \in Threads, DropBiglock(th)
       PROVE  (biglock \in Threads \cup {NULL})'
  BY <1>16 DEF DropBiglock, Release, IInv, Typed
<1>17. ASSUME NEW th \in Threads, CreateVnode(th)
       PROVE  (biglock \in Threads \cup {NULL})'
  BY <1>17, CreateVnodeDoes DEF IInv, Typed
<1>18. ASSUME NEW th \in Threads, TakeBiglock(th)
       PROVE  (biglock \in Threads \cup {NULL})'
  BY <1>18 DEF TakeBiglock, Take
<1>19. ASSUME NEW th \in Threads, AttachVNodeSucceeded(th)
       PROVE  (biglock \in Threads \cup {NULL})'
  BY <1>19 DEF AttachVNodeSucceeded, Release, IInv, Typed
<1>20. ASSUME NEW th \in Threads, AttachVNodeFailed(th)
       PROVE  (biglock \in Threads \cup {NULL})'
  BY <1>20 DEF AttachVNodeFailed, Release, IInv, Typed
<1>21. ASSUME NEW th \in Threads, Scrub(th)
       PROVE  (biglock \in Threads \cup {NULL})'
  BY <1>21 DEF Scrub, Return, Release, IInv, Typed
<1>22. ASSUME NEW th \in Threads, DetachVNode(th)
       PROVE  (biglock \in Threads \cup {NULL})'
  BY <1>22 DEF DetachVNode, Release, IInv, Typed
<1>23. ASSUME NEW th \in Threads, Reclaimed(th)
       PROVE  (biglock \in Threads \cup {NULL})'
  BY <1>23 DEF Reclaimed, Return, Release, IInv, Typed
<1>24. ASSUME NEW th \in Threads, QuickGet(th)
       PROVE  (biglock \in Threads \cup {NULL})'
  BY <1>24 DEF QuickGet, GotVnode, Release, IInv, Typed, Take
<1>25. ASSUME NEW th \in Threads, QuickGiveUp(th)
       PROVE  (biglock \in Threads \cup {NULL})'
  BY <1>25 DEF QuickGiveUp, Return, Release, IInv, Typed
<1>. QED BY <1>1, <1>2, <1>3, <1>4, <1>5, <1>6, <1>7, <1>8, <1>9, <1>10,
           <1>11, <1>12, <1>13, <1>14, <1>15, <1>16, <1>17, <1>18, <1>19,
           <1>20, <1>21, <1>22, <1>23, <1>24, <1>25 DEF Next, Advance, Search

(* The type of the vnodes.                                                 *)
LEMMA VnodesTyped ==
  ASSUME IInv, Next
  PROVE  (vnode \in [Vnodes -> Vnode])'
<1>1. ASSUME NEW th \in Threads, NEW i \in Inodes, NEW f \in Forks,
             Begin(th, i, f)
      PROVE  (vnode \in [Vnodes -> Vnode])'
  BY <1>1 DEF Begin, IInv, Typed
<1>2. ASSUME NEW th \in Threads, NEW i \in Inodes, QuickLookup(th, i)
      PROVE  (vnode \in [Vnodes -> Vnode])'
  BY <1>2 DEF QuickLookup, IInv, Typed
<1>3. ASSUME NEW th \in Threads, Reclaim(th)
      PROVE  (vnode \in [Vnodes -> Vnode])'
  BY <1>3 DEF Reclaim, IInv, Typed, Vnode
<1>4. ASSUME NEW th \in Threads, NeedNode(th)
      PROVE  (vnode \in [Vnodes -> Vnode])'
  BY <1>4 DEF NeedNode, IInv, Typed
<1>5. ASSUME NEW th \in Threads, InsertNode(th)
      PROVE  (vnode \in [Vnodes -> Vnode])'
  BY <1>5 DEF InsertNode, IInv, Typed
<1>6. ASSUME NEW th \in Threads, WaitForAttach(th)
      PROVE  (vnode \in [Vnodes -> Vnode])'
  BY <1>6 DEF WaitForAttach, IInv, Typed
<1>7. ASSUME NEW th \in Threads, NeedBuffer(th)
      PROVE  (vnode \in [Vnodes -> Vnode])'
  BY <1>7 DEF NeedBuffer, IInv, Typed
<1>8. ASSUME NEW th \in Threads, InstallBuffer(th)
      PROVE  (vnode \in [Vnodes -> Vnode])'
  BY <1>8 DEF InstallBuffer, IInv, Typed
<1>9. ASSUME NEW th \in Threads, ClaimFork(th)
      PROVE  (vnode \in [Vnodes -> Vnode])'
  BY <1>9 DEF ClaimFork, IInv, Typed
<1>10. ASSUME NEW th \in Threads, Candidate(th)
       PROVE  (vnode \in [Vnodes -> Vnode])'
  BY <1>10 DEF Candidate, IInv, Typed
<1>11. ASSUME NEW th \in Threads, Alloc(th)
       PROVE  (vnode \in [Vnodes -> Vnode])'
  BY <1>11 DEF Alloc, IInv, Typed
<1>12. ASSUME NEW th \in Threads, AllocBuffer(th)
       PROVE  (vnode \in [Vnodes -> Vnode])'
  BY <1>12 DEF AllocBuffer, IInv, Typed
<1>13. ASSUME NEW th \in Threads, GetVnode(th)
       PROVE  (vnode \in [Vnodes -> Vnode])'
  BY <1>13, InHand DEF GetVnode, GotVnode, IInv, Typed, Vnode
<1>14. ASSUME NEW th \in Threads, GetVnodeAgain(th)
       PROVE  (vnode \in [Vnodes -> Vnode])'
  BY <1>14 DEF GetVnodeAgain, IInv, Typed
<1>15. ASSUME NEW th \in Threads, Put(th)
       PROVE  (vnode \in [Vnodes -> Vnode])'
  BY <1>15, InHand DEF Put, IInv, Typed, Vnode
<1>16. ASSUME NEW th \in Threads, DropBiglock(th)
       PROVE  (vnode \in [Vnodes -> Vnode])'
  BY <1>16 DEF DropBiglock, IInv, Typed
<1>17. ASSUME NEW th \in Threads, CreateVnode(th)
       PROVE  (vnode \in [Vnodes -> Vnode])'
  <2>1. ASSUME NEW v \in Vnodes PROVE NewVnode(th, v) \in Vnode
    <3>1. local[th].thisNode \in Nodes \cup {NULL} /\ vnode[v] \in Vnode
      BY Kinds DEF IInv, Typed
    <3>. QED BY <3>1 DEF NewVnode, Vnode
  <2>2. \/ vnode' = vnode
        \/ \E v \in Vnodes : vnode' = [vnode EXCEPT ![v] = NewVnode(th, v)]
    BY <1>17, CreateVnodeDoes
  <2>. QED BY <2>1, <2>2 DEF IInv, Typed
<1>18. ASSUME NEW th \in Threads, TakeBiglock(th)
       PROVE  (vnode \in [Vnodes -> Vnode])'
  BY <1>18 DEF TakeBiglock, IInv, Typed
<1>19. ASSUME NEW th \in Threads, AttachVNodeSucceeded(th)
       PROVE  (vnode \in [Vnodes -> Vnode])'
  BY <1>19 DEF AttachVNodeSucceeded, IInv, Typed
<1>20. ASSUME NEW th \in Threads, AttachVNodeFailed(th)
       PROVE  (vnode \in [Vnodes -> Vnode])'
  BY <1>20 DEF AttachVNodeFailed, IInv, Typed
<1>21. ASSUME NEW th \in Threads, Scrub(th)
       PROVE  (vnode \in [Vnodes -> Vnode])'
  BY <1>21 DEF Scrub, IInv, Typed
<1>22. ASSUME NEW th \in Threads, DetachVNode(th)
       PROVE  (vnode \in [Vnodes -> Vnode])'
  BY <1>22, InHand DEF DetachVNode, IInv, Typed, Vnode
<1>23. ASSUME NEW th \in Threads, Reclaimed(th)
       PROVE  (vnode \in [Vnodes -> Vnode])'
  <2>. DEFINE v == local[th].vn
  <2>1. pc[th] = "reclaimed"
    BY <1>23 DEF Reclaimed
  <2>2. v \in Vnodes
    BY <2>1, InHand
  <2>3. vnode[v] \in Vnode
    BY <2>2 DEF IInv, Typed
  <2>4. \A w \in Vnode, k \in Nat :
          [w EXCEPT !.state = "free", !.vid = k] \in Vnode
    BY DEF Vnode
  <2>5. vnode' = [vnode EXCEPT ![v] =
                    [vnode[v] EXCEPT !.state = "free",
                                     !.vid = vnode[v].vid + 1]]
    BY <1>23, <2>2 DEF Reclaimed, IInv, Typed
  <2>6. vnode[v].vid + 1 \in Nat
    BY <2>2, Kinds
  <2>. QED BY <2>3, <2>4, <2>5, <2>6 DEF IInv, Typed
<1>24. ASSUME NEW th \in Threads, QuickGet(th)
       PROVE  (vnode \in [Vnodes -> Vnode])'
  BY <1>24, InHand DEF QuickGet, GotVnode, IInv, Typed, Vnode
<1>25. ASSUME NEW th \in Threads, QuickGiveUp(th)
       PROVE  (vnode \in [Vnodes -> Vnode])'
  BY <1>25 DEF QuickGiveUp, IInv, Typed
<1>. QED BY <1>1, <1>2, <1>3, <1>4, <1>5, <1>6, <1>7, <1>8, <1>9, <1>10,
           <1>11, <1>12, <1>13, <1>14, <1>15, <1>16, <1>17, <1>18, <1>19,
           <1>20, <1>21, <1>22, <1>23, <1>24, <1>25 DEF Next, Advance, Search

(* The type of the locals.                                                 *)
LEMMA LocalsTyped ==
  ASSUME IInv, Next
  PROVE  (local \in [Threads -> Local])'
<1>1. ASSUME NEW th \in Threads, NEW i \in Inodes, NEW f \in Forks,
             Begin(th, i, f)
      PROVE  (local \in [Threads -> Local])'
  <2>1. [NoLocals EXCEPT !.ino = i, !.fork = f] \in Local
    BY RecordsTyped DEF Local
  <2>. QED BY <1>1, <2>1 DEF Begin, IInv, Typed
<1>2. ASSUME NEW th \in Threads, NEW i \in Inodes, QuickLookup(th, i)
      PROVE  (local \in [Threads -> Local])'
  <2>1. ASSUME NEW n \in Nodes, NEW v \in Vnodes
        PROVE  [NoLocals EXCEPT !.ino = i, !.thisNode = n, !.vn = v,
                                !.vid = vnode[v].vid] \in Local
    <3>1. vnode[v].vid \in Nat
      BY Kinds
    <3>. QED BY <3>1, RecordsTyped DEF Local
  <2>2. PICK n \in Found(i) : LET v == node[n].forkVNodes[0] IN
          /\ v # NULL
          /\ local' = [local EXCEPT ![th] =
               [NoLocals EXCEPT !.ino = i, !.thisNode = n, !.vn = v,
                                !.vid = vnode[v].vid]]
    BY <1>2 DEF QuickLookup
  <2>3. n \in Nodes /\ node[n].forkVNodes[0] \in Vnodes
    BY <2>2, Kinds, HNodeAssumption DEF Found, Forks
  <2>. QED BY <2>1, <2>2, <2>3 DEF IInv, Typed
<1>3. ASSUME NEW th \in Threads, Reclaim(th)
      PROVE  (local \in [Threads -> Local])'
  <2>1. ASSUME NEW n \in Nodes \cup {NULL}, NEW v \in Vnodes
        PROVE  [NoLocals EXCEPT !.vn = v, !.thisNode = n] \in Local
    BY RecordsTyped DEF Local
  <2>2. PICK v \in Vnodes : local' = [local EXCEPT ![th] =
          [NoLocals EXCEPT !.vn = v, !.thisNode = vnode[v].fsnode]]
    BY <1>3 DEF Reclaim
  <2>3. vnode[v].fsnode \in Nodes \cup {NULL}
    BY Kinds
  <2>. QED BY <2>1, <2>2, <2>3 DEF IInv, Typed
<1>4. ASSUME NEW th \in Threads, NeedNode(th)
      PROVE  (local \in [Threads -> Local])'
  BY <1>4 DEF NeedNode, IInv, Typed
<1>5. ASSUME NEW th \in Threads, InsertNode(th)
      PROVE  (local \in [Threads -> Local])'
  BY <1>5, KeepingTyped, Kinds DEF InsertNode
<1>6. ASSUME NEW th \in Threads, WaitForAttach(th)
      PROVE  (local \in [Threads -> Local])'
  <2>1. \A n \in Nodes : [local[th] EXCEPT !.thisNode = n] \in Local
    BY DEF IInv, Typed, Local
  <2>2. \E n \in Nodes : local' = [local EXCEPT ![th].thisNode = n]
    BY <1>6, Kinds DEF WaitForAttach, Found
  <2>. QED BY <2>1, <2>2 DEF IInv, Typed
<1>7. ASSUME NEW th \in Threads, NeedBuffer(th)
      PROVE  (local \in [Threads -> Local])'
  BY <1>7 DEF NeedBuffer, IInv, Typed
<1>8. ASSUME NEW th \in Threads, InstallBuffer(th)
      PROVE  (local \in [Threads -> Local])'
  <2>1. \A b \in BOOLEAN : [local[th] EXCEPT !.newForkBuffer = b] \in Local
    BY DEF IInv, Typed, Local
  <2>. QED BY <1>8, <2>1, RecordsTyped DEF InstallBuffer, IInv, Typed
<1>9. ASSUME NEW th \in Threads, ClaimFork(th)
      PROVE  (local \in [Threads -> Local])'
  BY <1>9, KeepingTyped, Kinds DEF ClaimFork, Ready, Found
<1>10. ASSUME NEW th \in Threads, Candidate(th)
       PROVE  (local \in [Threads -> Local])'
  <2>1. ASSUME NEW n \in Nodes, NEW v \in Vnodes
        PROVE  [local[th] EXCEPT !.thisNode = n, !.vn = v,
                                 !.vid = vnode[v].vid] \in Local
    <3>1. vnode[v].vid \in Nat /\ local[th] \in Local
      BY Kinds DEF IInv, Typed
    <3>. QED BY <3>1 DEF Local
  <2>2. PICK n \in Ready(th) : LET v == node[n].forkVNodes[local[th].fork] IN
          /\ v # NULL
          /\ local' = [local EXCEPT ![th] =
               [@ EXCEPT !.thisNode = n, !.vn = v, !.vid = vnode[v].vid]]
    BY <1>10 DEF Candidate
  <2>3. n \in Nodes /\ node[n].forkVNodes[local[th].fork] \in Vnodes
    BY <2>2, Kinds DEF Ready, Found
  <2>. QED BY <2>1, <2>2, <2>3 DEF IInv, Typed
<1>11. ASSUME NEW th \in Threads, Alloc(th)
       PROVE  (local \in [Threads -> Local])'
  <2>1. \A n \in Nodes : [local[th] EXCEPT !.newNode = n] \in Local
    BY DEF IInv, Typed, Local
  <2>2. \/ \E n \in Nodes : local' = [local EXCEPT ![th].newNode = n]
        \/ local' = [local EXCEPT ![th] = NoLocals]
    BY <1>11 DEF Alloc, Return
  <2>. QED BY <2>1, <2>2, RecordsTyped DEF IInv, Typed
<1>12. ASSUME NEW th \in Threads, AllocBuffer(th)
       PROVE  (local \in [Threads -> Local])'
  <2>1. \A b \in BOOLEAN : [local[th] EXCEPT !.newForkBuffer = b] \in Local
    BY DEF IInv, Typed, Local
  <2>. QED BY <1>12, <2>1, RecordsTyped DEF AllocBuffer, Return, IInv, Typed
<1>13. ASSUME NEW th \in Threads, GetVnode(th)
       PROVE  (local \in [Threads -> Local])'
  BY <1>13, KeepingTyped, Kinds DEF GetVnode, GotVnode
<1>14. ASSUME NEW th \in Threads, GetVnodeAgain(th)
       PROVE  (local \in [Threads -> Local])'
  BY <1>14 DEF GetVnodeAgain, IInv, Typed
<1>15. ASSUME NEW th \in Threads, Put(th)
       PROVE  (local \in [Threads -> Local])'
  BY <1>15, RecordsTyped DEF Put, Return, IInv, Typed
<1>16. ASSUME NEW th \in Threads, DropBiglock(th)
       PROVE  (local \in [Threads -> Local])'
  BY <1>16 DEF DropBiglock, IInv, Typed
<1>17. ASSUME NEW th \in Threads, CreateVnode(th)
       PROVE  (local \in [Threads -> Local])'
  <2>1. \A v \in Vnodes : [local[th] EXCEPT !.vn = v] \in Local
    BY DEF IInv, Typed, Local
  <2>2. \/ \E v \in Vnodes : local' = [local EXCEPT ![th].vn = v]
        \/ local' = local
    BY <1>17, CreateVnodeDoes
  <2>. QED BY <2>1, <2>2 DEF IInv, Typed
<1>18. ASSUME NEW th \in Threads, TakeBiglock(th)
       PROVE  (local \in [Threads -> Local])'
  BY <1>18 DEF TakeBiglock, IInv, Typed
<1>19. ASSUME NEW th \in Threads, AttachVNodeSucceeded(th)
       PROVE  (local \in [Threads -> Local])'
  BY <1>19 DEF AttachVNodeSucceeded, IInv, Typed
<1>20. ASSUME NEW th \in Threads, AttachVNodeFailed(th)
       PROVE  (local \in [Threads -> Local])'
  BY <1>20, RecordsTyped DEF AttachVNodeFailed, IInv, Typed
<1>21. ASSUME NEW th \in Threads, Scrub(th)
       PROVE  (local \in [Threads -> Local])'
  BY <1>21, RecordsTyped DEF Scrub, Return, IInv, Typed
<1>22. ASSUME NEW th \in Threads, DetachVNode(th)
       PROVE  (local \in [Threads -> Local])'
  BY <1>22 DEF DetachVNode, IInv, Typed
<1>23. ASSUME NEW th \in Threads, Reclaimed(th)
       PROVE  (local \in [Threads -> Local])'
  BY <1>23, RecordsTyped DEF Reclaimed, Return, IInv, Typed
<1>24. ASSUME NEW th \in Threads, QuickGet(th)
       PROVE  (local \in [Threads -> Local])'
  BY <1>24, KeepingTyped, Kinds DEF QuickGet, GotVnode
<1>25. ASSUME NEW th \in Threads, QuickGiveUp(th)
       PROVE  (local \in [Threads -> Local])'
  BY <1>25, RecordsTyped DEF QuickGiveUp, Return, IInv, Typed
<1>. QED BY <1>1, <1>2, <1>3, <1>4, <1>5, <1>6, <1>7, <1>8, <1>9, <1>10,
           <1>11, <1>12, <1>13, <1>14, <1>15, <1>16, <1>17, <1>18, <1>19,
           <1>20, <1>21, <1>22, <1>23, <1>24, <1>25 DEF Next, Advance, Search

(* The type of the nodes.                                                  *)
LEMMA NodesTyped ==
  ASSUME IInv, Next
  PROVE  (node \in [Nodes -> HNode])'
<1>1. ASSUME NEW th \in Threads, NEW i \in Inodes, NEW f \in Forks,
             Begin(th, i, f)
      PROVE  (node \in [Nodes -> HNode])'
  BY <1>1 DEF Begin, IInv, Typed
<1>2. ASSUME NEW th \in Threads, NEW i \in Inodes, QuickLookup(th, i)
      PROVE  (node \in [Nodes -> HNode])'
  BY <1>2 DEF QuickLookup, IInv, Typed
<1>3. ASSUME NEW th \in Threads, Reclaim(th)
      PROVE  (node \in [Nodes -> HNode])'
  BY <1>3 DEF Reclaim, IInv, Typed
<1>4. ASSUME NEW th \in Threads, NeedNode(th)
      PROVE  (node \in [Nodes -> HNode])'
  BY <1>4 DEF NeedNode, IInv, Typed
<1>5. ASSUME NEW th \in Threads, InsertNode(th)
      PROVE  (node \in [Nodes -> HNode])'
  <2>1. node' = [node EXCEPT ![local[th].newNode] =
                   Outstanding(node[local[th].newNode])]
    BY <1>5 DEF InsertNode
  <2>. QED BY <2>1, RecordsTyped DEF IInv, Typed
<1>6. ASSUME NEW th \in Threads, WaitForAttach(th)
      PROVE  (node \in [Nodes -> HNode])'
  <2>1. \A n \in Nodes : [node[n] EXCEPT !.waiting = TRUE] \in HNode
    BY DEF IInv, Typed, HNode
  <2>2. \E n \in Nodes : node' = [node EXCEPT ![n].waiting = TRUE]
    BY <1>6, Kinds DEF WaitForAttach, Found
  <2>. QED BY <2>1, <2>2 DEF IInv, Typed
<1>7. ASSUME NEW th \in Threads, NeedBuffer(th)
      PROVE  (node \in [Nodes -> HNode])'
  BY <1>7 DEF NeedBuffer, IInv, Typed
<1>8. ASSUME NEW th \in Threads, InstallBuffer(th)
      PROVE  (node \in [Nodes -> HNode])'
  <2>1. local[th].fork + 1 \in Nat
    BY Kinds DEF Forks
  <2>2. \A n \in Nodes :
          [node[n] EXCEPT !.forkVNodesSize = local[th].fork + 1] \in HNode
    BY <2>1 DEF IInv, Typed, HNode
  <2>3. \E n \in Nodes :
          node' = [node EXCEPT ![n].forkVNodesSize = local[th].fork + 1]
    BY <1>8, Kinds DEF InstallBuffer, Found
  <2>. QED BY <2>2, <2>3 DEF IInv, Typed
<1>9. ASSUME NEW th \in Threads, ClaimFork(th)
      PROVE  (node \in [Nodes -> HNode])'
  <2>1. Trimmed(th) \in [Nodes -> HNode]
    BY TrimmedTyped
  <2>2. \E n \in Nodes :
          node' = [Trimmed(th) EXCEPT ![n] = Outstanding(Trimmed(th)[n])]
    BY <1>9, Kinds DEF ClaimFork, Ready, Found
  <2>. QED BY <2>1, <2>2, RecordsTyped
<1>10. ASSUME NEW th \in Threads, Candidate(th)
       PROVE  (node \in [Nodes -> HNode])'
  BY <1>10 DEF Candidate, IInv, Typed
<1>11. ASSUME NEW th \in Threads, Alloc(th)
       PROVE  (node \in [Nodes -> HNode])'
  <2>1. pc[th] = "alloc"
    BY <1>11 DEF Alloc
  <2>2. NewNode(local[th].ino, local[th].fork) \in HNode
    BY <2>1, RecordsTyped, Kinds DEF IInv, Asked
  <2>. QED BY <1>11, <2>2 DEF Alloc, IInv, Typed
<1>12. ASSUME NEW th \in Threads, AllocBuffer(th)
       PROVE  (node \in [Nodes -> HNode])'
  BY <1>12, TrimmedTyped DEF AllocBuffer, IInv, Typed
<1>13. ASSUME NEW th \in Threads, GetVnode(th)
       PROVE  (node \in [Nodes -> HNode])'
  BY <1>13, TrimmedTyped DEF GetVnode, GotVnode
<1>14. ASSUME NEW th \in Threads, GetVnodeAgain(th)
       PROVE  (node \in [Nodes -> HNode])'
  BY <1>14 DEF GetVnodeAgain, IInv, Typed
<1>15. ASSUME NEW th \in Threads, Put(th)
       PROVE  (node \in [Nodes -> HNode])'
  BY <1>15 DEF Put, IInv, Typed
<1>16. ASSUME NEW th \in Threads, DropBiglock(th)
       PROVE  (node \in [Nodes -> HNode])'
  BY <1>16 DEF DropBiglock, IInv, Typed
<1>17. ASSUME NEW th \in Threads, CreateVnode(th)
       PROVE  (node \in [Nodes -> HNode])'
  BY <1>17, CreateVnodeDoes DEF IInv, Typed
<1>18. ASSUME NEW th \in Threads, TakeBiglock(th)
       PROVE  (node \in [Nodes -> HNode])'
  BY <1>18 DEF TakeBiglock, IInv, Typed
<1>19. ASSUME NEW th \in Threads, AttachVNodeSucceeded(th)
       PROVE  (node \in [Nodes -> HNode])'
  <2>. DEFINE n == local[th].thisNode
              f == local[th].fork
              v == local[th].vn
  <2>1. /\ n \in Nodes /\ f \in Forks /\ v \in Vnodes
    BY <1>19, InHand, Kinds DEF AttachVNodeSucceeded
  <2>2. Complete(node[n]) \in HNode
    BY <2>1, RecordsTyped DEF IInv, Typed
  <2>3. [Complete(node[n]) EXCEPT !.forkVNodes[f] = v] \in HNode
    BY <2>1, <2>2 DEF HNode
  <2>4. node' = [node EXCEPT ![n] =
                   [Complete(node[n]) EXCEPT !.forkVNodes[f] = v]]
    BY <1>19 DEF AttachVNodeSucceeded
  <2>. QED BY <2>3, <2>4 DEF IInv, Typed
<1>20. ASSUME NEW th \in Threads, AttachVNodeFailed(th)
       PROVE  (node \in [Nodes -> HNode])'
  <2>. DEFINE n == local[th].thisNode
              h == Complete(node[n])
  <2>1. n \in Nodes
    BY <1>20, InHand DEF AttachVNodeFailed
  <2>2. h \in HNode
    BY <2>1, RecordsTyped DEF IInv, Typed
  <2>3. [h EXCEPT !.forkVNodesCount = @ - 1] \in HNode
    BY <2>2 DEF HNode
  <2>4. node' = [node EXCEPT ![n] = [h EXCEPT !.forkVNodesCount = @ - 1]]
    BY <1>20 DEF AttachVNodeFailed, Decrement
  <2>. QED BY <2>3, <2>4 DEF IInv, Typed
<1>21. ASSUME NEW th \in Threads, Scrub(th)
       PROVE  (node \in [Nodes -> HNode])'
  BY <1>21, RecordsTyped DEF Scrub, IInv, Typed
<1>22. ASSUME NEW th \in Threads, DetachVNode(th)
       PROVE  (node \in [Nodes -> HNode])'
  <2>. DEFINE n == local[th].thisNode
              forks == [f \in Forks |->
                         IF node[n].forkVNodes[f] = local[th].vn THEN NULL
                         ELSE node[n].forkVNodes[f]]
             h == [node[n] EXCEPT !.forkVNodes = forks]
  <2>1. n \in Nodes
    BY <1>22, InHand DEF DetachVNode
  <2>2. forks \in [Forks -> Vnodes \cup {NULL}]
    BY <2>1, Kinds
  <2>3. node[n] \in HNode
    BY <2>1 DEF IInv, Typed
  <2>4. node' = [node EXCEPT ![n] = [h EXCEPT !.forkVNodesCount = @ - 1]]
    BY <1>22 DEF DetachVNode, Decrement
  <2>. HIDE DEF forks
  <2>5. h \in HNode
    BY <2>2, <2>3 DEF HNode
  <2>. HIDE DEF h
  <2>6. [h EXCEPT !.forkVNodesCount = @ - 1] \in HNode
    BY <2>5 DEF HNode
  <2>. QED BY <2>4, <2>6 DEF IInv, Typed
<1>23. ASSUME NEW th \in Threads, Reclaimed(th)
       PROVE  (node \in [Nodes -> HNode])'
  BY <1>23 DEF Reclaimed, IInv, Typed
<1>24. ASSUME NEW th \in Threads, QuickGet(th)
       PROVE  (node \in [Nodes -> HNode])'
  BY <1>24, TrimmedTyped DEF QuickGet, GotVnode
<1>25. ASSUME NEW th \in Threads, QuickGiveUp(th)
       PROVE  (node \in [Nodes -> HNode])'
  BY <1>25 DEF QuickGiveUp, IInv, Typed
<1>. QED BY <1>1, <1>2, <1>3, <1>4, <1>5, <1>6, <1>7, <1>8, <1>9, <1>10,
           <1>11, <1>12, <1>13, <1>14, <1>15, <1>16, <1>17, <1>18, <1>19,
           <1>20, <1>21, <1>22, <1>23, <1>24, <1>25 DEF Next, Advance, Search

(* Memory that becomes a FreeNode is blank.                                *)
LEMMA BlankIs ==
  \A n \in Nodes : node'[n] = FreeNode => Blank(n)
BY DEF Blank, FreeNode, NoForks

(* Every step of Next is one of those above.                               *)
LEMMA StepOfNext ==
  ASSUME IInv, Next
  PROVE  \E t \in Threads : Step(t)
<1>1. ASSUME NEW th \in Threads, NEW i \in Inodes, NEW f \in Forks,
             Begin(th, i, f)
      PROVE  \E t \in Threads : Step(t)
  <2>1. Begins(th)
    BY <1>1, Kinds, InHand, HNodeAssumption
    DEF Begin, Goto, NoLocals, Begins, SameLocal, SameThread, OnlyThread,
        SameNodes, SameNode, SameTable, IInv, Typed, HNode, Vnode, Local
  <2>. QED BY <2>1 DEF Step
<1>2. ASSUME NEW th \in Threads, NEW i \in Inodes, QuickLookup(th, i)
      PROVE  \E t \in Threads : Step(t)
  <2>1. /\ pc[th] = "idle" /\ pc'[th] = "quickget" /\ OnlyThread(th)
        /\ SameNodes /\ SameTable /\ vnode' = vnode
    BY <1>2
    DEF QuickLookup, Goto, OnlyThread, SameThread, SameLocal, SameNodes,
        SameNode, SameTable, IInv, Typed
  <2>2. PICK n \in Found(i) :
          /\ node[n].forkVNodes[0] # NULL
          /\ local' = [local EXCEPT ![th] =
               [NoLocals EXCEPT !.ino = i, !.thisNode = n,
                                !.vn = node[n].forkVNodes[0],
                                !.vid = vnode[node[n].forkVNodes[0]].vid]]
    BY <1>2 DEF QuickLookup
  <2>3. /\ local'[th].fork = 0 /\ local'[th].newNode = NULL
        /\ local'[th].thisNode = n /\ local'[th].vn = node[n].forkVNodes[0]
        /\ local'[th].vid = vnode[node[n].forkVNodes[0]].vid
        /\ local'[th].ino = i
    BY <2>2 DEF NoLocals, IInv, Typed
  <2>4. 0 \in Forks /\ n \in table /\ node[n].ino = i
    BY <2>2, HNodeAssumption DEF Forks, Found
  <2>5. Finds(th)
    BY <2>1, <2>2, <2>3, <2>4 DEF Finds
  <2>. QED BY <2>5 DEF Step
<1>3. ASSUME NEW th \in Threads, Reclaim(th)
      PROVE  \E t \in Threads : Step(t)
  <2>1. TakesBack(th)
    BY <1>3, Kinds, InHand, HNodeAssumption
    DEF Reclaim, Goto, NoLocals, TakesBack, SameLocal, SameThread,
        OnlyThread, SameNodes, SameNode, SameTable, IInv, Typed, HNode,
        Vnode, Local
  <2>. QED BY <2>1 DEF Step
<1>4. ASSUME NEW th \in Threads, NeedNode(th)
      PROVE  \E t \in Threads : Step(t)
  <2>1. Moves(th)
    BY <1>4, Kinds, InHand, HNodeAssumption
    DEF NeedNode, Goto, Moves, Ways, SameLocal, SameThread, OnlyThread,
        SameNodes, SameNode, SameTable, IInv, Typed, HNode, Vnode, Local
  <2>. QED BY <2>1 DEF Step
<1>5. ASSUME NEW th \in Threads, InsertNode(th)
      PROVE  \E t \in Threads : Step(t)
  <2>. DEFINE n == local[th].newNode
  <2>1. /\ pc[th] = "lookup" /\ n # NULL /\ n \in Nodes
        /\ \A m \in table : node[m].ino # local[th].ino
    BY <1>5, Kinds DEF InsertNode, Inserts, Found
  <2>2. /\ pc'[th] = "create" /\ OnlyThread(th)
    BY <1>5
    DEF InsertNode, Goto, Keeping, OnlyThread, SameThread, SameLocal, IInv,
        Typed
  <2>3. /\ local'[th].ino = local[th].ino /\ local'[th].fork = local[th].fork
        /\ local'[th].newNode = NULL
        /\ local'[th].thisNode = n /\ local'[th].vn = NULL
    BY <1>5 DEF InsertNode, Keeping, IInv, Typed
  <2>4. /\ node' = [node EXCEPT ![n] = Outstanding(node[n])]
        /\ vnode' = vnode /\ table' = table \cup {n} /\ count' = count + 1
    BY <1>5 DEF InsertNode
  <2>5. node \in [Nodes -> HNode] /\ node[n] \in HNode
    BY <2>1 DEF IInv, Typed
  <2>6. Claims(n)
    BY <2>1, <2>4, <2>5 DEF Claims, Outstanding
  <2>7. \A m \in Nodes \ {n} : SameNode(m)
    BY <2>4, <2>5 DEF SameNode
  <2>8. AttachesNew(th)
    BY <2>1, <2>2, <2>3, <2>4, <2>6, <2>7 DEF AttachesNew, Attaches
  <2>. QED BY <2>8 DEF Step
<1>6. ASSUME NEW th \in Threads, WaitForAttach(th)
      PROVE  \E t \in Threads : Step(t)
  <2>1. PICK n \in Found(local[th].ino) :
          /\ node[n].attachOutstanding
          /\ node' = [node EXCEPT ![n].waiting = TRUE]
          /\ local' = [local EXCEPT ![th].thisNode = n]
    BY <1>6 DEF WaitForAttach
  <2>2. /\ pc[th] = "lookup" /\ pc'[th] = "sleep" /\ SameTable
        /\ vnode' = vnode
    BY <1>6 DEF WaitForAttach, Goto, SameTable, IInv, Typed
  <2>3. OnlyThread(th)
    BY <1>6, <2>1 DEF WaitForAttach, Goto, OnlyThread, SameThread, SameLocal
  <2>4. /\ local'[th].ino = local[th].ino /\ local'[th].thisNode = n
        /\ local'[th].newNode = local[th].newNode
    BY <2>1 DEF IInv, Typed
  <2>5. n \in table /\ node \in [Nodes -> HNode] /\ node[n] \in HNode
    BY <2>1 DEF Found, IInv, Typed
  <2>6. /\ node'[n].allocated = node[n].allocated /\ node'[n].ino = node[n].ino
        /\ node'[n].attachOutstanding /\ node'[n].waiting
        /\ node'[n].forkVNodesCount = node[n].forkVNodesCount
        /\ node'[n].forkVNodes = node[n].forkVNodes
    BY <2>1, <2>5, Kinds
  <2>7. \A m \in Nodes \ {n} : SameNode(m)
    BY <2>1, <2>5 DEF SameNode
  <2>8. Sleeps(th)
    BY <2>1, <2>2, <2>3, <2>4, <2>5, <2>6, <2>7 DEF Sleeps
  <2>. QED BY <2>8 DEF Step
<1>7. ASSUME NEW th \in Threads, NeedBuffer(th)
      PROVE  \E t \in Threads : Step(t)
  <2>1. Moves(th)
    BY <1>7, Kinds, InHand, HNodeAssumption
    DEF NeedBuffer, Goto, Moves, Ways, SameLocal, SameThread, OnlyThread,
        SameNodes, SameNode, SameTable, IInv, Typed, HNode, Vnode, Local
  <2>. QED BY <2>1 DEF Step
<1>8. ASSUME NEW th \in Threads, InstallBuffer(th)
      PROVE  \E t \in Threads : Step(t)
  <2>1. Moves(th)
    BY <1>8, Kinds, InHand, HNodeAssumption
    DEF InstallBuffer, Moves, Ways, SameLocal, SameThread, OnlyThread,
        SameNodes, SameNode, SameTable, IInv, Typed, HNode, Vnode, Local
  <2>. QED BY <2>1 DEF Step
<1>9. ASSUME NEW th \in Threads, ClaimFork(th)
      PROVE  \E t \in Threads : Step(t)
  <2>1. PICK n \in Ready(th) :
          /\ node[n].forkVNodes[local[th].fork] = NULL
          /\ node' = [Trimmed(th) EXCEPT ![n] = Outstanding(Trimmed(th)[n])]
          /\ Keeping(th, n, NULL)
    BY <1>9 DEF ClaimFork
  <2>2. /\ pc[th] = "lookup" /\ pc'[th] = "create" /\ SameTable
        /\ vnode' = vnode
    BY <1>9 DEF ClaimFork, Goto, SameTable, IInv, Typed
  <2>3. OnlyThread(th)
    BY <1>9, <2>1
    DEF ClaimFork, Goto, Keeping, OnlyThread, SameThread, SameLocal
  <2>4. /\ local'[th].ino = local[th].ino /\ local'[th].fork = local[th].fork
        /\ local'[th].newNode = NULL
        /\ local'[th].thisNode = n /\ local'[th].vn = NULL
    BY <2>1 DEF Keeping, IInv, Typed
  <2>5. /\ n \in table /\ n \in Nodes /\ node[n].ino = local[th].ino
        /\ ~node[n].attachOutstanding /\ node[n] \in HNode
    BY <2>1 DEF Ready, Found, IInv, Typed
  <2>6. n # local[th].newNode
    BY <2>5 DEF IInv, Owned, Owns, OwnsNew
  <2>7. Claims(n)
    BY <2>1, <2>5, <2>6 DEF Claims, Outstanding, HNode, Trimmed
  <2>8. \A m \in Nodes \ {n} :
          IF m = local[th].newNode THEN Blank(m) ELSE SameNode(m)
    BY <2>1, BlankIs DEF Trimmed, SameNode
  <2>9. AttachesOld(th)
    BY <2>1, <2>2, <2>3, <2>4, <2>5, <2>7, <2>8 DEF AttachesOld, Attaches
  <2>. QED BY <2>9 DEF Step
<1>10. ASSUME NEW th \in Threads, Candidate(th)
       PROVE  \E t \in Threads : Step(t)
  <2>1. PICK n \in Ready(th) :
          LET v == node[n].forkVNodes[local[th].fork]
          IN  /\ v # NULL
              /\ local' = [local EXCEPT ![th] =
                   [local[th] EXCEPT !.thisNode = n, !.vn = v,
                                     !.vid = vnode[v].vid]]
    BY <1>10 DEF Candidate
  <2>2. /\ pc[th] = "lookup" /\ pc'[th] = "getvnode" /\ SameTable
        /\ SameNodes /\ vnode' = vnode
    BY <1>10
    DEF Candidate, Goto, SameTable, SameNodes, SameNode, IInv, Typed
  <2>3. OnlyThread(th)
    BY <1>10, <2>1 DEF Candidate, Goto, OnlyThread, SameThread, SameLocal
  <2>4. /\ local'[th].ino = local[th].ino /\ local'[th].fork = local[th].fork
        /\ local'[th].newNode = local[th].newNode
        /\ local'[th].thisNode = n
        /\ local'[th].vn = node[n].forkVNodes[local[th].fork]
        /\ local'[th].vid = vnode[node[n].forkVNodes[local[th].fork]].vid
    BY <2>1, Kinds DEF IInv, Typed, Local
  <2>5. n \in table /\ node[n].ino = local[th].ino
    BY <2>1 DEF Ready, Found
  <2>6. local[th].fork \in Forks
    BY Kinds
  <2>7. Finds(th)
    BY <2>1, <2>2, <2>3, <2>4, <2>5, <2>6 DEF Finds
  <2>. QED BY <2>7 DEF Step
<1>11. ASSUME NEW th \in Threads, Alloc(th)
       PROVE  \E t \in Threads : Step(t)
  <2>1. pc[th] = "alloc" /\ SameTable /\ vnode' = vnode
    BY <1>11 DEF Alloc, SameTable
  <2>2. ASSUME NEW n \in Nodes, ~node[n].allocated,
               node' = [node EXCEPT ![n] =
                          NewNode(local[th].ino, local[th].fork)],
               local' = [local EXCEPT ![th].newNode = n],
               Goto(th, "lookup")
        PROVE  Allocates(th)
    <3>1. pc'[th] = "lookup" /\ OnlyThread(th)
      BY <2>2 DEF Goto, OnlyThread, SameThread, SameLocal, IInv, Typed
    <3>2. local'[th].ino = local[th].ino /\ local'[th].newNode = n
      BY <2>2 DEF IInv, Typed
    <3>3. node'[n] = NewNode(local[th].ino, local[th].fork)
      BY <2>2 DEF IInv, Typed
    <3>4. /\ node'[n].allocated /\ node'[n].ino = local[th].ino
          /\ ~node'[n].attachOutstanding /\ ~node'[n].waiting
          /\ node'[n].forkVNodesCount = 0
          /\ \A f \in Forks : node'[n].forkVNodes[f] = NULL
      BY <3>3 DEF NewNode, FreeNode, NoForks
    <3>5. \A m \in Nodes \ {n} : SameNode(m)
      BY <2>2 DEF SameNode
    <3>. QED BY <2>1, <2>2, <3>1, <3>2, <3>4, <3>5 DEF Allocates
  <2>3. ASSUME Return(th), node' = node
        PROVE  Returns(th)
    BY <2>1, <2>3
    DEF Return, Goto, NoLocals, Returns, OnlyThread, SameThread, SameLocal,
        SameNodes, SameNode, IInv, Typed
  <2>4. Allocates(th) \/ Returns(th)
    BY <1>11, <2>2, <2>3 DEF Alloc
  <2>. QED BY <2>4 DEF Step
<1>12. ASSUME NEW th \in Threads, AllocBuffer(th)
       PROVE  \E t \in Threads : Step(t)
  <2>1. Moves(th) \/ Returns(th)
    BY <1>12, Kinds, InHand, HNodeAssumption
    DEF AllocBuffer, Goto, Return, Moves, Ways, SameLocal, SameThread,
        OnlyThread, SameNodes, SameNode, SameTable, Returns, Trims, Blank,
        Trimmed, FreeNode, NoForks, NoLocals, IInv, Typed, HNode, Vnode,
        Local
  <2>. QED BY <2>1 DEF Step
<1>13. ASSUME NEW th \in Threads, GetVnode(th)
       PROVE  \E t \in Threads : Step(t)
  <2>. DEFINE v == local[th].vn
              n == local[th].thisNode
  <2>1. /\ pc[th] = "getvnode" /\ pc'[th] = "using" /\ SameTable
        /\ v \in Vnodes /\ n \in Nodes
    BY <1>13, InHand DEF GetVnode, GotVnode, Goto, SameTable, IInv, Typed
  <2>2. OnlyThread(th)
    BY <1>13
    DEF GetVnode, GotVnode, Goto, Keeping, OnlyThread, SameThread, SameLocal
  <2>3. /\ local'[th].ino = local[th].ino /\ local'[th].fork = local[th].fork
        /\ local'[th].newNode = NULL
        /\ local'[th].thisNode = n /\ local'[th].vn = v
    BY <1>13 DEF GetVnode, GotVnode, Keeping, IInv, Typed
  <2>4. /\ vnode[v].state = "live" /\ vnode[v].vid = local[th].vid
        /\ vnode' = [vnode EXCEPT ![v].uses = @ \cup {th}]
        /\ node' = Trimmed(th)
    BY <1>13 DEF GetVnode, GotVnode, SameVnode, VidOfCandidate
  <2>5. vnode \in [Vnodes -> Vnode] /\ vnode[v] \in Vnode
    BY <2>1 DEF IInv, Typed
  <2>6. /\ vnode'[v].state = "live" /\ vnode'[v].vid = vnode[v].vid
        /\ vnode'[v].fsnode = vnode[v].fsnode
        /\ vnode'[v].uses = vnode[v].uses \cup {th}
    BY <2>1, <2>4, <2>5
  <2>7. \A w \in Vnodes \ {v} : vnode'[w] = vnode[w]
    BY <2>4, <2>5
  <2>8. Trims(th)
    BY <2>4, BlankIs DEF Trims, Trimmed, SameNode
  <2>9. Gets(th)
    BY <2>1, <2>2, <2>3, <2>4, <2>6, <2>7, <2>8 DEF Gets, GettingPCs
  <2>. QED BY <2>9 DEF Step
<1>14. ASSUME NEW th \in Threads, GetVnodeAgain(th)
       PROVE  \E t \in Threads : Step(t)
  <2>1. Moves(th)
    BY <1>14, Kinds, InHand, HNodeAssumption
    DEF GetVnodeAgain, Goto, Moves, Ways, SameLocal, SameThread, OnlyThread,
        SameNodes, SameNode, SameTable, IInv, Typed, HNode, Vnode, Local
  <2>. QED BY <2>1 DEF Step
<1>15. ASSUME NEW th \in Threads, Put(th)
       PROVE  \E t \in Threads : Step(t)
  <2>1. Puts(th)
    BY <1>15, Kinds, InHand, HNodeAssumption
    DEF Put, Return, Goto, Puts, SameLocal, SameThread, OnlyThread,
        SameNodes, SameNode, SameTable, NoLocals, IInv, Typed, HNode, Vnode,
        Local
  <2>. QED BY <2>1 DEF Step
<1>16. ASSUME NEW th \in Threads, DropBiglock(th)
       PROVE  \E t \in Threads : Step(t)
  <2>1. Moves(th)
    BY <1>16, Kinds, InHand, HNodeAssumption
    DEF DropBiglock, Goto, Moves, Ways, SameLocal, SameThread, OnlyThread,
        SameNodes, SameNode, SameTable, IInv, Typed, HNode, Vnode, Local
  <2>. QED BY <2>1 DEF Step
<1>17. ASSUME NEW th \in Threads, CreateVnode(th)
       PROVE  \E t \in Threads : Step(t)
  <2>. DEFINE n == local[th].thisNode
  <2>1. pc[th] = "creating"
    BY <1>17, Zenon DEF CreateVnode
  <2>2. /\ pc'[th] = "created" /\ SameNodes /\ SameTable
        /\ \A t \in Threads \ {th} : pc'[t] = pc[t]
    BY <1>17, CreateVnodeDoes DEF SameNodes, SameNode, SameTable, IInv, Typed
  <2>3. ASSUME vnode' = vnode, local' = local
        PROVE  Moves(th)
    BY <2>1, <2>2, <2>3 DEF Moves, Ways, SameLocal, OnlyThread, SameThread
  <2>4. ASSUME NEW v \in Vnodes, vnode[v].state = "free",
               vnode' = [vnode EXCEPT ![v] = NewVnode(th, v)],
               local' = [local EXCEPT ![th].vn = v]
        PROVE  Creates(th)
    <3>1. OnlyThread(th)
      BY <2>2, <2>4 DEF OnlyThread, SameThread, SameLocal
    <3>2. /\ local'[th].ino = local[th].ino /\ local'[th].fork = local[th].fork
          /\ local'[th].newNode = local[th].newNode
          /\ local'[th].thisNode = n /\ local'[th].vn = v
      BY <2>4 DEF IInv, Typed
    <3>3. vnode \in [Vnodes -> Vnode] /\ vnode[v] \in Vnode
      BY DEF IInv, Typed
    <3>4. /\ vnode'[v].state = "live" /\ vnode'[v].vid = vnode[v].vid
          /\ vnode'[v].fsnode = n /\ vnode'[v].uses = {th}
      BY <2>4, <3>3 DEF NewVnode
    <3>5. \A w \in Vnodes \ {v} : vnode'[w] = vnode[w]
      BY <2>4, <3>3
    <3>. QED BY <2>1, <2>2, <2>4, <3>1, <3>2, <3>4, <3>5 DEF Creates
  <2>5. Creates(th) \/ Moves(th)
    BY <1>17, <2>3, <2>4, CreateVnodeDoes
  <2>. QED BY <2>5 DEF Step
<1>18. ASSUME NEW th \in Threads, TakeBiglock(th)
       PROVE  \E t \in Threads : Step(t)
  <2>1. Moves(th)
    BY <1>18, Kinds, InHand, HNodeAssumption
    DEF TakeBiglock, Goto, Moves, Ways, SameLocal, SameThread, OnlyThread,
        SameNodes, SameNode, SameTable, IInv, Typed, HNode, Vnode, Local
  <2>. QED BY <2>1 DEF Step
<1>19. ASSUME NEW th \in Threads, AttachVNodeSucceeded(th)
       PROVE  \E t \in Threads : Step(t)
  <2>. DEFINE n == local[th].thisNode
              v == local[th].vn
              f == local[th].fork
  <2>1. /\ pc[th] = "attach" /\ v # NULL /\ n \in Nodes /\ SameTable
        /\ vnode' = vnode /\ SameLocal(th)
    BY <1>19, InHand DEF AttachVNodeSucceeded, SameTable, SameLocal
  <2>2. pc'[th] = "using" /\ Wakes(th, n)
    BY <1>19 DEF AttachVNodeSucceeded, WakeAndGoto, Sleepers, Wakes, SameLocal
  <2>3. node[n] \in HNode /\ node \in [Nodes -> HNode]
    BY <2>1 DEF IInv, Typed
  <2>4. node' = [node EXCEPT ![n] =
                   [Complete(node[n]) EXCEPT !.forkVNodes[f] = v]]
    BY <1>19 DEF AttachVNodeSucceeded
  <2>5. /\ node'[n].allocated = node[n].allocated /\ node'[n].ino = node[n].ino
        /\ ~node'[n].attachOutstanding /\ ~node'[n].waiting
        /\ node'[n].forkVNodesCount = node[n].forkVNodesCount
        /\ node'[n].forkVNodes = [node[n].forkVNodes EXCEPT ![f] = v]
    BY <2>1, <2>3, <2>4 DEF Complete
  <2>6. \A m \in Nodes \ {n} : SameNode(m)
    BY <2>3, <2>4 DEF SameNode
  <2>7. Succeeds(th)
    BY <2>1, <2>2, <2>5, <2>6 DEF Succeeds
  <2>. QED BY <2>7 DEF Step
<1>20. ASSUME NEW th \in Threads, AttachVNodeFailed(th)
       PROVE  \E t \in Threads : Step(t)
  <2>. DEFINE n == local[th].thisNode
              h == Complete(node[n])
  <2>1. /\ pc[th] = "attach" /\ local[th].vn = NULL /\ n \in Nodes
        /\ vnode' = vnode
    BY <1>20, InHand DEF AttachVNodeFailed
  <2>2. node[n] \in HNode /\ node \in [Nodes -> HNode]
    BY <2>1 DEF IInv, Typed
  <2>3. Wakes(th, n)
    BY <1>20
    DEF AttachVNodeFailed, WakeAndGoto, Sleepers, Wakes, SameLocal, IInv,
        Typed
  <2>4. IF node[n].forkVNodesCount = 1
        THEN pc'[th] = "scrub" /\ SameLocal(th)
        ELSE pc'[th] = "idle" /\ local'[th].newNode = NULL
    BY <1>20
    DEF AttachVNodeFailed, LastReference, WakeAndGoto, SameLocal, NoLocals,
        IInv, Typed
  <2>5. /\ h \in HNode /\ h.forkVNodesCount = node[n].forkVNodesCount
        /\ h.allocated = node[n].allocated /\ h.ino = node[n].ino
        /\ ~h.attachOutstanding /\ ~h.waiting
        /\ h.forkVNodes = node[n].forkVNodes
    BY <2>2 DEF Complete, HNode
  <2>6. Decrement(n, h)
    BY <1>20 DEF AttachVNodeFailed
  <2>. HIDE DEF h
  <2>7. node' = [node EXCEPT ![n] = [h EXCEPT !.forkVNodesCount = @ - 1]]
    BY <2>6 DEF Decrement
  <2>8. /\ node'[n].allocated = node[n].allocated /\ node'[n].ino = node[n].ino
        /\ ~node'[n].attachOutstanding /\ ~node'[n].waiting
        /\ node'[n].forkVNodesCount = node[n].forkVNodesCount - 1
        /\ node'[n].forkVNodes = node[n].forkVNodes
    BY <2>1, <2>2, <2>5, <2>7
  <2>9. \A m \in Nodes \ {n} : SameNode(m)
    BY <2>2, <2>7 DEF SameNode
  <2>10. Leaves(n)
    <3>. DEFINE left == [h EXCEPT !.forkVNodesCount = @ - 1]
    <3>1. left.forkVNodesCount = node[n].forkVNodesCount - 1
      BY <2>5
    <3>2. node[n].forkVNodesCount \in Int
      BY <2>2 DEF HNode
    <3>3. IF left.forkVNodesCount = 0
          THEN table' = table \ {n} /\ count' = count - 1
          ELSE table' = table /\ count' = count
      BY <2>6 DEF Decrement
    <3>. HIDE DEF left
    <3>. QED BY <3>1, <3>2, <3>3 DEF Leaves, SameTable
  <2>11. Fails(th)
    BY <2>1, <2>3, <2>4, <2>8, <2>9, <2>10 DEF Fails
  <2>. QED BY <2>11 DEF Step
<1>21. ASSUME NEW th \in Threads, Scrub(th)
       PROVE  \E t \in Threads : Step(t)
  <2>. DEFINE n == local[th].thisNode
  <2>1. /\ pc[th] = "scrub" /\ n \in Nodes /\ SameTable /\ vnode' = vnode
    BY <1>21, InHand DEF Scrub, SameTable
  <2>2. OnlyThread(th)
    BY <1>21
    DEF Scrub, Return, Goto, OnlyThread, SameThread, SameLocal, IInv, Typed
  <2>3. IF local[th].vn = NULL
        THEN pc'[th] = "idle" /\ local'[th].newNode = NULL
        ELSE pc'[th] = "reclaimed" /\ SameLocal(th)
    BY <1>21 DEF Scrub, Return, Goto, SameLocal, NoLocals, IInv, Typed
  <2>4. node' = [node EXCEPT ![n] = FreeNode]
    BY <1>21 DEF Scrub
  <2>5. Blank(n) /\ \A m \in Nodes \ {n} : SameNode(m)
    BY <2>1, <2>4, BlankIs DEF SameNode, IInv, Typed
  <2>6. Frees(th)
    BY <2>1, <2>2, <2>3, <2>5 DEF Frees
  <2>. QED BY <2>6 DEF Step
<1>22. ASSUME NEW th \in Threads, DetachVNode(th)
       PROVE  \E t \in Threads : Step(t)
  <2>1. Detaches(th)
    BY <1>22, Kinds, InHand, HNodeAssumption
    DEF DetachVNode, Decrement, LastReference, Goto, Detaches, Leaves,
        SameLocal, SameThread, OnlyThread, SameNodes, SameNode, SameTable,
        IInv, Typed, HNode, Vnode, Local
  <2>. QED BY <2>1 DEF Step
<1>23. ASSUME NEW th \in Threads, Reclaimed(th)
       PROVE  \E t \in Threads : Step(t)
  <2>1. GivesBack(th)
    BY <1>23, Kinds, InHand, HNodeAssumption
    DEF Reclaimed, SameTable, NoLocals, IInv, Typed, HNode, Vnode, Local
  <2>. QED BY <2>1 DEF Step
<1>24. ASSUME NEW th \in Threads, QuickGet(th)
       PROVE  \E t \in Threads : Step(t)
  <2>. DEFINE v == local[th].vn
              n == local[th].thisNode
  <2>1. /\ pc[th] = "quickget" /\ pc'[th] = "using" /\ SameTable
        /\ v \in Vnodes /\ n \in Nodes
    BY <1>24, InHand DEF QuickGet, GotVnode, Goto, SameTable, IInv, Typed
  <2>2. OnlyThread(th)
    BY <1>24
    DEF QuickGet, GotVnode, Goto, Keeping, OnlyThread, SameThread, SameLocal
  <2>3. /\ local'[th].ino = local[th].ino /\ local'[th].fork = local[th].fork
        /\ local'[th].newNode = NULL
        /\ local'[th].thisNode = n /\ local'[th].vn = v
    BY <1>24 DEF QuickGet, GotVnode, Keeping, IInv, Typed
  <2>4. /\ vnode[v].state = "live" /\ vnode[v].vid = local[th].vid
        /\ vnode' = [vnode EXCEPT ![v].uses = @ \cup {th}]
        /\ node' = Trimmed(th)
    BY <1>24 DEF QuickGet, GotVnode, SameVnode, VidOfCandidate
  <2>5. vnode \in [Vnodes -> Vnode] /\ vnode[v] \in Vnode
    BY <2>1 DEF IInv, Typed
  <2>6. /\ vnode'[v].state = "live" /\ vnode'[v].vid = vnode[v].vid
        /\ vnode'[v].fsnode = vnode[v].fsnode
        /\ vnode'[v].uses = vnode[v].uses \cup {th}
    BY <2>1, <2>4, <2>5
  <2>7. \A w \in Vnodes \ {v} : vnode'[w] = vnode[w]
    BY <2>4, <2>5
  <2>8. Trims(th)
    BY <2>4, BlankIs DEF Trims, Trimmed, SameNode
  <2>9. Gets(th)
    BY <2>1, <2>2, <2>3, <2>4, <2>6, <2>7, <2>8 DEF Gets, GettingPCs
  <2>. QED BY <2>9 DEF Step
<1>25. ASSUME NEW th \in Threads, QuickGiveUp(th)
       PROVE  \E t \in Threads : Step(t)
  <2>1. Returns(th)
    BY <1>25, Kinds, InHand, HNodeAssumption
    DEF QuickGiveUp, Return, Goto, Returns, SameLocal, SameThread,
        OnlyThread, SameNodes, SameNode, SameTable, NoLocals, IInv, Typed,
        HNode, Vnode, Local
  <2>. QED BY <2>1 DEF Step
<1>. QED BY <1>1, <1>2, <1>3, <1>4, <1>5, <1>6, <1>7, <1>8, <1>9, <1>10,
           <1>11, <1>12, <1>13, <1>14, <1>15, <1>16, <1>17, <1>18, <1>19,
           <1>20, <1>21, <1>22, <1>23, <1>24, <1>25 DEF Next, Advance, Search

-----------------------------------------------------------------------------
(* The invariant holds of an empty table ...                               *)

THEOREM InvariantInit == Init => IInv
<1>. SUFFICES ASSUME Init
             PROVE  IInv
  OBVIOUS
<1>1. Typed
  BY RecordsTyped DEF Init, Typed, PCs, Vnode
<1>2. \A n \in Nodes :
        /\ ~node[n].allocated /\ ~node[n].attachOutstanding
        /\ ~node[n].waiting /\ node[n].forkVNodesCount = 0
        /\ \A f \in Forks : node[n].forkVNodes[f] = NULL
  BY DEF Init, FreeNode, NoForks
<1>3. \A th \in Threads : pc[th] = "idle" /\ local[th].newNode = NULL
  BY DEF Init, NoLocals
<1>4. \A v \in Vnodes : vnode[v].state = "free" /\ vnode[v].fsnode = NULL
  BY DEF Init
<1>5. table = {} /\ count = 0
  BY DEF Init
<1>6. Counted
  <2>1. \A n \in Nodes : Full(n) = {}
    BY <1>2 DEF Full
  <2>. QED BY <1>2, <1>5, <2>1, FS_EmptySet DEF Counted, CountsItself
<1>7. Tabled /\ OneNodePerInode /\ SleepersWillWake
  BY <1>2, <1>3, <1>5 DEF Tabled, OneNodePerInode, SleepersWillWake
<1>8. Owned
  BY <1>2, <1>3, ForksAre DEF Owned, Owns, OwnsNew, Scrubs
<1>9. Asked /\ Attached
  BY <1>2, <1>3 DEF Asked, Attached, Searching, AttachPCs
<1>10. Linked
  BY <1>2, <1>3, <1>4 DEF Linked, AttachPCs
<1>11. Using /\ Reclaiming
  BY <1>3 DEF Using, GettingPCs, Reclaiming, ReclaimPCs
<1>. QED BY <1>1, <1>6, <1>7, <1>8, <1>9, <1>10, <1>11 DEF IInv

(* ... every step keeps it ...                                             *)
THEOREM InvariantStep == IInv /\ [Next]_vars => IInv'
<1>. SUFFICES ASSUME IInv, [Next]_vars
             PROVE  IInv'
  OBVIOUS
<1>1. CASE Next
  <2>1. Typed'
    BY <1>1, PlacesTyped, TableTyped, BiglockTyped, VnodesTyped, LocalsTyped,
       NodesTyped DEF Typed
  <2>2. PICK th \in Threads : Step(th)
    BY <1>1, StepOfNext
  <2>3. Tabled'
    BY <2>2, InTableStep, OutOfTableStep DEF Tabled
  <2>4. Counted'
    BY <2>2, TableCountedStep, ForksCountedStep DEF Counted
  <2>5. OneNodePerInode' /\ Asked'
    BY <2>2, OneNodeStep, AskedStep
  <2>6. Owned'
    BY <2>2, NewNodeStep, ScrubbedStep, OwnedOutsideStep, OneOwnerStep,
       NoOwnerlessStep DEF Owned
  <2>7. Attached'
    BY <2>2, AttachStep, OneAttachStep, SomeAttachStep DEF Attached
  <2>8. Linked'
    BY <2>2, ForkLinkStep, OneForkStep, LiveLinkStep, LinkBackStep,
       NewLinkStep DEF Linked
  <2>9. Using'
    BY <2>2, CandidateStep, UsingStep DEF Using
  <2>10. Reclaiming'
    BY <2>2, ReclaimStep, OneReclaimStep DEF Reclaiming
  <2>11. SleepersWillWake'
    <3>1. \A n \in Nodes : node'[n].waiting => node'[n].attachOutstanding
      BY <2>2, WaitingStep
    <3>2. ASSUME NEW t \in Threads, pc'[t] = "sleep"
          PROVE  /\ local'[t].thisNode \in table'
                 /\ node'[local'[t].thisNode].waiting
      BY <2>2, <3>2, SleepingStep
    <3>3. table' \subseteq Nodes
      BY <2>1 DEF Typed
    <3>. QED BY <3>1, <3>2, <3>3 DEF SleepersWillWake
  <2>. QED BY <2>1, <2>3, <2>4, <2>5, <2>6, <2>7, <2>8, <2>9, <2>10, <2>11
          DEF IInv
<1>2. CASE UNCHANGED vars
  <2>. USE <1>2 DEF vars, IInv
  <2>1. Typed' /\ Tabled' /\ OneNodePerInode' /\ SleepersWillWake'
    BY DEF Typed, Tabled, OneNodePerInode, SleepersWillWake
  <2>2. Counted'
    BY DEF Counted, CountsItself, Full
  <2>3. Owned' /\ Asked' /\ Attached'
    BY DEF Owned, Owns, OwnsNew, Scrubs, Asked, Attached
  <2>4. Linked'
    BY DEF Linked, Held
  <2>5. Using' /\ Reclaiming'
    BY DEF Using, Chosen, Used, IsVnodeFor, Reclaiming, Reclaims
  <2>. QED BY <2>1, <2>2, <2>3, <2>4, <2>5
<1>. QED BY <1>1, <1>2

(* ... and so it holds throughout.                                         *)
THEOREM InvariantHolds == Spec => []IInv
BY InvariantInit, InvariantStep, PTL DEF Spec

(* attachOutstanding counts the threads that attach.                       *)
LEMMA AttachersCounted ==
  ASSUME IInv, NEW n \in Nodes
  PROVE  Cardinality(Attaching(n)) = IF node[n].attachOutstanding THEN 1 ELSE 0
<1>1. Attaching(n) =
        {th \in Threads : pc[th] \in AttachPCs /\ local[th].thisNode = n}
  BY DEF Attaching, AttachPCs
<1>2. CASE node[n].attachOutstanding
  <2>1. PICK th \in Threads : pc[th] \in AttachPCs /\ local[th].thisNode = n
    BY <1>2 DEF IInv, Attached
  <2>2. Attaching(n) = {th}
    BY <1>1, <2>1 DEF IInv, Attached
  <2>. QED BY <1>2, <2>2, FS_Singleton
<1>3. CASE ~node[n].attachOutstanding
  <2>1. Attaching(n) = {}
    BY <1>1, <1>3 DEF IInv, Attached
  <2>. QED BY <1>3, <2>1, FS_EmptySet
<1>. QED BY <1>2, <1>3

(* Every variable keeps its type, and the count of the nodes is never      *)
(* negative.                                                               *)
THEOREM TypesHold == Spec => []TypeOK
<1>1. IInv => TypeOK
  <2>. SUFFICES ASSUME IInv
               PROVE  TypeOK
    OBVIOUS
  <2>1. count \in Nat
    BY FS_CardinalityType DEF IInv, Counted
  <2>. QED BY <2>1
          DEF IInv, Typed, TypeOK, PCs, Searching, AttachPCs, ReclaimPCs
<1>. QED BY <1>1, InvariantHolds, PTL

(* An inode has one HNode, however many threads miss it, allocate and      *)
(* search again at a time.                                                 *)
THEOREM InodesHaveOneNode == Spec => []OneNodePerInode
<1>1. IInv => OneNodePerInode
  BY DEF IInv
<1>. QED BY <1>1, InvariantHolds, PTL

(* One thread at a time attaches a vnode to a node, to a fork without one. *)
THEOREM AttachesAreExclusive == Spec => []OneAttach
<1>1. IInv => OneAttach
  <2>. SUFFICES ASSUME IInv, NEW n \in Nodes
               PROVE  /\ Cardinality(Attaching(n)) =
                           IF node[n].attachOutstanding THEN 1 ELSE 0
                      /\ \A th \in Attaching(n) :
                           node[n].forkVNodes[local[th].fork] = NULL
    BY DEF OneAttach
  <2>1. \A th \in Attaching(n) : node[n].forkVNodes[local[th].fork] = NULL
    BY DEF Attaching, IInv, Attached, AttachPCs
  <2>. QED BY <2>1, AttachersCounted
<1>. QED BY <1>1, InvariantHolds, PTL

(* forkVNodesCount is what the comment at its declaration says, and it is  *)
(* zero exactly for what is not in the table.                              *)
THEOREM CountsAreExact == Spec => []CountIsExact
<1>1. IInv => CountIsExact
  <2>. SUFFICES ASSUME IInv
               PROVE  CountIsExact
    OBVIOUS
  <2>1. count = Cardinality(table)
    BY DEF IInv, Counted
  <2>2. ASSUME NEW n \in Nodes
        PROVE  node[n].forkVNodesCount =
                 Cardinality({f \in Forks : node[n].forkVNodes[f] # NULL})
                 + Cardinality(Attaching(n))
    BY AttachersCounted DEF IInv, Counted, CountsItself, Full
  <2>3. ASSUME NEW n \in Nodes
        PROVE  n \in table <=> node[n].forkVNodesCount > 0
    BY DEF IInv, Tabled
  <2>. QED BY <2>1, <2>2, <2>3 DEF CountIsExact
<1>. QED BY <1>1, InvariantHolds, PTL

(* No thread and no vnode has a node that was freed.                       *)
THEOREM NothingDangles == Spec => []NoDangling
<1>1. IInv => NoDangling
  <2>. SUFFICES ASSUME IInv
               PROVE  NoDangling
    OBVIOUS
  <2>1. \A n \in table : node[n].allocated
    BY DEF IInv, Tabled
  <2>2. ASSUME NEW v \in Vnodes, vnode[v].fsnode # NULL
        PROVE  vnode[v].fsnode \in table
    <3>1. Held(v) /\ vnode[v].fsnode \in Nodes
      BY <2>2, Kinds DEF IInv, Linked
    <3>2. CASE \E f \in Forks : node[vnode[v].fsnode].forkVNodes[f] = v
      BY <3>1, <3>2, ForksAre DEF IInv, Tabled
    <3>3. CASE \E th \in Threads : /\ pc[th] \in AttachPCs
                                   /\ local[th].thisNode = vnode[v].fsnode
      BY <3>3 DEF IInv, Attached
    <3>. QED BY <3>1, <3>2, <3>3 DEF Held
  <2>3. ASSUME NEW th \in Threads,
               pc[th] \in {"create", "creating", "created", "attach", "using",
                           "scrub", "reclaim", "detach"}
        PROVE  node[local[th].thisNode].allocated
    <3>1. CASE pc[th] \in AttachPCs
      BY <2>1, <3>1 DEF IInv, Attached
    <3>2. CASE pc[th] = "using"
      <4>1. /\ vnode[local[th].vn].fsnode = local[th].thisNode
            /\ local[th].vn \in Vnodes /\ local[th].thisNode # NULL
        BY <3>2, Kinds DEF IInv, Using, Used, IsVnodeFor
      <4>. QED BY <2>1, <2>2, <4>1
    <3>3. CASE pc[th] = "scrub"
      BY <3>3, InHand DEF IInv, Owned, Owns, Scrubs
    <3>4. CASE pc[th] \in {"reclaim", "detach"}
      BY <2>1, <3>4, LastDetached
    <3>. QED BY <2>3, <3>1, <3>2, <3>3, <3>4 DEF AttachPCs
  <2>4. ASSUME NEW th \in Threads, local[th].newNode # NULL
        PROVE  node[local[th].newNode].allocated
    BY <2>4, Kinds DEF IInv, Owned, Owns, OwnsNew
  <2>. QED BY <2>1, <2>2, <2>3, <2>4 DEF NoDangling
<1>. QED BY <1>1, InvariantHolds, PTL

(* Every allocated node is in the table or in the hands of a thread.       *)
THEOREM NothingLeaks == Spec => []NoLeak
<1>1. IInv => NoLeak
  BY DEF IInv, Owned, Owns, OwnsNew, Scrubs, NoLeak
<1>. QED BY <1>1, InvariantHolds, PTL

(* Who asks for a vnode by inode and fork has that vnode, live, as long as *)
(* it uses it.                                                             *)
THEOREM LookupsAreRight == Spec => []RightVnode
<1>1. IInv => RightVnode
  <2>. SUFFICES ASSUME IInv, NEW th \in Threads, pc[th] = "using"
               PROVE  LET v == local[th].vn
                          n == vnode[v].fsnode
                      IN  /\ vnode[v].state = "live" /\ th \in vnode[v].uses
                          /\ n \in table /\ node[n].ino = local[th].ino
                          /\ node[n].forkVNodes[local[th].fork] = v
    BY DEF RightVnode
  <2>1. Used(th)
    BY DEF IInv, Using
  <2>2. /\ local[th].vn # NULL /\ local[th].fork \in Forks
        /\ local[th].thisNode \in Nodes
    BY <2>1, Kinds DEF Used
  <2>3. local[th].thisNode \in table
    BY <2>1, <2>2 DEF Used, IsVnodeFor, IInv, Tabled
  <2>. QED BY <2>1, <2>3 DEF Used, IsVnodeFor
<1>. QED BY <1>1, InvariantHolds, PTL

(* Nobody sleeps on a node that no attach will wake.                       *)
THEOREM SleepersAreWoken == Spec => []SleepersWillWake
<1>1. IInv => SleepersWillWake
  BY DEF IInv
<1>. QED BY <1>1, InvariantHolds, PTL

=============================================================================
